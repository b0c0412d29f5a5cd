CONSTANTS
    file = file
    page = page
    Imports = {file, page}
    Source <- TwoTexts
    MaxChars = 2
    Overlap = 1
    Uploads = {file}
    Calls <- AllCalls
    InRoom = 1
    OutRoom = 3
    Sweeper = sweeper
    NoJob = NoJob
    NoWrite = NoWrite
SPECIFICATION FairISpec
INVARIANTS NoneLost TextIsStored NoGaps RunningIsRun OriginalIsKept
PROPERTY ImportsEnd
