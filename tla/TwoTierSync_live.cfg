CONSTANTS
    Docs = {d1, d2}
    Domains = {A, B}
    Values = {v}
    Rejected = {}
    BatchSize = 1
    NoRow = NoRow
SPECIFICATION FairSpec
PROPERTIES PendingDrains CloseReturns
