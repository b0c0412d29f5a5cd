CONSTANTS
    p1 = p1
    p2 = p2
    d1 = d1
    d2 = d2
    x1 = x1
    x2 = x2
    People = {p1, p2}
    Domains = {d1, d2}
    Docs = {x1, x2}
    Home <- HomeOf
    Files <- AnyFile
    Edits <- AnyEdit
    Unreadable = Unreadable
    Calls = {r1, r2}
    r1 = r1
    r2 = r2
    Mixes <- AnyMix
    Nobody = Nobody
    Answers <- AnyAnswers
SPECIFICATION GSpec
INVARIANTS GroundedInReadable FinishMeansComplete MarkedOnce
PROPERTIES ChangesAreAllowed StreamEnds
