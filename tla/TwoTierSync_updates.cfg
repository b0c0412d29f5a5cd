CONSTANTS
    Docs = {d1, d2}
    Domains = {A}
    Values = {v, w}
    Rejected = {}
    BatchSize = 1
    NoRow = NoRow
SPECIFICATION UpdatesOnly
SYMMETRY Interchangeable
INVARIANTS UpdatesReachPg
