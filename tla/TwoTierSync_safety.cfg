CONSTANTS
    Docs = {d1, d2}
    Domains = {A, B}
    Values = {v, w}
    Rejected = {w}
    BatchSize = 2
    NoRow = NoRow
SPECIFICATION Spec
SYMMETRY Interchangeable
INVARIANTS TypeOK IInv SettledRowsAgree NoZombies NoDrainAfterClose
