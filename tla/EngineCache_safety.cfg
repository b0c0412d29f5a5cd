CONSTANTS
    A = A
    Docs = {d1, seed}
    Domains = {A}
    Values = {v, b}
    Rejected = {}
    BatchSize = 2
    NoRow = NoRow
    Home <- OneHome
    Seeds = {seed}
    Blank = {b}
SPECIFICATION ESpec
INVARIANTS EngineServesLiveDocs EngineMissesOnlyMissed
