CONSTANTS
    m1 = m1
    m2 = m2
    r1 = r1
    r2 = r2
    j1 = j1
    j2 = j2
    j3 = j3
    off = off
    Keys <- AllKeys
    MailKeys <- TheMail
    OllamaKeys <- TheOllama
    ModelKey = "ollama.model"
    Values = {m1, m2, off}
    Models = {m1, m2}
    Defaults <- Factory
    Absent = Absent
    Null = Null
    Torn = Torn
    Missing = Missing
    Envs <- AnyEnv
    Edits <- AnyFile
    Puts <- AnyPut
    MaxTime = 2
    Requests = {r1, r2}
    Pulls = {j1, j2, j3}
    MaxRetained = 1
    Mixes <- TwoKinds
    NoModel = NoModel
SYMMETRY Symmetry
SPECIFICATION OSpec
INVARIANTS EnvWins ServedFollowsFile OneJobPerModel
PROPERTY MailKeepsSections
