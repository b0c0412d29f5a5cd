CONSTANTS
    r1 = r1
    r2 = r2
    p1 = p1
    p2 = p2
    a = a
    b = b
    short = short
    long = long
    huge = huge
    Requests = {r1, r2}
    Boot = boot
    Models = {a, b}
    NoModel = NoModel
    Nobody = nobody
    Pulls = {p1, p2}
    Asked <- Asks
    Sources = {short, long, huge}
    Size <- Lengths
    Given = short
    MaxSize = 2
    Nothing = Nothing
    Mixes <- Pairs
SPECIFICATION Spec
INVARIANTS OneServer LoadNotKilled LastIsServed InstalledIsSent
PROPERTY RequestsEnd
