CONSTANTS
    alice = alice
    Tokens = {t1, t2}
    Users = {alice}
    Owner <- Owners
    Requests = {r1, r2}
    Nobody = nobody
    MaxTime = 3
SPECIFICATION Spec
INVARIANTS TokensAreSingleUse
SYMMETRY Symmetry
