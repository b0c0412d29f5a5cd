CONSTANTS
    alice = alice
    bob = bob
    p1 = p1
    p2 = p2
    r1 = r1
    r2 = r2
    token = token
    Users = {alice, bob}
    Passwords = {p1, p2}
    Tokens = {}
    Owner <- BobsTokens
    Invites = {token}
    Requests = {r1, r2}
    Kinds <- AdminAndDelete
    RawFiles <- Typed
    Starts <- Running
    MaxCalls = 2
    Bootstrap = _admin
    NoUser = NoUser
    NoPw = NoPw
SPECIFICATION Spec
INVARIANTS RevokedStaysOut
