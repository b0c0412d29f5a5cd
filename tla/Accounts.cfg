CONSTANTS
    alice = alice
    bob = bob
    p1 = p1
    p2 = p2
    r1 = r1
    r2 = r2
    token = token
    Users = {alice, bob}
    Passwords = {p1, p2}
    Tokens = {token}
    Owner <- BobsTokens
    Invites = {token}
    Requests = {r1, r2}
    Kinds <- AllAndAdmin
    RawFiles <- Typed
    Starts <- EitherStart
    MaxCalls = 4
    Bootstrap = _admin
    NoUser = NoUser
    NoPw = NoPw
SPECIFICATION Spec
INVARIANTS TypeOK NoStaleSession RevocationHolds NoBootstrapSession
PROPERTIES AdminRemains
