SPECIFICATION IdentitySpec
CONSTANTS
    ann = ann
    bob = bob
    rob = rob
    Account = {ann, bob, rob}
    Admins = {ann}
    Robots = {rob}
    Repo = {r1}
    Client = {c1}
    Operator = {o1, o2}
    InitialRole = {"none", "writer", "admin"}
    MaxRequests = 2
    MaxTime = 1
    AccessTTL = 1
    CredentialTTL = 1
    RepoName <- MCRepoName
    Longer <- MCLonger
    Compound <- MCCompound
    User = {u1, u2}
    Req = {q1, q2}
    NoUser = NoUser
SYMMETRY Symmetry
CHECK_DEADLOCK FALSE
INVARIANTS
    RobotsWhole
    EveryPathFound
    LockoutNeedsOverlap
PROPERTIES
    ServedExplained
    ChallengeSuffices
    EscalationBounds
    OnlyOverlapLosesUpdates
