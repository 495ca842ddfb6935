SPECIFICATION ApartSpec
CONSTANTS
    r1 = r1
    r2 = r2
    Repo = {r1, r2}
    Project = {{r1, r2}}
    Nobody = Nobody
    MaxLoads = 2
    MaxSent = 2
    User = {u1}
    Robot = {b1}
    Place = {p1, p2}
    Unset = Unset
    MaxAsked = 3
    MaxSignIns = 1
    Watched = {w1, w2}
    Content = {d1, d2}
    Blank = Blank
    MaxScans = 2
    MaxFetches = 6
    Fleet = {f1, f2}
    TrustKey = {k1, k2}
    GlobalKeys <- MCGlobalKeys
    Missing = Missing
    MaxKeys = 2
    MaxAsks = 4
    Void = Void
    MaxMessages = 3
CHECK_DEADLOCK FALSE
INVARIANTS
    PromptWasAsked
    NothingCarriedOver
    WaitingHasACall
    ShownIsOfSelection
    ShownIsInRegistry
