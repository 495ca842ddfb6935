SPECIFICATION InspectionSpec
CONSTANTS
    r1 = r1
    r2 = r2
    Repo = {r1, r2}
    Project = {{r1, r2}}
    Nobody = Nobody
    MaxLoads = 2
    MaxSent = 2
INVARIANT
    NeverConfirmBlind
CHECK_DEADLOCK FALSE
