SPECIFICATION DeploymentSpec
CONSTANTS
    Release = {n1, n2}
    Absent = Absent
    Torn = Torn
    MaxCommands = 3
    MaxFaults = 2
    MaxSetups = 3
    MaxComposeFaults = 2
    Version = {v1, v2}
    Op = {o1, o2}
    None = None
SYMMETRY Symmetry
CHECK_DEADLOCK FALSE
INVARIANTS
    TargetsOnDisk
    LinkFollowsRow
PROPERTIES
    ReportsAreTrue
    NothingLost
    DockerReportsAreTrue
    SwitchKeepsFormer
