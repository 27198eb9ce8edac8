SPECIFICATION LifecycleSpec
CONSTANTS
    Number = {"4"}
    Level = {"info"}
    Proc = {"e1", "e2", "d"}
    Program <- MCProgram
    CommandLines <- MCCommandLines
    Strays <- MCStrays
    Environments <- MCEnvironments
    Path = {"run_sock", "tmp_sock", "long_sock", "nodir_sock"}
    LongPath = {"long_sock"}
    BadPath = {"nodir_sock"}
    Address = {":9843", ":9844", ":9845"}
    MaxLaunches = 2
    MaxKills = 2
INVARIANTS
    LifecycleTypeOK
    ReachableWhereAsked
    FailsForCause
    CleanExit
PROPERTIES
    KilledRecovers
CHECK_DEADLOCK FALSE
