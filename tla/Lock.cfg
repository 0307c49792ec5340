SPECIFICATION CoresSpec
CONSTANTS
    Runs = {r1, r2, r3}
    None = None
    Platforms = {"windows", "posix"}
    Attempts = 2
    Ports = 2
SYMMETRY AnyRuns
INVARIANTS
    SingleInstance
    MeasuresAlone
PROPERTIES
    UnlinksOwnFile
    LeftoversTakenOver
    SweepsSpareLivingRuns
CHECK_DEADLOCK FALSE
