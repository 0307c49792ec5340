SPECIFICATION BackupSpec
CONSTANTS
    Procs = {p1}
    s1 = s1
    s2 = s2
    Secrets = {s1, s2}
    NoSecret = NoSecret
    NoConfig = NoConfig
    Envs <- MCEnvs
    Files <- MCFiles
    Extras = {"none", "other", "exit", "reject", "refused"}
    Crashes = TRUE
    Names = {n1, n2, n3}
    NoName = NoName
    Keep = 2
SYMMETRY AnyNames
PROPERTIES
    OnlyHealthCheckClears
    OnlyVerdictBreaksAgreement
    ConfigurePassesGate
    PlanDescribesConfig
    OnlyGivenSecretLocksOut
    ReplacedIsKept
    IndexDescribesCopies
