SPECIFICATION UpkeepSpec
CONSTANTS
    Procs = {p1}
    s1 = s1
    Secrets = {s1}
    NoSecret = NoSecret
    NoConfig = NoConfig
    Envs <- NoEnvs
    Files <- CnFiles
    Extras = {}
    Crashes = FALSE
INVARIANT GateStaysOpen
PROPERTIES
    RoutesFollowCnNodes
