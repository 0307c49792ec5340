SPECIFICATION BackupSpec
CONSTANTS
    Procs = {p1, p2}
    s1 = s1
    s2 = s2
    Secrets = {s1}
    NoSecret = NoSecret
    NoConfig = NoConfig
    Envs <- NoEnvs
    Files <- CnFiles
    Extras = {}
    Crashes = FALSE
    Names = {n1}
    NoName = NoName
    Keep = 1
PROPERTY OnlyHealthCheckClears
