SPECIFICATION SupplySpec
CONSTANTS
    Procs = {p1}
    s1 = s1
    Secrets = {s1}
    NoSecret = NoSecret
    NoConfig = NoConfig
    Envs <- NoEnvs
    Files <- CnFiles
    Extras = {"none", "other", "refused"}
    Crashes = TRUE
    Tags = {v1, v2}
    NoTag = NoTag
    Unknown = Unknown
INVARIANTS
    SupplyTypeOK
PROPERTIES
    RemovedOnlyWhenDown
    RunsWholeVersions
