SPECIFICATION RefreshSpec
CONSTANTS
    Runs = {r1, r2}
    Providers = {a, b, c}
    Missing = Missing
    Kills = FALSE
INVARIANTS
    PublishedServes
