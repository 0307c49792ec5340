SPECIFICATION AlertSpec
CONSTANTS
    Runs = {r1, r2}
    DecisionModes = {"legacy", "shadow", "hysteresis"}
    Kills = TRUE
    Losses = TRUE
    MaxStreak = 2
INVARIANTS
    AlertMatchesMode
    ReaderKnows
PROPERTY AlertsAreNews
