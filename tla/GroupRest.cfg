SPECIFICATION FairGroupSpec
CONSTANTS
    us1 = us1
    us2 = us2
    sg1 = sg1
    Nodes <- MCNodes
    NoNode = NoNode
    Tier <- MCTier
    Order <- MCOrder
    MarginMs = 300
    MarginPct = 25
    SwitchStreak = 2
    MinDwell = 2
    SampleKeep = 2
    SmoothMax = 2
    SampleMaxAge = 1
    PruneAge = 2
    Delays <- MarginDelays
    Memberships <- All
    Elsewhere <- NoneElsewhere
    Gaps = {1}
    Settings <- Thresholded
PROPERTIES
    SettlesOnBestTier
