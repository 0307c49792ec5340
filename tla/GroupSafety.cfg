SPECIFICATION GroupSpec
CONSTANTS
    us1 = us1
    us2 = us2
    sg1 = sg1
    Nodes <- MCNodes
    NoNode = NoNode
    Tier <- MCTier
    Order <- MCOrder
    MarginMs = 300
    MarginPct = 25
    SwitchStreak = 2
    MinDwell = 3
    SampleKeep = 2
    SmoothMax = 2
    SampleMaxAge = 1
    PruneAge = 2
    Delays <- MarginDelays
    Memberships <- UsAndSg
    Elsewhere <- Us2Elsewhere
    Gaps = {1}
    Settings <- Troubled
INVARIANT GroupTypeOK
PROPERTIES
    MarginSwitchHadDwell
    NoDowngradeOfLiveNode
    MovesToFitNodes
