SPECIFICATION FairRoundSpec
CONSTANTS
    Nodes <- MCNodes
    Required = 2
    Failures = {"lost", "unsaved", "write", "run"}
    Endpoints = {"a", "b"}
    Info = {"info"}
    Kinds <- MCKinds
    Urls = {1, 2}
    Offers <- MCOffers
    Setups <- MCSetups
    Down = Down
INVARIANTS
    RoundTypeOK
    UsableAfterPassesInARow
    UsableEndpointPassed
    DelaysAreMeasured
PROPERTIES
    ImplementsGate
    PassingNodeUsable
