SPECIFICATION FairPipelineSpec
CONSTANTS
    Runs = {r1}
    Providers <- MCProviders
    Missing = Missing
    Kills = TRUE
    Keys = {1, 2, 3}
    Setups <- MCSetups
    Targets = {t1, t2}
    MinNodes = 1
    Wanted <- MCWanted
INVARIANTS
    PipelineTypeOK
    PublishedServes
    CandidatesToldApart
    PublishesFreshNodes
    SelectionSurvives
PROPERTIES
    ImplementsRefresh
    LockComesFree
