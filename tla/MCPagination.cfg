SPECIFICATION FairSpec
CONSTANTS
    AllSettings <- MCSettings
    Pages <- MCPages
    Sizes <- MCSizes
    InitialItems = 3
    MaxItems = 4
INVARIANTS
    TypeOK
    NothingMissed
    
    MaximumRespected
    ViewFitsTotal
PROPERTIES
    ReadingEnds
