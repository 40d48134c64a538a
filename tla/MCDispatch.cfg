SPECIFICATION FairSpec
CONSTANTS
    en = en
    de = de
    NoLanguage = NoLanguage
    Unknown = Unknown
    NoOperation = NoOperation
    Routes <- MCRoutes
    Registered <- MCRegistered
    CustomPriority = 100
    CustomSupports <- MCCustomSupports
    Languages = {en, de}
    Default = en
    RootLanguage = en
    MaxCalls = 1
INVARIANTS
    TypeOK
    QueriesOwn
    
    PreflightChangesNothing
    
    LanguageServed
PROPERTIES
    EveryRequestAnswered
