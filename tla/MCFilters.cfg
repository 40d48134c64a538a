SPECIFICATION Spec
CONSTANTS
    NoKey = NoKey
    Registered <- MCRegistered
    QueryStrings <- MCQueryStrings
    Records <- MCRecords
INVARIANTS
    TypeOK
    OrderingsAsRequested
    FoundAsDocumented
    RefusedForReason
