SPECIFICATION Spec
CONSTANTS
    w1 = w1
    w2 = w2
    none = none
    a = a
    b = b
    NoUid = NoUid
    NullPid = NullPid
    Workers = {w1, w2}
    Uids = {1, 2}
    InitialUids = {1}
    Properties <- MCProperties
    Values <- MCValues
    Blank <- MCBlank
    ValidValues <- MCValidValues
    Payloads <- SmallPayloads
    StoragePageIds <- MCStoragePageIds
    MainStoragePid = 1
    ListenerEdits <- NoEdits
    Secured <- AllMethods
    SecurityAllows <- MCSecurityAllows
    PostSecured <- Writing
    PostDenormalizeAllows <- MCPostDenormalizeAllows
SYMMETRY Symmetric
INVARIANTS
    PostDenormalizeSeesObject
