SPECIFICATION Spec
CONSTANTS
    AllSettings <- MCSettings
    Pages <- MCPages
    Sizes <- MCSizes
    InitialItems = 0
    MaxItems = 1
INVARIANTS
    PagesCanBeRead
