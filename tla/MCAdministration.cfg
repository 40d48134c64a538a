SPECIFICATION FairSpec
CONSTANTS
    s1 = s1
    s2 = s2
    s3 = s3
    NoSite = NoSite
    Tabs = {t1, t2}
    Sites <- MCSites
    Enhanced <- MCEnhanced
    Matching <- MCMatching
INVARIANTS
    TypeOK
    SpecBelongsToPage
    UiCreatedOnce
PROPERTIES
    DefaultOpens
    CompletePageGetsUi
