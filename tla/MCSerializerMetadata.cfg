SPECIFICATION Spec
CONSTANTS
    p1 = p1
    p2 = p2
    base = base
    news = news
    tag = tag
    NoClass = NoClass
    Processes = {p1, p2}
    Classes = {base, news, tag}
    Types = {news, tag}
    Ancestry <- MCAncestry
    MaxVersion = 2
SYMMETRY Symmetric
INVARIANTS
    TypeOK
    HierarchyGenerated
    NeverFallback
    FreshAfterFlush
