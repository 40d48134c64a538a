SPECIFICATION Spec
CONSTANTS
    w1 = w1
    w2 = w2
    o1 = o1
    o2 = o2
    o3 = o3
    NoOrder = NoOrder
    New = New
    NotLoaded = NotLoaded
    Workers = {w1, w2}
    Orders = {o1, o2, o3}
    InitialOrders = {o1, o2}
    Items = {1, 2, 3, 4}
    InitialItems <- MCInitialItems
    MaxRequests = 2
    Quantities = {1, 2}
    Bodies <- MCBodies
CHECK_DEADLOCK FALSE
SYMMETRY Symmetric
INVARIANTS
    NothingToRevert
