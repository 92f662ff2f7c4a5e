SPECIFICATION Spec
CONSTANTS
    a = a
    b = b
    a1 = a1
    b10 = b10
    b3 = b3
    b2 = b2
    s = s
    m = m
    near = near
    far = far
    zone = zone
    mrw = mrw
    None = None
    Rows = {a1, b10, b3, b2}
    Texts = {a, b, a1, b10, b3, b2}
    FoundBy <- MCFoundBy
    Place <- MCPlace
    SizeOf <- MCSizeOf
    Kin <- MCKin
    MaxStock = 2
    Cities = {near, far}
    Zones = {zone}
    Couriers = {mrw}
    Updates <- MCUpdates
    Args <- MCArgs
    MaxUpdates = 4
    MaxChanges = 1
    MaxOrders = 2
INVARIANTS DeliverableAsQuoted OrderedAsAsked
CHECK_DEADLOCK FALSE
