SPECIFICATION FairSpec
CONSTANTS
    t1 = t1
    t2 = t2
    Tasks = {t1, t2}
    Sweep = Sweep
    NoOne = NoOne
    Carts = {a, b}
    MaxUnpaid = 2
    MaxOrders = 2
    MaxDrafts = 2
    Rounds = 2
    Scopes <- MCScopes
INVARIANTS SilentWhilePaused OneOrderPerPurchase DiscardedStaysDiscarded
PROPERTY ExpiredIsResumed
CHECK_DEADLOCK FALSE
