SPECIFICATION Spec
CONSTANTS
    Flows = {f1, f2}
    Clients = {portal, shop}
    ClientOf <- MCClientOf
    Unparsable = {}
    Slots = {k1, k2}
    SessionIds = {s1, s2}
    Requests = {q1, q2}
    portal = portal
    shop = shop
    f1 = f1
    f2 = f2
    f3 = f3
    NoSlot = NoSlot
    NoId = NoId
    Keep = Keep
    SharesPointers = FALSE
    CacheMayFail = TRUE
    StoreMayFail = TRUE
    AuditMayFail = FALSE
    MayCrash = TRUE
    RequiresTOS = FALSE
    SignsOut = FALSE
SYMMETRY Fresh
INVARIANTS TypeOK ClientIsolation NoEmptyCode CodeAccountedFor
PROPERTIES ImplementsPromise
CHECK_DEADLOCK FALSE
