SPECIFICATION Spec
CONSTANTS
    Flows = {f1, f3}
    Clients = {portal, shop}
    ClientOf <- OneClient
    Unparsable = {}
    Slots = {k1}
    SessionIds = {s1}
    Requests = {q1, q2}
    portal = portal
    shop = shop
    f1 = f1
    f2 = f2
    f3 = f3
    NoSlot = NoSlot
    NoId = NoId
    Keep = Keep
    SharesPointers = FALSE
    CacheMayFail = FALSE
    StoreMayFail = FALSE
    AuditMayFail = FALSE
    MayCrash = FALSE
    RequiresTOS = FALSE
    SignsOut = FALSE
SYMMETRY Fresh
INVARIANTS NoBleed
CHECK_DEADLOCK FALSE
