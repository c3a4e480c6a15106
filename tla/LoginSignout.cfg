SPECIFICATION Spec
CONSTANTS
    Flows = {f1}
    Clients = {portal, shop}
    ClientOf <- OneClient
    Unparsable = {}
    Slots = {k1}
    SessionIds = {s1}
    Requests = {q1}
    portal = portal
    shop = shop
    f1 = f1
    f2 = f2
    f3 = f3
    NoSlot = NoSlot
    NoId = NoId
    Keep = Keep
    SharesPointers = FALSE
    CacheMayFail = FALSE
    StoreMayFail = FALSE
    AuditMayFail = FALSE
    MayCrash = FALSE
    RequiresTOS = TRUE
    SignsOut = TRUE
SYMMETRY Fresh
INVARIANTS TermsRedirect
CHECK_DEADLOCK FALSE
