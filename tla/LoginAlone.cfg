SPECIFICATION Spec
CONSTANTS
    Flows = {f1, f2, f3}
    Clients = {portal, shop}
    ClientOf <- MCClientOf
    Unparsable = {f3}
    Slots = {k1, k2, k3}
    SessionIds = {s1, s2, s3}
    Requests = {q1}
    portal = portal
    shop = shop
    f1 = f1
    f2 = f2
    f3 = f3
    NoSlot = NoSlot
    NoId = NoId
    Keep = Keep
    SharesPointers = TRUE
    CacheMayFail = FALSE
    StoreMayFail = FALSE
    AuditMayFail = TRUE
    MayCrash = TRUE
    RequiresTOS = TRUE
    SignsOut = TRUE
SYMMETRY Fresh
INVARIANTS CodeNamesSession FailedLoginLeavesNothing TermsRedirect AuditedLogins
PROPERTIES AnsweredOnce
CHECK_DEADLOCK FALSE
