SPECIFICATION SignInSpec
CONSTANTS
    Codes = {c1, c2}
    Redeemers = {r1, r2, r3}
    SetMayFail = TRUE
    DeleteMayFail = FALSE
    Flows = {f1, f2, f3}
    Clients = {portal, shop}
    SessionIds = {s1, s2}
    NoId = NoId
    RedirectURIs = {u1, u2}
    ClientOf <- MCClientOf
    RedirectURI <- MCRedirectURI
    portal = portal
    shop = shop
    f1 = f1
    f2 = f2
    f3 = f3
    u1 = u1
    u2 = u2
SYMMETRY Interchangeable
INVARIANTS TypeOK DeliveredIsSpent AccessFollowsAnswer
PROPERTIES SpentStaysSpent ImplementsGrant
