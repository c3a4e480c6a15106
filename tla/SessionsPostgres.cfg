SPECIFICATION FairSpec
CONSTANTS
    SessionIds = {s1}
    Requests = {q1, q2}
    RoleIds = {clerk}
    clerk = clerk
    admin = admin
    NoSession = NoSession
    NoRole = NoRole
    RoleLists <- MCOneGranted
    Owner <- MCOwner
    Backend = "postgres"
    CleansUp = TRUE
    RequiresTOS = TRUE
    RequiresRole = TRUE
    TermsAnswers = {TRUE, FALSE}
    Timeout = 1
PROPERTIES AcceptanceKept GoneStaysGone UnsavedSessionsGo
