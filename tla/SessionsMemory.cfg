SPECIFICATION FairSpec
CONSTANTS
    SessionIds = {s1}
    Requests = {q1, q2}
    RoleIds = {clerk, admin}
    clerk = clerk
    admin = admin
    NoSession = NoSession
    NoRole = NoRole
    RoleLists <- MCRoleLists
    Owner <- MCOwner
    Backend = "memory"
    CleansUp = FALSE
    RequiresTOS = TRUE
    RequiresRole = TRUE
    TermsAnswers = {TRUE}
    Timeout = 2
INVARIANTS TypeOK AgreementFirst
PROPERTIES GoneStaysGone UnsavedSessionsGo
