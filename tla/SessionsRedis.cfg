SPECIFICATION Spec
CONSTANTS
    SessionIds = {s1}
    Requests = {q1, q2}
    RoleIds = {clerk, admin}
    clerk = clerk
    admin = admin
    NoSession = NoSession
    NoRole = NoRole
    RoleLists <- MCRoleLists
    Owner <- MCOwner
    Backend = "redis"
    CleansUp = FALSE
    RequiresTOS = TRUE
    RequiresRole = TRUE
    TermsAnswers = {TRUE}
    Timeout = 2
SYMMETRY Handlers
INVARIANTS AgreementFirst RoleGranted
PROPERTIES GoneStaysGone KeptWhileUsed
