SPECIFICATION Spec
CONSTANTS
    SessionIds = {s1}
    Requests = {q1}
    RoleIds = {clerk, admin}
    clerk = clerk
    admin = admin
    NoSession = NoSession
    NoRole = NoRole
    RoleLists <- MCOneGranted
    Owner <- MCOwner
    Backend = "redis"
    CleansUp = FALSE
    RequiresTOS = TRUE
    RequiresRole = TRUE
    TermsAnswers = {TRUE}
    Timeout = 2
PROPERTIES LoadedAutomatically
