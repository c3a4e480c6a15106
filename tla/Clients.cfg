SPECIFICATION Spec
CONSTANTS
    ClientIds = {portal, feed, robot}
    portal = portal
    feed = feed
    robot = robot
    NoClient = NoClient
    LastEdit = 2
    FileAt <- MCFileAt
    ApiAt <- MCApiAt
    HasApi = TRUE
    Reloads = {r1, r2}
    TokenRequests = 1
    UsesPfasGrant = TRUE
    UsesIAMGrant = TRUE
INVARIANTS TypeOK RefetchWorks WebOrService SecretlessListed
PROPERTIES RemovedStaysOut
