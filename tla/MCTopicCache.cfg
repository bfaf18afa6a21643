SPECIFICATION Spec
CONSTANTS
    Threads = {t1}
    Main = main
    Topics = {a, b, c}
    MaxCalls = 5
    Roles <- BothRoles
INVARIANT RefcntExact
INVARIANT HandlesAlive
INVARIANT AllReleased
 
