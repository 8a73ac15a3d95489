SPECIFICATION RecordsSpec
CONSTANTS
    x1 = x1
    x2 = x2
    d1 = d1
    d2 = d2
    Request = {r1, r2}
    RouteId = {x1}
    Targets <- OneTarget
    DestinationId = {d1}
    Header <- AllHeaders
    Inferred = 2
    Maximum = 2
    MaxTime = 2
    StepsBack = FALSE
    Nil = Nil

INVARIANT RetryAfterIsHonoured
CHECK_DEADLOCK FALSE
