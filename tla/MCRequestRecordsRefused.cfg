SPECIFICATION RecordsSpec
CONSTANTS
    x1 = x1
    x2 = x2
    d1 = d1
    d2 = d2
    Request = {r1}
    RouteId = {x1}
    Targets <- TwoTargets
    DestinationId = {d1, d2}
    Header <- AllHeaders
    Inferred = 2
    Maximum = 2
    MaxTime = 2
    StepsBack = FALSE
    Nil = Nil
INVARIANT CompletionIsNotRefused

CHECK_DEADLOCK FALSE
