SPECIFICATION RecordsSpec
CONSTANTS
    x1 = x1
    x2 = x2
    d1 = d1
    d2 = d2
    Request = {r1, r2}
    RouteId = {x1, x2}
    Targets <- Overlapping
    DestinationId = {d1, d2}
    Header <- TwoHeaders
    Inferred = 2
    Maximum = 2
    MaxTime = 2
    StepsBack = TRUE
    Nil = Nil
SYMMETRY Symmetric
CONSTRAINT OneOrQuiet
INVARIANTS OnlyPermittedDestinations CooldownHoldsToTheSecond CooldownsHaveTheirRecord
CHECK_DEADLOCK FALSE
