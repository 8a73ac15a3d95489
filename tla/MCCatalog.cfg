SPECIFICATION CatalogSpec
CONSTANTS
    n1 = n1  n2 = n2
    Names <- Named
    Caller = {c1, c2}
    Content <- Contents
    MaxId = 3
    MaxVersion = 2
    MaxBearer = 2
    Limit = 1
    Absent = Absent
SYMMETRY Symmetric
INVARIANTS NoLostUpdate ListingIsComplete
PROPERTIES NoBearerRevival
CHECK_DEADLOCK FALSE
