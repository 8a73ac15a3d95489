SPECIFICATION GraphSpec
CONSTANTS
    p1 = p1  p2 = p2  eg = eg  sec = sec  a1 = a1  c1 = c1  c2 = c2  k1 = k1  m1 = m1  m2 = m2
    d1 = d1  d2 = d2  s1 = s1  s2 = s2  r1 = r1  r2 = r2  t1 = t1
    Absent = Absent  Gone = Gone  Rejected = Rejected
    Resource <- RoutingResource
    Kind <- RoutingKind
    Base <- RoutingBase
    Managed <- RoutingManaged
    Options <- RoutingOptions
    MaxDocument = 2
INVARIANTS PublishedRoutesLoad RoutesRunLastPublication EnvelopeAgreesWithRevocation
