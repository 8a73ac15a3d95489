SPECIFICATION FairSpec
CONSTANTS
    k1 = k1  k2 = k2  k3 = k3  k4 = k4  k5 = k5
    s1 = s1  s2 = s2  p1 = p1
    Key <- FiveKeys
    Secret <- TwoSecrets
    Value <- OneValue
    MaxVersion = 4
    MaxSecrets = 2
    MaxFaults = 2
    NoKey = NoKey  Torn = Torn  NoRow = NoRow  Absent = Absent  Unsure = Unsure
INVARIANTS CommittedKeysDurable AvailableStoreAgreesWithDatabase 
PROPERTIES CollectionIsComplete ImplementsVault StartEventuallyServes
