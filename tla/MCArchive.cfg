SPECIFICATION Spec
CONSTANTS
    i1 = i1  i2 = i2  m1 = m1  m2 = m2  r1 = r1  r2 = r2
    Installation = {i1, i2}
    Maker = {i1, i2, m1, m2}
    Row = {r1, r2}
    Contents <- MCContents
    Foreign <- MCForeign
    Damage <- MCDamage
    MaxRuns = 2
    MaxChanges = 2
    None = None
SYMMETRY MCSymmetry
INVARIANTS PublishedIsWhole AnnouncedSurvives RestoredIsOneBackup
CHECK_DEADLOCK FALSE
