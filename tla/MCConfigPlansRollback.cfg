SPECIFICATION Spec
CONSTANTS
    open = open  keyed = keyed  sec = sec
    Resource = {a}
    Definition = {open}
    Requires <- RequiresNone
    Secret = {}
    Field = {}
    Setting = {off}
    Nonce = {n1, n2}
    Key = {k1, k2}
    Gen = {g1, g2}
    First = g1
    Lifetime = 1  Skew = 0  MaxTime = 0  MaxRevision = 3
    Absent = Absent  None = None
SYMMETRY Interchangeable
INVARIANTS SingleUse
