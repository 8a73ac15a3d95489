SPECIFICATION Spec
CONSTANTS
    open = open  keyed = keyed  sec = sec
    Resource = {a, b}
    Definition = {keyed}
    Requires <- RequiresSecret
    Secret = {sec}
    Field = {}
    Setting = {off}
    Nonce = {n1, n2}
    Key = {k1}
    Gen = {g1}
    First = g1
    Lifetime = 1  Skew = 0  MaxTime = 1  MaxRevision = 3
    Absent = Absent  None = None
SYMMETRY Interchangeable
INVARIANTS TypeOK OneOfRivals SecretsPresent
PROPERTIES PlanAppliesToItsBase
