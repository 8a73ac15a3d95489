SPECIFICATION Spec
CONSTANTS
    Address = {a1, a2}
    Handler = {h1, h2}
    Token = 3
    GlobalBurst = 1
    GlobalRate = 2
    ClientBurst = 1
    ClientRate = 1
    MaxClients = 1
    ClientIdle = 4
    Second = 2
    FailureCap = 2
    MaxDelay = 2
    MaxTime = 4
    MaxAttempts = 3
    None = None
INVARIANTS TokensConserved OneDerivation RetryAfterSuffices
CHECK_DEADLOCK FALSE
