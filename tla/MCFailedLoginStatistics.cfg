SPECIFICATION FairSpec
CONSTANTS
    Handler = {h1, h2}
    MaxFailures = 3
    MaxRepeats = 2
    MaxMinute = 2
    Retention = 1
INVARIANTS Conserved NothingLeftBehind OlderOnlyAfterClose
PROPERTY CloseReturns
CHECK_DEADLOCK FALSE
