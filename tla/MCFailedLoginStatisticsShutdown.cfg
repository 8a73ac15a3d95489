SPECIFICATION Spec

CONSTANTS
    Handler = {h1, h2}
    MaxFailures = 2
    MaxRepeats = 2
    MaxMinute = 2
    Retention = 0
INVARIANT ShutdownFlushes
CHECK_DEADLOCK FALSE
