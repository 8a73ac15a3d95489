SPECIFICATION Spec
CONSTANTS
    N = 3
    MaxAttempts = 2
    None = None
INVARIANTS SentRequestIsNotRepeated
