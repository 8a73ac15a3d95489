SPECIFICATION FairSpec
CONSTANTS
    N = 1
    MaxAttempts = 1
    None = None
PROPERTY DeadlineEndsRequest
