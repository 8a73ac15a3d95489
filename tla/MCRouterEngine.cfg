SPECIFICATION FairSpec
CONSTANTS
    N = 3
    MaxAttempts = 2
    None = None
INVARIANTS WrittenRequestIsNotRepeated RecordMatchesAnswer
PROPERTIES ImplementsAnswer EndDecidesTheOutcome RequestEnds
