SPECIFICATION FairSpec
CONSTANTS
    NSets = 2
    Members = {"m1", "m2"}
    Unsound = {"m2"}
    Panics = {"l2s"}
INVARIANTS SoundJustice UnknownForCause NothingLeftRunning
PROPERTIES DecidedReturns BudgetEnds Terminates
