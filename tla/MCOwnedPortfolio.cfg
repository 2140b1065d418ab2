SPECIFICATION FairSpec
CONSTANTS
    Unsound = {"interp"}
    MayPanic = {"native", "exact"}
INVARIANTS NothingMissed
PROPERTIES ImplementsPromise NeverBlocked DecidedReturns
