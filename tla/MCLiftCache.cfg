CONSTANTS
    Procs <- MCProcs
    source <- MCsource
    Headers = {"h0", "h1"}
    index <- Colliding
    None = None
    MaxEdits = 1
SPECIFICATION MCSpec
INVARIANTS WrongHitHasCause TornOnlyByRemoval
PROPERTY Terminates
