SPECIFICATION MCSpec
CONSTANTS
    Children = {btormc}
    btormc = btormc
    Bads = {b1, b2}
    b1 = b1
    b2 = b2
    Unsound = {"native"}
    MayPanic = TRUE
    OneBad = b1
INVARIANTS SoundVerdict UnknownForCause NothingLeftRunning RefusalsReported
PROPERTIES ImplementsPromise PromptStop Terminates PanicEnds
