SPECIFICATION CancelSpec
CONSTANTS
    NumStates = 3
    States <- Frames
    Designs <- MCDesigns
    MaxK = 2
INVARIANTS VerdictTrue DepthsExhausted
PROPERTIES InterruptOnlyInCheck CancelHonoured
