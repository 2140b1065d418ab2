CONSTANTS
    State <- MCState
    Inputs <- MCInputs
SPECIFICATION Spec
INVARIANTS VerdictsTransfer GameAgrees CulpritsListed
CHECK_DEADLOCK FALSE
