CONSTANTS
    State <- MCState
    Inputs <- MCBoxInputs
SPECIFICATION Spec
INVARIANT Preservation
CHECK_DEADLOCK FALSE
