SPECIFICATION Spec
CONSTANTS
    NumTerm = 2
    Cols = 4
    Rows = 2
    Keys = {"letter", "backspace", "enter", "ctrl_l", "ctrl_alt_l", "switch"}
    MaxTyped = 5
    Careful = TRUE
INVARIANT TypeOK
INVARIANT LineInOrder
PROPERTY BackspaceErases
