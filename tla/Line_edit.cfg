SPECIFICATION Spec
CONSTANTS
    NumTerm = 2
    Letters <- Alphabet
    Ell = "l"
    Names <- NoFile
    Sizes = {2}
    BufSize = 3
    NameSize = 4
    Width = 2
    MaxHist = 2
    NumFd = 2
    Keys = {"letter", "backspace", "enter", "ctrl_l", "switch"}
    MaxLines = 2
    MaxTyped = 3
    MaxEntered = 1
    Patient = TRUE
    Calm = TRUE
INVARIANT TypeOK
INVARIANT EditLine
INVARIANT LineDelivered
