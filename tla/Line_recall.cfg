SPECIFICATION FairSpec
CONSTANTS
    NumTerm = 2
    Letters <- Alphabet
    Ell = "l"
    Names <- Directory
    Sizes = {2}
    BufSize = 6
    NameSize = 4
    Width = 4
    MaxHist = 2
    NumFd = 1
    Keys = {"letter", "enter", "up", "down", "tab", "clean_switch"}
    MaxLines = 2
    MaxTyped = 1
    MaxEntered = 2
    Patient = TRUE
    Calm = TRUE
INVARIANT HistoryKept
PROPERTY LineServed
PROPERTY ImplementsEditors
