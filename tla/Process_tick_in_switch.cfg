SPECIFICATION Spec
CONSTANTS
    NumProc = 4
    NumTerm = 3
    Commands = {"program", "bad"}
    Windows = {"switch"}
    PatientUser = TRUE
    MaxFrames = 2
INVARIANT NeverLost
