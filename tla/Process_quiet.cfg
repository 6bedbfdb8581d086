SPECIFICATION FairSpec
CONSTANTS
    NumProc = 4
    NumTerm = 3
    Commands = {"program", "bad"}
    Windows = {}
    PatientUser = TRUE
    MaxFrames = 1
INVARIANT TypeOK
INVARIANT RunningIsCurrent
INVARIANT DescheduledResumable
INVARIANT IdsAccounted
INVARIANT WaitersHaveChild
INVARIANT ParentIsCaller
PROPERTY ReturnsToCaller
PROPERTY ImplementsTerminals
PROPERTY EveryTerminalRuns
