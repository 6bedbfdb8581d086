SPECIFICATION FairSpec
CONSTANTS
    NumTerm = 2
    MaxFrames = 2
INVARIANT InService
PROPERTY EveryRequestTaken
PROPERTY TakenWhenReady
PROPERTY FirstShellRuns
