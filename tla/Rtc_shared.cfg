SPECIFICATION FairSpec
CONSTANTS
    NumProc = 3
    Width = 5
    MaxFreq = 8
    DefFreq = 2
    Freqs <- Rates
INVARIANT TypeOK
INVARIANT TickWakes
PROPERTY ReadWaits
PROPERTY ReadReturns
