SPECIFICATION FairSpec
CONSTANTS
    NumTerm = 3
    Graphic = {1}
    MaxOut = 1
INVARIANT TypeOK
INVARIANT ShowsItsOutput
PROPERTY MapHeals
