SPECIFICATION FairListSpec
CONSTANTS
    p1 = p1
    p2 = p2
    fa = fa
    fb = fb
    fc = fc
    Proc = {p1, p2}
    Name = {fa, fb, fc}
    OldFiles <- Old
    Lengths = {3}
    NumInode = 4
    NumBlock = 3
    BlkSize = 2
    MaxBlk = 3
    MaxDentry = 4
    Fd = {2}
    Word = 16
    MaxShort = 1
    MaxPos = 5
    Serial = FALSE
    Ample = FALSE
    May <- ListAndCreate
PROPERTY ListingComplete
PROPERTY CallsReturn
PROPERTY CountIsStored
