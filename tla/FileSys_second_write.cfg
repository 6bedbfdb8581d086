SPECIFICATION Spec
CONSTANTS
    p1 = p1
    p2 = p2
    fa = fa
    fb = fb
    fc = fc
    Proc = {p1, p2}
    Name = {fa, fb}
    OldFiles <- Old
    Lengths = {1, 3}
    NumInode = 3
    NumBlock = 3
    BlkSize = 2
    MaxBlk = 3
    MaxDentry = 3
    Fd = {2}
    Word = 16
    MaxShort = 1
    MaxPos = 3
    Serial = TRUE
    Ample = TRUE
    May <- AnyCall
PROPERTY PositionFollows
