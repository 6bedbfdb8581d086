SPECIFICATION LibrarySpec
CONSTANTS
    Size <- MCSize
    Byte <- MCByte
    Zero = 0
    Fills <- MCFills
    Contents <- MCContents
    Letters = {"a", "b"}
    MaxLine = 7
    Programs <- MCPrograms
    ExitLine <- MCExitLine
    NameSize = 3
    ArgSize = 2
    NUL = "0"
    Leftover = "?"
    Asked <- MCAsked
    Width = 8
INVARIANT MemoryAsAsked
INVARIANT CommandSplit
INVARIANT NumberPrinted
