CONSTANTS
    Proc = {p1, p2}
    Inode = {i1, i2, i3}
    root = root
    d = d
    e = e
    top = top
    x1 = x1
    x2 = x2
    y1 = y1
    Root = root
    Top = top
    Key <- MCKey
    Temp = {}
    DirOf <- MCDirOf
    Above <- MCAbove
    Chunk <- MCChunk
    Val <- MCVal
    Calls <- MCCalls
    Zero = Zero
    Absent = Absent
    Dir = Dir
    NoFile = NoFile
    NoReq = NoReq
    NoAns = NoAns
    Atomic = FALSE
    CreateRoot = FALSE
    MaxFaults = 1
SYMMETRY Symmetry
SPECIFICATION HSpec
INVARIANTS
    CleanFilesKeepTheirPayload
    CleanReadsAreWhole
