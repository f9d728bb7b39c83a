CONSTANTS
    Proc = {p1, p2}
    Inode = {i1, i2, i3, i4}
    root = root
    d = d
    e = e
    top = top
    t1 = t1
    t2 = t2
    x1 = x1
    x2 = x2
    Root = root
    Top = top
    Key <- MCKey
    Temp <- MCTemp
    DirOf <- MCDirOf
    Above <- MCAbove
    Chunk <- MCChunk
    Val <- MCVal
    Calls <- MCCalls
    Zero = Zero
    Absent = Absent
    Dir = Dir
    NoFile = NoFile
    NoReq = NoReq
    NoAns = NoAns
    Atomic = TRUE
    CreateRoot = TRUE
    MaxFaults = 1
SYMMETRY Symmetry
SPECIFICATION Spec
INVARIANTS
    TypeOK
    NoTempLeftBehind
    TempsArePrivate
