CONSTANTS
    b = b
    d = d
    e = e
    f = f
    g = g
    v = v
    w = w
    Key <- MCKey
    Val <- MCVal
    Dir = Dir
    Absent = Absent
    Prefix <- MCPrefix
    Trees <- MCTrees
    Mounted = FALSE
    NoCall = NoCall
    MaxChanges = 0
    DstKey <- MCDstKey
    DstPrefix <- MCDstPrefix
    KeyFuncs <- MCKeyFuncs
    DstMaps <- MCDstMaps
    NoFile = NoFile
    Torn = Torn
    MaxDstChanges = 0
SPECIFICATION MSpec
INVARIANT
    DryRunForesees
CHECK_DEADLOCK FALSE
