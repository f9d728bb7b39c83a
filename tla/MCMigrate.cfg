CONSTANTS
    b = b
    d = d
    e = e
    f = f
    g = g
    v = v
    w = w
    Key <- MCKey
    Val <- MCVal
    Dir = Dir
    Absent = Absent
    Prefix <- MCPrefix
    Trees <- MCTrees
    Mounted = FALSE
    NoCall = NoCall
    MaxChanges = 1
    DstKey <- MCDstKey
    DstPrefix <- MCDstPrefix
    KeyFuncs <- MCKeyFuncs
    DstMaps <- MCDstMaps
    NoFile = NoFile
    Torn = Torn
    MaxDstChanges = 1
SPECIFICATION MSpec
INVARIANTS
    MigratesEverything
    CountsWhatArrived
    NothingElseChanges
PROPERTY
    OnlyRacesClobber
CHECK_DEADLOCK FALSE
