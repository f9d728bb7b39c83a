CONSTANTS
    a = a
    d = d
    e = e
    f = f
    g = g
    v = v
    Key <- MCMountKey
    Val <- MCVal
    Dir = Dir
    Absent = Absent
    Prefix <- MCPrefix
    Trees <- MCMountTrees
    Mounted = TRUE
    NoCall = NoCall
    MaxChanges = 0
SPECIFICATION Spec
INVARIANT
    Complete
CHECK_DEADLOCK FALSE
