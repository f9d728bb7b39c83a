CONSTANTS
    a = a
    d = d
    e = e
    f = f
    g = g
    v = v
    Key <- MCKey
    Val <- MCVal
    Dir = Dir
    Absent = Absent
    Prefix <- MCPrefix
    Trees <- MCTrees
    Mounted = FALSE
    NoCall = NoCall
    MaxChanges = 2
SPECIFICATION Spec
INVARIANTS
    VisitedOnce
    SkippedStayUnvisited
    Complete
    StopsSoon
PROPERTY
    Terminates
CHECK_DEADLOCK FALSE
