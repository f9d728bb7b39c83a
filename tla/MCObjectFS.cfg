CONSTANTS
    Proc = {p1, p2}
    Slash = Slash
    data = data
    other = other
    a = a
    d = d
    e = e
    f = f
    g = g
    Key <- MCKey
    BadKey = BadKey
    Base <- MCBase
    KeyFunc <- MCKeyFunc
    Rank <- MCRank
    Foreign <- MCForeign
    Calls <- MCCalls
    PageSize = 2
    MaxBatch = 2
    NoReq = NoReq
SYMMETRY Symmetry
SPECIFICATION Spec
INVARIANTS
    ListComplete
    ListSound
    ListedOnce
    BatchesInOrder
