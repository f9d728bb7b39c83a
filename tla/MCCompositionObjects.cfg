CONSTANTS
    p1 = p1
    p2 = p2
    d1 = d1
    d2 = d2
    h1 = h1
    T = T
    a = a
    b = b
    x = x
    y = y
    v = v
    w = w
    cut = cut
    NoFile = NoFile
    NoFS = NoFS
    NoProc = NoProc
    NoReq = NoReq
    Proc = {p1, p2}
    Base <- MCBase
    Hook = {h1}
    Table = {T}
    Copiers <- MCBase
    BatchDeleters <- MCBase
    Sub <- MCSub
    Val = {v, w, cut}
    Cut = cut
    Idle <- MCIdle
    Calls <- MCCalls
    Middlewares <- MCMiddlewares
    Coders = {h1}
    Name = {a, b, x, y}
    Mounted <- MCMounted
    Key <- MCKey
SPECIFICATION Spec
INVARIANT
    StepsInOrder
PROPERTY
    ActsAsOneStore
