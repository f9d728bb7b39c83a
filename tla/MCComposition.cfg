CONSTANTS
    p1 = p1
    p2 = p2
    d1 = d1
    d2 = d2
    d3 = d3
    h0 = h0
    h1 = h1
    h2 = h2
    T = T
    a = a
    b = b
    m = m
    x = x
    y = y
    v = v
    cut = cut
    NoFile = NoFile
    NoFS = NoFS
    NoProc = NoProc
    NoReq = NoReq
    Proc = {p1, p2}
    Base <- MCBase
    Hook = {h0, h1, h2}
    Table = {T}
    Copiers <- MCBase
    BatchDeleters = {d3}
    Sub <- MCSub
    Val = {v, cut}
    Cut = cut
    Idle <- MCIdle
    Calls <- MCCalls
    Middlewares <- MCMiddlewares
    Coders = {h1, h2}
    Name = {a, b, m, x, y}
    Mounted <- MCMounted
    Key <- MCKey
SPECIFICATION Spec
INVARIANTS
    StepsInOrder
    EverythingDecodes
    UnmountedIsUnreachable
    NeverLockedAcrossACall
PROPERTIES
    ActsAsOneStore
    EveryCallReturns
