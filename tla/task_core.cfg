CONSTANTS
    u = u
    b = b
    main = main
    g1 = g1
    g2 = g2
    Task = {main, g1, g2}
    EvalTask = {main}
    Chan = {u, b}
    Size <- MCSize
    Stmt <- CoreStmt
    Closing = {}
    Panicking = {}
    MaxOps = 2
    RECV = RECV
    SEND = SEND
    Nil = Nil
    TIMEOUT = TIMEOUT
    NoOutcome = NoOutcome
    NoSel = NoSel
    NoAlt = NoAlt
SPECIFICATION Spec
SYMMETRY GoSymmetry
CHECK_DEADLOCK FALSE
INVARIANTS TypeOK NoMissedRendezvous
PROPERTIES ResolvedOnce RefinesGoSelect
