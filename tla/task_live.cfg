CONSTANTS
    u = u
    b = b
    main = main
    g1 = g1
    g2 = g2
    Task = {main, g1, g2}
    EvalTask = {main, g1}
    Chan = {u, b}
    Size <- MCSize
    Stmt <- LiveStmt
    Closing = {u}
    Panicking = {g2}
    MaxOps = 2
    RECV = RECV
    SEND = SEND
    Nil = Nil
    TIMEOUT = TIMEOUT
    NoOutcome = NoOutcome
    NoSel = NoSel
    NoAlt = NoAlt
SPECIFICATION FairSpec
CHECK_DEADLOCK FALSE
INVARIANTS AllAltsQueued NoLostWakeup IntactUntilClosed TimerArmed EvalHasRun
PROPERTIES WokenRuns EvalReturns
