CONSTANTS
    Vm = {v1, v2, v3}
    NoVm = NoVm
    Repl = Repl
    Owner = Owner
    MaxImports = 3
SPECIFICATION FairSpec
CHECK_DEADLOCK FALSE
INVARIANTS TypeOK OneAtATime ClosedOnReturn
PROPERTIES CallsReturn
