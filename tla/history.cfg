CONSTANTS
    Session = {s1}
    Text = {a, b}
    MaxStarts = 3
    MaxLines = 3
    MaxPending = 2
SPECIFICATION Spec
INVARIANTS TypeOK MarkerSeparates FileIsHistory
CHECK_DEADLOCK FALSE
