CONSTANTS
    Slice = {s, t}
    Array = {a1, a2, a3}
    NoArray = NoArray
    Args = Args
    Value = {0, 1}
    Zero = 0
    Nil = Nil
    NoLoop = NoLoop
    Large = 4
    MaxCap = 4
    MaxArgs = 2
    MaxCalls = 4
    MaxCuts = 2
SPECIFICATION MCSpec
SYMMETRY MCSymmetry
CHECK_DEADLOCK FALSE
INVARIANTS TypeOK SlotsSet CopyIsSimultaneous
PROPERTIES RefinesGoSlices
