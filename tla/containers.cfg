CONSTANTS
    Size = 3
    Value = {v1, v2}
    Nil = Nil
    Elem = {e1, e2, e3, e4}
SPECIFICATION ContainersSpec
INVARIANTS TypeOK LiveSlotsSet HoldsMembers
PROPERTIES RefinesFIFO
