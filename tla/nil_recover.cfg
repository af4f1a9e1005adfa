CONSTANTS
    Go = {main, g1}
    Value = {v1, v2}
    Nil = Nil
    MaxDepth = 4
    MaxDefers = 2
SPECIFICATION Spec
PROPERTIES NilRecover
