SPECIFICATION Spec
CONSTANTS
    Name = {x, y}
    Method = {m}
    Good = Good
    Bad = Bad
    Item <- MCItem
    MaxItems = 2
    MaxObjs = 3
SYMMETRY Symmetry
PROPERTIES RedefinitionAllowed
