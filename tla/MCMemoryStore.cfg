SPECIFICATION Spec
CONSTANTS
    c1 = c1
    c2 = c2
    a = a
    x = x
    y = y
    m1 = m1
    m2 = m2
    Root = Root
    None = None
    NilMap = NilMap
    Clients = {c1, c2}
    Names = {a}
    Contents = {x, y}
    Cells = {m1, m2}
    Operations = {"read", "stat", "list", "write", "delete", "copy", "move", "setmetadata", "setvisibility"}
    MaxTime = 1
INVARIANTS PrivateMetadata
PROPERTIES Linearizable StampWithinCall
SYMMETRY Symmetry
VIEW View
CHECK_DEADLOCK FALSE
