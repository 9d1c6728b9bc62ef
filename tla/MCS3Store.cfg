SPECIFICATION Spec
CONSTANTS
    c1 = c1
    c2 = c2
    a = a
    x = x
    y = y
    t1 = t1
    Root = Root
    None = None
    Clients = {c1, c2}
    Names = {a}
    Contents = {x, y}
    Types = {t1}
    MaxTime = 3
    Workloads <- MCWorkloads
INVARIANTS HeadInvariant
PROPERTIES Linearizable
SYMMETRY Symmetry
VIEW View
