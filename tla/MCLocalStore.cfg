SPECIFICATION Spec
CONSTANTS
    c1 = c1
    c2 = c2
    a = a
    b = b
    x = x
    y = y
    f1 = f1
    f2 = f2
    f3 = f3
    None = None
    Clients <- MCClients
    Paths = {a, b}
    Contents = {x, y}
    Files = {f1, f2, f3}
    Workloads <- MCWorkloads
INVARIANTS StableStreams DirectoryInvariant CompleteObjects
PROPERTIES Linearizable
SYMMETRY Symmetry
VIEW View
