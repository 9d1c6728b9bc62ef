SPECIFICATION Spec
CONSTANTS
    c1 = c1
    c2 = c2
    a = a
    b = b
    x = x
    y = y
    s1 = s1
    s2 = s2
    None = None
    Clients <- MCClients
    Sessions = {s1, s2}
    Paths = {a, b}
    Contents = {x, y}
    Workloads <- MCWorkloads
INVARIANTS SessionInvariant
PROPERTIES Linearizable HealthySessionKept
SYMMETRY Symmetry
VIEW View
