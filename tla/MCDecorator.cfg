SPECIFICATION FairSpec
CONSTANTS
    c1 = c1
    c2 = c2
    t = t
    x = x
    y = y
    None = None
    Clients <- MCClients
    Tenants = {t}
    Segments <- MCSegments
    Prefix <- MCPrefix
    Paths <- MCPaths
    Outside <- MCOutside
    Contents = {x, y}
    Attempts = 2
    Options <- MCOptions
    Retryable = {"notfound", "error"}
    Workloads <- MCWorkloads
INVARIANTS CallInvariant EntriesFound
PROPERTIES Isolated Linearizable CallsReturn
VIEW View
