SPECIFICATION FairSpec
CONSTANTS
    c1 = c1
    c2 = c2
    x = x
    s1 = s1
    s2 = s2
    None = None
    Clients <- MCClients
    Sessions <- MCSessions
    Contents = {x}
    Length = 1
    Workloads <- MCWorkloads
INVARIANTS WholeOrError SentOnce SessionInvariant
PROPERTIES NoClobber CallsReturn
