------------------------------ MODULE MCS3Store ------------------------------
EXTENDS S3Store, TLC
CONSTANTS c1, c2, a, x, y, t1
Symmetry == Permutations(Clients) \cup Permutations(Contents)
\* Data beneath a prefix; metadata in a bucket shared with other programs.
MCWorkloads ==
    {[operations |-> {"read", "write", "delete", "copy", "move"},
      prefixed |-> TRUE, foreign |-> FALSE],
     [operations |-> {"stat", "write", "delete", "setmetadata"},
      prefixed |-> FALSE, foreign |-> TRUE]}
\* What no later step looks at: the answers of calls that have returned, but
\* the metadata that they have handed out.
View ==
    <<objects, now, request, step, cancelled, workload,
      [c \in Clients |-> IF outcome[c] \in {"ok", "pending"}
                         THEN <<outcome[c], head[c], published[c]>> ELSE None]>>
=============================================================================
