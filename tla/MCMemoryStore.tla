---------------------------- MODULE MCMemoryStore ----------------------------
EXTENDS MemoryStore, TLC
CONSTANTS c1, c2, a, x, y, m1, m2
Symmetry == Permutations(Clients) \cup Permutations(Contents) \cup Permutations(Cells)
\* What no later step looks at: the answers of calls that have returned.
View ==
    <<objects, request, staged, callerMaps, now, leaked,
      [c \in Clients |-> IF outcome[c] = "pending" THEN since[c] ELSE 0],
      [c \in Clients |-> outcome[c] = "pending"]>>
=============================================================================
