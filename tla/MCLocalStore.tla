----------------------------- MODULE MCLocalStore -----------------------------
EXTENDS LocalStore, TLC
CONSTANTS c1, c2, a, b, x, y, f1, f2, f3
MCClients == {c1, c2}
\* Failing steps under every operation; lost temporary files; power losses.
MCWorkloads ==
    {[operations |-> Operations, failures |-> {"fault"}],
     [operations |-> {"write", "copy"}, failures |-> {"remove", "crash"}],
     [operations |-> {"write"}, failures |-> {"power"}]}
Symmetry == Permutations(Clients) \cup Permutations(Paths)
                \cup Permutations(Contents) \cup Permutations(Files)
\* What no later step looks at: the data of free inodes and the answers of
\* calls that have returned.
View ==
    <<entry, temps, [f \in Files |-> IF f \in Free THEN Empty ELSE data[f]], durable,
      pc, request, file, stream,
      [c \in Clients |-> IF pc[c] = "idle" THEN "idle" ELSE outcome[c]],
      [c \in Clients |-> IF stream[c] = None THEN None ELSE answer[c]], stray, workload>>
=============================================================================
