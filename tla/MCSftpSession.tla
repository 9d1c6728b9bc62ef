---------------------------- MODULE MCSftpSession ----------------------------
EXTENDS SftpSession, TLC
CONSTANTS c1, c2, a, b, x, y, s1, s2
MCClients == {c1, c2}
AllFailures == {"drop", "refuse"}
\* Operations that move objects about; streams and copies of one object; uploads
\* on a connection that lasts, to a server that removes what it is told to.
MCWorkloads ==
    {[operations |-> {"write", "delete", "move"}, paths |-> Paths,
      failures |-> AllFailures]} \cup
    {[operations |-> {"read", "stat", "write", "copy"}, paths |-> {p},
      failures |-> AllFailures] : p \in Paths} \cup
    {[operations |-> {"write", "copy"}, paths |-> {p}, failures |-> {}] : p \in Paths}
LiveWorkloads ==
    {[operations |-> {"read", "write"}, paths |-> Paths, failures |-> AllFailures]}
Symmetry == Permutations(Clients) \cup Permutations(Sessions)
                \cup Permutations(Paths) \cup Permutations(Contents)
\* What no later step looks at: the answers of calls that have returned and which
\* error a failed one has, all but the destination of a call that has taken
\* effect, the answers of reads,
\* closed sessions that nobody uses, and files left where that is no violation.
View ==
    <<session, closed, atomicRename,
      [s \in Sessions |-> IF link[s] = "closed" /\ ~Referenced(s) THEN "none" ELSE link[s]],
      objects, call, temp, stray /\ workload.failures = {} /\ ~closed, stream,
      [c \in Clients |-> IF InEffect(c) \/ request[c] = None THEN request[c] ELSE request[c].to],
      [c \in Clients |-> IF pc(c) = "idle" THEN "idle"
                         ELSE IF outcome[c] = "gone" THEN "error" ELSE outcome[c]],
      [c \in Clients |-> IF outcome[c] = "loaded" THEN answer[c] ELSE None],
      workload>>
=============================================================================
