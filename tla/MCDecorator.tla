----------------------------- MODULE MCDecorator -----------------------------
EXTENDS Decorator, TLC
CONSTANTS c1, c2, t, x, y
MCClients == {c1, c2}
\* The prefix is one directory, the tenant's object is beside it.
MCSegments == {"p", "a"}
MCPrefix == <<"p">>
MCPaths == {<<>>, <<"a">>}
MCOutside == {<<"a">>}
\* No policy, a policy with a backoff, and a read-only store without one.
MCOptions ==
    {[readOnly |-> FALSE, attempts |-> 0, backoff |-> FALSE],
     [readOnly |-> FALSE, attempts |-> Attempts, backoff |-> TRUE],
     [readOnly |-> TRUE, attempts |-> Attempts, backoff |-> FALSE]}
\* Two clients of one object; one client and every call, beside a tenant.
MCWorkloads ==
    {[callers |-> {c1, c2}, operations |-> {"read", "write", "delete"}],
     [callers |-> {c1, t}, operations |-> Operations]}
\* What no later step looks at: what returned calls were told.  Neither the
\* fairness nor the liveness property mentions it.
View ==
    <<objects, config, call, logical, iter, streams,
      [c \in Clients \cup Tenants |-> request[c]],
      [c \in Clients \cup Tenants |-> IF c \in Clients /\ pc(c) # "backend" THEN "idle"
                                      ELSE outcome[c]],
      [c \in Clients |-> IF pc(c) \in {"backend", "digest", "close"} THEN answer[c] ELSE None],
      workload>>
=============================================================================
