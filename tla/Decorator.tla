------------------------------- MODULE Decorator -------------------------------
(***************************************************************************)
(* decorator.Adapter over any backend that keeps the storage contract: the *)
(* backend is ObjectStore itself.  Clients call the decorator, and tenants *)
(* use the same backend directly, outside the decorator's prefix.          *)
(*                                                                         *)
(* A path is the sequence of its segments, so that the root is <<>> and    *)
(* joining is concatenation.  Stat stands for every read-safe call without *)
(* a stream or iterator (OpenRange, TemporaryURL, Visibility), checksum    *)
(* for the digest that WithChecksums computes from a stream of its own.    *)
(***************************************************************************)
EXTENDS Naturals, Sequences

CONSTANTS
    Clients,        \* goroutines calling the decorator
    Tenants,        \* goroutines calling the backend
    Segments,       \* names between slashes
    Prefix,         \* Adapter.prefix
    Paths,          \* logical paths
    Outside,        \* backend paths of the tenants
    Contents,       \* object contents
    None,           \* no object, no call
    Attempts,       \* bound: largest RetryPolicy.Attempts
    Options,        \* the configurations of this instance
    Retryable,      \* the answers RetryPolicy.Retryable accepts
    Workloads       \* bound: callers and operations that occur together

VARIABLES
    objects, request, outcome, answer,  \* the backend
    config,     \* ReadOnly, and the RetryPolicy: attempts is 0 without one
    call,       \* control state of each decorated call
    logical,    \* what the client has asked for
    result,     \* what it was told
    iter,       \* the iterator of its latest List
    streams,    \* how many streams of its checksums are open
    workload    \* who calls what in this execution

backendVars == <<objects, request, outcome, answer>>
vars == <<backendVars, config, call, logical, result, iter, streams, workload>>

Operations == {"read", "stat", "list", "checksum", "write", "delete", "copy", "move"}

ASSUME DecoratorAssumption ==
    /\ Attempts \in Nat
    /\ Prefix \in Seq(Segments)
    /\ \A p \in Paths \cup Outside : p \in Seq(Segments) /\ p # None
    /\ Retryable \subseteq {"notfound", "error"}
    /\ Clients \cap Tenants = {}
    /\ Options \subseteq
          [readOnly : BOOLEAN, attempts : 0..Attempts, backoff : BOOLEAN]
    /\ Workloads \subseteq
          [callers : SUBSET (Clients \cup Tenants), operations : SUBSET Operations]

Mutations == {"write", "delete", "copy", "move"}

Requests ==
    [op : Operations, path : Paths, to : Paths, content : Contents \cup {None},
     replace : BOOLEAN]

ASSUME RequestsAssumption == None \notin Requests

\* Fields an operation does not use have a fixed value.
Calls ==
    {r \in Requests :
        /\ r.op \notin {"copy", "move"} => r.to = r.path
        /\ r.op \notin {"write", "copy", "move"} => r.replace
        /\ (r.content # None) <=> (r.op = "write")}

Call ==
    [pc : {"idle", "start", "backend", "digest", "close", "backoff"},
     attempt : 0..(IF Attempts = 0 THEN 1 ELSE Attempts),
     ctx : {"live", "cancelled"}]

NoCall == [pc |-> "idle", attempt |-> 0, ctx |-> "live"]

NoResult == [outcome |-> "idle", answer |-> None]

-----------------------------------------------------------------------------
(* Paths.                                                                  *)

internalForgetsPrefix(path) == path

\* The backend's path of a logical path; of the root, the prefix itself.
internal(path) == Prefix \o path

externalPathUnchecked(path) ==
    IF Len(path) >= Len(Prefix)
    THEN SubSeq(path, Len(Prefix) + 1, Len(path))
    ELSE None

\* The logical path of an entry of the backend, None when it is not beneath
\* the prefix.
externalPath(path) ==
    IF Len(path) >= Len(Prefix) /\ SubSeq(path, 1, Len(Prefix)) = Prefix
    THEN SubSeq(path, Len(Prefix) + 1, Len(path))
    ELSE None

BackendPaths == {internal(p) : p \in Paths} \cup Outside

\* Tenants keep out of the prefix.
ASSUME OutsideAssumption ==
    \A p \in Outside : Len(p) >= Len(Prefix) => SubSeq(p, 1, Len(Prefix)) # Prefix

Backend == INSTANCE ObjectStore WITH
    Clients <- Clients \cup Tenants, Paths <- BackendPaths

\* An iterator: the backend's entry it is at, what it makes of it, Err.
Iterator == [entry : BackendPaths \cup {None}, current : Paths \cup {None}, err : BOOLEAN]

-----------------------------------------------------------------------------
TypeOK ==
    /\ Backend!TypeOK
    /\ config \in Options
    /\ call \in [Clients -> Call]
    /\ logical \in [Clients -> Requests \cup {None}]
    /\ \A c \in Clients : logical[c] = None <=> call[c].pc = "idle"
    /\ iter \in [Clients -> Iterator \cup {None}]
    /\ streams \in [Clients -> Nat]
    /\ result \in [Clients -> [outcome : Backend!Outcomes, answer : Contents \cup {None}]]
    /\ workload \in Workloads

\* New has accepted the options.
Init ==
    /\ Backend!Init
    /\ config \in Options
    /\ call = [c \in Clients |-> NoCall]
    /\ logical = [c \in Clients |-> None]
    /\ result = [c \in Clients |-> NoResult]
    /\ iter = [c \in Clients |-> None]
    /\ streams = [c \in Clients |-> 0]
    /\ workload \in Workloads

pc(c) == call[c].pc
Cancelled(c) == call[c].ctx = "cancelled"
Goto(c, state) == call' = [call EXCEPT ![c].pc = state]

\* The answer is the caller's; the observer has seen it.
Return(c, o, content) ==
    /\ call' = [call EXCEPT ![c] = NoCall]
    /\ logical' = [logical EXCEPT ![c] = None]
    /\ result' = [result EXCEPT ![c] = [outcome |-> o, answer |-> content]]

Invoke(c) ==
    /\ c \in workload.callers
    /\ pc(c) = "idle"
    /\ iter[c] = None
    /\ \E r \in Calls :
          /\ r.op \in workload.operations
          /\ logical' = [logical EXCEPT ![c] = r]
    /\ Goto(c, "start")
    /\ result' = [result EXCEPT ![c] = NoResult]
    /\ UNCHANGED <<backendVars, config, iter, streams>>

Cancel(c) ==
    /\ pc(c) # "idle"
    /\ ~Cancelled(c)
    /\ call' = [call EXCEPT ![c].ctx = "cancelled"]
    /\ UNCHANGED <<backendVars, config, logical, result, iter, streams>>

-----------------------------------------------------------------------------
(* A call of the backend.                                                  *)

BackendRequestBareTo(r) ==
    [op |-> IF r.op = "checksum" THEN "read" ELSE r.op,
     path |-> internal(r.path),
     to |-> IF r.op = "write" THEN r.to ELSE internal(r.to),
     content |-> r.content, replace |-> r.replace]

\* Checksum opens the object.
BackendRequest(r) ==
    [op |-> IF r.op = "checksum" THEN "read" ELSE r.op,
     path |-> internal(r.path), to |-> internal(r.to),
     content |-> r.content, replace |-> r.replace]

CallBackend(c) ==
    /\ request' = [request EXCEPT ![c] = BackendRequest(logical[c])]
    /\ Backend!Invoke(c)
    /\ call' = [call EXCEPT ![c].pc = "backend", ![c].attempt = @ + 1]

\* Refused before the backend is called: a mutation of a read-only decorator,
\* a Write of the root.
Rejected(r) ==
    r.op \in Mutations /\ (config.readOnly \/ (r.op = "write" /\ r.path = <<>>))

\* Only the read-safe calls go through retryCall, which looks at the context
\* before every attempt if there is a policy.
Stopped(c) ==
    logical[c].op \notin Mutations /\ config.attempts > 0 /\ Cancelled(c)

Start(c) ==
    /\ pc(c) = "start"
    /\ \/ /\ Rejected(logical[c]) \/ Stopped(c)
          /\ Return(c, "error", None)
          /\ UNCHANGED backendVars
       \/ /\ ~(Rejected(logical[c]) \/ Stopped(c))
          /\ CallBackend(c)
          /\ UNCHANGED <<logical, result>>
    /\ UNCHANGED <<config, iter, streams>>

\* What the backend may do with a call; a read that fails has not answered.
BackendStep(c) ==
    \/ Backend!NotFound(c) \/ Backend!Exists(c)
    \/ Backend!Read(c) \/ Backend!Stat(c) \/ Backend!List(c) \/ Backend!Write(c) \/ Backend!Delete(c)
    \/ Backend!Move(c) \/ Backend!Copy(c) \/ Backend!CopyLoad(c) \/ Backend!CopyStore(c)
    \/ Backend!Fail(c)

BackendWorks(c) ==
    /\ pc(c) = "backend"
    /\ outcome[c] = "ok" => logical[c].op \in Mutations
    /\ BackendStep(c)
    /\ UNCHANGED <<config, call, logical, result, iter, streams>>

-----------------------------------------------------------------------------
(* retryCall.                                                              *)

FinalByClass(c, o) ==
    \/ o \notin Retryable
    \/ config.attempts = 0
    \/ call[c].attempt = config.attempts

\* An answer after which retryCall never calls again; an error may also be one
\* that the classifier refuses, or a context error.
Final(c, o) ==
    \/ logical[c].op \in Mutations
    \/ o \notin Retryable
    \/ config.attempts = 0
    \/ call[c].attempt = config.attempts

Again(c) == Goto(c, IF config.backoff THEN "backoff" ELSE "start")

\* The attempt has ended with o: return it, or try again.
Ended(c, o, content) ==
    \/ (Final(c, o) \/ o = "error") /\ Return(c, o, content)
    \/ ~Final(c, o) /\ Again(c) /\ UNCHANGED <<logical, result>>

Collect(c) ==
    /\ pc(c) = "backend"
    /\ Backend!Returned(c)
    /\ IF logical[c].op = "checksum" /\ outcome[c] = "ok"
       THEN /\ Goto(c, "digest")
            /\ streams' = [streams EXCEPT ![c] = @ + 1]
            /\ UNCHANGED <<logical, result>>
       ELSE Ended(c, outcome[c], answer[c]) /\ UNCHANGED streams
    /\ iter' = [iter EXCEPT ![c] = IF logical[c].op = "list" /\ outcome[c] = "ok"
                                   THEN [entry |-> None, current |-> None, err |-> FALSE]
                                   ELSE None]
    /\ UNCHANGED <<backendVars, config>>

CloseStream(c) == streams' = [streams EXCEPT ![c] = @ - 1]

Copied(c) == pc(c) = "digest" /\ Goto(c, "close") /\ UNCHANGED <<logical, result, streams>>

Closed(c) ==
    /\ pc(c) = "close"
    /\ CloseStream(c)
    /\ \E o \in {"ok", "error"} : Ended(c, o, IF o = "ok" THEN answer[c] ELSE None)

DigestLeaksOnError(c) ==
    /\ \/ Copied(c) \/ Closed(c)
       \/ pc(c) = "digest" /\ Ended(c, "error", None) /\ UNCHANGED streams
    /\ UNCHANGED <<backendVars, config, iter>>

\* io.Copy into the digest, then Close, whose error is the attempt's; after a
\* failed io.Copy the stream is closed on the way out.
Digest(c) ==
    /\ \/ Copied(c) \/ Closed(c)
       \/ pc(c) = "digest" /\ Ended(c, "error", None) /\ CloseStream(c)
    /\ UNCHANGED <<backendVars, config, iter>>

BackoffWaitsForContext(c) ==
    /\ pc(c) = "backoff"
    /\ Cancelled(c)
    /\ Return(c, "error", None)
    /\ UNCHANGED <<backendVars, config, iter, streams>>

\* The timer, or the context.
Backoff(c) ==
    /\ pc(c) = "backoff"
    /\ \/ Cancelled(c) /\ Return(c, "error", None)
       \/ Goto(c, "start") /\ UNCHANGED <<logical, result>>
    /\ UNCHANGED <<backendVars, config, iter, streams>>

-----------------------------------------------------------------------------
(* The iterator, over whatever entries the backend's iterator has.         *)

IterNext(c) ==
    /\ iter[c] # None
    /\ ~iter[c].err
    /\ \E e \in BackendPaths :
          iter' = [iter EXCEPT ![c] =
              IF externalPath(e) = None THEN [@ EXCEPT !.err = TRUE]
              ELSE [entry |-> e, current |-> externalPath(e), err |-> FALSE]]
    /\ UNCHANGED <<backendVars, config, call, logical, result, streams>>

IterClose(c) ==
    /\ iter[c] # None
    /\ iter' = [iter EXCEPT ![c] = None]
    /\ UNCHANGED <<backendVars, config, call, logical, result, streams>>

-----------------------------------------------------------------------------
\* Another user of the backend, outside the prefix.
Tenant(t) ==
    /\ t \in workload.callers
    /\ \/ /\ Backend!Returned(t)
          /\ \E p \in Outside, content \in Contents :
                request' = [request EXCEPT ![t] = [op |-> "write", path |-> p, to |-> p,
                                                   content |-> content, replace |-> TRUE]]
          /\ Backend!Invoke(t)
       \/ Backend!Write(t)
    /\ UNCHANGED <<config, call, logical, result, iter, streams>>

Step(c) == Start(c) \/ BackendWorks(c) \/ Collect(c) \/ Digest(c) \/ Backoff(c)

Next ==
    /\ \/ \E c \in Clients : Invoke(c) \/ Cancel(c) \/ Step(c) \/ IterNext(c) \/ IterClose(c)
       \/ \E t \in Tenants : Tenant(t)
    /\ UNCHANGED workload

Spec == Init /\ [][Next]_vars

\* The backend answers every call, timers fire, and goroutines run.
Fairness == \A c \in Clients : WF_vars(Step(c) /\ UNCHANGED workload)

FairSpec == Spec /\ Fairness

-----------------------------------------------------------------------------
(* Properties.                                                             *)

\* What the client would be told if the backend's answer is the last one.
Settled(c) ==
    /\ pc(c) = "backend"
    /\ outcome[c] # "error" \/ logical[c].op \in Mutations
    /\ Final(c, outcome[c])

Outcome(c) ==
    IF pc(c) = "idle" THEN result[c].outcome
    ELSE IF Settled(c) THEN outcome[c] ELSE "pending"

Contract == INSTANCE ObjectStore WITH
    objects <- [p \in Paths |-> objects[internal(p)]],
    request <- [c \in Clients |-> IF Outcome(c) \in {"pending", "loaded"}
                                  THEN logical[c] ELSE None],
    outcome <- [c \in Clients |-> Outcome(c)],
    answer <- [c \in Clients |-> IF pc(c) = "idle" THEN result[c].answer
                                 ELSE IF pc(c) = "backend" THEN answer[c] ELSE None]

\* A step of a checksum, a call the contract does not have.
Checksums(c) == logical[c] # None /\ logical[c].op = "checksum"

ChecksumStep(c) ==
    /\ Checksums(c) \/ Checksums(c)'
    /\ call'[c] # call[c] \/ outcome'[c] # outcome[c]
    /\ UNCHANGED objects

\* A decorated store keeps the contract its backend keeps, seen through the
\* prefix: retries of reads are invisible, no mutation takes effect twice, an
\* answer is that of one attempt, and a checksum changes no object.
Linearizable ==
    /\ Contract!Init
    /\ [][Contract!Next \/ \E c \in Clients : ChecksumStep(c)]_(Contract!vars)

\* The client has in progress a mutation that may change the object at p.
Mutates(c, p) ==
    LET r == logical[c] IN
    /\ r # None
    /\ \/ r.op \in {"delete", "move"} /\ p = Prefix \o r.path
       \/ r.op \in {"write", "copy", "move"} /\ p = Prefix \o r.to

\* An object changes only by a tenant, who keeps outside the prefix, or by a
\* mutation that a client of a writable decorator has in progress and that names
\* it, beneath the prefix.  The object at the prefix itself, which the root
\* stands for, is reached by Delete, Copy and Move, and never by Write.
Isolated ==
    [][\A p \in BackendPaths : objects'[p] # objects[p] =>
          \/ p \in Outside /\ \E t \in Tenants : outcome'[t] # outcome[t]
          \/ /\ p \notin Outside /\ ~config.readOnly
             /\ \E c \in Clients :
                   /\ Mutates(c, p)
                   /\ p = Prefix => logical[c].op # "write"]_vars

\* A read-safe call reaches the backend at most Attempts times, a mutation at
\* most once and of a read-only decorator never.
AttemptsBounded ==
    \A c \in Clients : pc(c) # "idle" =>
        call[c].attempt <=
            IF logical[c].op \in Mutations THEN (IF config.readOnly THEN 0 ELSE 1)
            ELSE IF config.attempts = 0 THEN 1 ELSE config.attempts

\* No attempt of a checksum leaves its stream open, whether it ends with a
\* digest, with an error of io.Copy or with one of Close.
StreamsClosed ==
    \A c \in Clients : streams[c] = IF pc(c) \in {"digest", "close"} THEN 1 ELSE 0

\* What a call may cost the backend: a bounded number of attempts, one of a
\* mutation, and no stream left open (retryCall and Checksum).
CallInvariant == TypeOK /\ AttemptsBounded /\ StreamsClosed

\* A listing shows a client only entries beneath its prefix, each under the name
\* by which the decorator finds it again, whatever the backend lists.
EntriesFound ==
    \A c \in Clients : iter[c] # None /\ iter[c].current # None =>
        internal(iter[c].current) = iter[c].entry

\* Every call returns, however often the backend fails.
CallsReturn == \A c \in Clients : pc(c) # "idle" ~> pc(c) = "idle"
=============================================================================
