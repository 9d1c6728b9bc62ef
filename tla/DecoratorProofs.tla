---------------------------- MODULE DecoratorProofs ----------------------------
(***************************************************************************)
(* Proofs about the decorator: what a prefix does to paths, that a listing *)
(* shows nothing from outside it, how often the backend is called, that    *)
(* calls stay beneath the prefix, and that a decorated adapter keeps the   *)
(* storage contract its backend keeps.                                     *)
(***************************************************************************)
EXTENDS Decorator, SequenceTheorems, TLAPS

\* externalPath undoes internal: whatever the prefix, an entry of a listing has
\* the path its client gave it (internal and externalPath).
THEOREM RoundTrip ==
    ASSUME NEW p \in Seq(Segments)
    PROVE  externalPath(internal(p)) = p
<1> DEFINE q == internal(p)
<1>1. Prefix \in Seq(Segments)
  BY DecoratorAssumption
<1>2. /\ q \in Seq(Segments)
      /\ Len(q) = Len(Prefix) + Len(p)
  BY <1>1 DEF internal
<1>3. /\ \A i \in 1..Len(Prefix) : q[i] = Prefix[i]
      /\ \A i \in 1..Len(p) : q[Len(Prefix) + i] = p[i]
  BY <1>1 DEF internal
<1>4. SubSeq(q, 1, Len(Prefix)) = Prefix
  BY <1>1, <1>2, <1>3
<1>5. SubSeq(q, Len(Prefix) + 1, Len(q)) = p
  <2> DEFINE r == SubSeq(q, Len(Prefix) + 1, Len(q))
  <2>1. r \in Seq(Segments) /\ Len(r) = Len(p)
    BY <1>1, <1>2
  <2>2. \A i \in 1..Len(r) : r[i] = p[i]
    BY <1>1, <1>2, <1>3, <2>1
  <2>3. QED
    BY <2>1, <2>2, SeqEqual
<1>6. QED
  BY <1>1, <1>2, <1>4, <1>5 DEF externalPath

\* What is outside of the prefix has no logical path.
LEMMA Outsiders ==
    \A p \in Outside : externalPath(p) = None
  BY Zenon, OutsideAssumption DEF externalPath

\* internal undoes externalPath: an entry that is shown is named by its path.
LEMMA Found ==
    ASSUME NEW q \in Seq(Segments), externalPath(q) # None
    PROVE  internal(externalPath(q)) = q
<1> DEFINE n == Len(Prefix)
<1> DEFINE r == SubSeq(q, n + 1, Len(q))
<1>1. Prefix \in Seq(Segments)
  BY DecoratorAssumption
<1>2. /\ Len(q) >= n
      /\ SubSeq(q, 1, n) = Prefix
      /\ externalPath(q) = r
  BY DEF externalPath
<1>3. /\ r \in Seq(Segments)
      /\ Len(r) = Len(q) - n
      /\ \A i \in 1..Len(r) : r[i] = q[n + i]
  BY SMTT(60), <1>1, <1>2
<1>4. \A i \in 1..n : Prefix[i] = q[i]
  BY <1>1, <1>2
<1>5. /\ Prefix \o r \in Seq(Segments)
      /\ Len(Prefix \o r) = Len(q)
  BY <1>1, <1>2, <1>3
<1>6. \A i \in 1..Len(q) : (Prefix \o r)[i] = q[i]
  BY SMTT(60), <1>1, <1>2, <1>3, <1>4
<1>7. Prefix \o r = q
  BY <1>5, <1>6, SeqEqual
<1>8. QED
  BY SMTT(60), <1>2, <1>7 DEF internal

\* What the backend is called with, and what else it holds, are paths: internal
\* makes a sequence of segments of every logical path.
LEMMA BackendPathsAreSequences == BackendPaths \subseteq Seq(Segments)
<1>1. Prefix \in Seq(Segments) /\ \A p \in Paths \cup Outside : p \in Seq(Segments)
  BY DecoratorAssumption
<1>2. \A p \in Paths : internal(p) \in Seq(Segments)
  BY <1>1 DEF internal
<1>3. QED
  BY <1>1, <1>2 DEF BackendPaths

-----------------------------------------------------------------------------
(* What listings show.                                                     *)

AnyPath == Seq(Segments) \cup {None}

Entries ==
    /\ iter \in [Clients -> [entry : AnyPath, current : AnyPath, err : BOOLEAN] \cup {None}]
    /\ EntriesFound

\* Whatever entries a backend returns, a decorated listing gives out only those
\* beneath the prefix, under paths that lead back to them (externalPath, and
\* the iterator that stops at the first entry from outside).
THEOREM ListingsShowTheirOwn == Spec => []EntriesFound
<1>1. Init => Entries
  BY DEF Init, Entries, EntriesFound
<1>2. Entries /\ [Next]_vars => Entries'
  <2> SUFFICES ASSUME Entries, [Next]_vars
               PROVE  Entries'
    OBVIOUS
  <2> DEFINE fresh == [entry |-> None, current |-> None, err |-> FALSE]
  <2>1. ASSUME NEW c \in Clients, IterNext(c)
        PROVE  Entries'
    <3>1. PICK e \in BackendPaths :
             iter' = [iter EXCEPT ![c] =
                 IF externalPath(e) = None THEN [@ EXCEPT !.err = TRUE]
                 ELSE [entry |-> e, current |-> externalPath(e), err |-> FALSE]]
      BY Zenon, <2>1 DEF IterNext
    <3>2. CASE externalPath(e) = None
      <4> DEFINE Shown == [entry : AnyPath, current : AnyPath, err : BOOLEAN]
      <4> DEFINE stopped == [iter[c] EXCEPT !.err = TRUE]
      <4>1. iter[c] # None
        BY <2>1 DEF IterNext
      <4>2. iter[c] \in Shown /\ iter \in [Clients -> Shown \cup {None}]
        BY <4>1 DEF Entries
      <4>3. /\ stopped \in Shown
            /\ stopped.current = iter[c].current
            /\ stopped.entry = iter[c].entry
        BY Zenon, <4>2
      <4>4. iter' = [iter EXCEPT ![c] = stopped]
        BY <3>1, <3>2
      <4> HIDE DEF stopped, Shown
      <4>5. iter' \in [Clients -> Shown \cup {None}]
        BY <4>2, <4>3, <4>4
      <4>6. EntriesFound'
        BY <4>1, <4>2, <4>3, <4>4 DEF Entries, EntriesFound
      <4>7. QED
        BY <4>5, <4>6 DEF Entries, Shown
    <3>3. CASE externalPath(e) # None
      <4>1. e \in Seq(Segments)
        BY BackendPathsAreSequences
      <4>2. internal(externalPath(e)) = e
        BY <3>3, <4>1, Found
      <4>3. externalPath(e) \in Seq(Segments)
        BY <3>3, <4>1, DecoratorAssumption DEF externalPath
      <4>4. QED
        BY <3>1, <3>3, <4>1, <4>2, <4>3 DEF Entries, EntriesFound, AnyPath
    <3>4. QED
      BY <3>2, <3>3
  <2>2. ASSUME NEW c \in Clients, NEW start \in {fresh, None},
               iter' = [iter EXCEPT ![c] = start]
        PROVE  Entries'
    <3>1. CASE start = None
      BY <2>2, <3>1 DEF Entries, EntriesFound
    <3>2. CASE start = fresh
      <4>1. start \in [entry : AnyPath, current : AnyPath, err : BOOLEAN]
        BY <3>2 DEF AnyPath
      <4>2. start.current = None
        BY <3>2
      <4>3. QED
        BY <2>2, <4>1, <4>2 DEF Entries, EntriesFound
    <3>3. QED
      BY <3>1, <3>2
  <2>3. CASE UNCHANGED iter
    BY <2>3 DEF Entries, EntriesFound
  <2>4. ASSUME NEW c \in Clients, Collect(c)
        PROVE  Entries'
    BY Zenon, <2>2, <2>4 DEF Collect
  <2>5. ASSUME NEW c \in Clients, IterClose(c)
        PROVE  Entries'
    BY Zenon, <2>2, <2>5 DEF IterClose
  <2>6. QED
    BY <2>1, <2>3, <2>4, <2>5
       DEF Next, Step, Invoke, Cancel, Start, BackendWorks, Digest, Backoff, Tenant, vars
<1>3. QED
  BY <1>1, <1>2, PTL DEF Spec, Entries

-----------------------------------------------------------------------------
(* How often the backend is called.                                        *)

\* The largest number of attempts of c's call, were it not refused.
Reach(c) ==
    IF logical[c].op \in Mutations \/ config.attempts = 0 THEN 1 ELSE config.attempts

\* AttemptsBounded is not inductive: a call about to begin an attempt must have
\* one left, and a mutation must never get to where attempts are repeated.
AnyCall ==
    [pc : {"idle", "start", "backend", "digest", "close", "backoff"}, attempt : Nat,
     ctx : {"live", "cancelled"}]

AttemptsLeft ==
    /\ config \in Options
    /\ logical \in [Clients -> Requests \cup {None}]
    /\ call \in [Clients -> AnyCall]
    /\ \A c \in Clients :
          /\ pc(c) = "idle" => call[c].attempt = 0
          /\ pc(c) # "idle" =>
                /\ call[c].attempt <= Reach(c)
                /\ pc(c) \in {"start", "backoff"} => call[c].attempt < Reach(c)
                /\ logical[c].op \in Mutations =>
                      /\ pc(c) \in {"start", "backend"}
                      /\ config.readOnly => pc(c) = "start"

\* A configuration has its two fields.
LEMMA Configured ==
    ASSUME config \in Options
    PROVE  config.attempts \in Nat /\ config.readOnly \in BOOLEAN /\ config.backoff \in BOOLEAN
  BY DecoratorAssumption

\* Before its first call a decorator has every attempt left (New).
LEMMA InitLeft == Init => AttemptsLeft
  BY DEF Init, AttemptsLeft, AnyCall, NoCall, pc

\* Going back to the loop leaves an attempt, and returning forgets the call.
LEMMA EndedLeft ==
    ASSUME AttemptsLeft, NEW c \in Clients, NEW o, NEW content,
           pc(c) \in {"backend", "digest", "close"}, Ended(c, o, content), config' = config
    PROVE  AttemptsLeft'
<1>1. config.attempts \in Nat
  BY Configured DEF AttemptsLeft
<1>2. CASE Return(c, o, content)
  BY <1>2 DEF AttemptsLeft, AnyCall, Return, NoCall, pc, Reach
<1>3. CASE ~Final(c, o) /\ Again(c) /\ UNCHANGED <<logical, result>>
  <2>1. /\ logical[c].op \notin Mutations
        /\ config.attempts # 0
        /\ call[c].attempt # config.attempts
    BY <1>3 DEF Final
  <2>2. call[c].attempt \in Nat /\ call[c].attempt < config.attempts
    <3>1. call[c].attempt \in Nat
      BY DEF AttemptsLeft, AnyCall
    <3>2. call[c].attempt <= Reach(c)
      BY DEF AttemptsLeft, pc
    <3>3. QED
      BY <1>1, <2>1, <3>1, <3>2 DEF Reach
  <2>3. PICK state \in {"start", "backoff"} : Goto(c, state)
    BY <1>3 DEF Again
  <2>4. QED
    BY SMTT(60), <1>1, <1>3, <2>1, <2>2, <2>3 DEF AttemptsLeft, AnyCall, Goto, Reach, pc
<1>4. QED
  BY <1>2, <1>3 DEF Ended

\* No step of the retry loop takes an attempt beyond the bound (retry).
LEMMA StepLeft == AttemptsLeft /\ [Next]_vars => AttemptsLeft'
<1> SUFFICES ASSUME AttemptsLeft, [Next]_vars
             PROVE  AttemptsLeft'
  OBVIOUS
<1>0. config.attempts \in Nat
  BY Configured DEF AttemptsLeft
<1>1. ASSUME NEW c \in Clients, Invoke(c)
      PROVE  AttemptsLeft'
  <2>1. PICK r \in Requests : logical' = [logical EXCEPT ![c] = r]
    BY Zenon, <1>1 DEF Invoke, Calls
  <2>2. QED
    BY <1>0, <1>1, <2>1 DEF Invoke, Goto, AttemptsLeft, AnyCall, Reach, pc
<1>2. ASSUME NEW c \in Clients, Cancel(c)
      PROVE  AttemptsLeft'
  BY <1>2 DEF Cancel, AttemptsLeft, AnyCall, Reach, pc
<1>3. ASSUME NEW c \in Clients, Start(c)
      PROVE  AttemptsLeft'
  <2>1. CASE Return(c, "error", None)
    BY <1>3, <2>1 DEF Start, AttemptsLeft, AnyCall, Return, NoCall, pc, Reach
  <2>2. CASE /\ ~Rejected(logical[c])
             /\ CallBackend(c)
             /\ UNCHANGED <<logical, result>>
    <3>1. config' = config /\ pc(c) = "start"
      BY <1>3 DEF Start
    <3>2. logical[c].op \in Mutations => ~config.readOnly
      BY <2>2 DEF Rejected
    <3>3. call' = [call EXCEPT ![c].pc = "backend", ![c].attempt = @ + 1]
      BY <2>2 DEF CallBackend
    <3>4. call[c].attempt \in Nat /\ call[c].attempt < Reach(c)
      BY <3>1 DEF AttemptsLeft, AnyCall, pc
    <3>5. QED
      BY <1>0, <2>2, <3>1, <3>2, <3>3, <3>4 DEF AttemptsLeft, AnyCall, Reach, pc
  <2>3. QED
    BY <1>3, <2>1, <2>2 DEF Start
<1>4. ASSUME NEW c \in Clients, Collect(c)
      PROVE  AttemptsLeft'
  <2>1. config' = config /\ pc(c) = "backend"
    BY <1>4 DEF Collect
  <2>2. CASE logical[c].op = "checksum" /\ outcome[c] = "ok"
    <3>1. /\ call' = [call EXCEPT ![c].pc = "digest"]
          /\ UNCHANGED <<logical, result>>
          /\ logical[c].op \notin Mutations
      BY <1>4, <2>2 DEF Collect, Goto, Mutations
    <3>2. QED
      BY ZenonT(60), <1>0, <2>1, <3>1 DEF AttemptsLeft, AnyCall, Reach, pc
  <2>3. CASE ~(logical[c].op = "checksum" /\ outcome[c] = "ok")
    <3>1. Ended(c, outcome[c], answer[c])
      BY <1>4, <2>3 DEF Collect
    <3>2. QED
      BY <2>1, <3>1, EndedLeft
  <2>4. QED
    BY <2>2, <2>3
<1>5. ASSUME NEW c \in Clients, Digest(c)
      PROVE  AttemptsLeft'
  <2>1. config' = config /\ pc(c) \in {"digest", "close"}
    BY <1>5 DEF Digest, Copied, Closed
  <2>2. CASE Copied(c)
    BY ZenonT(60), <1>0, <2>1, <2>2 DEF Copied, Goto, AttemptsLeft, AnyCall, Reach, pc
  <2>3. CASE Closed(c)
    BY <2>1, <2>3, EndedLeft DEF Closed
  <2>4. CASE Ended(c, "error", None)
    BY <2>1, <2>4, EndedLeft
  <2>5. QED
    BY <1>5, <2>2, <2>3, <2>4 DEF Digest
<1>6. ASSUME NEW c \in Clients, Backoff(c)
      PROVE  AttemptsLeft'
  <2>1. CASE Return(c, "error", None)
    BY <1>6, <2>1 DEF Backoff, AttemptsLeft, AnyCall, Return, NoCall, pc, Reach
  <2>2. CASE Goto(c, "start") /\ UNCHANGED <<logical, result>>
    <3>1. config' = config /\ pc(c) = "backoff"
      BY <1>6 DEF Backoff
    <3>2. QED
      BY <1>0, <2>2, <3>1 DEF AttemptsLeft, AnyCall, Goto, pc, Reach
  <2>3. QED
    BY <1>6, <2>1, <2>2 DEF Backoff
<1>7. CASE UNCHANGED <<config, call, logical>>
  BY <1>7 DEF AttemptsLeft, AnyCall, pc, Reach
<1>8. QED
  BY <1>1, <1>2, <1>3, <1>4, <1>5, <1>6, <1>7
     DEF Next, Step, BackendWorks, IterNext, IterClose, Tenant, vars

\* For every bound, policy and classifier: a read-safe call reaches the backend
\* at most Attempts times, a mutation at most once and through a read-only
\* decorator never (retryCall, and the mutations that do not go through it).
THEOREM AttemptsAreBounded == Spec => []AttemptsBounded
<1>1. AttemptsLeft => AttemptsBounded
  <2> SUFFICES ASSUME AttemptsLeft, NEW c \in Clients, pc(c) # "idle"
               PROVE  call[c].attempt <=
                        IF logical[c].op \in Mutations THEN (IF config.readOnly THEN 0 ELSE 1)
                        ELSE IF config.attempts = 0 THEN 1 ELSE config.attempts
    BY DEF AttemptsBounded
  <2>1. config.attempts \in Nat /\ call[c].attempt \in Nat
    BY Configured DEF AttemptsLeft, AnyCall
  <2>2. QED
    BY <2>1 DEF AttemptsLeft, Reach
<1>2. QED
  BY <1>1, InitLeft, StepLeft, PTL DEF Spec

-----------------------------------------------------------------------------
(* Types, streams and isolation.                                           *)

Callers == Clients \cup Tenants

Inside == {internal(p) : p \in Paths}

\* While the backend works for a client, it works beneath the prefix.
Confined ==
    \A c \in Clients : ~Backend!Returned(c) =>
        request[c].path \in Inside /\ request[c].to \in Inside

Carried ==
    /\ call \in [Clients -> Call]
    /\ logical \in [Clients -> Requests \cup {None}]
    /\ \A c \in Clients : logical[c] = None <=> call[c].pc = "idle"
    /\ streams \in [Clients -> Nat]
    /\ StreamsClosed

Told ==
    /\ iter \in [Clients -> Iterator \cup {None}]
    /\ result \in [Clients -> [outcome : Backend!Outcomes, answer : Contents \cup {None}]]

\* No path is both beneath the prefix and a tenant's.
LEMMA Apart == Inside \cap Outside = {}
<1> SUFFICES ASSUME NEW p \in Paths, internal(p) \in Outside
             PROVE  FALSE
  BY DEF Inside
<1>1. p \in Seq(Segments) /\ p # None
  BY DecoratorAssumption
<1>2. externalPath(internal(p)) = p
  BY <1>1, RoundTrip
<1>3. QED
  BY <1>1, <1>2, Outsiders

\* A call the backend works on is a call.
Asked ==
    \A c \in Callers : ~Backend!Returned(c) => request[c] \in Backend!Requests

\* A step of the backend for one caller: its types, and whom it concerns.
LEMMA BackendSteps ==
    ASSUME Backend!TypeOK, Asked, NEW c \in Callers, BackendStep(c)
    PROVE  /\ Backend!TypeOK'
           /\ \A d \in Callers \ {c} : outcome'[d] = outcome[d] /\ request'[d] = request[d]
           /\ ~Backend!Returned(c)' => ~Backend!Returned(c) /\ request'[c] = request[c]
           /\ \A p \in BackendPaths : objects'[p] # objects[p] =>
                 ~Backend!Returned(c) /\ p \in {request[c].path, request[c].to}
<1> USE DEF Backend!TypeOK, Backend!Outcomes, Backend!Returned, Backend!Answer, Callers
<1>1. CASE Backend!NotFound(c) \/ Backend!Exists(c) \/ Backend!Fail(c)
  BY Zenon, <1>1 DEF Backend!NotFound, Backend!Exists, Backend!Fail
<1>2. CASE Backend!Stat(c) \/ Backend!List(c)
  BY <1>2 DEF Backend!Stat, Backend!List, Backend!Pending
<1>3. /\ ~Backend!Returned(c) =>
            /\ request[c].path \in BackendPaths /\ request[c].to \in BackendPaths
            /\ request[c].content \in Contents \cup {None}
      /\ answer[c] \in Contents \cup {None}
  BY DEF Asked, Backend!Requests
<1>4. CASE Backend!Read(c) \/ Backend!CopyLoad(c)
  BY <1>3, <1>4 DEF Backend!Read, Backend!CopyLoad, Backend!Pending
<1>5. ASSUME NEW content \in Contents \cup {None}, ~Backend!Returned(c),
             Backend!Put(c, content), UNCHANGED answer
      PROVE  /\ Backend!TypeOK'
             /\ \A d \in Callers \ {c} : outcome'[d] = outcome[d] /\ request'[d] = request[d]
             /\ Backend!Returned(c)'
             /\ \A p \in BackendPaths : objects'[p] # objects[p] => p = request[c].to
  BY <1>3, <1>5 DEF Backend!Put
<1>6. CASE Backend!Write(c) \/ Backend!Copy(c) \/ Backend!CopyStore(c)
  <2>1. /\ ~Backend!Returned(c) /\ UNCHANGED answer
        /\ \E content \in Contents \cup {None} : Backend!Put(c, content)
    BY <1>3, <1>6 DEF Backend!Write, Backend!Copy, Backend!CopyStore, Backend!Pending
  <2>2. QED
    BY <1>5, <2>1
<1>7. CASE Backend!Delete(c)
  BY <1>3, <1>7 DEF Backend!Delete, Backend!Pending
<1>8. CASE Backend!Move(c)
  BY <1>3, <1>8 DEF Backend!Move, Backend!Pending
<1>9. QED
  BY Zenon, <1>1, <1>2, <1>4, <1>6, <1>7, <1>8 DEF BackendStep

BackendOK == Backend!TypeOK /\ Asked /\ Confined

\* A call of the backend begins: with a path beneath the prefix if it is a
\* client's.
LEMMA BackendInvoked ==
    ASSUME BackendOK, NEW c \in Callers, Backend!Invoke(c),
           c \in Clients => request'[c].path \in Inside /\ request'[c].to \in Inside
    PROVE  BackendOK'
<1>1. /\ outcome' = [outcome EXCEPT ![c] = "pending"]
      /\ answer' = [answer EXCEPT ![c] = None]
      /\ objects' = objects
      /\ request'[c] \in Backend!Requests
      /\ request' = [request EXCEPT ![c] = request'[c]]
  BY DEF Backend!Invoke
<1>2. Backend!TypeOK'
  BY <1>1 DEF BackendOK, Backend!TypeOK, Backend!Outcomes, Callers
<1>3. \A d \in Callers \ {c} : outcome'[d] = outcome[d] /\ request'[d] = request[d]
  BY <1>1 DEF BackendOK, Backend!TypeOK, Callers
<1>4. Asked'
  BY <1>1, <1>3 DEF BackendOK, Asked, Backend!Returned
<1>5. Confined'
  BY <1>1, <1>3 DEF BackendOK, Confined, Backend!Returned, Callers
<1>6. QED
  BY <1>2, <1>4, <1>5 DEF BackendOK

\* Whatever the backend does for one caller, the others' calls stay as they are.
LEMMA BackendWorked ==
    ASSUME BackendOK, NEW c \in Callers, BackendStep(c)
    PROVE  BackendOK'
<1>1. /\ Backend!TypeOK'
      /\ \A d \in Callers \ {c} : outcome'[d] = outcome[d] /\ request'[d] = request[d]
      /\ ~Backend!Returned(c)' => ~Backend!Returned(c) /\ request'[c] = request[c]
  BY BackendSteps DEF BackendOK
<1>2. Asked'
  BY <1>1 DEF BackendOK, Asked, Backend!Returned
<1>3. Confined'
  BY <1>1 DEF BackendOK, Confined, Backend!Returned, Callers
<1>4. QED
  BY <1>1, <1>2, <1>3 DEF BackendOK

\* The decorator calls the backend only through internal, and tenants use it
\* beside the prefix.
LEMMA BackendKept ==
    ASSUME BackendOK, Carried, [Next]_vars
    PROVE  BackendOK'
<1>1. ASSUME NEW c \in Clients, Start(c)
      PROVE  BackendOK'
  <2>1. CASE CallBackend(c)
    <3>1. logical[c] \in Requests /\ c \in Callers
      BY <1>1 DEF Start, Carried, pc, Callers
    <3>2. logical[c].path \in Paths /\ logical[c].to \in Paths
      BY <3>1 DEF Requests
    <3>3. c \in DOMAIN request /\ request' = [request EXCEPT ![c] = BackendRequest(logical[c])]
      BY <2>1, <3>1 DEF CallBackend, BackendOK, Backend!TypeOK, Callers
    <3>4. request'[c].path \in Inside /\ request'[c].to \in Inside
      BY <3>2, <3>3 DEF BackendRequest, Inside
    <3>5. QED
      BY <2>1, <3>1, <3>4, BackendInvoked DEF CallBackend
  <2>2. CASE UNCHANGED backendVars
    BY <2>2 DEF backendVars, BackendOK, Backend!TypeOK, Asked, Confined, Backend!Returned
  <2>3. QED
    BY <1>1, <2>1, <2>2 DEF Start
<1>2. ASSUME NEW c \in Clients, BackendWorks(c)
      PROVE  BackendOK'
  BY <1>2, BackendWorked DEF BackendWorks, Callers
<1>3. ASSUME NEW t \in Tenants, Tenant(t)
      PROVE  BackendOK'
  <2>1. t \in Callers /\ t \notin Clients
    BY DecoratorAssumption DEF Callers
  <2>2. CASE Backend!Invoke(t)
    BY <2>1, <2>2, BackendInvoked
  <2>3. CASE Backend!Write(t)
    BY <2>1, <2>3, BackendWorked DEF BackendStep
  <2>4. QED
    BY <1>3, <2>2, <2>3 DEF Tenant
<1>4. CASE UNCHANGED backendVars
  BY <1>4 DEF backendVars, BackendOK, Backend!TypeOK, Asked, Confined, Backend!Returned
<1>5. QED
  BY ZenonT(60), <1>1, <1>2, <1>3, <1>4
     DEF Next, Step, Invoke, Cancel, Collect, Digest, Backoff, IterNext, IterClose, vars

\* The bound on attempts is the type of the counter.
LEMMA Counts == AttemptsLeft => call \in [Clients -> Call]
<1> SUFFICES ASSUME AttemptsLeft, NEW c \in Clients
             PROVE  call[c] \in Call
  BY DEF AttemptsLeft
<1>1. config.attempts \in 0..Attempts /\ Attempts \in Nat
  BY DecoratorAssumption DEF AttemptsLeft
<1>2. call[c] \in AnyCall /\ call[c].attempt \in Nat
  BY DEF AttemptsLeft, AnyCall
<1>3. call[c].attempt <= IF Attempts = 0 THEN 1 ELSE Attempts
  BY <1>1, <1>2 DEF AttemptsLeft, Reach
<1>4. call[c].attempt \in 0..(IF Attempts = 0 THEN 1 ELSE Attempts)
  BY <1>1, <1>2, <1>3
<1>5. QED
  BY <1>2, <1>4 DEF AnyCall, Call

\* A call that goes on keeps its request, and one that returns has closed the
\* stream of its checksum.
LEMMA CarriedKept ==
    ASSUME Carried, AttemptsLeft', [Next]_vars
    PROVE  Carried'
<1> DEFINE Match == \A c \in Clients : logical[c] = None <=> call[c].pc = "idle"
           Streams == streams \in [Clients -> Nat] /\ StreamsClosed
           Open(c) == IF pc(c) \in {"digest", "close"} THEN 1 ELSE 0
<1>0. /\ call' \in [Clients -> Call]
      /\ logical' \in [Clients -> Requests \cup {None}]
  <2>1. (AttemptsLeft => call \in [Clients -> Call])'
    BY Counts, PTL
  <2>2. QED
    BY <2>1 DEF AttemptsLeft
<1> SUFFICES Match' /\ Streams'
  BY <1>0 DEF Carried
<1>1. ASSUME NEW c \in Clients, NEW o, NEW content, Return(c, o, content)
      PROVE  Match' /\ pc(c)' = "idle" /\ \A d \in Clients : d # c => call'[d] = call[d]
  BY <1>1 DEF Carried, Return, NoCall, pc
<1>2. ASSUME NEW c \in Clients, NEW state \in {"start", "backoff", "digest", "close"},
             Goto(c, state), pc(c) # "idle", UNCHANGED logical
      PROVE  Match' /\ pc(c)' = state /\ \A d \in Clients : d # c => call'[d] = call[d]
  BY <1>2 DEF Carried, Goto, Call, pc
<1>3. ASSUME NEW c \in Clients, NEW o, NEW content, Ended(c, o, content), pc(c) # "idle"
      PROVE  /\ Match' /\ pc(c)' \notin {"digest", "close"}
             /\ \A d \in Clients : d # c => call'[d] = call[d]
  BY <1>1, <1>2, <1>3 DEF Ended, Again
<1>4. ASSUME NEW c \in Clients, \A d \in Clients : d # c => call'[d] = call[d],
             NEW n \in Nat, streams' = [streams EXCEPT ![c] = n], n = Open(c)'
      PROVE  Streams'
  BY <1>4 DEF Carried, StreamsClosed, pc
<1>5. ASSUME NEW c \in Clients, \A d \in Clients : d # c => call'[d] = call[d],
             UNCHANGED streams, Open(c)' = Open(c)
      PROVE  Streams'
  BY Zenon, <1>5 DEF Carried, StreamsClosed, pc
<1>6. ASSUME NEW c \in Clients, Invoke(c)
      PROVE  Match' /\ Streams'
  <2>1. PICK r \in Requests : logical' = [logical EXCEPT ![c] = r]
    BY Zenon, <1>6 DEF Invoke, Calls
  <2>2. r # None
    BY RequestsAssumption
  <2>3. Match' /\ pc(c)' = "start" /\ \A d \in Clients : d # c => call'[d] = call[d]
    BY <1>6, <2>1, <2>2 DEF Invoke, Carried, Goto, Call, pc
  <2>4. QED
    BY <1>5, <1>6, <2>3 DEF Invoke
<1>7. ASSUME NEW c \in Clients, Cancel(c)
      PROVE  Match' /\ Streams'
  <2>1. Match' /\ pc(c)' = pc(c) /\ \A d \in Clients : d # c => call'[d] = call[d]
    BY <1>7 DEF Cancel, Carried, Call, pc
  <2>2. QED
    BY <1>5, <1>7, <2>1 DEF Cancel
<1>8. ASSUME NEW c \in Clients, Start(c)
      PROVE  Match' /\ Streams'
  <2>1. UNCHANGED streams /\ pc(c) = "start"
    BY <1>8 DEF Start
  <2>2. CASE CallBackend(c) /\ UNCHANGED logical
    <3>1. Match' /\ pc(c)' = "backend" /\ \A d \in Clients : d # c => call'[d] = call[d]
      BY <2>1, <2>2 DEF CallBackend, Carried, Call, pc
    <3>2. QED
      BY <1>5, <2>1, <3>1
  <2>3. CASE Return(c, "error", None)
    BY <1>1, <1>5, <2>1, <2>3
  <2>4. QED
    BY <1>8, <2>2, <2>3 DEF Start
<1>9. ASSUME NEW c \in Clients, Collect(c)
      PROVE  Match' /\ Streams'
  <2>1. pc(c) = "backend" /\ streams[c] = 0
    BY <1>9 DEF Collect, Carried, StreamsClosed
  <2>2. CASE /\ Goto(c, "digest") /\ UNCHANGED logical
             /\ streams' = [streams EXCEPT ![c] = @ + 1]
    <3>1. Match' /\ pc(c)' = "digest" /\ \A d \in Clients : d # c => call'[d] = call[d]
      BY <1>2, <2>1, <2>2
    <3>2. streams' = [streams EXCEPT ![c] = 1]
      BY <2>1, <2>2
    <3>3. QED
      BY <1>4, <3>1, <3>2
  <2>3. CASE Ended(c, outcome[c], answer[c]) /\ UNCHANGED streams
    <3>1. PICK o, x : o = outcome[c] /\ x = answer[c]
      OBVIOUS
    <3>2. /\ Match' /\ pc(c)' \notin {"digest", "close"}
          /\ \A d \in Clients : d # c => call'[d] = call[d]
      BY <1>3, <2>1, <2>3, <3>1
    <3>3. QED
      BY <1>5, <2>1, <2>3, <3>2
  <2>4. QED
    BY <1>9, <2>2, <2>3 DEF Collect
<1>10. ASSUME NEW c \in Clients, Digest(c)
       PROVE  Match' /\ Streams'
  <2>1. pc(c) \in {"digest", "close"} /\ streams[c] = 1
    BY <1>10 DEF Digest, Copied, Closed, Carried, StreamsClosed
  <2>2. CASE Copied(c)
    <3>1. Match' /\ pc(c)' = "close" /\ \A d \in Clients : d # c => call'[d] = call[d]
      BY <1>2, <2>1, <2>2 DEF Copied
    <3>2. QED
      BY <1>5, <2>1, <2>2, <3>1 DEF Copied
  <2>3. ASSUME NEW o, NEW x, Ended(c, o, x), CloseStream(c)
        PROVE  Match' /\ Streams'
    <3>1. /\ Match' /\ pc(c)' \notin {"digest", "close"}
          /\ \A d \in Clients : d # c => call'[d] = call[d]
      BY <1>3, <2>1, <2>3
    <3>2. streams' = [streams EXCEPT ![c] = 0]
      BY <2>1, <2>3 DEF CloseStream
    <3>3. QED
      BY <1>4, <3>1, <3>2
  <2>4. QED
    BY Zenon, <1>10, <2>2, <2>3 DEF Digest, Closed
<1>11. ASSUME NEW c \in Clients, Backoff(c)
       PROVE  Match' /\ Streams'
  <2>1. UNCHANGED streams /\ pc(c) = "backoff"
    BY <1>11 DEF Backoff
  <2>2. /\ Match' /\ pc(c)' \in {"idle", "start"}
        /\ \A d \in Clients : d # c => call'[d] = call[d]
    BY <1>1, <1>2, <1>11, <2>1 DEF Backoff
  <2>3. QED
    BY <1>5, <2>1, <2>2
<1>12. CASE UNCHANGED <<call, logical, streams>>
  BY Zenon, <1>12 DEF Carried, StreamsClosed, pc
<1>13. QED
  BY <1>6, <1>7, <1>8, <1>9, <1>10, <1>11, <1>12
     DEF Next, Step, BackendWorks, IterNext, IterClose, Tenant, vars

\* What an entry of the backend is to a client: a logical path, or nothing.
LEMMA Externals ==
    ASSUME NEW e \in BackendPaths
    PROVE  externalPath(e) \in Paths \cup {None}
<1>1. CASE e \in Outside
  BY <1>1, Outsiders
<1>2. ASSUME NEW p \in Paths, e = internal(p)
      PROVE  externalPath(e) \in Paths
  <2>1. p \in Seq(Segments)
    BY DecoratorAssumption
  <2>2. QED
    BY <1>2, <2>1, RoundTrip
<1>3. QED
  BY <1>1, <1>2 DEF BackendPaths

\* Answers and iterators have their types.
LEMMA ToldKept ==
    ASSUME Told, Backend!TypeOK, [Next]_vars
    PROVE  Told'
<1> DEFINE Results == [outcome : Backend!Outcomes, answer : Contents \cup {None}]
<1> USE DEF Told
<1>1. ASSUME NEW c \in Clients, NEW o \in Backend!Outcomes, NEW content \in Contents \cup {None},
             Return(c, o, content)
      PROVE  result' \in [Clients -> Results]
  BY <1>1 DEF Return
<1>2. ASSUME NEW c \in Clients, NEW o \in Backend!Outcomes, NEW content \in Contents \cup {None},
             Ended(c, o, content)
      PROVE  result' \in [Clients -> Results]
  BY <1>1, <1>2 DEF Ended
<1>3. ASSUME NEW c \in Clients
      PROVE  outcome[c] \in Backend!Outcomes /\ answer[c] \in Contents \cup {None}
  BY DEF Backend!TypeOK
<1>4. {"ok", "error", "idle"} \subseteq Backend!Outcomes
  BY DEF Backend!Outcomes
<1>5. result' \in [Clients -> Results]
  <2>1. ASSUME NEW c \in Clients, Invoke(c)
        PROVE  result' \in [Clients -> Results]
    <3>1. NoResult \in Results
      BY <1>4 DEF NoResult
    <3>2. QED
      BY Zenon, <2>1, <3>1 DEF Invoke
  <2>2. ASSUME NEW c \in Clients, Start(c)
        PROVE  result' \in [Clients -> Results]
    BY <1>1, <1>4, <2>2 DEF Start
  <2>3. ASSUME NEW c \in Clients, Collect(c)
        PROVE  result' \in [Clients -> Results]
    BY <1>2, <1>3, <2>3 DEF Collect
  <2>4. ASSUME NEW c \in Clients, Digest(c)
        PROVE  result' \in [Clients -> Results]
    BY <1>2, <1>3, <1>4, <2>4 DEF Digest, Copied, Closed
  <2>5. ASSUME NEW c \in Clients, Backoff(c)
        PROVE  result' \in [Clients -> Results]
    BY <1>1, <1>4, <2>5 DEF Backoff
  <2>6. CASE UNCHANGED result
    BY <2>6
  <2>7. QED
    BY <2>1, <2>2, <2>3, <2>4, <2>5, <2>6
       DEF Next, Step, Cancel, BackendWorks, IterNext, IterClose, Tenant, vars
<1>6. iter' \in [Clients -> Iterator \cup {None}]
  <2>1. ASSUME NEW c \in Clients, NEW i \in Iterator \cup {None}, iter' = [iter EXCEPT ![c] = i]
        PROVE  iter' \in [Clients -> Iterator \cup {None}]
    BY <2>1
  <2>2. ASSUME NEW c \in Clients, IterNext(c)
        PROVE  iter' \in [Clients -> Iterator \cup {None}]
    <3>1. PICK e \in BackendPaths :
             iter' = [iter EXCEPT ![c] =
                 IF externalPath(e) = None THEN [@ EXCEPT !.err = TRUE]
                 ELSE [entry |-> e, current |-> externalPath(e), err |-> FALSE]]
      BY Zenon, <2>2 DEF IterNext
    <3>2. iter[c] \in Iterator
      BY <2>2 DEF IterNext
    <3>3. [iter[c] EXCEPT !.err = TRUE] \in Iterator
      BY Zenon, <3>2 DEF Iterator
    <3>4. [entry |-> e, current |-> externalPath(e), err |-> FALSE] \in Iterator
      BY Externals DEF Iterator
    <3>5. QED
      BY <3>1, <3>3, <3>4
  <2>3. ASSUME NEW c \in Clients, Collect(c)
        PROVE  iter' \in [Clients -> Iterator \cup {None}]
    <3>1. [entry |-> None, current |-> None, err |-> FALSE] \in Iterator
      BY DEF Iterator
    <3>2. QED
      BY <2>3, <3>1 DEF Collect
  <2>4. ASSUME NEW c \in Clients, IterClose(c)
        PROVE  iter' \in [Clients -> Iterator \cup {None}]
    BY <2>4 DEF IterClose
  <2>5. CASE UNCHANGED iter
    BY <2>5
  <2>6. QED
    BY <2>2, <2>3, <2>4, <2>5
       DEF Next, Step, Invoke, Cancel, Start, BackendWorks, Digest, Backoff, Tenant, vars
<1>7. QED
  BY <1>5, <1>6

\* All of it together.
Whole ==
    /\ BackendOK
    /\ Carried
    /\ Told
    /\ AttemptsLeft
    /\ workload \in Workloads

\* The invariant holds throughout.
LEMMA WholeHolds == Spec => []Whole
<1>1. Init => Whole
  <2> SUFFICES ASSUME Init PROVE Whole
    OBVIOUS
  <2>1. BackendOK
    BY DEF Init, BackendOK, Asked, Confined, Backend!Init, Backend!TypeOK, Backend!Outcomes,
           Backend!Returned, Callers
  <2>2. AttemptsLeft /\ call \in [Clients -> Call]
    BY InitLeft, Counts
  <2>3. Carried
    BY <2>2 DEF Init, Carried, StreamsClosed, NoCall, pc
  <2>4. NoResult \in [outcome : Backend!Outcomes, answer : Contents \cup {None}]
    BY DEF NoResult, Backend!Outcomes
  <2>5. Told
    BY <2>4 DEF Init, Told
  <2>6. QED
    BY <2>1, <2>2, <2>3, <2>5 DEF Init, Whole
<1>2. Whole /\ [Next]_vars => Whole'
  <2> SUFFICES ASSUME Whole, [Next]_vars PROVE Whole'
    OBVIOUS
  <2>1. AttemptsLeft'
    BY StepLeft DEF Whole
  <2>2. BackendOK' /\ Carried' /\ Told'
    BY <2>1, BackendKept, CarriedKept, ToldKept DEF Whole, BackendOK
  <2>3. workload' = workload
    BY DEF Next, vars
  <2>4. QED
    BY <2>1, <2>2, <2>3 DEF Whole
<1>3. QED
  BY <1>1, <1>2, PTL DEF Spec

\* However often a backend fails and calls are cancelled, a read-safe call makes
\* a bounded number of attempts, a mutation one, and a checksum leaves no stream
\* open (retryCall, Checksum).
THEOREM CallsAreBounded == Spec => []CallInvariant
<1>1. Whole => TypeOK
  BY DEF Whole, BackendOK, Carried, Told, AttemptsLeft, TypeOK
<1>2. Whole => StreamsClosed
  BY DEF Whole, Carried
<1>3. QED
  BY <1>1, <1>2, WholeHolds, AttemptsAreBounded, PTL DEF CallInvariant

-----------------------------------------------------------------------------
(* Refinement of the contract.                                             *)

\* What the backend has of a decorated call: nothing before and after its
\* attempt, during it the call seen through the prefix, and no content of a read
\* that did not succeed.
LinkOK(c) ==
    /\ pc(c) # "backend" => outcome[c] \notin {"pending", "loaded"}
    /\ pc(c) = "idle" => result[c].outcome \notin {"pending", "loaded"}
    /\ pc(c) = "backend" =>
          /\ outcome[c] \in {"pending", "loaded"} => request[c] = BackendRequest(logical[c])
          /\ outcome[c] = "loaded" => logical[c].op = "copy"
          /\ logical[c].op \notin Mutations =>
                outcome[c] # "loaded" /\ (outcome[c] # "ok" => answer[c] = None)

Linked == \A c \in Clients : LinkOK(c)

\* The calls of others stay as they are, ...
CallsApart(c) ==
    \A d \in Clients : d # c =>
        call'[d] = call[d] /\ logical'[d] = logical[d] /\ result'[d] = result[d]

\* ... and what the backend has of them.
Own(c) ==
    /\ config' = config
    /\ CallsApart(c)
    /\ \A d \in Clients : d # c =>
          outcome'[d] = outcome[d] /\ request'[d] = request[d] /\ answer'[d] = answer[d]

\* What the backend does for one caller leaves the answers of the others.
LEMMA BackendOwn ==
    ASSUME Whole, NEW c \in Callers, BackendStep(c) \/ Backend!Invoke(c)
    PROVE  \A d \in Callers : d # c =>
              outcome'[d] = outcome[d] /\ request'[d] = request[d] /\ answer'[d] = answer[d]
<1>1. Backend!TypeOK
  BY DEF Whole, BackendOK
<1>2. CASE Backend!Invoke(c)
  BY Zenon, <1>1, <1>2 DEF Backend!Invoke, Backend!TypeOK, Callers
<1>3. CASE BackendStep(c)
  <2>1. \A d \in Callers \ {c} : outcome'[d] = outcome[d] /\ request'[d] = request[d]
    BY <1>3, BackendSteps DEF Whole, BackendOK
  <2>2. \A d \in Callers : d # c => answer'[d] = answer[d]
    BY Zenon, <1>1, <1>3
       DEF BackendStep, Backend!NotFound, Backend!Exists, Backend!Fail, Backend!Read,
       Backend!Stat, Backend!List, Backend!Write, Backend!Delete, Backend!Move, Backend!Copy,
       Backend!CopyLoad, Backend!CopyStore, Backend!TypeOK, Callers
  <2>3. QED
    BY Zenon, <2>1, <2>2
<1>4. QED
  BY <1>2, <1>3

\* A call that returns, or goes on, is one call.
LEMMA CallsOwn ==
    ASSUME Whole, NEW c \in Clients
    PROVE  /\ \A o, x : Return(c, o, x) => CallsApart(c)
           /\ \A o, x : Ended(c, o, x) => CallsApart(c)
           /\ Invoke(c) \/ Cancel(c) \/ Step(c) \/ IterNext(c) \/ IterClose(c) => CallsApart(c)
<1>1. /\ call \in [Clients -> Call] /\ logical \in [Clients -> Requests \cup {None}]
      /\ result \in [Clients -> [outcome : Backend!Outcomes, answer : Contents \cup {None}]]
  BY DEF Whole, Carried, Told
<1>2. ASSUME NEW o, NEW x, Return(c, o, x) PROVE CallsApart(c)
  BY <1>1, <1>2 DEF Return, CallsApart
<1>3. ASSUME NEW o, NEW x, Ended(c, o, x) PROVE CallsApart(c)
  BY <1>1, <1>2, <1>3 DEF Ended, Again, Goto, CallsApart
<1>4. CASE Invoke(c) \/ Cancel(c) \/ IterNext(c) \/ IterClose(c) \/ BackendWorks(c)
  BY <1>1, <1>4 DEF Invoke, Cancel, IterNext, IterClose, BackendWorks, Goto, CallsApart
<1>5. CASE Start(c) \/ Backoff(c)
  BY <1>1, <1>2, <1>5 DEF Start, Backoff, CallBackend, Goto, CallsApart
<1>6. CASE Collect(c) \/ Digest(c)
  BY <1>1, <1>3, <1>6 DEF Collect, Digest, Copied, Closed, Goto, CallsApart
<1>7. QED
  BY <1>2, <1>3, <1>4, <1>5, <1>6 DEF Step

\* Every step of a client is its own.
LEMMA ClientsOwn ==
    ASSUME Whole, NEW c \in Clients,
           Invoke(c) \/ Cancel(c) \/ Step(c) \/ IterNext(c) \/ IterClose(c)
    PROVE  Own(c)
<1>1. c \in Callers /\ Clients \subseteq Callers /\ CallsApart(c)
  BY CallsOwn DEF Callers
<1>2. config' = config
  BY DEF Invoke, Cancel, Step, Start, BackendWorks, Collect, Digest, Backoff, IterNext,
     IterClose
<1>3. UNCHANGED backendVars \/ BackendStep(c) \/ Backend!Invoke(c)
  BY DEF Invoke, Cancel, Step, Start, CallBackend, BackendWorks, Collect, Digest, Backoff,
     IterNext, IterClose
<1>4. QED
  BY Zenon, <1>1, <1>2, <1>3, BackendOwn DEF Own, backendVars

\* A step of one client leaves the links of the others.
LEMMA LinksKept ==
    ASSUME Whole, Linked, NEW c \in Clients, Own(c), LinkOK(c)'
    PROVE  Linked'
<1> SUFFICES ASSUME NEW d \in Clients, d # c PROVE LinkOK(d)'
  BY DEF Linked
<1>1. LinkOK(d)
  BY DEF Linked
<1>2. QED
  BY Zenon, <1>1 DEF Own, CallsApart, LinkOK, pc

\* A returned call has no call of the backend left.
LEMMA ReturnLinks ==
    ASSUME Whole, Linked, NEW c \in Clients, UNCHANGED backendVars,
           outcome[c] \notin {"pending", "loaded"},
           NEW o, NEW x, o \notin {"pending", "loaded"},
           Return(c, o, x) \/ (Ended(c, o, x) /\ pc(c) # "idle")
    PROVE  LinkOK(c)'
<1>1. /\ call \in [Clients -> Call]
      /\ result \in [Clients -> [outcome : Backend!Outcomes, answer : Contents \cup {None}]]
  BY DEF Whole, Carried, Told
<1>2. CASE Return(c, o, x)
  <2>1. call'[c] = NoCall /\ result'[c] = [outcome |-> o, answer |-> x]
    BY <1>1, <1>2 DEF Return
  <2>2. call'[c].pc = "idle" /\ result'[c].outcome = o
    BY SMTT(60), <2>1 DEF NoCall
  <2>3. QED
    BY <2>2 DEF LinkOK, pc, backendVars
<1>3. CASE Again(c) /\ pc(c) # "idle"
  <2>1. call'[c].pc \in {"backoff", "start"}
    BY <1>1, <1>3 DEF Again, Goto, Call
  <2>2. QED
    BY Zenon, <2>1 DEF LinkOK, pc, backendVars
<1>4. QED
  BY <1>2, <1>3 DEF Ended

\* The operation the backend is asked for.
LEMMA AskedFor ==
    ASSUME Whole, Linked, NEW c \in Clients, pc(c) = "backend",
           outcome[c] \in {"pending", "loaded"}
    PROVE  /\ logical[c] \in Requests /\ logical[c].path \in Paths /\ logical[c].to \in Paths
           /\ request[c] = BackendRequest(logical[c])
           /\ request[c].op = (IF logical[c].op = "checksum" THEN "read" ELSE logical[c].op)
           /\ request[c].path = internal(logical[c].path)
           /\ request[c].to = internal(logical[c].to)
           /\ request[c].content = logical[c].content /\ request[c].replace = logical[c].replace
<1>1. logical[c] \in Requests
  BY DEF Whole, Carried, pc
<1>2. request[c] = BackendRequest(logical[c])
  BY DEF Linked, LinkOK
<1>3. QED
  <2>1. logical[c].path \in Paths /\ logical[c].to \in Paths
    BY Zenon, <1>1 DEF Requests
  <2>2. ASSUME NEW r
        PROVE  /\ BackendRequest(r).op = (IF r.op = "checksum" THEN "read" ELSE r.op)
               /\ BackendRequest(r).path = internal(r.path)
               /\ BackendRequest(r).to = internal(r.to)
               /\ BackendRequest(r).content = r.content /\ BackendRequest(r).replace = r.replace
    BY DEF BackendRequest
  <2>3. QED
    BY Zenon, <1>1, <1>2, <2>1, <2>2

\* What the backend does for a call keeps the link.
LEMMA BackendLinks ==
    ASSUME Whole, Linked, NEW c \in Clients, BackendWorks(c)
    PROVE  LinkOK(c)'
<1>1. pc(c) = "backend" /\ BackendStep(c) /\ UNCHANGED <<call, logical, result>>
  BY DEF BackendWorks
<1>2. c \in Callers /\ Backend!TypeOK /\ Asked
  BY DEF Callers, Whole, BackendOK
<1>3. ~Backend!Returned(c)' => ~Backend!Returned(c) /\ request'[c] = request[c]
  BY Zenon, <1>1, <1>2, BackendSteps
<1>4. outcome'[c] \in {"pending", "loaded"} => request'[c] = BackendRequest(logical[c])
  BY Zenon, <1>1, <1>3 DEF Backend!Returned, Linked, LinkOK
<1>5. ASSUME logical[c].op \notin Mutations
      PROVE  outcome'[c] # "loaded" /\ (outcome'[c] # "ok" => answer'[c] = None)
  <2>1. outcome[c] # "loaded" /\ (outcome[c] # "ok" => answer[c] = None) /\ outcome[c] # "ok"
    BY Zenon, <1>1, <1>5 DEF Linked, LinkOK, BackendWorks
  <2>2. outcome[c] = "pending"
    BY Zenon, <1>1, <2>1
       DEF BackendStep, Backend!NotFound, Backend!Exists, Backend!Fail, Backend!Read,
       Backend!Stat, Backend!List, Backend!Write, Backend!Delete, Backend!Move, Backend!Copy,
       Backend!CopyLoad, Backend!CopyStore, Backend!Pending
  <2>3. request[c].op \in {"read", "stat", "list"}
    <3>1. logical[c].op \in Operations
      BY Zenon, <1>1, <2>2, AskedFor DEF Requests
    <3>2. logical[c].op \in {"read", "stat", "list", "checksum"}
      BY <1>5, <3>1 DEF Operations, Mutations
    <3>3. QED
      BY Zenon, <1>1, <2>2, <3>2, AskedFor
  <2>4. \/ Backend!NotFound(c) \/ Backend!Fail(c) \/ Backend!Read(c) \/ Backend!Stat(c)
        \/ Backend!List(c)
    BY Zenon, <1>1, <2>2, <2>3 DEF BackendStep, Backend!Exists, Backend!Write, Backend!Delete,
       Backend!Move, Backend!Copy, Backend!CopyLoad, Backend!CopyStore, Backend!Pending
  <2>5. QED
    BY <1>2, <2>1, <2>4 DEF Backend!NotFound, Backend!Fail, Backend!Read, Backend!Stat,
       Backend!List, Backend!Answer, Backend!TypeOK, Callers
<1>6. outcome'[c] = "loaded" => logical[c].op = "copy"
  <2> SUFFICES ASSUME outcome'[c] = "loaded" PROVE logical[c].op = "copy"
    OBVIOUS
  <2>1. ASSUME NEW o, Backend!Answer(c, o) PROVE outcome'[c] = o
    BY <1>2, <2>1 DEF Backend!Answer, Backend!TypeOK, Callers
  <2>2. Backend!CopyLoad(c)
    BY Zenon, <1>1, <2>1
       DEF BackendStep, Backend!NotFound, Backend!Exists, Backend!Fail, Backend!Read,
       Backend!Stat, Backend!List, Backend!Write, Backend!Delete, Backend!Move, Backend!Copy,
       Backend!CopyStore, Backend!Put
  <2>3. outcome[c] = "pending" /\ request[c].op = "copy"
    BY <2>2 DEF Backend!CopyLoad, Backend!Pending
  <2>4. request[c].op = (IF logical[c].op = "checksum" THEN "read" ELSE logical[c].op)
    BY Zenon, <1>1, <2>3, AskedFor
  <2>5. QED
    BY <2>3, <2>4
<1>7. QED
  BY <1>1, <1>4, <1>5, <1>6 DEF LinkOK, pc

\* Every step keeps the links.
LEMMA LinkedKept ==
    ASSUME Whole, Linked, [Next]_vars
    PROVE  Linked'
<1>1. /\ call \in [Clients -> Call] /\ logical \in [Clients -> Requests \cup {None}]
      /\ Backend!TypeOK
  BY DEF Whole, Carried, BackendOK
<1>2. ASSUME NEW c \in Clients, Invoke(c) \/ Cancel(c) PROVE LinkOK(c)'
  <2>1. LinkOK(c) /\ call[c] \in Call /\ UNCHANGED backendVars
    BY <1>1, <1>2 DEF Linked, Invoke, Cancel
  <2>2. CASE Invoke(c)
    <3>1. call'[c].pc = "start" /\ pc(c) = "idle"
      BY <1>1, <2>2 DEF Invoke, Goto, Call
    <3>2. QED
      BY Zenon, <2>1, <3>1 DEF LinkOK, pc, backendVars
  <2>3. CASE Cancel(c)
    <3>1. call'[c].pc = call[c].pc /\ UNCHANGED <<logical, result>>
      BY <1>1, <2>3 DEF Cancel, Call
    <3>2. QED
      BY Zenon, <2>1, <3>1 DEF LinkOK, pc, backendVars
  <2>4. QED
    BY <1>2, <2>2, <2>3
<1>3. ASSUME NEW c \in Clients, Start(c) PROVE LinkOK(c)'
  <2>1. LinkOK(c) /\ pc(c) = "start" /\ outcome[c] \notin {"pending", "loaded"}
    BY Zenon, <1>3 DEF Linked, LinkOK, Start
  <2>2. CASE Return(c, "error", None) /\ UNCHANGED backendVars
    BY SMTT(60), <2>1, <2>2, ReturnLinks
  <2>3. CASE CallBackend(c) /\ UNCHANGED logical
    <3>1. /\ request' = [request EXCEPT ![c] = BackendRequest(logical[c])]
          /\ outcome' = [outcome EXCEPT ![c] = "pending"]
          /\ answer' = [answer EXCEPT ![c] = None]
          /\ call' = [call EXCEPT ![c].pc = "backend", ![c].attempt = @ + 1]
      BY <2>3 DEF CallBackend, Backend!Invoke
    <3>2. /\ request'[c] = BackendRequest(logical[c]) /\ outcome'[c] = "pending"
          /\ answer'[c] = None /\ call'[c].pc = "backend"
      BY <1>1, <3>1 DEF Backend!TypeOK, Call
    <3>3. QED
      BY Zenon, <2>3, <3>2 DEF LinkOK, pc
  <2>4. QED
    BY SMTT(60), <1>3, <2>2, <2>3 DEF Start
<1>4. ASSUME NEW c \in Clients, Collect(c) PROVE LinkOK(c)'
  <2>1. UNCHANGED backendVars /\ pc(c) = "backend" /\ outcome[c] \notin {"pending", "loaded"}
    BY SMTT(60), <1>4 DEF Collect, Backend!Returned
  <2>2. CASE Goto(c, "digest")
    <3>1. call'[c].pc = "digest"
      BY <1>1, <2>2 DEF Goto, Call
    <3>2. QED
      BY Zenon, <2>1, <3>1 DEF LinkOK, pc, backendVars
  <2>3. CASE Ended(c, outcome[c], answer[c])
    <3>1. PICK o, x : o = outcome[c] /\ x = answer[c]
      OBVIOUS
    <3>2. Ended(c, o, x) /\ o \notin {"pending", "loaded"}
      BY <2>1, <2>3, <3>1
    <3>3. QED
      BY SMTT(60), <2>1, <3>2, ReturnLinks
  <2>4. QED
    BY <1>4, <2>2, <2>3 DEF Collect
<1>5. ASSUME NEW c \in Clients, Digest(c) PROVE LinkOK(c)'
  <2>1. /\ UNCHANGED backendVars /\ pc(c) \in {"digest", "close"} /\ LinkOK(c)
        /\ outcome[c] \notin {"pending", "loaded"}
    BY <1>5 DEF Digest, Copied, Closed, Linked, LinkOK
  <2>2. CASE Copied(c)
    <3>1. call'[c].pc = "close"
      BY <1>1, <2>2 DEF Copied, Goto, Call
    <3>2. QED
      BY Zenon, <2>1, <3>1 DEF LinkOK, pc, backendVars
  <2>3. ASSUME NEW o \in {"ok", "error"}, NEW x, Ended(c, o, x) PROVE LinkOK(c)'
    BY Zenon, <2>1, <2>3, ReturnLinks
  <2>4. QED
    BY Zenon, <1>5, <2>2, <2>3 DEF Digest, Closed
<1>6. ASSUME NEW c \in Clients, Backoff(c) PROVE LinkOK(c)'
  <2>1. UNCHANGED backendVars /\ LinkOK(c) /\ outcome[c] \notin {"pending", "loaded"}
    BY Zenon, <1>6 DEF Backoff, Linked, LinkOK
  <2>2. CASE Return(c, "error", None)
    BY SMTT(60), <2>1, <2>2, ReturnLinks
  <2>3. CASE Goto(c, "start")
    <3>1. call'[c].pc = "start"
      BY <1>1, <2>3 DEF Goto, Call
    <3>2. QED
      BY Zenon, <2>1, <3>1 DEF LinkOK, pc, backendVars
  <2>4. QED
    BY SMTT(60), <1>6, <2>2, <2>3 DEF Backoff
<1>7. ASSUME NEW c \in Clients, Invoke(c) \/ Cancel(c) \/ Step(c) PROVE Linked'
  <2>1. LinkOK(c)'
    BY <1>2, <1>3, <1>4, <1>5, <1>6, <1>7, BackendLinks DEF Step
  <2>2. QED
    BY <1>7, <2>1, ClientsOwn, LinksKept
<1>8. CASE UNCHANGED <<backendVars, call, logical, result>>
  BY Zenon, <1>8 DEF backendVars, Linked, LinkOK, pc
<1>9. ASSUME NEW t \in Tenants, Tenant(t) PROVE Linked'
  <2>1. /\ t \in Callers /\ t \notin Clients /\ Clients \subseteq Callers
        /\ BackendStep(t) \/ Backend!Invoke(t)
    BY Zenon, <1>9, DecoratorAssumption DEF Callers, Tenant, BackendStep
  <2>2. \A d \in Clients :
           outcome'[d] = outcome[d] /\ request'[d] = request[d] /\ answer'[d] = answer[d]
    BY Zenon, <2>1, BackendOwn
  <2>3. UNCHANGED <<call, logical, result>>
    BY Zenon, <1>9 DEF Tenant
  <2>4. QED
    BY Zenon, <2>2, <2>3 DEF Linked, LinkOK, pc
<1>10. QED
  BY <1>7, <1>8, <1>9 DEF Next, IterNext, IterClose, vars

\* The links hold throughout.
LEMMA LinkedHolds == Spec => []Linked
<1>1. Init => Linked
  <2> SUFFICES ASSUME Init, NEW c \in Clients PROVE LinkOK(c)
    BY ZenonT(60) DEF Linked
  <2>1. call[c] = NoCall /\ result[c] = NoResult /\ outcome[c] = "idle"
    BY DEF Init, Backend!Init
  <2>2. pc(c) = "idle" /\ result[c].outcome = "idle"
    <3>1. NoCall.pc = "idle" /\ NoResult.outcome = "idle"
      BY Zenon DEF NoCall, NoResult
    <3>2. QED
      BY Zenon, <2>1, <3>1 DEF pc
  <2>3. QED
    BY Zenon, <2>1, <2>2 DEF LinkOK
<1>2. Whole /\ Linked /\ [Next]_vars => Linked'
  BY SMTT(60), LinkedKept
<1>3. QED
  BY <1>1, <1>2, WholeHolds, PTL DEF Spec

\* The mapping of Contract.
Seen == [p \in Paths |-> objects[internal(p)]]
Asking == [c \in Clients |-> IF Outcome(c) \in {"pending", "loaded"} THEN logical[c] ELSE None]
Telling == [c \in Clients |-> Outcome(c)]
Showing == [c \in Clients |-> IF pc(c) = "idle" THEN result[c].answer
                              ELSE IF pc(c) = "backend" THEN answer[c] ELSE None]

\* The mapped variables are functions on the paths and on the clients.
LEMMA Mapped ==
    /\ Seen = [p \in Paths |-> Seen[p]] /\ Seen' = [p \in Paths |-> Seen'[p]]
    /\ Asking = [c \in Clients |-> Asking[c]] /\ Asking' = [c \in Clients |-> Asking'[c]]
    /\ Telling = [c \in Clients |-> Telling[c]] /\ Telling' = [c \in Clients |-> Telling'[c]]
    /\ Showing = [c \in Clients |-> Showing[c]] /\ Showing' = [c \in Clients |-> Showing'[c]]
BY Zenon DEF Seen, Asking, Telling, Showing

\* A step of one client changes nothing that is said of the others.
LEMMA OthersSame ==
    ASSUME NEW c \in Clients, Own(c)
    PROVE  \A d \in Clients : d # c =>
              Asking'[d] = Asking[d] /\ Telling'[d] = Telling[d] /\ Showing'[d] = Showing[d]
<1> SUFFICES ASSUME NEW d \in Clients, d # c
             PROVE  Asking'[d] = Asking[d] /\ Telling'[d] = Telling[d] /\ Showing'[d] = Showing[d]
  BY Zenon
<1>1. /\ config' = config /\ call'[d] = call[d] /\ logical'[d] = logical[d]
      /\ result'[d] = result[d] /\ outcome'[d] = outcome[d] /\ answer'[d] = answer[d]
  BY Zenon DEF Own, CallsApart
<1>2. Outcome(d)' = Outcome(d)
  BY Zenon, <1>1 DEF Outcome, Settled, Final, pc
<1>3. QED
  BY Zenon, <1>1, <1>2 DEF Asking, Telling, Showing, pc

\* What a step of one client does to the mapped variables is what it does to
\* its own part.
LEMMA Maps ==
    ASSUME NEW c \in Clients, Own(c)
    PROVE  /\ Asking' = [Asking EXCEPT ![c] = Asking'[c]]
           /\ Telling' = [Telling EXCEPT ![c] = Telling'[c]]
           /\ Showing' = [Showing EXCEPT ![c] = Showing'[c]]
           /\ Asking'[c] = Asking[c] => Asking' = Asking
           /\ Telling'[c] = Telling[c] => Telling' = Telling
           /\ Showing'[c] = Showing[c] => Showing' = Showing
BY SMTT(60), OthersSame, Mapped

\* A step the contract does not see.
LEMMA Hidden ==
    ASSUME NEW c \in Clients, Own(c), Seen' = Seen, Outcome(c)' = Outcome(c),
           Showing'[c] = Showing[c],
           Outcome(c) \in {"pending", "loaded"} => logical'[c] = logical[c]
    PROVE  UNCHANGED Contract!vars
<1>1. Asking'[c] = Asking[c] /\ Telling'[c] = Telling[c]
  BY Zenon DEF Asking, Telling
<1>2. Asking' = Asking /\ Telling' = Telling /\ Showing' = Showing
  BY SMTT(60), <1>1, Maps
<1>3. QED
  BY Zenon, <1>2 DEF Contract!vars, Asking, Telling, Showing, Seen

\* A client that is told its answer.
LEMMA Tells ==
    ASSUME NEW c \in Clients, Own(c), NEW o, o \notin {"pending", "loaded"}, Outcome(c)' = o
    PROVE  Contract!Answer(c, o)
<1>1. Asking'[c] = None /\ Telling'[c] = o
  BY DEF Asking, Telling
<1>2. Asking' = [Asking EXCEPT ![c] = None] /\ Telling' = [Telling EXCEPT ![c] = o]
  BY SMTT(60), <1>1, Maps
<1>3. QED
  BY Zenon, <1>2 DEF Contract!Answer, Asking, Telling

\* A call that fails: before the backend is called, between attempts, or with
\* the last attempt.
LEMMA FailRefines ==
    ASSUME NEW c \in Clients, Own(c), Seen' = Seen, Outcome(c) \in {"pending", "loaded", "ok"},
           Outcome(c)' = "error", Showing'[c] = Showing[c]
    PROVE  Contract!Next
<1>1. Contract!Answer(c, "error") /\ Showing' = Showing
  BY Tells, Maps
<1>2. Telling[c] \in {"pending", "loaded", "ok"}
  BY DEF Telling
<1>3. Contract!Fail(c)
  BY Zenon, <1>1, <1>2 DEF Contract!Fail, Telling, Seen, Showing
<1>4. QED
  BY Zenon, <1>3 DEF Contract!Next

\* internal keeps paths apart.
LEMMA Injective ==
    ASSUME NEW p \in Paths, NEW q \in Paths, internal(p) = internal(q)
    PROVE  p = q
<1>1. p \in Seq(Segments) /\ q \in Seq(Segments)
  BY DecoratorAssumption
<1>2. QED
  BY <1>1, RoundTrip

\* An object of the backend that changes beneath the prefix.
LEMMA SeenAfter ==
    ASSUME Whole, NEW p \in Paths, NEW x, objects' = [objects EXCEPT ![internal(p)] = x]
    PROVE  Seen' = [Seen EXCEPT ![p] = x]
<1>1. internal(p) \in BackendPaths /\ objects \in [BackendPaths -> Contents \cup {None}]
  BY DEF BackendPaths, Whole, BackendOK, Backend!TypeOK
<1>2. \A q \in Paths : internal(q) \in BackendPaths
  BY DEF BackendPaths
<1>3. Seen'[p] = x
  BY SMTT(60), <1>1 DEF Seen
<1>4. \A q \in Paths : q # p => Seen'[q] = Seen[q]
  BY <1>1, <1>2, Injective DEF Seen
<1>5. QED
  BY SMTT(60), <1>3, <1>4, Mapped

\* Answers that are not retried, whatever the policy, are the client's.
LEMMA Definite ==
    ASSUME NEW c \in Clients, pc(c) = "backend",
           outcome[c] \in {"pending", "loaded", "ok", "exists"}
    PROVE  Outcome(c) = outcome[c]
BY Zenon, DecoratorAssumption DEF Outcome, Settled, Final

\* The same after a step.
LEMMA DefiniteNext ==
    ASSUME NEW c \in Clients, pc(c)' = "backend",
           outcome'[c] \in {"pending", "loaded", "ok", "exists"}
    PROVE  Outcome(c)' = outcome'[c]
BY Zenon, DecoratorAssumption DEF Outcome, Settled, Final

\* A call the backend works on, as the contract and as the backend have it.
LEMMA Working ==
    ASSUME Whole, Linked, NEW c \in Clients, BackendWorks(c)
    PROVE  /\ pc(c) = "backend" /\ pc(c)' = "backend" /\ BackendStep(c) /\ Own(c)
           /\ UNCHANGED <<call, logical, config>>
           /\ outcome[c] \in {"pending", "loaded", "ok"}
           /\ Outcome(c) = outcome[c] /\ Telling[c] = outcome[c]
           /\ Showing[c] = answer[c] /\ Showing'[c] = answer'[c]
           /\ outcome[c] \in {"pending", "loaded"} => Asking[c] = logical[c]
           /\ outcome[c] = "ok" => logical[c].op \in Mutations
<1>1. /\ pc(c) = "backend" /\ pc(c)' = "backend" /\ BackendStep(c)
      /\ UNCHANGED <<call, logical, config>>
      /\ outcome[c] = "ok" => logical[c].op \in Mutations
  BY Zenon DEF BackendWorks, pc
<1>2. outcome[c] \in {"pending", "loaded", "ok"}
  BY Zenon, <1>1 DEF BackendStep, Backend!NotFound, Backend!Exists, Backend!Fail, Backend!Read,
     Backend!Stat, Backend!List, Backend!Write, Backend!Delete, Backend!Move, Backend!Copy,
     Backend!CopyLoad, Backend!CopyStore, Backend!Pending
<1>3. Outcome(c) = outcome[c]
  BY Zenon, <1>1, <1>2, Definite
<1>4. Own(c)
  BY SMTT(60), ClientsOwn DEF Step
<1>5. QED
  BY Zenon, <1>1, <1>2, <1>3, <1>4 DEF Telling, Showing, Asking

\* Steps of the backend that change no object.
LEMMA QueriesRefine ==
    ASSUME Whole, Linked, NEW c \in Clients, BackendWorks(c), logical[c].op # "checksum",
           \/ Backend!NotFound(c) \/ Backend!Exists(c) \/ Backend!Fail(c) \/ Backend!Read(c)
           \/ Backend!Stat(c) \/ Backend!List(c) \/ Backend!CopyLoad(c)
    PROVE  Contract!Next \/ UNCHANGED Contract!vars
<1>1. /\ pc(c) = "backend" /\ pc(c)' = "backend" /\ Own(c) /\ logical' = logical
      /\ outcome[c] \in {"pending", "loaded", "ok"}
      /\ Outcome(c) = outcome[c] /\ Telling[c] = outcome[c]
      /\ Showing[c] = answer[c] /\ Showing'[c] = answer'[c]
      /\ outcome[c] \in {"pending", "loaded"} => Asking[c] = logical[c]
      /\ outcome[c] = "ok" => logical[c].op \in Mutations
  BY Zenon, Working
<1>2. /\ Backend!TypeOK /\ c \in Callers
      /\ logical[c].op \notin Mutations => outcome[c] # "loaded"
  BY Zenon, <1>1 DEF Whole, BackendOK, Callers, Linked, LinkOK
<1>3. objects' = objects /\ Seen' = Seen
  BY Zenon DEF Seen, Backend!NotFound, Backend!Exists, Backend!Fail, Backend!Read, Backend!Stat,
     Backend!List, Backend!CopyLoad
<1>4. ASSUME outcome[c] \in {"pending", "loaded"}
      PROVE  /\ Asking[c] = logical[c] /\ request[c].op = logical[c].op
             /\ request[c].replace = logical[c].replace
             /\ logical[c].path \in Paths /\ logical[c].to \in Paths
             /\ objects[request[c].path] = Seen[logical[c].path]
             /\ objects[request[c].to] = Seen[logical[c].to]
  BY Zenon, <1>1, <1>4, AskedFor DEF Seen
<1>5. CASE Backend!Fail(c)
  <2>1. outcome'[c] = "error" /\ answer' = answer
    BY Zenon, <1>2, <1>5 DEF Backend!Fail, Backend!Answer, Backend!TypeOK, Callers
  <2>2. CASE logical[c].op \in Mutations
    <3>1. Outcome(c)' = "error"
      BY Zenon, <1>1, <2>1, <2>2 DEF Outcome, Settled, Final
    <3>2. QED
      BY Zenon, <1>1, <1>3, <2>1, <3>1, FailRefines
  <2>3. CASE logical[c].op \notin Mutations
    <3>1. Outcome(c)' = "pending" /\ outcome[c] = "pending"
      BY Zenon, <1>1, <1>2, <2>1, <2>3 DEF Outcome, Settled
    <3>2. QED
      BY Zenon, <1>1, <1>3, <2>1, <3>1, Hidden
  <2>4. QED
    BY Zenon, <2>2, <2>3
<1>6. CASE Backend!NotFound(c)
  <2>1. /\ outcome[c] = "pending" /\ outcome'[c] = "notfound" /\ answer' = answer
        /\ logical[c].op \notin {"write", "list"} /\ Seen[logical[c].path] = None
    BY Zenon, <1>2, <1>4, <1>6 DEF Backend!NotFound, Backend!Answer, Backend!TypeOK, Callers
  <2>2. Outcome(c)' \in {"notfound", "pending"}
    BY Zenon, <1>1, <2>1 DEF Outcome, Settled
  <2>3. CASE Outcome(c)' = "pending"
    BY Zenon, <1>1, <1>3, <2>1, <2>3, Hidden
  <2>4. CASE Outcome(c)' = "notfound"
    <3>1. Contract!Answer(c, "notfound") /\ Showing' = Showing
      BY Zenon, <1>1, <2>1, <2>4, Tells, Maps
    <3>2. Contract!NotFound(c)
      BY Zenon, <1>1, <1>3, <2>1, <3>1 DEF Contract!NotFound, Seen, Asking, Telling, Showing
    <3>3. QED
      BY ZenonT(60), <3>2 DEF Contract!Next
  <2>5. QED
    BY Zenon, <2>2, <2>3, <2>4
<1>7. CASE Backend!Exists(c)
  <2>1. /\ outcome[c] \in {"pending", "loaded"} /\ outcome'[c] = "exists" /\ answer' = answer
        /\ logical[c].op \in {"write", "copy", "move"} /\ ~logical[c].replace
        /\ Seen[logical[c].to] # None
    BY Zenon, <1>2, <1>4, <1>7 DEF Backend!Exists, Backend!Answer, Backend!TypeOK, Callers
  <2>2. Outcome(c)' = "exists"
    BY Zenon, <1>1, <2>1, DefiniteNext
  <2>3. Contract!Answer(c, "exists") /\ Showing' = Showing
    BY Zenon, <1>1, <2>1, <2>2, Tells, Maps
  <2>4. Contract!Exists(c)
    BY Zenon, <1>1, <1>3, <2>1, <2>3 DEF Contract!Exists, Seen, Asking, Telling, Showing
  <2>5. QED
    BY Zenon, <2>4 DEF Contract!Next
<1>8. CASE Backend!Read(c) \/ Backend!Stat(c) \/ Backend!List(c)
  <2>1. /\ outcome[c] = "pending" /\ outcome'[c] = "ok"
    BY Zenon, <1>2, <1>8
       DEF Backend!Read, Backend!Stat, Backend!List, Backend!Answer, Backend!Pending,
       Backend!TypeOK, Callers
  <2>2. Outcome(c)' = "ok" /\ Asking[c] = logical[c]
    BY Zenon, <1>1, <2>1, DefiniteNext
  <2>3. Contract!Answer(c, "ok")
    BY Zenon, <1>1, <2>2, Tells
  <2>4. CASE Backend!Read(c)
    <3>1. /\ logical[c].op = "read" /\ Seen[logical[c].path] # None
          /\ answer'[c] = Seen[logical[c].path]
      BY Zenon, <1>2, <1>4, <2>1, <2>4
         DEF Backend!Read, Backend!Pending, Backend!TypeOK, Callers
    <3>2. Showing' = [Showing EXCEPT ![c] = Seen[logical[c].path]]
      BY Zenon, <1>1, <3>1, Maps
    <3>3. Contract!Read(c)
      BY ZenonT(60), <1>1, <1>3, <2>1, <2>2, <2>3, <3>1, <3>2
         DEF Contract!Read, Contract!Pending, Seen, Asking, Telling, Showing
    <3>4. QED
      BY Zenon, <3>3 DEF Contract!Next
  <2>5. CASE Backend!Stat(c) \/ Backend!List(c)
    <3>1. answer' = answer
      BY Zenon, <2>5 DEF Backend!Stat, Backend!List
    <3>2. Showing' = Showing
      BY Zenon, <1>1, <3>1, Maps
    <3>3. CASE Backend!Stat(c)
      <4>1. logical[c].op = "stat" /\ Seen[logical[c].path] # None
        BY Zenon, <1>4, <2>1, <3>3 DEF Backend!Stat, Backend!Pending
      <4>2. Contract!Stat(c)
        BY Zenon, <1>1, <1>3, <2>1, <2>2, <2>3, <3>2, <4>1
           DEF Contract!Stat, Contract!Pending, Seen, Asking, Telling, Showing
      <4>3. QED
        BY Zenon, <4>2 DEF Contract!Next
    <3>4. CASE Backend!List(c)
      <4>1. logical[c].op = "list"
        BY Zenon, <1>4, <2>1, <3>4 DEF Backend!List, Backend!Pending
      <4>2. Contract!List(c)
        BY Zenon, <1>1, <1>3, <2>1, <2>2, <2>3, <3>2, <4>1
           DEF Contract!List, Contract!Pending, Seen, Asking, Telling, Showing
      <4>3. QED
        BY ZenonT(60), <4>2 DEF Contract!Next
    <3>5. QED
      BY Zenon, <2>5, <3>3, <3>4
  <2>6. QED
    BY Zenon, <1>8, <2>4, <2>5
<1>9. CASE Backend!CopyLoad(c)
  <2>1. /\ outcome[c] = "pending" /\ outcome'[c] = "loaded" /\ logical[c].op = "copy"
        /\ Seen[logical[c].path] # None /\ answer'[c] = Seen[logical[c].path]
    BY Zenon, <1>2, <1>4, <1>9 DEF Backend!CopyLoad, Backend!Pending, Backend!TypeOK, Callers
  <2>2. Outcome(c)' = "loaded" /\ Asking[c] = logical[c]
    BY Zenon, <1>1, <2>1, DefiniteNext
  <2>3. Asking'[c] = Asking[c] /\ Telling'[c] = "loaded"
    BY Zenon, <1>1, <2>2 DEF Asking, Telling
  <2>4. /\ Asking' = Asking /\ Telling' = [Telling EXCEPT ![c] = "loaded"]
        /\ Showing' = [Showing EXCEPT ![c] = Seen[logical[c].path]]
    BY Zenon, <1>1, <2>1, <2>3, Maps
  <2>5. Contract!CopyLoad(c)
    BY ZenonT(60), <1>1, <1>3, <2>1, <2>2, <2>4
       DEF Contract!CopyLoad, Contract!Pending, Seen, Asking, Telling, Showing
  <2>6. QED
    BY Zenon, <2>5 DEF Contract!Next
<1>10. QED
  BY Zenon, <1>5, <1>6, <1>7, <1>8, <1>9

\* An object that moves beneath the prefix.
LEMMA SeenMoved ==
    ASSUME Whole, NEW p \in Paths, NEW q \in Paths, NEW x,
           objects' = [objects EXCEPT ![internal(p)] = None, ![internal(q)] = x]
    PROVE  Seen' = [Seen EXCEPT ![p] = None, ![q] = x]
<1>1. \A r \in Paths : internal(r) \in BackendPaths
  BY DEF BackendPaths
<1>2. objects \in [BackendPaths -> Contents \cup {None}]
  BY DEF Whole, BackendOK, Backend!TypeOK
<1>3. Seen'[q] = x
  BY <1>1, <1>2 DEF Seen
<1>4. p # q => Seen'[p] = None
  BY <1>1, <1>2, Injective DEF Seen
<1>5. \A r \in Paths : r # p /\ r # q => Seen'[r] = Seen[r]
  BY <1>1, <1>2, Injective DEF Seen
<1>6. QED
  BY Zenon, <1>3, <1>4, <1>5, Mapped

\* Steps of the backend that change an object.
LEMMA MutationsRefine ==
    ASSUME Whole, Linked, NEW c \in Clients, BackendWorks(c), logical[c].op # "checksum",
           \/ Backend!Write(c) \/ Backend!Delete(c) \/ Backend!Move(c) \/ Backend!Copy(c)
           \/ Backend!CopyStore(c)
    PROVE  Contract!Next
<1>1. /\ pc(c) = "backend" /\ pc(c)' = "backend" /\ Own(c)
      /\ Telling[c] = outcome[c] /\ Showing[c] = answer[c] /\ Showing'[c] = answer'[c]
      /\ outcome[c] \in {"pending", "loaded"} => Asking[c] = logical[c]
  BY Zenon, Working
<1>2. Backend!TypeOK /\ c \in Callers
  BY DEF Whole, BackendOK, Callers
<1>3. outcome[c] \in {"pending", "loaded"} /\ outcome'[c] = "ok" /\ answer' = answer
  BY Zenon, <1>2
     DEF Backend!Write, Backend!Delete, Backend!Move, Backend!Copy, Backend!CopyStore,
     Backend!Put, Backend!Answer, Backend!Pending, Backend!TypeOK, Callers
<1>4. /\ Asking[c] = logical[c] /\ request[c].op = logical[c].op
      /\ request[c].replace = logical[c].replace /\ request[c].content = logical[c].content
      /\ request[c].path = internal(logical[c].path) /\ request[c].to = internal(logical[c].to)
  BY ZenonT(60), <1>1, <1>3, AskedFor
<1>5. PICK p \in Paths, q \in Paths : p = logical[c].path /\ q = logical[c].to
  BY Zenon, <1>1, <1>3, AskedFor
<1>6. objects[request[c].path] = Seen[logical[c].path] /\ objects[request[c].to] = Seen[logical[c].to]
  BY Zenon, <1>4, <1>5 DEF Seen
<1>7. Outcome(c)' = "ok"
  BY Zenon, <1>1, <1>3, DefiniteNext
<1>8. Contract!Answer(c, "ok") /\ Showing' = Showing
  BY Zenon, <1>1, <1>3, <1>7, Tells, Maps
<1>9. ASSUME NEW x, objects' = [objects EXCEPT ![request[c].to] = x]
      PROVE  Seen' = [Seen EXCEPT ![logical[c].to] = x]
  BY Zenon, <1>4, <1>5, <1>9, SeenAfter
<1>10. CASE Backend!Write(c)
  <2>1. PICK x : x = logical[c].content
    BY Zenon
  <2>2. /\ outcome[c] = "pending" /\ logical[c].op = "write"
        /\ logical[c].replace \/ Seen[logical[c].to] = None
        /\ objects' = [objects EXCEPT ![request[c].to] = x]
    BY Zenon, <1>4, <1>6, <1>10, <2>1 DEF Backend!Write, Backend!Put, Backend!Pending
  <2>3. Seen' = [Seen EXCEPT ![logical[c].to] = logical[c].content]
    BY Zenon, <1>9, <2>1, <2>2
  <2>4. Contract!Write(c)
    BY Zenon, <1>1, <1>4, <1>8, <2>2, <2>3
       DEF Contract!Write, Contract!Put, Contract!Pending, Seen, Asking, Telling, Showing
  <2>5. QED
    BY Zenon, <2>4 DEF Contract!Next
<1>11. CASE Backend!Delete(c)
  <2>1. /\ outcome[c] = "pending" /\ logical[c].op = "delete"
        /\ objects' = [objects EXCEPT ![internal(p)] = None]
    BY Zenon, <1>4, <1>5, <1>11 DEF Backend!Delete, Backend!Pending
  <2>2. Seen' = [Seen EXCEPT ![logical[c].path] = None]
    BY Zenon, <1>5, <2>1, SeenAfter
  <2>3. Contract!Delete(c)
    BY Zenon, <1>1, <1>4, <1>8, <2>1, <2>2
       DEF Contract!Delete, Contract!Pending, Seen, Asking, Telling, Showing
  <2>4. QED
    BY Zenon, <2>3 DEF Contract!Next
<1>12. CASE Backend!Move(c)
  <2>1. PICK x : x = Seen[logical[c].path]
    BY Zenon
  <2>2. /\ outcome[c] = "pending" /\ logical[c].op = "move" /\ Seen[logical[c].path] # None
        /\ logical[c].replace \/ Seen[logical[c].to] = None
        /\ objects' = [objects EXCEPT ![internal(p)] = None, ![internal(q)] = x]
    BY Zenon, <1>4, <1>5, <1>6, <1>12, <2>1 DEF Backend!Move, Backend!Pending
  <2>3. Seen' = [Seen EXCEPT ![logical[c].path] = None,
                             ![logical[c].to] = Seen[logical[c].path]]
    <3>1. Seen' = [Seen EXCEPT ![p] = None, ![q] = x]
      BY ZenonT(60), <2>2, SeenMoved
    <3>2. QED
      BY <1>5, <2>1, <3>1
  <2>4. Contract!Move(c)
    BY Zenon, <1>1, <1>4, <1>8, <2>2, <2>3
       DEF Contract!Move, Contract!Pending, Seen, Asking, Telling, Showing
  <2>5. QED
    BY ZenonT(60), <2>4 DEF Contract!Next
<1>13. CASE Backend!Copy(c)
  <2>1. PICK x : x = Seen[logical[c].path]
    BY Zenon
  <2>2. /\ outcome[c] = "pending" /\ logical[c].op = "copy" /\ Seen[logical[c].path] # None
        /\ logical[c].replace \/ Seen[logical[c].to] = None
        /\ objects' = [objects EXCEPT ![request[c].to] = x]
    BY Zenon, <1>4, <1>6, <1>13, <2>1 DEF Backend!Copy, Backend!Put, Backend!Pending
  <2>3. Seen' = [Seen EXCEPT ![logical[c].to] = Seen[logical[c].path]]
    BY Zenon, <1>9, <2>1, <2>2
  <2>4. Contract!Copy(c)
    BY Zenon, <1>1, <1>4, <1>8, <2>2, <2>3
       DEF Contract!Copy, Contract!Put, Contract!Pending, Seen, Asking, Telling, Showing
  <2>5. QED
    BY Zenon, <2>4 DEF Contract!Next
<1>14. CASE Backend!CopyStore(c)
  <2>1. PICK x : x = Showing[c]
    BY Zenon
  <2>2. /\ outcome[c] = "loaded"
        /\ logical[c].replace \/ Seen[logical[c].to] = None
        /\ objects' = [objects EXCEPT ![request[c].to] = x]
    BY Zenon, <1>1, <1>4, <1>6, <1>14, <2>1 DEF Backend!CopyStore, Backend!Put
  <2>3. Seen' = [Seen EXCEPT ![logical[c].to] = Showing[c]]
    BY Zenon, <1>9, <2>1, <2>2
  <2>4. Contract!CopyStore(c)
    BY Zenon, <1>1, <1>4, <1>8, <2>2, <2>3
       DEF Contract!CopyStore, Contract!Put, Seen, Asking, Telling, Showing
  <2>5. QED
    BY Zenon, <2>4 DEF Contract!Next
<1>15. QED
  BY <1>10, <1>11, <1>12, <1>13, <1>14

\* A step of a checksum that the contract leaves open.
LEMMA ChecksumWorks ==
    ASSUME Whole, Linked, NEW c \in Clients, BackendWorks(c), logical[c].op = "checksum"
    PROVE  ChecksumStep(c)
<1>1. /\ pc(c) = "backend" /\ BackendStep(c) /\ logical' = logical
      /\ outcome[c] \in {"pending", "loaded", "ok"}
      /\ outcome[c] = "ok" => logical[c].op \in Mutations
  BY Zenon, Working
<1>2. Backend!TypeOK /\ c \in Callers /\ outcome[c] = "pending"
  BY Zenon, <1>1 DEF Whole, BackendOK, Callers, Linked, LinkOK, Mutations
<1>3. request[c].op = "read" /\ logical[c] \in Requests
  BY Zenon, <1>1, <1>2, AskedFor
<1>4. Backend!NotFound(c) \/ Backend!Fail(c) \/ Backend!Read(c)
  BY Zenon, <1>1, <1>2, <1>3
     DEF BackendStep, Backend!Exists, Backend!Stat, Backend!List, Backend!Write,
     Backend!Delete, Backend!Move, Backend!Copy, Backend!CopyLoad, Backend!CopyStore,
     Backend!Pending
<1>5. outcome'[c] # "pending" /\ objects' = objects
  BY Zenon, <1>2, <1>4 DEF Backend!NotFound, Backend!Fail, Backend!Read, Backend!Answer,
     Backend!TypeOK, Callers
<1>6. Checksums(c)
  BY Zenon, <1>3, RequestsAssumption DEF Checksums
<1>7. QED
  BY Zenon, <1>2, <1>5, <1>6 DEF ChecksumStep

\* Whatever the backend does for a call, the contract allows.
LEMMA BackendRefines ==
    ASSUME Whole, Linked, NEW c \in Clients, BackendWorks(c)
    PROVE  Contract!Next \/ ChecksumStep(c) \/ UNCHANGED Contract!vars
<1>1. BackendStep(c)
  BY DEF BackendWorks
<1>2. CASE logical[c].op = "checksum"
  BY <1>2, ChecksumWorks
<1>3. CASE logical[c].op # "checksum"
  BY Zenon, <1>1, <1>3, QueriesRefine, MutationsRefine DEF BackendStep
<1>4. QED
  BY <1>2, <1>3

\* Only checksums are digested, no call that is refused reaches the backend, and
\* tenants stay outside the prefix.
Sides ==
    /\ \A c \in Clients : pc(c) \in {"digest", "close"} => logical[c].op = "checksum"
    /\ \A c \in Clients : pc(c) = "backend" => ~Rejected(logical[c])
    /\ \A c \in Clients : logical[c] \in Calls \cup {None}
    /\ \A t \in Tenants : ~Backend!Returned(t) => request[t].to \in Outside

\* A client's step keeps them.
LEMMA ClientSides ==
    ASSUME Whole, Sides, NEW c \in Clients,
           Invoke(c) \/ Cancel(c) \/ Step(c) \/ IterNext(c) \/ IterClose(c)
    PROVE  Sides'
<1>1. call \in [Clients -> Call] /\ logical \in [Clients -> Requests \cup {None}]
  BY DEF Whole, Carried
<1>2. \A d \in Clients : d # c => call'[d] = call[d] /\ logical'[d] = logical[d]
  BY Zenon, ClientsOwn DEF Own, CallsApart
<1>3. UNCHANGED backendVars \/ BackendStep(c) \/ Backend!Invoke(c)
  BY DEF Invoke, Cancel, Step, Start, CallBackend, BackendWorks, Collect, Digest, Backoff,
     IterNext, IterClose
<1>4. \A t \in Tenants : t \in Callers /\ t # c
  BY DecoratorAssumption DEF Callers
<1>5. \A t \in Tenants : outcome'[t] = outcome[t] /\ request'[t] = request[t]
  BY Zenon, <1>3, <1>4, BackendOwn DEF backendVars, Callers
<1>6. config' = config
  BY Zenon, ClientsOwn DEF Own
<1> DEFINE Kept == /\ pc(c)' \in {"digest", "close"} => logical'[c].op = "checksum"
                   /\ pc(c)' = "backend" => ~Rejected(logical[c])'
<1>7. ASSUME NEW s \in {"idle", "start", "backoff"}, call'[c].pc = s PROVE Kept
  BY <1>7 DEF pc
<1>8. ASSUME NEW o, NEW x, Return(c, o, x) \/ Again(c) PROVE Kept
  <2>1. call'[c].pc \in {"idle", "start", "backoff"}
    BY <1>1, <1>8 DEF Return, Again, Goto, NoCall, Call
  <2>2. QED
    BY Zenon, <1>7, <2>1
<1>9. ASSUME call'[c].pc = call[c].pc, logical' = logical PROVE Kept
  BY Zenon, <1>6, <1>9 DEF Sides, Rejected, pc
<1>10. Kept
  <2>1. CASE UNCHANGED <<call, logical>>
    BY Zenon, <1>9, <2>1
  <2>2. CASE Invoke(c)
    <3>1. call'[c].pc = "start"
      BY <1>1, <2>2 DEF Invoke, Goto, Call
    <3>2. QED
      BY Zenon, <1>7, <3>1
  <2>3. CASE Cancel(c)
    <3>1. call'[c].pc = call[c].pc /\ logical' = logical
      BY <1>1, <2>3 DEF Cancel, Call
    <3>2. QED
      BY Zenon, <1>9, <3>1
  <2>4. CASE Start(c)
    <3>1. CASE CallBackend(c) /\ ~Rejected(logical[c]) /\ UNCHANGED logical
      <4>1. call'[c].pc = "backend"
        BY <1>1, <3>1 DEF CallBackend, Call
      <4>2. QED
        BY Zenon, <1>6, <3>1, <4>1 DEF Rejected, pc
    <3>2. QED
      BY Zenon, <1>8, <2>4, <3>1 DEF Start
  <2>5. CASE Collect(c)
    <3>1. CASE Goto(c, "digest") /\ logical[c].op = "checksum" /\ UNCHANGED logical
      <4>1. call'[c].pc = "digest"
        BY <1>1, <3>1 DEF Goto, Call
      <4>2. QED
        BY Zenon, <3>1, <4>1 DEF pc
    <3>2. QED
      BY <1>8, <2>5, <3>1 DEF Collect, Ended
  <2>6. CASE Digest(c)
    <3>1. CASE Copied(c)
      <4>1. logical'[c].op = "checksum"
        BY Zenon, <3>1 DEF Copied, Sides
      <4>2. call'[c].pc = "close"
        BY <1>1, <3>1 DEF Copied, Goto, Call
      <4>3. QED
        BY Zenon, <4>1, <4>2 DEF pc
    <3>2. QED
      BY Zenon, <1>8, <2>6, <3>1 DEF Digest, Closed, Ended
  <2>7. CASE Backoff(c)
    <3>1. CASE Goto(c, "start")
      <4>1. call'[c].pc = "start"
        BY <1>1, <3>1 DEF Goto, Call
      <4>2. QED
        BY Zenon, <1>7, <4>1
    <3>2. QED
      BY Zenon, <1>8, <2>7, <3>1 DEF Backoff
  <2>8. QED
    BY <2>1, <2>2, <2>3, <2>4, <2>5, <2>6, <2>7
       DEF Step, BackendWorks, IterNext, IterClose
<1>11. \A d \in Clients : d # c =>
          /\ pc(d)' \in {"digest", "close"} => logical'[d].op = "checksum"
          /\ pc(d)' = "backend" => ~Rejected(logical[d])'
  BY Zenon, <1>2, <1>6 DEF Sides, Rejected, pc
<1>12. \A t \in Tenants : ~Backend!Returned(t)' => request'[t].to \in Outside
  BY Zenon, <1>5 DEF Sides, Backend!Returned
<1>13. logical'[c] \in Calls \cup {None}
  <2>1. ASSUME NEW o, NEW x, Return(c, o, x) PROVE logical'[c] = None
    BY <1>1, <2>1 DEF Return
  <2>2. CASE Invoke(c)
    BY Zenon, <1>1, <2>2 DEF Invoke
  <2>3. CASE UNCHANGED logical
    BY Zenon, <2>3 DEF Sides
  <2>4. QED
    BY Zenon, <2>1, <2>2, <2>3
       DEF Cancel, Step, Start, BackendWorks, Collect, Digest, Copied, Closed, Ended, Backoff,
           IterNext, IterClose
<1>14. \A d \in Clients : logical'[d] \in Calls \cup {None}
  BY Zenon, <1>2, <1>13 DEF Sides
<1>15. QED
  BY Zenon, <1>10, <1>11, <1>12, <1>14 DEF Sides

\* A tenant's step keeps them.
LEMMA TenantSides ==
    ASSUME Whole, Sides, NEW t \in Tenants, Tenant(t)
    PROVE  Sides'
<1>1. t \in Callers /\ Tenants \subseteq Callers /\ Backend!TypeOK
  BY DEF Callers, Whole, BackendOK
<1>2. BackendStep(t) \/ Backend!Invoke(t)
  BY Zenon DEF Tenant, BackendStep
<1>3. \A d \in Tenants : d # t => outcome'[d] = outcome[d] /\ request'[d] = request[d]
  BY Zenon, <1>1, <1>2, BackendOwn
<1>4. UNCHANGED <<call, logical, config>>
  BY Zenon DEF Tenant
<1>5. outcome'[t] \in {"pending", "loaded"} => request'[t].to \in Outside
  <2>1. CASE Backend!Write(t)
    BY Zenon, <1>1, <2>1 DEF Backend!Write, Backend!Put, Backend!Answer, Backend!TypeOK, Callers
  <2>2. CASE ~Backend!Write(t)
    <3>1. PICK p \in Outside, x \in Contents :
             request' = [request EXCEPT ![t] = [op |-> "write", path |-> p, to |-> p,
                                                content |-> x, replace |-> TRUE]]
      BY Zenon, <2>2 DEF Tenant
    <3>2. request'[t] = [op |-> "write", path |-> p, to |-> p, content |-> x, replace |-> TRUE]
      BY Zenon, <1>1, <3>1 DEF Backend!TypeOK, Callers
    <3>3. QED
      BY <3>2
  <2>3. QED
    BY <2>1, <2>2
<1>6. QED
  BY Zenon, <1>3, <1>4, <1>5 DEF Sides, Backend!Returned, Rejected, pc

\* They hold throughout.
LEMMA SidesHold == Spec => []Sides
<1>1. Init => Sides
  <2> SUFFICES ASSUME Init PROVE Sides
    OBVIOUS
  <2>1. \A c \in Clients : pc(c) = "idle"
    BY Zenon DEF Init, NoCall, pc
  <2>2. \A t \in Tenants : outcome[t] = "idle"
    BY DEF Init, Backend!Init
  <2>3. \A c \in Clients : logical[c] = None
    BY Zenon DEF Init
  <2>4. QED
    BY <2>1, <2>2, <2>3 DEF Sides, Backend!Returned
<1>2. Whole /\ Sides /\ [Next]_vars => Sides'
  <2>1. CASE UNCHANGED vars
    BY Zenon, <2>1 DEF vars, backendVars, Sides, Backend!Returned, Rejected, pc
  <2>2. QED
    BY <2>1, ClientSides, TenantSides DEF Next
<1>3. QED
  BY <1>1, <1>2, WholeHolds, PTL DEF Spec

-----------------------------------------------------------------------------
(* Isolation.                                                              *)

\* What the backend may change for one caller.
LEMMA Changes ==
    ASSUME Whole, NEW c \in Callers, BackendStep(c), NEW p \in BackendPaths,
           objects'[p] # objects[p]
    PROVE  /\ outcome[c] \in {"pending", "loaded"}
           /\ \/ request[c].op \in {"delete", "move"} /\ p = request[c].path
              \/ request[c].op \in {"write", "copy", "move"} /\ p = request[c].to
              \/ outcome[c] = "loaded" /\ p = request[c].to
<1>1. objects \in [BackendPaths -> Contents \cup {None}]
  BY DEF Whole, BackendOK, Backend!TypeOK
<1>2. \/ Backend!Write(c) \/ Backend!Delete(c) \/ Backend!Move(c)
      \/ Backend!Copy(c) \/ Backend!CopyStore(c)
  BY Zenon DEF BackendStep, Backend!NotFound, Backend!Exists, Backend!Fail, Backend!Read,
     Backend!Stat, Backend!List, Backend!CopyLoad
<1>3. CASE Backend!Write(c) \/ Backend!Copy(c)
  BY <1>1, <1>3 DEF Backend!Write, Backend!Copy, Backend!Pending, Backend!Put
<1>4. CASE Backend!Delete(c)
  BY <1>1, <1>4 DEF Backend!Delete, Backend!Pending
<1>5. CASE Backend!Move(c)
  BY <1>1, <1>5 DEF Backend!Move, Backend!Pending
<1>6. CASE Backend!CopyStore(c)
  BY <1>1, <1>6 DEF Backend!CopyStore, Backend!Put
<1>7. QED
  BY <1>2, <1>3, <1>4, <1>5, <1>6

\* For every prefix, backend and mixture of calls: what clients of a decorator
\* ask for changes only what their mutations name, beneath the prefix or, unless
\* by Write, at the prefix itself; read-only clients change nothing, and tenants'
\* objects are never touched (internal, Write, the read-only checks).
THEOREM PrefixIsolates == Spec => Isolated
<1> DEFINE Change(p) ==
        \/ p \in Outside /\ \E t \in Tenants : outcome'[t] # outcome[t]
        \/ /\ p \notin Outside /\ ~config.readOnly
           /\ \E c \in Clients : /\ Mutates(c, p)
                                 /\ p = Prefix => logical[c].op # "write"
<1>1. ASSUME Whole, Linked, Sides, [Next]_vars,
             NEW p \in BackendPaths, objects'[p] # objects[p]
      PROVE  Change(p)
  <2>1. ASSUME NEW c \in Clients, BackendWorks(c)
        PROVE  Change(p)
    <3>1. c \in Callers /\ pc(c) = "backend" /\ BackendStep(c)
      BY <2>1 DEF Callers, BackendWorks
    <3>2. /\ outcome[c] \in {"pending", "loaded"}
          /\ \/ request[c].op \in {"delete", "move"} /\ p = request[c].path
             \/ request[c].op \in {"write", "copy", "move"} /\ p = request[c].to
             \/ outcome[c] = "loaded" /\ p = request[c].to
      BY Zenon, <1>1, <3>1, Changes
    <3>3. /\ logical[c] \in Requests /\ logical[c].path \in Paths /\ logical[c].to \in Paths
          /\ request[c].op = (IF logical[c].op = "checksum" THEN "read" ELSE logical[c].op)
          /\ request[c].path = Prefix \o logical[c].path
          /\ request[c].to = Prefix \o logical[c].to
      BY Zenon, <1>1, <3>1, <3>2, AskedFor DEF internal
    <3>4. outcome[c] = "loaded" => logical[c].op = "copy"
      BY Zenon, <1>1, <3>1 DEF Linked, LinkOK
    <3>5. \/ logical[c].op \in {"delete", "move"} /\ p = Prefix \o logical[c].path
          \/ logical[c].op \in {"write", "copy", "move"} /\ p = Prefix \o logical[c].to
      BY <3>2, <3>3, <3>4
    <3>6. Mutates(c, p)
      BY Zenon, <3>3, <3>5, RequestsAssumption DEF Mutates
    <3>7. ~Rejected(logical[c]) /\ logical[c].op \in Mutations
      BY <1>1, <3>1, <3>5 DEF Sides, Mutations
    <3>8. ~config.readOnly /\ (logical[c].op = "write" => logical[c].path # <<>>)
      BY <3>7 DEF Rejected
    <3>9. p \in Inside
      BY Zenon, <3>3, <3>5 DEF Inside, internal
    <3>10. p \notin Outside
      BY Zenon, <3>9, Apart
    <3>11. ASSUME p = Prefix, logical[c].op = "write" PROVE FALSE
      <4>1. p = Prefix \o logical[c].to
        BY <3>5, <3>11
      <4>2. logical[c].to = logical[c].path
        BY Zenon, <1>1, <3>3, <3>11, RequestsAssumption DEF Sides, Calls
      <4>3. logical[c].to = <<>>
        <5>1. Prefix \in Seq(Segments) /\ logical[c].to \in Seq(Segments)
          BY Zenon, <3>3, DecoratorAssumption
        <5>2. \A q \in Seq(Segments) : Prefix \o q = Prefix => q = <<>>
          BY <5>1
        <5>3. QED
          BY Zenon, <3>11, <4>1, <5>1, <5>2
      <4>4. QED
        BY <3>8, <3>11, <4>2, <4>3
    <3>12. QED
      BY Zenon, <3>6, <3>8, <3>10, <3>11
  <2>2. ASSUME NEW t \in Tenants, Tenant(t)
        PROVE  Change(p)
    <3>1. Backend!Write(t) /\ t \in Callers
      BY Zenon, <1>1, <2>2 DEF Tenant, Backend!Invoke, Callers
    <3>2. outcome[t] = "pending" /\ outcome' = [outcome EXCEPT ![t] = "ok"]
      BY <3>1 DEF Backend!Write, Backend!Pending, Backend!Put, Backend!Answer
    <3>3. outcome'[t] # outcome[t]
      BY <1>1, <3>2 DEF Whole, BackendOK, Backend!TypeOK
    <3>4. objects' = [objects EXCEPT ![request[t].to] = request[t].content]
      BY <3>1 DEF Backend!Write, Backend!Put
    <3>5. p = request[t].to
      BY Zenon, <1>1, <3>4 DEF Whole, BackendOK, Backend!TypeOK
    <3>6. p \in Outside
      BY Zenon, <1>1, <3>2, <3>5 DEF Sides, Backend!Returned
    <3>7. QED
      BY Zenon, <3>3, <3>6
  <2>3. ASSUME NEW c \in Clients, Start(c)
        PROVE  FALSE
    BY <1>1, <2>3 DEF Start, CallBackend, Backend!Invoke, backendVars
  <2>4. QED
    BY Zenon, <1>1, <2>1, <2>2, <2>3
       DEF Next, Step, Invoke, Cancel, Collect, Digest, Backoff, IterNext, IterClose,
           backendVars, vars
<1>2. Whole /\ Linked /\ Sides /\ [Next]_vars =>
         [\A p \in BackendPaths : objects'[p] # objects[p] => Change(p)]_vars
  BY <1>1
<1>3. QED
  BY <1>2, WholeHolds, LinkedHolds, SidesHold, PTL DEF Spec, Isolated

\* What a client is told when its call returns.
LEMMA Returns ==
    ASSUME Whole, NEW c \in Clients, NEW o, NEW x, Return(c, o, x)
    PROVE  pc(c)' = "idle" /\ Outcome(c)' = o /\ Showing'[c] = x
<1>1. /\ call \in [Clients -> Call]
      /\ result \in [Clients -> [outcome : Backend!Outcomes, answer : Contents \cup {None}]]
  BY DEF Whole, Carried, Told
<1>2. call'[c] = NoCall /\ result'[c] = [outcome |-> o, answer |-> x]
  BY Zenon, <1>1 DEF Return
<1>3. call'[c].pc = "idle" /\ result'[c].outcome = o /\ result'[c].answer = x
  <2>1. NoCall.pc = "idle"
    BY Zenon DEF NoCall
  <2>2. QED
    BY SMTT(60), <1>2, <2>1
<1>4. QED
  BY <1>3 DEF Outcome, Showing, pc

\* Between attempts the contract has the call pending.
LEMMA Between ==
    ASSUME NEW c \in Clients
    PROVE  /\ pc(c) \in {"start", "digest", "close", "backoff"} =>
                 Outcome(c) = "pending" /\ Showing[c] = None
           /\ pc(c)' \in {"start", "digest", "close", "backoff"} =>
                 Outcome(c)' = "pending" /\ Showing'[c] = None
BY Zenon DEF Outcome, Settled, Showing

\* The start of an attempt.
LEMMA StartRefines ==
    ASSUME Whole, NEW c \in Clients, Start(c)
    PROVE  Contract!Next \/ UNCHANGED Contract!vars
<1>1. /\ pc(c) = "start" /\ Own(c) /\ Outcome(c) = "pending" /\ Showing[c] = None
      /\ call \in [Clients -> Call] /\ Backend!TypeOK /\ c \in Callers
  BY Zenon, ClientsOwn, Between DEF Start, Step, Whole, Carried, BackendOK, Callers
<1>2. CASE Return(c, "error", None) /\ UNCHANGED backendVars
  <2>1. Seen' = Seen
    BY <1>2 DEF backendVars, Seen
  <2>2. Outcome(c)' = "error" /\ Showing'[c] = None
    BY Zenon, <1>2, Returns
  <2>3. QED
    BY Zenon, <1>1, <2>1, <2>2, FailRefines
<1>3. CASE CallBackend(c) /\ UNCHANGED logical
  <2>1. call'[c].pc = "backend" /\ outcome'[c] = "pending" /\ answer'[c] = None
    BY <1>1, <1>3 DEF CallBackend, Backend!Invoke, Backend!TypeOK, Call, Callers
  <2>2. pc(c)' = "backend" /\ Showing'[c] = None
    BY <2>1 DEF pc, Showing
  <2>3. Outcome(c)' = "pending"
    BY <2>1, <2>2, DefiniteNext
  <2>4. Seen' = Seen
    BY <1>3 DEF CallBackend, Backend!Invoke, Seen
  <2>5. QED
    BY Zenon, <1>1, <1>3, <2>2, <2>3, <2>4, Hidden
<1>4. QED
  BY <1>2, <1>3 DEF Start

\* The wait between two attempts.
LEMMA BackoffRefines ==
    ASSUME Whole, NEW c \in Clients, Backoff(c)
    PROVE  Contract!Next \/ UNCHANGED Contract!vars
<1>1. /\ pc(c) = "backoff" /\ Own(c) /\ Outcome(c) = "pending" /\ Showing[c] = None
      /\ call \in [Clients -> Call] /\ Seen' = Seen
  BY Zenon, ClientsOwn, Between DEF Backoff, Step, Whole, Carried, backendVars, Seen
<1>2. CASE Return(c, "error", None)
  <2>1. Outcome(c)' = "error" /\ Showing'[c] = None
    BY Zenon, <1>2, Returns
  <2>2. QED
    BY Zenon, <1>1, <2>1, FailRefines
<1>3. CASE Goto(c, "start") /\ UNCHANGED logical
  <2>1. call'[c].pc = "start"
    BY <1>1, <1>3 DEF Goto, Call
  <2>2. Outcome(c)' = "pending" /\ Showing'[c] = None
    BY Zenon, <2>1, Between DEF pc
  <2>3. QED
    BY Zenon, <1>1, <1>3, <2>2, Hidden
<1>4. QED
  BY <1>2, <1>3 DEF Backoff

\* The end of an attempt.
LEMMA CollectRefines ==
    ASSUME Whole, Linked, NEW c \in Clients, Collect(c)
    PROVE  Contract!Next \/ ChecksumStep(c) \/ UNCHANGED Contract!vars
<1>1. /\ pc(c) = "backend" /\ Own(c) /\ call \in [Clients -> Call] /\ LinkOK(c)
      /\ UNCHANGED backendVars /\ logical[c] \in Requests
      /\ outcome[c] \notin {"pending", "loaded"}
  BY Zenon, ClientsOwn DEF Collect, Step, Whole, Carried, Linked, Backend!Returned, pc
<1>2. Seen' = Seen /\ answer' = answer /\ objects' = objects
  BY <1>1 DEF backendVars, Seen
<1>3. Showing[c] = answer[c]
  BY <1>1 DEF Showing
<1>4. ASSUME Again(c) PROVE pc(c)' \in {"start", "backoff"}
  <2>1. call'[c].pc \in {"start", "backoff"}
    BY <1>1, <1>4 DEF Again, Goto, Call
  <2>2. QED
    BY <2>1 DEF pc
<1>5. CASE logical[c].op = "checksum"
  <2>1. pc(c)' # "backend"
    <3>1. CASE Ended(c, outcome[c], answer[c])
      <4>1. PICK o, x : o = outcome[c] /\ x = answer[c]
        OBVIOUS
      <4>2. Return(c, o, x) => pc(c)' = "idle"
        BY Returns
      <4>3. QED
        BY Zenon, <1>4, <3>1, <4>1, <4>2 DEF Ended
    <3>2. CASE Goto(c, "digest")
      <4>1. call'[c].pc = "digest"
        BY <1>1, <3>2 DEF Goto, Call
      <4>2. QED
        BY <4>1 DEF pc
    <3>3. QED
      BY <3>1, <3>2 DEF Collect
  <2>2. Checksums(c)
    BY <1>1, <1>5, RequestsAssumption DEF Checksums
  <2>3. call'[c] # call[c]
    BY <1>1, <2>1 DEF pc
  <2>4. QED
    BY <1>2, <2>2, <2>3 DEF ChecksumStep
<1>6. CASE logical[c].op # "checksum"
  <2>1. Ended(c, outcome[c], answer[c])
    BY <1>6 DEF Collect
  <2>2. CASE Return(c, outcome[c], answer[c]) /\ (Final(c, outcome[c]) \/ outcome[c] = "error")
    <3>1. Outcome(c)' = outcome[c] /\ Showing'[c] = answer[c]
      <4>1. PICK o, x : o = outcome[c] /\ x = answer[c]
        OBVIOUS
      <4>2. QED
        BY Zenon, <2>2, <4>1, Returns
    <3>2. CASE Settled(c)
      <4>1. Outcome(c) = outcome[c]
        BY Zenon, <1>1, <3>2 DEF Outcome
      <4>2. QED
        BY Zenon, <1>1, <1>2, <1>3, <3>1, <4>1, Hidden
    <3>3. CASE ~Settled(c)
      <4>1. outcome[c] = "error"
        BY Zenon, <1>1, <2>2, <3>3 DEF Settled
      <4>2. Outcome(c) = "pending"
        BY Zenon, <1>1, <3>3 DEF Outcome
      <4>3. QED
        BY Zenon, <1>1, <1>2, <1>3, <3>1, <4>1, <4>2, FailRefines
    <3>4. QED
      BY <3>2, <3>3
  <2>3. CASE ~Final(c, outcome[c]) /\ Again(c) /\ UNCHANGED logical
    <3>1. Outcome(c) = "pending"
      BY Zenon, <1>1, <2>3 DEF Outcome, Settled
    <3>2. logical[c].op \notin Mutations /\ outcome[c] # "ok"
      BY Zenon, <2>3, DecoratorAssumption DEF Final
    <3>3. answer[c] = None
      BY Zenon, <1>1, <3>2 DEF LinkOK
    <3>4. Outcome(c)' = "pending" /\ Showing'[c] = None
      BY Zenon, <1>4, <2>3, Between
    <3>5. QED
      BY Zenon, <1>1, <1>2, <1>3, <2>3, <3>1, <3>3, <3>4, Hidden
  <2>4. QED
    BY Zenon, <2>1, <2>2, <2>3 DEF Ended
<1>7. QED
  BY <1>5, <1>6

\* The digest of a stream, which the contract leaves open.
LEMMA DigestRefines ==
    ASSUME Whole, Sides, NEW c \in Clients, Digest(c)
    PROVE  ChecksumStep(c)
<1>1. /\ pc(c) \in {"digest", "close"} /\ call \in [Clients -> Call] /\ objects' = objects
      /\ logical[c].op = "checksum" /\ logical[c] \in Requests
  BY DEF Digest, Copied, Closed, Whole, Carried, Sides, backendVars, pc
<1>2. call'[c] # call[c]
  <2>1. CASE Copied(c)
    <3>1. call'[c].pc = "close" /\ call[c].pc = "digest"
      BY <1>1, <2>1 DEF Copied, Goto, Call, pc
    <3>2. QED
      BY <3>1
  <2>2. ASSUME NEW o, NEW x, Ended(c, o, x) PROVE call'[c] # call[c]
    <3>1. CASE Return(c, o, x)
      <4>1. pc(c)' = "idle"
        BY <3>1, Returns
      <4>2. QED
        BY Zenon, <1>1, <4>1 DEF pc
    <3>2. CASE Again(c)
      <4>1. call'[c].pc \in {"start", "backoff"}
        BY <1>1, <3>2 DEF Again, Goto, Call
      <4>2. QED
        BY Zenon, <1>1, <4>1 DEF pc
    <3>3. QED
      BY Zenon, <2>2, <3>1, <3>2 DEF Ended
  <2>3. QED
    BY Zenon, <2>1, <2>2 DEF Digest, Closed
<1>3. Checksums(c)
  BY Zenon, <1>1, RequestsAssumption DEF Checksums
<1>4. QED
  BY Zenon, <1>1, <1>2, <1>3 DEF ChecksumStep

\* The call of a client is a call of the contract, unless it is a checksum.
LEMMA InvokeRefines ==
    ASSUME Whole, Linked, NEW c \in Clients, Invoke(c)
    PROVE  Contract!Next \/ ChecksumStep(c)
<1>1. /\ pc(c) = "idle" /\ Own(c) /\ call \in [Clients -> Call]
      /\ logical \in [Clients -> Requests \cup {None}]
      /\ result[c].outcome \notin {"pending", "loaded"} /\ objects' = objects
  BY Zenon, ClientsOwn DEF Invoke, Whole, Carried, Linked, LinkOK, backendVars
<1>2. PICK r \in Requests : logical' = [logical EXCEPT ![c] = r]
  BY Zenon DEF Invoke, Calls
<1>3. logical'[c] = r /\ call'[c].pc = "start"
  BY <1>1, <1>2 DEF Invoke, Goto, Call
<1>4. CASE r.op = "checksum"
  <2>1. Checksums(c)'
    BY Zenon, <1>3, <1>4, RequestsAssumption DEF Checksums
  <2>2. call'[c] # call[c]
    BY Zenon, <1>1, <1>3 DEF pc
  <2>3. QED
    BY Zenon, <1>1, <2>1, <2>2 DEF ChecksumStep
<1>5. CASE r.op # "checksum"
  <2>1. Outcome(c)' = "pending" /\ Showing'[c] = None
    BY <1>3, Between DEF pc
  <2>2. Asking'[c] = r /\ Telling'[c] = "pending"
    BY Zenon, <1>3, <2>1 DEF Asking, Telling
  <2>3. /\ Asking' = [Asking EXCEPT ![c] = Asking'[c]]
        /\ Telling' = [Telling EXCEPT ![c] = "pending"]
        /\ Showing' = [Showing EXCEPT ![c] = None]
    BY Zenon, <1>1, <2>1, <2>2, Maps
  <2>4. Telling[c] \notin {"pending", "loaded"} /\ Seen' = Seen
    BY Zenon, <1>1 DEF Telling, Outcome, Seen
  <2>5. r \in Contract!Requests
    BY <1>5 DEF Requests, Operations, Contract!Requests, Contract!Methods
  <2>6. Asking'[c] \in Contract!Requests
    BY <2>2, <2>5
  <2>7. Contract!Invoke(c)
    BY Zenon, <2>3, <2>4, <2>6
       DEF Contract!Invoke, Contract!Returned, Seen, Asking, Telling, Showing
  <2>8. QED
    BY <2>7 DEF Contract!Next
<1>6. QED
  BY <1>4, <1>5

\* A tenant does nothing that clients can see.
LEMMA TenantHidden ==
    ASSUME Whole, Sides, NEW t \in Tenants, Tenant(t)
    PROVE  UNCHANGED Contract!vars
<1>1. /\ t \in Callers /\ Backend!TypeOK
      /\ \A d \in Clients : d \in Callers /\ d # t
  BY DecoratorAssumption DEF Callers, Whole, BackendOK
<1>2. BackendStep(t) \/ Backend!Invoke(t)
  BY Zenon DEF Tenant, BackendStep
<1>3. \A d \in Clients : outcome'[d] = outcome[d] /\ answer'[d] = answer[d]
  BY <1>1, <1>2, BackendOwn
<1>4. UNCHANGED <<config, call, logical, result>>
  BY Zenon DEF Tenant
<1>5. \A p \in Paths : objects'[internal(p)] = objects[internal(p)]
  <2>1. CASE Backend!Invoke(t)
    BY <2>1 DEF Backend!Invoke
  <2>2. CASE Backend!Write(t)
    <3>1. request[t].to \in Outside
      BY Zenon, <2>2 DEF Backend!Write, Backend!Pending, Sides, Backend!Returned
    <3>2. \A p \in Paths : internal(p) \in BackendPaths /\ internal(p) # request[t].to
      BY <3>1, Apart DEF Inside, BackendPaths
    <3>3. objects' = [objects EXCEPT ![request[t].to] = request[t].content]
      BY <2>2 DEF Backend!Write, Backend!Put
    <3>4. QED
      BY <1>1, <3>2, <3>3 DEF Backend!TypeOK
  <2>3. QED
    BY Zenon, <2>1, <2>2 DEF Tenant
<1>6. Seen' = Seen
  BY <1>5 DEF Seen
<1>7. \A d \in Clients : Outcome(d)' = Outcome(d)
  BY Zenon, <1>3, <1>4 DEF Outcome, Settled, Final, pc
<1>8. Asking' = Asking /\ Telling' = Telling /\ Showing' = Showing
  BY Zenon, <1>3, <1>4, <1>7 DEF Asking, Telling, Showing, pc
<1>9. QED
  BY Zenon, <1>6, <1>8 DEF Contract!vars, Asking, Telling, Showing, Seen

\* Neither a cancelled context nor the iterator is seen by the contract.
LEMMA AsideHidden ==
    ASSUME Whole, NEW c \in Clients, Cancel(c) \/ IterNext(c) \/ IterClose(c)
    PROVE  UNCHANGED Contract!vars
<1>1. /\ Own(c) /\ call \in [Clients -> Call]
      /\ UNCHANGED <<backendVars, config, logical, result>>
  BY ClientsOwn DEF Cancel, IterNext, IterClose, Whole, Carried
<1>2. call'[c].pc = call[c].pc /\ call'[c].attempt = call[c].attempt
  BY <1>1 DEF Cancel, IterNext, IterClose, Call
<1>3. Outcome(c)' = Outcome(c)
  BY Zenon, <1>1, <1>2 DEF Outcome, Settled, Final, pc, backendVars
<1>4. Showing'[c] = Showing[c] /\ Seen' = Seen
  BY Zenon, <1>1, <1>2 DEF Showing, Seen, pc, backendVars
<1>5. QED
  BY Zenon, <1>1, <1>3, <1>4, Hidden

\* For every backend that keeps the storage contract, prefix, retry policy and
\* number of clients: a decorated adapter keeps the contract for the paths
\* beneath its prefix, retried calls included, and a checksum changes no object
\* (retryCall, internal, the methods of Adapter).
THEOREM DecoratorImplementsContract == Spec => Linearizable
<1>1. Init => Contract!Init
  <2> SUFFICES ASSUME Init PROVE Contract!Init
    OBVIOUS
  <2>1. \A p \in Paths : internal(p) \in BackendPaths
    BY DEF BackendPaths
  <2>2. Seen = [p \in Paths |-> None]
    BY <2>1 DEF Init, Backend!Init, Seen
  <2>3. \A c \in Clients : pc(c) = "idle" /\ result[c].outcome = "idle" /\ result[c].answer = None
    BY Zenon DEF Init, NoCall, NoResult, pc
  <2>4. \A c \in Clients : Outcome(c) = "idle"
    BY Zenon, <2>3 DEF Outcome
  <2>5. /\ Asking = [c \in Clients |-> None] /\ Telling = [c \in Clients |-> "idle"]
        /\ Showing = [c \in Clients |-> None]
    BY Zenon, <2>3, <2>4 DEF Asking, Telling, Showing
  <2>6. QED
    BY Zenon, <2>2, <2>5 DEF Contract!Init, Seen, Asking, Telling, Showing
<1>2. Whole /\ Linked /\ Sides /\ [Next]_vars =>
         [Contract!Next \/ \E c \in Clients : ChecksumStep(c)]_(Contract!vars)
  <2> SUFFICES ASSUME Whole, Linked, Sides, [Next]_vars
               PROVE  \/ Contract!Next \/ \E c \in Clients : ChecksumStep(c)
                      \/ UNCHANGED Contract!vars
    OBVIOUS
  <2>1. ASSUME NEW c \in Clients, Step(c)
        PROVE  Contract!Next \/ ChecksumStep(c) \/ UNCHANGED Contract!vars
    BY <2>1, StartRefines, BackendRefines, CollectRefines, DigestRefines, BackoffRefines
       DEF Step
  <2>2. ASSUME NEW c \in Clients, Invoke(c) \/ Cancel(c) \/ IterNext(c) \/ IterClose(c)
        PROVE  Contract!Next \/ ChecksumStep(c) \/ UNCHANGED Contract!vars
    BY <2>2, InvokeRefines, AsideHidden
  <2>3. CASE UNCHANGED vars
    BY ZenonT(60), <2>3 DEF vars, backendVars, Contract!vars, Outcome, Settled, Final, pc
  <2>4. QED
    BY <2>1, <2>2, <2>3, TenantHidden DEF Next
<1>3. QED
  BY <1>1, <1>2, WholeHolds, LinkedHolds, SidesHold, PTL DEF Spec, Linearizable
=============================================================================
