--------------------------- MODULE MemoryStoreProofs ---------------------------
(***************************************************************************)
(* Proofs about MemoryStore for any number of clients, paths, contents,    *)
(* metadata maps and clock ticks.                                          *)
(***************************************************************************)
EXTENDS MemoryStore, TLAPS

-----------------------------------------------------------------------------
(* Type correctness.                                                       *)

\* New creates a well-typed adapter.
LEMMA InitType == Init => TypeOK
<1>1. 0 \in 0..MaxTime
  BY MemoryAssumption
<1>2. QED
  BY Zenon, <1>1 DEF Init, TypeOK

\* A call, and the application's handling of its maps and of time.
LEMMA ApplicationType ==
    ASSUME TypeOK,
           (\E c \in Clients : Invoke(c)) \/ MakeMap \/ DropMap \/ Tick
    PROVE  TypeOK'
<1>1. ASSUME NEW c \in Clients, Invoke(c) PROVE TypeOK'
  <2>1. PICK r \in Calls : request' = [request EXCEPT ![c] = r]
    BY Zenon, <1>1 DEF Invoke
  <2>2. r \in Requests /\ r # None /\ (r.content # None <=> r.op = "write")
    BY MemoryAssumption DEF Calls
  <2>3. QED
    BY <1>1, <2>1, <2>2 DEF Invoke, TypeOK, Pending
<1>2. CASE MakeMap
  BY <1>2 DEF MakeMap, Free, TypeOK, Pending
<1>3. CASE DropMap
  BY <1>3 DEF DropMap, TypeOK, Pending
<1>4. CASE Tick
  <2>1. now' \in 0..MaxTime
    BY <1>4, MemoryAssumption DEF Tick, TypeOK
  <2>2. QED
    BY <1>4, <2>1 DEF Tick, TypeOK, Pending
<1>5. QED
  BY <1>1, <1>2, <1>3, <1>4

\* A call in progress has a well-typed request.
LEMMA PendingRequest ==
    ASSUME TypeOK, NEW c \in Clients, outcome[c] = "pending"
    PROVE  request[c] \in Requests
  BY DEF TypeOK

\* What a path holds is nothing or an object.
LEMMA StoredObject ==
    ASSUME TypeOK, NEW p \in Paths, Exists(p)
    PROVE  objects[p] \in Object
  BY DEF TypeOK, Exists

\* A Write in progress has a content.
LEMMA WrittenContent ==
    ASSUME TypeOK, NEW c \in Clients, Pending(c, "write")
    PROVE  request[c].content \in Contents
<1>1. request[c] \in Requests
  BY PendingRequest DEF Pending
<1>2. request[c] # None /\ request[c].op = "write"
  BY DEF Pending, TypeOK
<1>3. QED
  BY <1>1, <1>2 DEF TypeOK, Requests

\* A result never hands out anything but a cell.
LEMMA ResultType ==
    ASSUME TypeOK, NEW stored, metadataFor(stored)
    PROVE  callerMaps' \in SUBSET Cells
  BY DEF metadataFor, TypeOK, Maps

\* An object that is stored keeps the objects well typed.
LEMMA StepType ==
    ASSUME TypeOK, NEW c \in Clients, Step(c)
    PROVE  TypeOK'
<1> USE DEF TypeOK, Pending
<1>1. CASE Reject(c)
  BY <1>1 DEF Reject, Answer
<1>2. CASE notFound(c)
  BY <1>2 DEF notFound, Answer
<1>3. CASE AlreadyExists(c)
  BY <1>3 DEF AlreadyExists, Answer
<1>4. CASE Open(c)
  <2>1. objects[request[c].path].content \in Contents
    BY <1>4, PendingRequest, StoredObject DEF Open, Object, Requests
  <2>2. QED
    BY <1>4, <2>1 DEF Open, Answer
<1>5. CASE Stat(c)
  BY <1>5, ResultType DEF Stat, Answer
<1>6. CASE List(c)
  <2>1. leaked' \in BOOLEAN
    BY Zenon, <1>6 DEF List
  <2>2. PICK o \in {"ok", "error"} : Answer(c, o)
    BY <1>6 DEF List
  <2>3. QED
    BY <1>6, <2>1, <2>2 DEF List, Answer
<1>7. CASE WriteStage(c)
  <2>1. request[c] \in Requests
    BY <1>7, PendingRequest DEF WriteStage
  <2>2. request[c].content \in Contents
    BY <1>7, WrittenContent DEF WriteStage
  <2>3. PICK clone \in Maps :
           staged' = [staged EXCEPT ![c] = [content |-> request[c].content,
                          metadata |-> clone, modified |-> now]]
    BY Zenon, <1>7 DEF WriteStage
  <2>4. [content |-> request[c].content, metadata |-> clone, modified |-> now] \in Object
    BY <2>2 DEF Object
  <2>5. QED
    BY <1>7, <2>3, <2>4 DEF WriteStage
<1>8. CASE WriteCommit(c)
  <2>1. staged[c] \in Object /\ request[c] \in Requests
    BY <1>8, PendingRequest DEF WriteCommit
  <2>2. objects' \in [Paths -> Object \cup {None}]
    BY <1>8, <2>1 DEF WriteCommit, Requests
  <2>3. callerMaps' \in SUBSET Cells
    BY <1>8, ResultType DEF WriteCommit
  <2>4. QED
    BY <1>8, <2>2, <2>3 DEF WriteCommit, Answer
<1>9. CASE Delete(c)
  BY Zenon, <1>9 DEF Delete, Answer
<1>10. CASE Copy(c)
  <2>1. objects[request[c].path] \in Object /\ request[c].to \in Paths
    BY <1>10, PendingRequest, StoredObject DEF Copy, Admitted, Requests
  <2>2. PICK clone \in Maps :
           objects' = [objects EXCEPT ![request[c].to] =
              [objects[request[c].path] EXCEPT !.metadata = clone, !.modified = now]]
    BY Zenon, <1>10 DEF Copy
  <2>3. [objects[request[c].path] EXCEPT !.metadata = clone, !.modified = now] \in Object
    BY Zenon, <2>1 DEF Object
  <2>4. QED
    BY <1>10, <2>1, <2>2, <2>3 DEF Copy, Answer
<1>11. CASE Move(c)
  <2>1. objects[request[c].path] \in Object /\ request[c].to \in Paths
    BY <1>11, PendingRequest, StoredObject DEF Move, Admitted, Requests
  <2>2. [objects[request[c].path] EXCEPT !.modified = now] \in Object
    BY <2>1 DEF Object
  <2>3. objects' \in [Paths -> Object \cup {None}]
    BY <1>11, <2>1, <2>2 DEF Move
  <2>4. QED
    BY <1>11, <2>3 DEF Move, Answer
<1>12. CASE SetMetadata(c)
  <2>1. request[c].path \in Paths /\ objects[request[c].path] \in Object
    BY <1>12, PendingRequest, StoredObject DEF SetMetadata, Requests
  <2>2. PICK clone \in Maps :
           objects' = [objects EXCEPT ![request[c].path].metadata = clone,
                                      ![request[c].path].modified = now]
    BY Zenon, <1>12 DEF SetMetadata
  <2>3. objects' \in [Paths -> Object \cup {None}]
    BY <2>1, <2>2 DEF Object
  <2>4. QED
    BY Zenon, <1>12, <2>3 DEF SetMetadata, Answer
<1>13. CASE SetVisibility(c)
  <2>1. request[c].path \in Paths /\ objects[request[c].path] \in Object
    BY <1>13, PendingRequest, StoredObject DEF SetVisibility, Requests
  <2>2. objects' \in [Paths -> Object \cup {None}]
    BY <1>13, <2>1 DEF SetVisibility, Object
  <2>3. QED
    BY <1>13, <2>2 DEF SetVisibility, Answer
<1>14. QED
  BY Zenon, <1>1, <1>2, <1>3, <1>4, <1>5, <1>6, <1>7, <1>8, <1>9, <1>10, <1>11, <1>12, <1>13
     DEF Step

\* The adapter's state is well typed in every reachable state.
THEOREM TypeCorrect == Spec => []TypeOK
<1>1. TypeOK /\ [Next]_vars => TypeOK'
  <2>1. ASSUME TypeOK, UNCHANGED vars PROVE TypeOK'
    BY <2>1 DEF vars, TypeOK, Pending
  <2>2. QED
    BY <2>1, ApplicationType, StepType DEF Next
<1>2. QED
  BY InitType, <1>1, PTL DEF Spec

-----------------------------------------------------------------------------
(* The adapter's metadata maps are private.                                *)

\* What a step may do to a stored object's map: keep the one it had, take over
\* the one of a staged object or of the path it moves from, or use a fresh one.
LEMMA FreshMap ==
    ASSUME NEW m \in Free
    PROVE  /\ m \in Cells
           /\ m \notin callerMaps
           /\ \A p \in Paths : Exists(p) => objects[p].metadata # m
           /\ \A c \in Clients : staged[c] # None => staged[c].metadata # m
  BY DEF Free

\* A clone is nil or fresh.
LEMMA Clone ==
    ASSUME NEW m, NEW clone, cloneMap(m, clone)
    PROVE  clone = NilMap \/ clone \in Free
  BY DEF cloneMap

\* Handing out a copy of a map leaves the adapter's own maps private.
LEMMA ResultPrivate ==
    ASSUME TypeOK, PrivateMetadata, NEW stored, metadataFor(stored)
    PROVE  /\ \A p \in Paths : Exists(p) => objects[p].metadata \notin callerMaps'
           /\ \A c \in Clients : staged[c] # None => staged[c].metadata \notin callerMaps'
<1>1. CASE UNCHANGED callerMaps
  BY <1>1 DEF PrivateMetadata
<1>2. ASSUME NEW clone \in Maps, cloneMap(stored.metadata, clone),
             callerMaps' = callerMaps \cup ({clone} \ {NilMap})
      PROVE  /\ \A p \in Paths : Exists(p) => objects[p].metadata \notin callerMaps'
             /\ \A c \in Clients : staged[c] # None => staged[c].metadata \notin callerMaps'
  BY <1>2, Clone, FreshMap DEF PrivateMetadata
<1>3. QED
  BY <1>1, <1>2 DEF metadataFor

\* A call, and what application code does between calls.
LEMMA ApplicationPrivate ==
    ASSUME TypeOK, PrivateMetadata,
           (\E c \in Clients : Invoke(c)) \/ MakeMap \/ DropMap \/ Tick
    PROVE  PrivateMetadata'
<1> USE DEF PrivateMetadata, Exists, Shared
<1>1. ASSUME NEW c \in Clients, Invoke(c) PROVE PrivateMetadata'
  BY <1>1 DEF Invoke
<1>2. CASE MakeMap
  BY <1>2, FreshMap DEF MakeMap
<1>3. CASE DropMap
  BY <1>3 DEF DropMap
<1>4. CASE Tick
  BY <1>4 DEF Tick
<1>5. QED
  BY <1>1, <1>2, <1>3, <1>4

\* A path whose object keeps its map, or gets a fresh one.
LEMMA StorePrivate ==
    ASSUME TypeOK, PrivateMetadata, UNCHANGED <<staged, callerMaps>>,
           NEW q \in Paths, NEW o \in Object,
           objects' = [objects EXCEPT ![q] = o],
           \/ o.metadata = NilMap
           \/ o.metadata \in Free
           \/ Exists(q) /\ o.metadata = objects[q].metadata
    PROVE  PrivateMetadata'
<1> USE DEF PrivateMetadata, Exists, Shared
<1>1. NilMap \notin callerMaps
  BY MemoryAssumption DEF TypeOK
<1>2. \A p \in Paths : objects'[p] = IF p = q THEN o ELSE objects[p]
  BY DEF TypeOK
<1>3. CASE o.metadata = NilMap
  BY <1>1, <1>2, <1>3
<1>4. CASE o.metadata \in Free
  BY <1>2, <1>4, FreshMap
<1>5. CASE Exists(q) /\ o.metadata = objects[q].metadata
  BY <1>2, <1>5
<1>6. QED
  BY <1>3, <1>4, <1>5

\* A step of the adapter stores, returns and passes on fresh maps only.
LEMMA StepPrivate ==
    ASSUME TypeOK, PrivateMetadata, NEW c \in Clients, Step(c)
    PROVE  PrivateMetadata'
<1>1. ASSUME UNCHANGED <<objects, staged, callerMaps>> PROVE PrivateMetadata'
  BY <1>1 DEF PrivateMetadata, Exists, Shared
<1>2. CASE Reject(c) \/ notFound(c) \/ AlreadyExists(c) \/ Open(c) \/ List(c)
  BY <1>1, <1>2 DEF Reject, notFound, AlreadyExists, Open, List
<1>3. CASE Stat(c)
  BY <1>3, ResultPrivate DEF Stat, PrivateMetadata, Exists, Shared
<1>4. CASE WriteStage(c)
  <2>1. PICK clone \in Maps :
           /\ cloneMap(request[c].metadata, clone)
           /\ staged' = [staged EXCEPT ![c] = [content |-> request[c].content,
                             metadata |-> clone, modified |-> now]]
    BY Zenon, <1>4 DEF WriteStage
  <2>2. UNCHANGED <<objects, callerMaps>>
    BY <1>4 DEF WriteStage
  <2>3. \A d \in Clients : staged'[d] = IF d = c
            THEN [content |-> request[c].content, metadata |-> clone, modified |-> now]
            ELSE staged[d]
    BY <2>1 DEF TypeOK
  <2>4. clone \notin callerMaps /\ (clone # NilMap => clone \in Free)
    BY <2>1, Clone, FreshMap, MemoryAssumption DEF TypeOK
  <2>5. QED
    BY <2>2, <2>3, <2>4, FreshMap DEF PrivateMetadata, Exists, Shared
<1>5. CASE WriteCommit(c)
  <2>1. \A d \in Clients : staged'[d] = IF d = c THEN None ELSE staged[d]
    BY <1>5 DEF WriteCommit, TypeOK
  <2>2. CASE UNCHANGED <<objects, callerMaps>>
    BY <2>1, <2>2 DEF PrivateMetadata, Exists, Shared
  <2>3. CASE objects' = [objects EXCEPT ![request[c].path] = staged[c]]
             /\ metadataFor(staged[c])
    <3>1. \A p \in Paths : objects'[p] = IF p = request[c].path THEN staged[c] ELSE objects[p]
      BY <2>3 DEF TypeOK
    <3>2. staged[c] # None
      BY <1>5 DEF WriteCommit
    <3>3. QED
      BY <2>1, <2>3, <3>1, <3>2, ResultPrivate DEF PrivateMetadata, Exists, Shared
  <2>4. QED
    BY <1>5, <2>2, <2>3 DEF WriteCommit
<1>6. CASE Delete(c)
  <2>1. \A p \in Paths : Exists(p)' => Exists(p) /\ objects'[p] = objects[p]
    BY <1>6 DEF Delete, TypeOK, Exists
  <2>2. QED
    BY <1>6, <2>1 DEF Delete, PrivateMetadata, Exists, Shared
<1>7. CASE Copy(c)
  <2>1. objects[request[c].path] \in Object /\ request[c].to \in Paths
    BY <1>7, PendingRequest, StoredObject DEF Copy, Pending, Admitted, Requests
  <2>2. PICK clone \in Maps :
           /\ cloneMap(objects[request[c].path].metadata, clone)
           /\ objects' = [objects EXCEPT ![request[c].to] =
                [objects[request[c].path] EXCEPT !.metadata = clone, !.modified = now]]
    BY Zenon, <1>7 DEF Copy
  <2> DEFINE o == [objects[request[c].path] EXCEPT !.metadata = clone, !.modified = now]
  <2>3. o \in Object /\ o.metadata = clone
    BY Zenon, <2>1 DEF Object, TypeOK
  <2>4. UNCHANGED <<staged, callerMaps>>
    BY <1>7 DEF Copy
  <2> HIDE DEF o
  <2>5. QED
    BY Zenon, <2>1, <2>2, <2>3, <2>4, Clone, StorePrivate DEF o
<1>8. CASE Move(c)
  <2>1. UNCHANGED <<staged, callerMaps>>
    BY <1>8 DEF Move
  <2>2. CASE request[c].path = request[c].to
    BY <1>1, <1>8, <2>1, <2>2 DEF Move
  <2>3. CASE request[c].path # request[c].to
    <3>1. objects[request[c].path] \in Object /\ request[c].to \in Paths
             /\ request[c].path \in Paths /\ Exists(request[c].path)
      BY <1>8, PendingRequest, StoredObject DEF Move, Pending, Admitted, Requests
    <3>2. \A p \in Paths : objects'[p] =
             IF p = request[c].path THEN None
             ELSE IF p = request[c].to
             THEN [objects[request[c].path] EXCEPT !.modified = now] ELSE objects[p]
      BY <1>8, <2>3, <3>1 DEF Move, TypeOK
    <3>3. [objects[request[c].path] EXCEPT !.modified = now].metadata
             = objects[request[c].path].metadata
      BY <3>1 DEF Object
    <3> DEFINE origin(p) == IF p = request[c].to THEN request[c].path ELSE p
    <3>4. ASSUME NEW p \in Paths, Exists(p)'
          PROVE  /\ origin(p) \in Paths /\ Exists(origin(p))
                 /\ objects'[p].metadata = objects[origin(p)].metadata
                 /\ p # request[c].path
      BY Zenon, <3>1, <3>2, <3>3, <3>4, <2>3 DEF Exists
    <3>5. \A p, q \in Paths : Exists(p)' /\ Exists(q)' /\ p # q => origin(p) # origin(q)
      BY <3>4
    <3> HIDE DEF origin
    <3>6. QED
      BY <2>1, <3>4, <3>5 DEF PrivateMetadata, Exists, Shared
  <2>4. QED
    BY <2>2, <2>3
<1>9. CASE SetMetadata(c)
  <2>1. request[c].path \in Paths /\ objects[request[c].path] \in Object
    BY <1>9, PendingRequest, StoredObject DEF SetMetadata, Pending, Requests
  <2>2. PICK clone \in Maps :
           /\ cloneMap(request[c].metadata, clone)
           /\ objects' = [objects EXCEPT ![request[c].path].metadata = clone,
                                         ![request[c].path].modified = now]
    BY Zenon, <1>9 DEF SetMetadata
  <2> DEFINE o == [objects[request[c].path] EXCEPT !.metadata = clone, !.modified = now]
  <2>3. o \in Object /\ o.metadata = clone
    BY Zenon, <2>1 DEF Object, TypeOK
  <2>4. UNCHANGED <<staged, callerMaps>>
    BY <1>9 DEF SetMetadata
  <2>5. objects' = [objects EXCEPT ![request[c].path] = o]
    BY Zenon, <2>1, <2>2 DEF TypeOK
  <2> HIDE DEF o
  <2>6. QED
    BY Zenon, <2>1, <2>2, <2>3, <2>4, <2>5, Clone, StorePrivate
<1>10. CASE SetVisibility(c)
  <2>1. request[c].path \in Paths /\ objects[request[c].path] \in Object
           /\ Exists(request[c].path)
    BY <1>10, PendingRequest, StoredObject DEF SetVisibility, Pending, Requests
  <2> DEFINE o == [objects[request[c].path] EXCEPT !.modified = now]
  <2>2. o \in Object /\ o.metadata = objects[request[c].path].metadata
    BY <2>1 DEF Object, TypeOK
  <2>3. UNCHANGED <<staged, callerMaps>>
    BY <1>10 DEF SetVisibility
  <2>4. objects' = [objects EXCEPT ![request[c].path] = o]
    BY <1>10, <2>1 DEF SetVisibility, TypeOK
  <2> HIDE DEF o
  <2>5. QED
    BY Zenon, <2>1, <2>2, <2>3, <2>4, StorePrivate
<1>11. QED
  BY <1>2, <1>3, <1>4, <1>5, <1>6, <1>7, <1>8, <1>9, <1>10 DEF Step

\* Application code never reaches a map of a stored or staged object, and no
\* two of them share a map: cloneMap is called wherever it is needed.
THEOREM MetadataIsPrivate == Spec => []PrivateMetadata
<1>1. Init => PrivateMetadata
  BY DEF Init, PrivateMetadata, Exists
<1>2. TypeOK /\ PrivateMetadata /\ [Next]_vars => PrivateMetadata'
  <2>1. ASSUME PrivateMetadata, UNCHANGED vars PROVE PrivateMetadata'
    BY <2>1 DEF vars, PrivateMetadata, Exists, Shared
  <2>2. QED
    BY <2>1, ApplicationPrivate, StepPrivate DEF Next
<1>3. QED
  BY <1>1, <1>2, TypeCorrect, PTL DEF Spec

-----------------------------------------------------------------------------
(* Refinement of the contract: every step of MemoryStore is, seen through  *)
(* Contract, a step of ObjectStore or none.                                *)

\* The refinement mapping of Contract.
Seen == [p \in Paths |-> IF Exists(p) THEN objects[p].content ELSE None]
Requested ==
    [c \in Clients |-> IF request[c] = None THEN None ELSE AbstractRequest(request[c])]

\* What a Write has built is what it was asked to write, and only a Copy and a
\* Move have a destination of their own.
Intended ==
    \A c \in Clients :
        /\ staged[c] # None => staged[c].content = request[c].content
        /\ request[c] # None /\ request[c].op \notin {"copy", "move"} =>
              request[c].to = request[c].path

-----------------------------------------------------------------------------
\* Intended holds throughout: Write builds its object from its own request.
LEMMA IntendedHolds == Spec => []Intended
<1>1. Init => Intended
  BY Zenon DEF Init, Intended
<1>2. TypeOK /\ Intended /\ [Next]_vars => Intended'
  <2> SUFFICES ASSUME TypeOK, Intended, [Next]_vars PROVE Intended'
    OBVIOUS
  <2>1. ASSUME NEW c \in Clients, NEW o, Answer(c, o), UNCHANGED staged, staged[c] = None
        PROVE  Intended'
    BY <2>1 DEF Answer, Intended, TypeOK
  <2>2. ASSUME NEW c \in Clients, Invoke(c)
        PROVE  Intended'
    <3>1. PICK r \in Calls : request' = [request EXCEPT ![c] = r]
      BY Zenon, <2>2 DEF Invoke
    <3>2. r.op \notin {"copy", "move"} => r.to = r.path
      BY DEF Calls
    <3>3. staged[c] = None /\ UNCHANGED staged
      BY <2>2 DEF Invoke, TypeOK, Pending
    <3>4. QED
      BY <3>1, <3>2, <3>3 DEF Intended, TypeOK
  <2>3. ASSUME NEW c \in Clients, WriteStage(c)
        PROVE  Intended'
    <3>1. PICK clone \in Maps :
             staged' = [staged EXCEPT ![c] = [content |-> request[c].content,
                            metadata |-> clone, modified |-> now]]
      BY Zenon, <2>3 DEF WriteStage
    <3>2. UNCHANGED request
      BY <2>3 DEF WriteStage
    <3>3. QED
      BY <3>1, <3>2 DEF Intended, TypeOK
  <2>4. ASSUME NEW c \in Clients, WriteCommit(c)
        PROVE  Intended'
    <3>1. PICK o \in {"exists", "ok"} : Answer(c, o)
      BY <2>4 DEF WriteCommit
    <3>2. staged' = [staged EXCEPT ![c] = None]
      BY <2>4 DEF WriteCommit
    <3>3. QED
      BY <3>1, <3>2 DEF Answer, Intended, TypeOK
  <2>5. ASSUME NEW c \in Clients, Step(c), ~WriteStage(c), ~WriteCommit(c)
        PROVE  Intended'
    <3>1. \E o : Answer(c, o)
      BY Zenon, <2>5
         DEF Step, Reject, notFound, AlreadyExists, Open, Stat, List, Delete, Copy, Move,
                  SetMetadata, SetVisibility
    <3>2. UNCHANGED staged
      BY Zenon, <2>5
         DEF Step, Reject, notFound, AlreadyExists, Open, Stat, List, Delete, Copy, Move,
                  SetMetadata, SetVisibility
    <3>3. staged[c] = None
      BY Zenon, <2>5
         DEF Step, Reject, notFound, AlreadyExists, Open, Stat, List, Delete, Copy, Move,
                  SetMetadata, SetVisibility, TypeOK, Pending
    <3>4. QED
      BY <2>1, <3>1, <3>2, <3>3
  <2>6. CASE UNCHANGED <<staged, request>>
    BY <2>6 DEF Intended
  <2>7. QED
    BY <2>2, <2>3, <2>4, <2>5, <2>6 DEF Next, MakeMap, DropMap, Tick, vars
<1>3. QED
  BY <1>1, <1>2, TypeCorrect, PTL DEF Spec

-----------------------------------------------------------------------------
\* A call that answers does so in the contract.
LEMMA Answers ==
    ASSUME TypeOK, NEW c \in Clients, NEW o, Answer(c, o)
    PROVE  Contract!Answer(c, o)
<1>1. Requested' = [Requested EXCEPT ![c] = None]
  BY Zenon DEF Answer, Requested, TypeOK, AbstractRequest
<1>2. QED
  BY <1>1 DEF Contract!Answer, Answer, Requested

\* What the contract sees of a call in progress.
LEMMA InProgress ==
    ASSUME TypeOK, NEW c \in Clients, outcome[c] = "pending"
    PROVE  /\ request[c] \in Requests /\ request[c] # None
           /\ request[c].path \in Paths /\ request[c].to \in Paths
           /\ Requested[c].op = IF request[c].op \in {"setmetadata", "setvisibility"}
                                THEN "stat" ELSE request[c].op
           /\ Requested[c].path = request[c].path
           /\ Requested[c].to = request[c].to
           /\ Requested[c].content = request[c].content
           /\ Requested[c].replace = request[c].replace
<1>1. request[c] \in Requests /\ request[c] # None
  BY PendingRequest DEF TypeOK
<1>2. Requested[c] = AbstractRequest(request[c])
  BY <1>1 DEF Requested
<1>3. QED
  BY <1>1, <1>2 DEF AbstractRequest, Requests

\* A path holds an object exactly if the contract sees a content there.
LEMMA SeenIff ==
    ASSUME TypeOK, NEW p \in Paths
    PROVE  /\ Exists(p) <=> Seen[p] # None
           /\ Exists(p) => Seen[p] = objects[p].content
<1>1. Exists(p) => objects[p].content \in Contents
  BY StoredObject DEF Object
<1>2. QED
  BY <1>1, MemoryAssumption DEF Seen

\* The calls that change no object.
LEMMA ReadsRefine ==
    ASSUME TypeOK, NEW c \in Clients,
           Reject(c) \/ notFound(c) \/ Open(c) \/ Stat(c) \/ List(c)
    PROVE  Contract!Next
<1>0. UNCHANGED objects /\ outcome[c] = "pending"
  BY DEF Reject, notFound, Open, Stat, List, Pending
<1>1. Seen' = Seen
  BY <1>0 DEF Seen, Exists
<1>2. CASE Reject(c)
  <2>1. Contract!Fail(c)
    BY <1>0, <1>1, <1>2, Answers DEF Reject, Contract!Fail, Seen
  <2>2. QED
    BY <2>1 DEF Contract!Next
<1>3. CASE notFound(c)
  <2>1. Contract!NotFound(c)
    BY Zenon, <1>0, <1>1, <1>3, Answers, InProgress, SeenIff
       DEF notFound, Contract!NotFound, Seen, Requested
  <2>2. QED
    BY <2>1 DEF Contract!Next
<1>4. CASE Open(c)
  <2>1. answer' = [answer EXCEPT ![c] = Seen[Requested[c].path]] /\ Seen[Requested[c].path] # None
    <3>1. Requested[c].path = request[c].path /\ request[c].path \in Paths
      BY <1>0, InProgress
    <3>2. Exists(request[c].path)
      BY <1>4 DEF Open
    <3>3. /\ Seen[request[c].path] = objects[request[c].path].content
          /\ Seen[request[c].path] # None
      BY <3>1, <3>2, SeenIff
    <3>4. answer' = [answer EXCEPT ![c] = objects[request[c].path].content]
      BY <1>4 DEF Open
    <3>5. QED
      BY <3>1, <3>3, <3>4
  <2>2. Contract!Read(c)
    BY Zenon, <1>0, <1>1, <1>4, <2>1, Answers, InProgress
       DEF Open, Pending, Contract!Read, Contract!Pending, Seen, Requested
  <2>3. QED
    BY <2>2 DEF Contract!Next
<1>5. CASE Stat(c)
  <2>1. Seen[Requested[c].path] # None
    BY <1>0, <1>5, InProgress, SeenIff DEF Stat
  <2>2. Contract!Stat(c)
    BY Zenon, <1>0, <1>1, <1>5, <2>1, Answers, InProgress
       DEF Stat, Pending, Contract!Stat, Contract!Pending, Seen, Requested
  <2>3. QED
    BY <2>2 DEF Contract!Next
<1>6. CASE List(c)
  <2>1. CASE Answer(c, "ok")
    <3>1. Contract!List(c)
      BY Zenon, <1>0, <1>1, <1>6, <2>1, Answers, InProgress
         DEF List, Pending, Contract!List, Contract!Pending, Seen, Requested
    <3>2. QED
      BY <3>1 DEF Contract!Next
  <2>2. CASE Answer(c, "error")
    <3>1. Contract!Fail(c)
      BY <1>0, <1>1, <1>6, <2>2, Answers DEF List, Contract!Fail, Seen
    <3>2. QED
      BY <3>1 DEF Contract!Next
  <2>3. QED
    BY <1>6, <2>1, <2>2 DEF List
<1>7. QED
  BY <1>2, <1>3, <1>4, <1>5, <1>6

\* What the contract sees after one object was replaced or removed.
LEMMA SeenAfter ==
    ASSUME TypeOK, NEW q \in Paths, NEW o \in Object \cup {None},
           objects' = [objects EXCEPT ![q] = o]
    PROVE  Seen' = [Seen EXCEPT ![q] = IF o = None THEN None ELSE o.content]
<1>1. \A p \in Paths : objects'[p] = IF p = q THEN o ELSE objects[p]
  BY DEF TypeOK
<1>2. \A p \in Paths : Seen'[p] =
         IF p = q THEN (IF o = None THEN None ELSE o.content) ELSE Seen[p]
  BY <1>1 DEF Seen, Exists
<1>3. QED
  BY ZenonT(60), <1>2 DEF Seen

\* A publication at the destination of c's call.
LEMMA Puts ==
    ASSUME TypeOK, NEW c \in Clients, outcome[c] = "pending", Answer(c, "ok"),
           NEW o \in Object, objects' = [objects EXCEPT ![request[c].to] = o],
           request[c].replace \/ ~Exists(request[c].to)
    PROVE  Contract!Put(c, o.content)
<1>1. /\ request[c].to \in Paths /\ Requested[c].to = request[c].to
      /\ Requested[c].replace = request[c].replace
  BY InProgress
<1>2. o # None
  BY MemoryAssumption
<1>3. Seen' = [Seen EXCEPT ![Requested[c].to] = o.content]
  BY ZenonT(60), <1>1, <1>2, SeenAfter
<1>4. Requested[c].replace \/ Seen[Requested[c].to] = None
  BY <1>1, SeenIff
<1>5. Contract!Answer(c, "ok")
  BY Answers
<1>6. QED
  BY Zenon, <1>3, <1>4, <1>5 DEF Contract!Put, Seen, Requested

\* A Write takes effect when it has the lock, whether it publishes or finds an
\* object that it may not replace.
LEMMA WriteRefines ==
    ASSUME TypeOK, Intended, NEW c \in Clients, WriteCommit(c)
    PROVE  Contract!Next
<1>0. /\ outcome[c] = "pending" /\ request[c].op = "write" /\ request[c].to = request[c].path
      /\ staged[c] \in Object /\ staged[c].content = request[c].content
      /\ request[c] # None /\ UNCHANGED answer
  BY SMTT(60) DEF WriteCommit, TypeOK, Pending, Intended
<1>1. /\ request[c].path \in Paths /\ Requested[c].op = "write"
      /\ Requested[c].to = request[c].to /\ Requested[c].content = request[c].content
      /\ Requested[c].replace = request[c].replace
  BY <1>0, InProgress
<1>2. CASE ~request[c].replace /\ Exists(request[c].path)
  <2>1. Answer(c, "exists") /\ UNCHANGED objects
    BY <1>2 DEF WriteCommit
  <2>2. Contract!Answer(c, "exists") /\ Seen' = Seen
    BY <2>1, Answers DEF Seen, Exists
  <2>3. Seen[Requested[c].to] # None
    BY <1>0, <1>1, <1>2, SeenIff
  <2>4. Contract!Exists(c)
    BY Zenon, <1>0, <1>1, <1>2, <2>2, <2>3 DEF Contract!Exists, Seen, Requested
  <2>5. QED
    BY <2>4 DEF Contract!Next
<1>3. CASE ~(~request[c].replace /\ Exists(request[c].path))
  <2>1. Answer(c, "ok") /\ objects' = [objects EXCEPT ![request[c].to] = staged[c]]
    BY <1>0, <1>3 DEF WriteCommit
  <2>2. Contract!Put(c, Requested[c].content)
    <3>1. request[c].replace \/ ~Exists(request[c].to)
      BY <1>0, <1>3
    <3>2. PICK o \in Object : o = staged[c]
      BY <1>0
    <3>3. Contract!Put(c, o.content)
      BY Zenon, <1>0, <2>1, <3>1, <3>2, Puts
    <3>4. o.content = Requested[c].content
      BY <1>0, <1>1, <3>2
    <3>5. QED
      BY Zenon, <3>3, <3>4 DEF Contract!Put
  <2>3. Contract!Write(c)
    BY <1>0, <1>1, <2>2 DEF Contract!Write, Contract!Pending, Requested
  <2>4. QED
    BY <2>3 DEF Contract!Next
<1>4. QED
  BY <1>2, <1>3

\* Copy, Move, Delete and the two setters, each in one critical section.
LEMMA ChangesRefine ==
    ASSUME TypeOK, Intended, NEW c \in Clients,
           AlreadyExists(c) \/ Delete(c) \/ Copy(c) \/ Move(c) \/ SetMetadata(c) \/ SetVisibility(c)
    PROVE  Contract!Next
<1> DEFINE src == request[c].path
<1> DEFINE dst == request[c].to
<1> DEFINE old == objects[src]
<1>0. /\ outcome[c] = "pending" /\ src \in Paths /\ dst \in Paths
      /\ Exists(src) /\ old \in Object /\ old.content \in Contents
      /\ Seen[src] = old.content /\ Seen[src] # None /\ now \in 0..MaxTime
      /\ UNCHANGED answer
  <2>1. outcome[c] = "pending" /\ Exists(src) /\ UNCHANGED answer
    BY Zenon
       DEF AlreadyExists, Delete, Copy, Move, SetMetadata, SetVisibility, Pending, Admitted
  <2>2. src \in Paths /\ dst \in Paths
    BY Zenon, <2>1, InProgress
  <2>3. old \in Object
    BY Zenon, <2>1, <2>2, StoredObject
  <2>4. old.content \in Contents
    BY Zenon, <2>3 DEF Object
  <2>5. QED
    BY Zenon, <2>1, <2>2, <2>3, <2>4, SeenIff DEF TypeOK
<1>1. /\ Requested[c].path = src /\ Requested[c].to = dst
      /\ Requested[c].replace = request[c].replace
      /\ Requested[c].op = IF request[c].op \in {"setmetadata", "setvisibility"}
                           THEN "stat" ELSE request[c].op
  BY Zenon, <1>0, InProgress
<1> HIDE DEF src, dst, old
<1>2. CASE AlreadyExists(c)
  <2>1. Contract!Answer(c, "exists") /\ Seen' = Seen
    BY Zenon, <1>2, Answers DEF AlreadyExists, Seen, Exists
  <2>2. Seen[Requested[c].to] # None
    BY Zenon, <1>0, <1>1, <1>2, SeenIff DEF AlreadyExists, dst
  <2>3. Contract!Exists(c)
    BY Zenon, <1>0, <1>1, <1>2, <2>1, <2>2 DEF AlreadyExists, Contract!Exists, Seen, Requested
  <2>4. QED
    BY <2>3 DEF Contract!Next
<1>3. CASE Delete(c)
  <2>1. Seen' = [Seen EXCEPT ![Requested[c].path] = None]
    BY Zenon, <1>0, <1>1, <1>3, SeenAfter DEF Delete, src
  <2>2. Contract!Answer(c, "ok")
    BY <1>3, Answers DEF Delete
  <2>3. Requested[c].op = "delete"
    BY Zenon, <1>1, <1>3 DEF Delete, Pending
  <2>4. Contract!Delete(c)
    BY Zenon, <1>0, <2>1, <2>2, <2>3 DEF Contract!Delete, Contract!Pending, Seen, Requested
  <2>5. QED
    BY <2>4 DEF Contract!Next
<1>4. CASE Copy(c)
  <2>1. PICK clone \in Maps :
           objects' = [objects EXCEPT ![dst] = [old EXCEPT !.metadata = clone, !.modified = now]]
    BY Zenon, <1>4 DEF Copy, src, dst, old
  <2>2. [old EXCEPT !.metadata = clone, !.modified = now] \in Object
    BY Zenon, <1>0 DEF Object
  <2>3. PICK o \in Object : o = [old EXCEPT !.metadata = clone, !.modified = now]
    BY <2>2
  <2>4. Answer(c, "ok") /\ (request[c].replace \/ ~Exists(dst))
    BY Zenon, <1>4 DEF Copy, Admitted, dst
  <2>5. Contract!Put(c, o.content)
    BY Zenon, <1>0, <2>1, <2>3, <2>4, Puts DEF dst
  <2>6. o.content = Seen[Requested[c].path]
    BY <1>0, <1>1, <2>3 DEF Object
  <2>7. Contract!Put(c, Seen[Requested[c].path])
    BY Zenon, <2>5, <2>6 DEF Contract!Put
  <2>8. Requested[c].op = "copy"
    BY Zenon, <1>1, <1>4 DEF Copy, Pending
  <2>9. Contract!Copy(c)
    BY Zenon, <1>0, <1>1, <2>7, <2>8 DEF Contract!Copy, Contract!Pending, Seen, Requested
  <2>10. QED
    BY <2>9 DEF Contract!Next
<1>5. CASE Move(c)
  <2>1. /\ Answer(c, "ok") /\ (request[c].replace \/ ~Exists(dst))
        /\ Requested[c].op = "move"
    BY <1>1, <1>5 DEF Move, Admitted, Pending, dst
  <2>2. Requested[c].replace \/ Seen[Requested[c].to] = None
    BY Zenon, <1>0, <1>1, <2>1, SeenIff
  <2>3. Seen' = [Seen EXCEPT ![src] = None, ![dst] = Seen[src]]
    <3>1. CASE src = dst
      <4>1. Seen' = Seen
        BY <1>5, <3>1 DEF Move, src, dst, Seen, Exists
      <4>2. QED
        BY Zenon, <3>1, <4>1 DEF Seen
    <3>2. CASE src # dst
      <4> DEFINE o == [old EXCEPT !.modified = now]
      <4>1. o \in Object /\ o.content = old.content /\ o # None
        BY <1>0, MemoryAssumption DEF Object
      <4>2. objects' = [objects EXCEPT ![dst] = o, ![src] = None]
        BY <1>5, <3>2 DEF Move, src, dst, old
      <4> HIDE DEF o
      <4>3. \A p \in Paths : objects'[p] =
               IF p = src THEN None ELSE IF p = dst THEN o ELSE objects[p]
        BY Zenon, <1>0, <3>2, <4>2 DEF TypeOK
      <4>4. \A p \in Paths : Seen'[p] =
               IF p = dst THEN Seen[src] ELSE IF p = src THEN None ELSE Seen[p]
        BY Zenon, <1>0, <3>2, <4>1, <4>3 DEF Seen, Exists
      <4>5. QED
        BY Zenon, <1>0, <3>2, <4>4 DEF Seen
    <3>3. QED
      BY <3>1, <3>2
  <2>4. Contract!Answer(c, "ok")
    BY <2>1, Answers
  <2>5. Contract!Move(c)
    BY Zenon, <1>0, <1>1, <2>1, <2>2, <2>3, <2>4
       DEF Contract!Move, Contract!Pending, Seen, Requested
  <2>6. QED
    BY <2>5 DEF Contract!Next
<1>6. CASE SetMetadata(c) \/ SetVisibility(c)
  <2>1. \A p \in Paths : (Exists(p)' <=> Exists(p)) /\ (Exists(p) => objects'[p].content = objects[p].content)
    <3>1. CASE SetMetadata(c)
      <4>1. PICK clone \in Maps :
               objects' = [objects EXCEPT ![src].metadata = clone, ![src].modified = now]
        BY Zenon, <3>1 DEF SetMetadata, src
      <4>2. QED
        BY <1>0, <4>1, MemoryAssumption DEF TypeOK, Object, Exists, old
    <3>2. CASE SetVisibility(c)
      BY <1>0, <3>2, MemoryAssumption DEF SetVisibility, TypeOK, Object, Exists, old, src
    <3>3. QED
      BY <1>6, <3>1, <3>2
  <2>2. Seen' = Seen
    BY <2>1 DEF Seen
  <2>3. Contract!Answer(c, "ok")
    BY Zenon, <1>6, Answers DEF SetMetadata, SetVisibility
  <2>4. Requested[c].op = "stat"
    BY Zenon, <1>1, <1>6 DEF SetMetadata, SetVisibility, Pending
  <2>5. Contract!Stat(c)
    BY Zenon, <1>0, <1>1, <2>2, <2>3, <2>4 DEF Contract!Stat, Contract!Pending, Seen, Requested
  <2>6. QED
    BY <2>5 DEF Contract!Next
<1>7. QED
  BY <1>2, <1>3, <1>4, <1>5, <1>6

\* A call begins in the contract as well, with the request it maps to.
LEMMA InvokeRefines ==
    ASSUME TypeOK, NEW c \in Clients, Invoke(c)
    PROVE  Contract!Next
<1>1. PICK r \in Requests : request' = [request EXCEPT ![c] = r]
  BY Zenon DEF Invoke, Calls
<1>2. r # None
  BY MemoryAssumption
<1>3. request'[c] = r /\ \A d \in Clients : d # c => request'[d] = request[d]
  BY <1>1 DEF TypeOK
<1>4. Requested' = [Requested EXCEPT ![c] = AbstractRequest(r)]
  BY Zenon, <1>2, <1>3 DEF Requested
<1>5. AbstractRequest(r) \in Contract!Requests
  BY DEF AbstractRequest, Requests, Contract!Requests, Contract!Methods
<1>6. Requested'[c] = AbstractRequest(r)
  BY Zenon, <1>4 DEF Requested
<1>7. Seen' = Seen
  BY DEF Invoke, Seen, Exists
<1>8. outcome[c] \notin {"pending", "loaded"}
  BY DEF Invoke, TypeOK
<1>9. Contract!Invoke(c)
  BY Zenon, <1>4, <1>5, <1>6, <1>7, <1>8
     DEF Invoke, Contract!Invoke, Contract!Returned, Requested, Seen
<1>10. QED
  BY <1>9 DEF Contract!Next

-----------------------------------------------------------------------------
\* Linearizable: every call of the memory adapter takes effect in one step
\* between its invocation and its return, with the answer and the change that
\* contracts.go promises, whatever the other clients do (memory.go, every
\* operation under Adapter.mu).  A create-only Write that lost a race changes
\* nothing, and a Move onto the same path keeps the object.
THEOREM MemoryImplementsContract == Spec => Linearizable
<1>1. Init => Contract!Init
  <2> SUFFICES ASSUME Init PROVE Contract!Init
    OBVIOUS
  <2>1. Seen = [p \in Paths |-> None] /\ Requested = [c \in Clients |-> None]
    BY DEF Init, Seen, Requested, Exists
  <2>2. QED
    BY <2>1 DEF Init, Contract!Init, Seen, Requested
<1>2. TypeOK /\ Intended /\ [Next]_vars => [Contract!Next]_Contract!vars
  <2> SUFFICES ASSUME TypeOK, Intended, [Next]_vars PROVE [Contract!Next]_Contract!vars
    OBVIOUS
  <2>1. CASE \E c \in Clients : Invoke(c)
    BY <2>1, InvokeRefines
  <2>2. ASSUME NEW c \in Clients, Step(c), ~WriteStage(c)
        PROVE  Contract!Next
    BY <2>2, ReadsRefine, WriteRefines, ChangesRefine DEF Step
  <2>3. ASSUME UNCHANGED <<objects, request, outcome, answer>>
        PROVE  UNCHANGED Contract!vars
    <3>1. Seen' = Seen /\ Requested' = Requested
      BY <2>3 DEF Seen, Requested, Exists
    <3>2. QED
      BY <2>3, <3>1 DEF Contract!vars, Seen, Requested
  <2>4. CASE (\E c \in Clients : WriteStage(c)) \/ MakeMap \/ DropMap \/ Tick \/ UNCHANGED vars
    <3>1. UNCHANGED <<objects, request, outcome, answer>>
      BY Zenon, <2>4 DEF WriteStage, MakeMap, DropMap, Tick, vars
    <3>2. QED
      BY <2>3, <3>1
  <2>5. QED
    BY <2>1, <2>2, <2>4 DEF Next
<1>3. QED
  BY <1>1, <1>2, TypeCorrect, IntendedHolds, PTL DEF Spec, Linearizable, Contract!Spec
-----------------------------------------------------------------------------
(* An object is stamped within the call that stores it.                    *)

\* The inductive invariant: no call, stored object or staged object is ahead of
\* the clock, and what a Write has staged it has stamped since it was called.
Clocked ==
    /\ \A p \in Paths : Exists(p) => objects[p].modified <= now
    /\ \A c \in Clients :
          /\ outcome[c] = "pending" => since[c] <= now
          /\ staged[c] # None => staged[c].modified \in since[c]..now

\* A step that stores an object is the last one of a call that succeeds, and
\* stamps it with the present, or with the time at which Write staged it.
LEMMA Stamps ==
    ASSUME TypeOK, Clocked, NEW c \in Clients, Step(c),
           NEW p \in Paths, Exists(p)', objects'[p] # objects[p]
    PROVE  /\ outcome[c] = "pending" /\ outcome'[c] = "ok"
           /\ objects'[p].modified \in since[c]..now
           /\ request[c].op = "write" \/ objects'[p].modified = now
<1>1. ASSUME outcome[c] = "pending", Answer(c, "ok") PROVE outcome'[c] = "ok"
  BY Zenon, <1>1 DEF Answer, TypeOK
<1>2. ASSUME outcome[c] = "pending" PROVE now \in since[c]..now
  <2>1. since[c] \in 0..MaxTime /\ now \in 0..MaxTime
    BY Zenon DEF TypeOK
  <2>2. since[c] <= now
    BY Zenon, <1>2 DEF Clocked
  <2>3. QED
    BY <2>1, <2>2
<1>3. objects' # objects
  OBVIOUS
<1>4. CASE WriteCommit(c)
  <2>1. Pending(c, "write") /\ staged[c] # None
    BY Zenon, <1>4 DEF WriteCommit, TypeOK
  <2>2. objects' = [objects EXCEPT ![request[c].path] = staged[c]] /\ Answer(c, "ok")
    BY <1>3, <1>4 DEF WriteCommit
  <2>3. objects'[p] = staged[c]
    BY Zenon, <2>2 DEF TypeOK
  <2>4. QED
    BY Zenon, <1>1, <2>1, <2>2, <2>3 DEF Clocked, Pending
<1>5. CASE Delete(c)
  <2>1. objects' = [objects EXCEPT ![request[c].path] = None]
    BY <1>5 DEF Delete
  <2>2. QED
    BY <2>1 DEF TypeOK, Exists
<1>6. CASE Copy(c)
  <2>1. objects[request[c].path] \in Object /\ request[c].to \in Paths
    BY <1>6, PendingRequest, StoredObject DEF Copy, Pending, Admitted, Requests
  <2>2. PICK clone \in Maps : objects' = [objects EXCEPT ![request[c].to] =
              [objects[request[c].path] EXCEPT !.metadata = clone, !.modified = now]]
    BY Zenon, <1>6 DEF Copy
  <2>3. objects'[p] = [objects[request[c].path] EXCEPT !.metadata = clone, !.modified = now]
    BY <2>1, <2>2 DEF TypeOK
  <2>4. objects'[p].modified = now
    BY <2>1, <2>3 DEF Object
  <2>5. QED
    BY <1>1, <1>2, <1>6, <2>4 DEF Copy, Pending
<1>7. CASE Move(c)
  <2>1. /\ objects[request[c].path] \in Object
        /\ request[c].to \in Paths /\ request[c].path \in Paths
    BY <1>7, PendingRequest, StoredObject DEF Move, Pending, Admitted, Requests
  <2>2. /\ request[c].path # request[c].to
        /\ objects' = [objects EXCEPT
              ![request[c].to] = [objects[request[c].path] EXCEPT !.modified = now],
              ![request[c].path] = None]
    BY <1>3, <1>7 DEF Move
  <2>3. objects'[p] = [objects[request[c].path] EXCEPT !.modified = now]
    BY <2>1, <2>2 DEF TypeOK, Exists
  <2>4. objects'[p].modified = now
    BY <2>1, <2>3 DEF Object
  <2>5. QED
    BY <1>1, <1>2, <1>7, <2>4 DEF Move, Pending
<1>8. CASE SetMetadata(c)
  <2>1. request[c].path \in Paths /\ objects[request[c].path] \in Object
    BY <1>8, PendingRequest, StoredObject DEF SetMetadata, Pending, Requests
  <2>2. PICK clone \in Maps :
           objects' = [objects EXCEPT ![request[c].path].metadata = clone,
                                      ![request[c].path].modified = now]
    BY Zenon, <1>8 DEF SetMetadata
  <2>3. p = request[c].path
    BY <2>2 DEF TypeOK
  <2>4. objects'[p].modified = now
    BY <2>1, <2>2, <2>3 DEF TypeOK, Object
  <2>5. QED
    BY <1>1, <1>2, <1>8, <2>4 DEF SetMetadata, Pending
<1>9. CASE SetVisibility(c)
  <2>1. request[c].path \in Paths /\ objects[request[c].path] \in Object
    BY <1>9, PendingRequest, StoredObject DEF SetVisibility, Pending, Requests
  <2>2. objects' = [objects EXCEPT ![request[c].path].modified = now]
    BY <1>9 DEF SetVisibility
  <2>3. p = request[c].path
    BY <2>2 DEF TypeOK
  <2>4. objects'[p].modified = now
    BY <2>1, <2>2, <2>3 DEF TypeOK, Object
  <2>5. QED
    BY <1>1, <1>2, <1>9, <2>4 DEF SetVisibility, Pending
<1>10. CASE Reject(c) \/ notFound(c) \/ AlreadyExists(c) \/ Open(c) \/ Stat(c) \/ List(c)
            \/ WriteStage(c)
  BY Zenon, <1>3, <1>10 DEF Reject, notFound, AlreadyExists, Open, Stat, List, WriteStage
<1>11. QED
  BY Zenon, <1>4, <1>5, <1>6, <1>7, <1>8, <1>9, <1>10 DEF Step

\* What a step does to the calls: the clock stands still, a call that is still
\* in progress was in progress, and what is staged is new and of the present.
LEMMA CallsMove ==
    ASSUME TypeOK, NEW c \in Clients, Step(c)
    PROVE  /\ UNCHANGED <<since, now>>
           /\ \A d \in Clients : outcome'[d] = "pending" => outcome[d] = "pending"
           /\ \A d \in Clients : staged'[d] # None =>
                 \/ staged'[d] = staged[d]
                 \/ outcome[d] = "pending" /\ staged'[d].modified = now
<1> USE DEF TypeOK
<1>1. CASE Reject(c) \/ notFound(c) \/ AlreadyExists(c) \/ Open(c) \/ Stat(c)
  BY Zenon, <1>1 DEF Reject, notFound, AlreadyExists, Open, Stat, Answer
<1>2. CASE List(c)
  BY Zenon, <1>2 DEF List, Answer
<1>3. CASE WriteStage(c)
  <2>1. PICK clone \in Maps :
           staged' = [staged EXCEPT ![c] = [content |-> request[c].content,
                          metadata |-> clone, modified |-> now]]
    BY ZenonT(60), <1>3 DEF WriteStage
  <2>2. QED
    BY Zenon, <1>3, <2>1 DEF WriteStage, Pending
<1>4. CASE WriteCommit(c)
  BY ZenonT(60), <1>4 DEF WriteCommit, Answer
<1>5. CASE Delete(c) \/ Copy(c) \/ Move(c) \/ SetMetadata(c) \/ SetVisibility(c)
  BY Zenon, <1>5 DEF Delete, Copy, Move, SetMetadata, SetVisibility, Answer
<1>6. QED
  BY Zenon, <1>1, <1>2, <1>3, <1>4, <1>5 DEF Step

\* Times are numbers.
LEMMA Times ==
    ASSUME TypeOK
    PROVE  now \in Nat /\ \A c \in Clients : since[c] \in Nat
<1>1. now \in 0..MaxTime /\ \A c \in Clients : since[c] \in 0..MaxTime
  BY Zenon DEF TypeOK
<1>2. 0..MaxTime \subseteq Nat
  BY MemoryAssumption
<1>3. QED
  BY Zenon, <1>1, <1>2

\* The clock never falls behind a stamp.
LEMMA ClockedNext == TypeOK /\ Clocked /\ [Next]_vars => Clocked'
<1> SUFFICES ASSUME TypeOK, Clocked, [Next]_vars PROVE Clocked'
  OBVIOUS
<1>1. ASSUME NEW c \in Clients, Step(c) PROVE Clocked'
  <2>1. ASSUME NEW p \in Paths, Exists(p)' PROVE objects'[p].modified <= now'
    <3>1. CASE objects'[p] = objects[p]
      BY <1>1, <2>1, <3>1, CallsMove DEF Clocked, Exists
    <3>2. CASE objects'[p] # objects[p]
      <4>1. PICK m, t, n : /\ m = objects'[p].modified /\ t = since[c] /\ n = now
                           /\ m \in t..n /\ now' = n
        BY Zenon, <1>1, <2>1, <3>2, CallsMove, Stamps
      <4>2. t \in Nat /\ n \in Nat
        BY Zenon, <4>1, Times
      <4>3. m <= n
        BY <4>1, <4>2
      <4>4. QED
        BY Zenon, <4>1, <4>3
    <3>3. QED
      BY <3>1, <3>2
  <2>2. ASSUME NEW d \in Clients
        PROVE  /\ outcome'[d] = "pending" => since'[d] <= now'
               /\ staged'[d] # None => staged'[d].modified \in since'[d]..now'
    <3>1. /\ since' = since /\ now' = now
          /\ outcome'[d] = "pending" => outcome[d] = "pending"
          /\ staged'[d] # None => \/ staged'[d] = staged[d]
                                  \/ outcome[d] = "pending" /\ staged'[d].modified = now
      BY Zenon, <1>1, CallsMove
    <3>2. /\ outcome[d] = "pending" => since[d] <= now
          /\ staged[d] # None => staged[d].modified \in since[d]..now
      BY Zenon DEF Clocked
    <3>3. since[d] \in Nat /\ now \in Nat
      BY Zenon, Times
    <3>4. QED
      <4>1. PICK t, n : t = since[d] /\ n = now
        BY Zenon
      <4>2. t <= n => n \in t..n
        BY <3>3, <4>1
      <4>3. staged[d] # None => staged[d].modified \in t..n
        BY Zenon, <3>2, <4>1
      <4>4. outcome[d] = "pending" => t <= n
        BY Zenon, <3>2, <4>1
      <4>5. QED
        BY Zenon, <3>1, <4>1, <4>2, <4>3, <4>4
  <2>3. QED
    BY Zenon, <2>1, <2>2 DEF Clocked
<1>2. ASSUME NEW c \in Clients, Invoke(c) PROVE Clocked'
  <2>1. staged[c] = None
    BY Zenon, <1>2 DEF Invoke, TypeOK, Pending
  <2>2. /\ since'[c] = now /\ UNCHANGED <<objects, staged, now>>
        /\ \A d \in Clients : d # c => since'[d] = since[d] /\ outcome'[d] = outcome[d]
    BY Zenon, <1>2 DEF Invoke, TypeOK
  <2>3. now <= now
    BY Times
  <2>4. \A p \in Paths : Exists(p)' => objects'[p].modified <= now'
    BY Zenon, <2>2 DEF Clocked, Exists
  <2>5. ASSUME NEW d \in Clients
        PROVE  /\ outcome'[d] = "pending" => since'[d] <= now'
               /\ staged'[d] # None => staged'[d].modified \in since'[d]..now'
    BY Zenon, <2>1, <2>2, <2>3 DEF Clocked
  <2>6. QED
    BY Zenon, <2>4, <2>5 DEF Clocked
<1>3. CASE MakeMap \/ DropMap
  BY <1>3 DEF MakeMap, DropMap, Clocked, Exists
<1>4. CASE Tick
  <2>1. \A p \in Paths : Exists(p) => objects[p].modified \in Nat
    BY StoredObject DEF Object
  <2>2. \A c \in Clients : staged[c] # None => staged[c].modified \in Nat
    BY SMTT(60) DEF TypeOK, Object
  <2>3. QED
    BY SMTT(60), <1>4, <2>1, <2>2 DEF Tick, Clocked, TypeOK, Exists
<1>5. CASE UNCHANGED vars
  BY <1>5 DEF vars, Clocked, Exists
<1>6. QED
  BY <1>1, <1>2, <1>3, <1>4, <1>5 DEF Next

\* Every object is stamped with a time within the call that stored it, and only
\* Write, which reads the clock before it has the lock, may put an older stamp
\* in the place of a newer one.
THEOREM StampsAreTimely == Spec => StampWithinCall
<1>1. Init => Clocked
  BY DEF Init, Clocked, Exists
<1>2. ASSUME TypeOK, Clocked, [Next]_vars,
             NEW p \in Paths, Exists(p)', objects'[p] # objects[p]
      PROVE  \E c \in Clients :
                /\ outcome[c] = "pending" /\ outcome'[c] = "ok"
                /\ objects'[p].modified \in since[c]..now
                /\ \/ request[c].op = "write"
                   \/ ~Exists(p)
                   \/ objects'[p].modified >= objects[p].modified
  <2>1. PICK c \in Clients : Step(c)
    BY Zenon, <1>2 DEF Next, Invoke, MakeMap, DropMap, Tick, vars
  <2>2. Exists(p) => objects[p].modified <= now /\ objects[p].modified \in Nat
    <3>1. Exists(p) => objects[p] \in Object
      BY Zenon, <1>2, StoredObject
    <3>2. Exists(p) => objects[p].modified \in 0..MaxTime
      BY Zenon, <3>1 DEF Object
    <3>3. \A x \in 0..MaxTime : x \in Nat
      BY MemoryAssumption
    <3>4. Exists(p) => objects[p].modified <= now
      BY Zenon, <1>2 DEF Clocked
    <3>5. QED
      BY Zenon, <3>2, <3>3, <3>4
  <2>3. QED
    BY ZenonT(60), <1>2, <2>1, <2>2, Stamps DEF TypeOK
<1>3. TypeOK /\ Clocked /\ [Next]_vars =>
         [\A p \in Paths : Exists(p)' /\ objects'[p] # objects[p] =>
             \E c \in Clients :
                /\ outcome[c] = "pending" /\ outcome'[c] = "ok"
                /\ objects'[p].modified \in since[c]..now
                /\ \/ request[c].op = "write"
                   \/ ~Exists(p)
                   \/ objects'[p].modified >= objects[p].modified]_vars
  BY <1>2
<1>4. QED
  BY <1>1, <1>3, ClockedNext, TypeCorrect, PTL DEF Spec, StampWithinCall
=============================================================================
