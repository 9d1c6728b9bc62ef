----------------------------- MODULE S3StoreProofs -----------------------------
(***************************************************************************)
(* Proofs about S3Store, for any number of clients, paths, contents and    *)
(* modifications of the bucket: what a call reports of its own object, and *)
(* that the adapter implements the contract although a call is several     *)
(* requests and any reply can be lost.                                     *)
(***************************************************************************)
EXTENDS S3Store, TLAPS

\* Where a call can be, by its operation and by whether its upload was served.
Progress ==
    \A c \in Clients : request[c] # None =>
        /\ request[c] \in Calls
        /\ step[c] # "start" => ~Refused(request[c])
        /\ published[c] # 0 <=> request[c].op = "write" /\ step[c] \in {"uploaded", "head"}
        /\ step[c] = "send" => request[c].op \in {"read", "write", "delete", "copy"}
        /\ step[c] = "uploaded" => request[c].op = "write"
        /\ step[c] = "head" => request[c].op \in {"stat", "setmetadata", "write"}
        /\ step[c] = "copy" => request[c].op = "setmetadata"

\* As long as a Write runs, what is at its path is what it uploaded or later.
Fresh ==
    \A c \in Clients :
        /\ published[c] <= now
        /\ request[c] # None /\ published[c] # 0 /\ Exists(request[c].path) =>
              objects[request[c].path].modified >= published[c]

Inv == HeadInvariant /\ Progress /\ Fresh

-----------------------------------------------------------------------------
\* A call in progress, and what the invariant says of it.
LEMMA InProgress ==
    ASSUME TypeOK, Progress, NEW c \in Clients,
           outcome[c] = "pending" \/ step[c] # "done" \/ request[c] # None
    PROVE  /\ outcome[c] = "pending" /\ step[c] # "done" /\ request[c] # None
           /\ request[c] \in Requests /\ request[c] \in Calls
           /\ request[c].path \in Paths /\ request[c].to \in Paths
BY DEF TypeOK, Progress, Requests

\* A stored object, at a path that has one.
LEMMA Stored ==
    ASSUME TypeOK, NEW p \in Paths, Exists(p)
    PROVE  /\ objects[p] \in Object /\ objects[p].content \in Contents
           /\ objects[p].type \in Types /\ objects[p].metadata \in Metadata
           /\ objects[p].modified \in 1..MaxTime
BY DEF TypeOK, Exists, Object

\* Without a prefix no call that was not refused names the root.
LEMMA Keys ==
    ASSUME TypeOK, NEW r \in Requests, ~Refused(r)
    PROVE  /\ ~workload.prefixed => r.path # Root /\ r.to # Root
           /\ r.op = "copy" => r.replace
           /\ r.op # "move"
           /\ r.op \in {"write", "setmetadata"} => r.metadata = "within"
BY DEF Refused, key, cloneMetadata

\* One client's part of the types, when its call goes on or ends.
LEMMA Moves ==
    ASSUME TypeOK, NEW c \in Clients, NEW s \in Steps \ {"done"}, outcome[c] = "pending", Goto(c, s)
    PROVE  /\ request' = request /\ cancelled' = cancelled /\ outcome' = outcome
           /\ step' \in [Clients -> Steps] /\ step'[c] = s
           /\ \A d \in Clients : d # c => step'[d] = step[d]
           /\ \A d \in Clients : step'[d] = "done" <=> step[d] = "done"
BY DEF TypeOK, Goto

\* ... and when it ends.
LEMMA Ends ==
    ASSUME TypeOK, NEW c \in Clients, NEW o \in {"ok", "notfound", "exists", "error"}, Answer(c, o)
    PROVE  /\ request' \in [Clients -> Requests \cup {None}] /\ request'[c] = None
           /\ step' \in [Clients -> Steps] /\ step'[c] = "done"
           /\ cancelled' \in [Clients -> BOOLEAN]
           /\ outcome' \in [Clients -> {"idle", "pending", "ok", "notfound", "exists", "error"}]
           /\ outcome'[c] = o
           /\ \A d \in Clients : d # c => /\ request'[d] = request[d] /\ step'[d] = step[d]
                                          /\ outcome'[d] = outcome[d]
BY DEF TypeOK, Answer, Steps

\* The bucket after an object was put.
LEMMA Stores ==
    ASSUME TypeOK, NEW p \in Paths, NEW o, Put(p, o),
           [o EXCEPT !.modified = now + 1] \in Object, ~workload.prefixed => p # Root
    PROVE  /\ objects' \in [Paths -> Object \cup {None}]
           /\ now' \in 0..MaxTime /\ now' = now + 1
           /\ objects'[p] = [o EXCEPT !.modified = now + 1] /\ objects'[p] # None
           /\ \A q \in Paths : q # p => objects'[q] = objects[q]
           /\ ~workload.prefixed => objects'[Root] = None
BY S3Assumption DEF TypeOK, Put, Paths

-----------------------------------------------------------------------------
\* A call ends, and the bucket stays as it is.
LEMMA EndKeeps ==
    ASSUME Inv, NEW c \in Clients, NEW o \in {"ok", "notfound", "exists", "error"}, Answer(c, o),
           UNCHANGED <<objects, now, published, workload>>,
           answer' \in [Clients -> Contents \cup {None}],
           head' \in [Clients -> Object \cup {None}],
           \A d \in Clients : d # c => head'[d] = head[d],
           head'[c] # None => head'[c].metadata = "within",
           o = "ok" /\ published[c] # 0 => head'[c].modified >= published[c]
    PROVE  Inv'
<1>1. TypeOK'
  BY Ends DEF Inv, HeadInvariant, TypeOK
<1>2. ReportsOwnOrLater' /\ MetadataWithinLimits'
  BY Ends DEF Inv, HeadInvariant, ReportsOwnOrLater, MetadataWithinLimits
<1>3. Progress'
  BY Ends DEF Inv, HeadInvariant, Progress, Refused, key
<1>4. Fresh'
  BY Ends DEF Inv, HeadInvariant, Fresh, Exists
<1>5. QED
  BY <1>1, <1>2, <1>3, <1>4 DEF Inv, HeadInvariant

\* A call goes on to its next request.
LEMMA GoesOn ==
    ASSUME Inv, NEW c \in Clients, NEW s \in {"send", "head", "copy"}, Goto(c, s),
           outcome[c] = "pending", ~Refused(request[c]),
           UNCHANGED <<objects, now, published, answer, workload>>,
           head' \in [Clients -> Object \cup {None}],
           \A d \in Clients : d # c => head'[d] = head[d],
           head'[c] # None => head'[c].metadata = "within",
           s = "copy" => head'[c] # None,
           published[c] # 0 <=> request[c].op = "write" /\ s = "head",
           s = "send" => request[c].op \in {"read", "write", "delete", "copy"},
           s = "head" => request[c].op \in {"stat", "setmetadata", "write"},
           s = "copy" => request[c].op = "setmetadata"
    PROVE  Inv'
<1>0. s \in Steps \ {"done"}
  BY DEF Steps
<1>1. TypeOK'
  BY <1>0, Moves DEF Inv, HeadInvariant, TypeOK
<1>2. ReportsOwnOrLater' /\ MetadataWithinLimits'
  BY <1>0, Moves DEF Inv, HeadInvariant, ReportsOwnOrLater, MetadataWithinLimits
<1>3. Progress'
  BY <1>0, Moves DEF Inv, HeadInvariant, Progress, Refused, key
<1>4. Fresh'
  BY <1>0, Moves DEF Inv, HeadInvariant, Fresh, Exists
<1>5. QED
  BY <1>1, <1>2, <1>3, <1>4 DEF Inv, HeadInvariant

\* The bucket changes as the service serves c's request: the object at p is
\* gone, or it is the latest.
LEMMA ServedKeeps ==
    ASSUME Inv, NEW c \in Clients, NEW s \in {"uploaded", "replied"}, Goto(c, s),
           outcome[c] = "pending", step[c] # "start", UNCHANGED <<head, answer, workload>>,
           objects' \in [Paths -> Object \cup {None}],
           now' \in 0..MaxTime, now' >= now,
           ~workload.prefixed => objects'[Root] = None,
           NEW p \in Paths, \A q \in Paths : q # p => objects'[q] = objects[q],
           objects'[p] # None => objects'[p].modified = now',
           published' \in [Clients -> 0..MaxTime],
           \A d \in Clients : d # c => published'[d] = published[d],
           IF s = "uploaded"
           THEN request[c].op = "write" /\ p = request[c].path /\ published'[c] = now' /\ now' # 0
           ELSE published'[c] = 0
    PROVE  Inv'
<1>0. s \in Steps \ {"done"}
  BY DEF Steps
<1>1. TypeOK'
  BY <1>0, Moves DEF Inv, HeadInvariant, TypeOK
<1>2. ReportsOwnOrLater' /\ MetadataWithinLimits'
  BY <1>0, Moves DEF Inv, HeadInvariant, ReportsOwnOrLater, MetadataWithinLimits
<1>3. Progress'
  BY <1>0, Moves DEF Inv, HeadInvariant, Progress, Refused, key
<1>4. Fresh'
  <2> SUFFICES ASSUME NEW d \in Clients
               PROVE  /\ published'[d] <= now'
                      /\ request[d] # None /\ published'[d] # 0 /\ objects'[request[d].path] # None =>
                            objects'[request[d].path].modified >= published'[d]
    BY <1>0, Moves DEF Inv, HeadInvariant, Fresh, Exists
  <2>1. now \in 0..MaxTime /\ published[d] \in 0..MaxTime /\ published'[d] \in 0..MaxTime
    BY DEF Inv, HeadInvariant, TypeOK
  <2>2. published'[d] <= now'
    BY <2>1 DEF Inv, Fresh
  <2>3. CASE d = c
    BY <2>1, <2>2, <2>3
  <2>4. CASE d # c /\ request[d] # None
    <3>1. request[d].path \in Paths
      BY <2>4, InProgress DEF Inv, HeadInvariant
    <3>2. CASE request[d].path = p
      BY <2>1, <2>2, <2>4, <3>1, <3>2
    <3>3. CASE request[d].path # p
      BY <2>2, <2>4, <3>1, <3>3 DEF Inv, Fresh, Exists
    <3>4. QED
      BY <3>2, <3>3
  <2>5. QED
    BY <2>2, <2>3, <2>4
<1>5. QED
  BY <1>1, <1>2, <1>3, <1>4 DEF Inv, HeadInvariant

-----------------------------------------------------------------------------
\* The steps that change no object.
LEMMA RequestsKeep ==
    ASSUME Inv, NEW c \in Clients, UNCHANGED workload,
           Refuse(c) \/ Start(c) \/ NotFound(c) \/ RequestFails(c) \/ Open(c) \/ Uploaded(c)
              \/ Stat(c) \/ Reply(c)
    PROVE  Inv'
<1>0. /\ outcome[c] = "pending" /\ step[c] # "done" /\ request[c] # None
      /\ request[c] \in Requests /\ request[c].path \in Paths
  BY InProgress DEF Inv, HeadInvariant, Refuse, Start, NotFound, RequestFails, Open, Sends,
                    Uploaded, Stat, Reply, At
<1>1. /\ head \in [Clients -> Object \cup {None}] /\ answer \in [Clients -> Contents \cup {None}]
      /\ head[c] # None => head[c].metadata = "within"
  BY DEF Inv, HeadInvariant, TypeOK, MetadataWithinLimits
<1>2. CASE Refuse(c) \/ NotFound(c) \/ RequestFails(c)
  <2>1. PICK o \in {"notfound", "error"} : Answer(c, o)
    BY <1>2 DEF Refuse, NotFound, RequestFails
  <2>2. UNCHANGED <<objects, now, published, answer, head>>
    BY <1>2 DEF Refuse, NotFound, RequestFails
  <2>3. QED
    BY <1>1, <2>1, <2>2, EndKeeps
<1>3. CASE Reply(c)
  <2>1. published[c] = 0
    BY <1>0, <1>3 DEF Reply, At, Inv, Progress
  <2>2. Answer(c, "ok") /\ UNCHANGED <<objects, now, published, answer, head>>
    BY <1>3 DEF Reply
  <2>3. QED
    BY <1>1, <2>1, <2>2, EndKeeps
<1>4. CASE Open(c)
  <2>1. published[c] = 0
    BY <1>0, <1>4 DEF Open, Sends, At, Inv, Progress
  <2>2. objects[request[c].path].content \in Contents
    BY <1>0, <1>4, Stored DEF Open, Inv, HeadInvariant
  <2>3. answer' \in [Clients -> Contents \cup {None}]
    BY Zenon, <1>1, <1>4, <2>2 DEF Open
  <2>4. Answer(c, "ok") /\ UNCHANGED <<objects, now, published, head>>
    BY Zenon, <1>4 DEF Open
  <2>5. QED
    BY <1>1, <2>1, <2>3, <2>4, EndKeeps
<1>5. CASE Start(c)
  <2>1. PICK s \in {"send", "head"} :
           /\ Goto(c, s)
           /\ s = "head" <=> request[c].op \in {"stat", "setmetadata"}
    BY <1>5 DEF Start
  <2>2. /\ ~Refused(request[c]) /\ step[c] = "start"
        /\ UNCHANGED <<objects, now, published, answer, head>>
    BY <1>5 DEF Start, At
  <2>3. published[c] = 0
    BY <1>0, <2>2 DEF Inv, Progress
  <2>4. request[c].op \in Operations /\ request[c].op # "move"
    BY <1>0, <2>2, Keys DEF Requests, Inv, HeadInvariant
  <2>5. QED
    BY <1>0, <1>1, <2>1, <2>2, <2>3, <2>4, GoesOn DEF Operations
<1>6. CASE Uploaded(c)
  <2>1. /\ step[c] = "uploaded" /\ request[c].op = "write" /\ published[c] # 0
        /\ ~Refused(request[c])
    BY <1>0, <1>6 DEF Uploaded, At, Inv, Progress
  <2>2. UNCHANGED <<objects, now, published, answer, head>>
    BY <1>6 DEF Uploaded
  <2>3. CASE Answer(c, "error")
    BY <1>1, <2>2, <2>3, EndKeeps
  <2>4. CASE Goto(c, "head")
    BY Zenon, <1>0, <1>1, <2>1, <2>2, <2>4, GoesOn
  <2>5. QED
    BY <1>6, <2>3, <2>4 DEF Uploaded
<1>7. CASE Stat(c)
  <2> DEFINE p == request[c].path
  <2>1. /\ step[c] = "head" /\ Exists(p) /\ UNCHANGED <<objects, now, published, answer>>
        /\ ~Refused(request[c])
    BY Zenon, <1>0, <1>7 DEF Stat, At, Inv, Progress
  <2>2. objects[p] \in Object
    BY Zenon, <1>0, <2>1, Stored DEF Inv, HeadInvariant
  <2>3. CASE UNCHANGED head /\ Answer(c, "error")
    BY <1>1, <2>1, <2>3, EndKeeps
  <2>4. CASE cloneMetadata(objects[p].metadata) /\ head' = [head EXCEPT ![c] = objects[p]]
    <3>1. /\ head' \in [Clients -> Object \cup {None}] /\ head'[c] = objects[p] /\ head'[c] # None
          /\ \A d \in Clients : d # c => head'[d] = head[d]
          /\ head'[c].metadata = "within"
      BY Zenon, <1>1, <2>1, <2>2, <2>4 DEF cloneMetadata, Exists
    <3>2. CASE request[c].op = "setmetadata" /\ Goto(c, "copy")
      <4>1. published[c] = 0
        BY Zenon, <1>0, <3>2 DEF Inv, Progress
      <4>2. QED
        BY Zenon, <1>0, <2>1, <3>1, <3>2, <4>1, GoesOn
    <3>3. CASE Answer(c, "ok")
      <4>1. published[c] # 0 => objects[p].modified >= published[c]
        BY Zenon, <1>0, <2>1 DEF Inv, Fresh
      <4>2. answer' \in [Clients -> Contents \cup {None}]
        BY Zenon, <1>1, <2>1
      <4>3. QED
        BY Zenon, <2>1, <3>1, <3>3, <4>1, <4>2, EndKeeps
    <3>4. QED
      BY Zenon, <1>7, <2>4, <3>2, <3>3 DEF Stat
  <2>5. QED
    BY Zenon, <1>7, <2>3, <2>4 DEF Stat
<1>8. QED
  BY <1>2, <1>3, <1>4, <1>5, <1>6, <1>7

\* The requests that change the bucket.
LEMMA UploadKeeps ==
    ASSUME Inv, NEW c \in Clients, UNCHANGED workload, Upload(c)
    PROVE  Inv'
<1> DEFINE r == request[c]
<1>0. /\ outcome[c] = "pending" /\ step[c] = "send" /\ r # None /\ r \in Calls /\ r.op = "write"
      /\ r \in Requests /\ r.path \in Paths /\ ~Refused(r) /\ published[c] = 0
      /\ UNCHANGED <<head, answer>>
  BY Zenon, InProgress DEF Inv, HeadInvariant, Upload, Sends, At, Progress
<1>1. CASE /\ Answer(c, "exists")
           /\ UNCHANGED <<objects, now, published>>
  BY Zenon, <1>0, <1>1, EndKeeps DEF Inv, HeadInvariant, TypeOK, MetadataWithinLimits
<1>2. CASE /\ Put(r.path, [content |-> r.content, type |-> r.type,
                           metadata |-> r.metadata, modified |-> now])
           /\ published' = [published EXCEPT ![c] = now + 1]
           /\ Goto(c, "uploaded")
  <2>1. PICK o : o = [content |-> r.content, type |-> r.type,
                      metadata |-> r.metadata, modified |-> now]
    BY Zenon
  <2>2. now \in Nat /\ now + 1 \in 1..MaxTime
    BY <1>2, S3Assumption DEF Put, Inv, HeadInvariant, TypeOK
  <2>3. [o EXCEPT !.modified = now + 1] \in Object
    BY <1>0, <2>1, <2>2 DEF Object, Calls, Requests
  <2>4. Put(r.path, o)
    BY <1>2, <2>1 DEF Put
  <2>5. ~workload.prefixed => r.path # Root
    BY Zenon, <1>0, Keys DEF Inv, HeadInvariant
  <2>6. /\ objects' \in [Paths -> Object \cup {None}]
        /\ now' \in 0..MaxTime /\ now' = now + 1
        /\ objects'[r.path] = [o EXCEPT !.modified = now + 1]
        /\ \A q \in Paths : q # r.path => objects'[q] = objects[q]
        /\ ~workload.prefixed => objects'[Root] = None
    BY <1>0, <2>3, <2>4, <2>5, Stores DEF Inv, HeadInvariant
  <2>7. objects'[r.path].modified = now'
    BY <2>1, <2>6
  <2>8. /\ published' \in [Clients -> 0..MaxTime] /\ published'[c] = now'
        /\ \A d \in Clients : d # c => published'[d] = published[d]
    BY <1>2, <2>2, <2>6 DEF Inv, HeadInvariant, TypeOK
  <2>9. now' >= now /\ now' # 0
    BY <2>2, <2>6
  <2>10. /\ step[c] # "start" /\ UNCHANGED <<head, answer, workload>>
         /\ Goto(c, "uploaded") /\ outcome[c] = "pending" /\ request[c].op = "write"
    BY <1>0, <1>2
  <2>11. PICK p \in Paths : p = request[c].path
    BY <1>0
  <2>12. /\ objects'[p] # None => objects'[p].modified = now'
         /\ \A q \in Paths : q # p => objects'[q] = objects[q]
    BY Zenon, <2>6, <2>7, <2>11
  <2>13. QED
    BY <2>6, <2>8, <2>9, <2>10, <2>11, <2>12, ServedKeeps
<1>3. QED
  BY <1>1, <1>2 DEF Upload

\* SetMetadata, Delete and Copy: the object at one path is the latest, or gone.
LEMMA ChangesKeep ==
    ASSUME Inv, NEW c \in Clients, UNCHANGED workload, SetMetadata(c) \/ Delete(c) \/ Copy(c)
    PROVE  Inv'
<1> DEFINE r == request[c]
<1>0. /\ outcome[c] = "pending" /\ step[c] \in {"send", "copy"} /\ r # None /\ r \in Calls
      /\ r \in Requests /\ r.path \in Paths /\ r.to \in Paths /\ ~Refused(r) /\ published[c] = 0
      /\ UNCHANGED <<head, answer, published>> /\ Goto(c, "replied")
  BY InProgress DEF Inv, HeadInvariant, SetMetadata, Delete, Copy, Sends, At, Progress
<1>1. /\ now \in 0..MaxTime /\ published \in [Clients -> 0..MaxTime] /\ MaxTime \in Nat
      /\ ~workload.prefixed => r.path # Root /\ r.to # Root
  BY <1>0, S3Assumption, Keys DEF Inv, HeadInvariant, TypeOK
<1>2. ASSUME NEW p \in Paths, ~workload.prefixed => p # Root,
             NEW o, Put(p, o), [o EXCEPT !.modified = now + 1] \in Object
      PROVE  Inv'
  <2>1. /\ objects' \in [Paths -> Object \cup {None}]
        /\ now' \in 0..MaxTime /\ now' = now + 1
        /\ objects'[p] = [o EXCEPT !.modified = now + 1]
        /\ \A q \in Paths : q # p => objects'[q] = objects[q]
        /\ ~workload.prefixed => objects'[Root] = None
    BY <1>2, Stores DEF Inv, HeadInvariant
  <2>2. objects'[p].modified = now'
    BY <1>2, <2>1 DEF Object
  <2>3. now' >= now
    BY <1>1, <2>1
  <2>4. step[c] # "start" /\ published' \in [Clients -> 0..MaxTime] /\ published'[c] = 0
    BY <1>0, <1>1
  <2>5. QED
    BY Zenon, <1>0, <2>1, <2>2, <2>3, <2>4, ServedKeeps
<1>3. CASE Delete(c)
  <2>1. /\ objects' \in [Paths -> Object \cup {None}] /\ now' = now
        /\ objects'[r.path] = None
        /\ \A q \in Paths : q # r.path => objects'[q] = objects[q]
        /\ ~workload.prefixed => objects'[Root] = None
    BY Zenon, <1>0, <1>3 DEF Delete, Inv, HeadInvariant, TypeOK, Paths
  <2>2. now' \in 0..MaxTime /\ now' >= now
    BY <1>1, <2>1
  <2>3. step[c] # "start" /\ published' \in [Clients -> 0..MaxTime] /\ published'[c] = 0
    BY <1>0, <1>1
  <2>4. QED
    BY <1>0, <2>1, <2>2, <2>3, ServedKeeps
<1>4. CASE Copy(c)
  <2>1. PICK o : o = objects[r.path]
    OBVIOUS
  <2>2. Put(r.to, o) /\ Exists(r.path)
    BY <1>4, <2>1 DEF Copy, Put
  <2>3. o \in Object
    BY <1>0, <2>1, <2>2, Stored DEF Inv, HeadInvariant
  <2>4. [o EXCEPT !.modified = now + 1] \in Object
    BY <1>1, <2>2, <2>3 DEF Object, Put
  <2>5. QED
    BY <1>0, <1>1, <1>2, <2>2, <2>4
<1>5. CASE SetMetadata(c)
  <2>1. PICK o : o = [objects[r.path] EXCEPT !.metadata = r.metadata, !.type = head[c].type]
    OBVIOUS
  <2>2. Put(r.path, o) /\ Exists(r.path) /\ step[c] = "copy"
    BY <1>5, <2>1 DEF SetMetadata, Put, At
  <2>3. /\ objects[r.path] \in Object /\ head[c] \in Object /\ r.metadata \in Metadata
    BY ZenonT(60), <1>0, <2>2, Stored DEF Inv, HeadInvariant, TypeOK, Requests
  <2>4. o \in Object
    BY Zenon, <2>1, <2>3 DEF Object
  <2>5. [o EXCEPT !.modified = now + 1] \in Object
    BY <1>1, <2>2, <2>4 DEF Object, Put
  <2>6. QED
    BY <1>0, <1>1, <1>2, <2>2, <2>5
<1>6. QED
  BY <1>3, <1>4, <1>5

\* What the application and other programs do.
LEMMA EnvironmentKeeps ==
    ASSUME Inv, UNCHANGED workload,
           ForeignPut \/ \E c \in Clients : Invoke(c) \/ Cancel(c)
    PROVE  Inv'
<1>1. CASE ForeignPut
  <2>1. PICK p \in Names, o \in Object : Put(p, o)
    BY <1>1 DEF ForeignPut
  <2>2. UNCHANGED <<request, step, cancelled, head, published, outcome, answer>>
    BY <1>1 DEF ForeignPut
  <2>3. now \in 0..MaxTime /\ now < MaxTime /\ MaxTime \in Nat
    BY <2>1, S3Assumption DEF Put, Inv, HeadInvariant, TypeOK
  <2>4. [o EXCEPT !.modified = now + 1] \in Object
    BY <2>3 DEF Object
  <2>5. p \in Paths /\ p # Root
    BY S3Assumption DEF Paths
  <2>6. /\ objects' \in [Paths -> Object \cup {None}]
        /\ now' \in 0..MaxTime /\ now' = now + 1
        /\ objects'[p] = [o EXCEPT !.modified = now + 1]
        /\ \A q \in Paths : q # p => objects'[q] = objects[q]
        /\ ~workload.prefixed => objects'[Root] = None
    BY <2>1, <2>4, <2>5, Stores DEF Inv, HeadInvariant
  <2>7. TypeOK'
    BY <2>2, <2>6 DEF Inv, HeadInvariant, TypeOK
  <2>8. Progress' /\ ReportsOwnOrLater' /\ MetadataWithinLimits'
    BY ZenonT(60), <2>2
       DEF Inv, HeadInvariant, Progress, Refused, key, ReportsOwnOrLater, MetadataWithinLimits
  <2>9. Fresh'
    <3> SUFFICES ASSUME NEW c \in Clients
                 PROVE  /\ published[c] <= now'
                        /\ request[c] # None /\ published[c] # 0 /\ objects'[request[c].path] # None =>
                              objects'[request[c].path].modified >= published[c]
      BY Zenon, <2>2 DEF Fresh, Exists
    <3>1. published[c] \in 0..MaxTime /\ published[c] <= now
      BY DEF Inv, HeadInvariant, TypeOK, Fresh
    <3>2. objects'[p].modified = now + 1
      BY <2>6 DEF Object
    <3>3. request[c] # None => request[c].path \in Paths
      BY InProgress DEF Inv, HeadInvariant
    <3>4. published[c] <= now'
      BY <2>3, <2>6, <3>1
    <3>5. CASE request[c] # None /\ request[c].path = p
      BY <2>3, <3>1, <3>2, <3>4, <3>5
    <3>6. CASE request[c] # None /\ request[c].path # p
      BY <2>6, <3>3, <3>4, <3>6 DEF Inv, Fresh, Exists
    <3>7. QED
      BY Zenon, <3>4, <3>5, <3>6
  <2>10. QED
    BY <2>7, <2>8, <2>9 DEF Inv, HeadInvariant
<1>2. ASSUME NEW c \in Clients, Cancel(c)
      PROVE  Inv'
  BY ZenonT(60), <1>2
     DEF Cancel, Inv, HeadInvariant, TypeOK, Progress, Refused, key, ReportsOwnOrLater,
              MetadataWithinLimits, Fresh, Exists
<1>3. ASSUME NEW c \in Clients, Invoke(c)
      PROVE  Inv'
  <2>1. PICK r \in Calls : request' = [request EXCEPT ![c] = r]
    BY Zenon, <1>3 DEF Invoke
  <2>2. r \in Requests /\ r # None
    BY S3Assumption DEF Calls
  <2>3. /\ step' = [step EXCEPT ![c] = "start"]
        /\ head' = [head EXCEPT ![c] = None]
        /\ published' = [published EXCEPT ![c] = 0]
        /\ outcome' = [outcome EXCEPT ![c] = "pending"]
        /\ answer' = [answer EXCEPT ![c] = None]
        /\ UNCHANGED <<objects, now, cancelled, workload>>
    BY Zenon, <1>3 DEF Invoke
  <2>4. 0 \in 0..MaxTime /\ \A d \in Clients : 0 <= now
    BY S3Assumption DEF Inv, HeadInvariant, TypeOK
  <2>5. TypeOK'
    BY ZenonT(60), <2>1, <2>2, <2>3, <2>4 DEF Inv, HeadInvariant, TypeOK, Steps
  <2>6. ReportsOwnOrLater' /\ MetadataWithinLimits'
    BY SMTT(60), <2>3 DEF Inv, HeadInvariant, TypeOK, ReportsOwnOrLater, MetadataWithinLimits
  <2>7. Progress'
    <3> SUFFICES ASSUME NEW d \in Clients, request'[d] # None
                 PROVE  (/\ request[d] \in Calls
                         /\ step[d] # "start" => ~Refused(request[d])
                         /\ published[d] # 0 <=>
                              request[d].op = "write" /\ step[d] \in {"uploaded", "head"}
                         /\ step[d] = "send" =>
                              request[d].op \in {"read", "write", "delete", "copy"}
                         /\ step[d] = "uploaded" => request[d].op = "write"
                         /\ step[d] = "head" => request[d].op \in {"stat", "setmetadata", "write"}
                         /\ step[d] = "copy" => request[d].op = "setmetadata")'
      BY Zenon DEF Progress
    <3>1. CASE d = c
      <4>1. request'[d] = r /\ step'[d] = "start" /\ published'[d] = 0
        BY <2>1, <2>3, <3>1 DEF Inv, HeadInvariant, TypeOK
      <4>2. QED
        BY <2>1, <4>1
    <3>2. CASE d # c
      <4>1. request'[d] = request[d] /\ step'[d] = step[d] /\ published'[d] = published[d]
        BY <2>1, <2>3, <3>2 DEF Inv, HeadInvariant, TypeOK
      <4>2. QED
        <5>1. Refused(request[d])' <=> Refused(request[d])
          BY SMTT(60), <4>1 DEF Refused, key
        <5>2. QED
          BY Zenon, <4>1, <5>1 DEF Inv, Progress
    <3>3. QED
      BY Zenon, <3>1, <3>2
  <2>8. Fresh'
    BY Zenon, <2>1, <2>3, <2>4 DEF Inv, HeadInvariant, TypeOK, Fresh, Exists
  <2>9. QED
    BY <2>5, <2>6, <2>7, <2>8 DEF Inv, HeadInvariant
<1>4. QED
  BY <1>1, <1>2, <1>3

-----------------------------------------------------------------------------
\* Inv is inductive.
LEMMA InvHolds == Spec => []Inv
<1>1. Init => Inv
  <2> SUFFICES ASSUME Init PROVE Inv
    OBVIOUS
  <2>1. TypeOK
    BY S3Assumption DEF Init, TypeOK, Steps, Paths
  <2>2. QED
    BY <2>1
       DEF Init, Inv, HeadInvariant, Progress, Fresh, ReportsOwnOrLater, MetadataWithinLimits
<1>2. Inv /\ [Next]_vars => Inv'
  <2> SUFFICES ASSUME Inv, [Next]_vars PROVE Inv'
    OBVIOUS
  <2>1. CASE UNCHANGED vars
    <3>1. TypeOK' /\ ReportsOwnOrLater' /\ MetadataWithinLimits'
      BY ZenonT(60), <2>1
         DEF vars, Inv, HeadInvariant, TypeOK, ReportsOwnOrLater, MetadataWithinLimits
    <3>2. Progress'
      <4>1. \A d \in Clients : Refused(request[d])' <=> Refused(request[d])
        BY SMTT(60), <2>1 DEF vars, Refused, key
      <4>2. QED
        BY Zenon, <2>1, <4>1 DEF vars, Inv, Progress
    <3>3. Fresh'
      BY Zenon, <2>1 DEF vars, Inv, Fresh, Exists
    <3>4. QED
      BY Zenon, <3>1, <3>2, <3>3 DEF Inv, HeadInvariant
  <2>2. CASE Next
    BY <2>2, RequestsKeep, UploadKeeps, ChangesKeep, EnvironmentKeeps DEF Next
  <2>3. QED
    BY <2>1, <2>2
<1>3. QED
  BY <1>1, <1>2, PTL DEF Spec

\* HeadInvariant: the metadata that a successful Write returns is that of the
\* object it uploaded or of a later one, however many clients write, delete
\* and copy between its upload and its Stat, and no call hands out user
\* metadata beyond the limits (s3.go: Write, Stat, cloneMetadata).
THEOREM HeadsAreCurrent == Spec => []HeadInvariant
<1>1. Inv => HeadInvariant
  BY DEF Inv
<1>2. QED
  BY <1>1, InvHolds, PTL

-----------------------------------------------------------------------------
(* Refinement of the contract.                                             *)

\* The mapping of Contract.
Seen == [p \in Paths |-> IF Exists(p) THEN objects[p].content ELSE None]
Requested ==
    [c \in Clients |->
        IF request[c] = None \/ Served(c) THEN None
        ELSE [op |-> IF request[c].op = "setmetadata" THEN "stat" ELSE request[c].op,
              path |-> request[c].path, to |-> request[c].to,
              content |-> request[c].content, replace |-> request[c].replace]]
Told ==
    [c \in Clients |->
        IF Served(c) THEN "ok"
        ELSE IF published[c] # 0 /\ outcome[c] = "notfound" THEN "error"
        ELSE outcome[c]]

\* The mapped variables are functions on the clients.
LEMMA OnClients ==
    /\ Told = [c \in Clients |-> Told[c]] /\ Told' = [c \in Clients |-> Told'[c]]
    /\ Requested = [c \in Clients |-> Requested[c]]
    /\ Requested' = [c \in Clients |-> Requested'[c]]
BY ZenonT(60) DEF Told, Requested

\* The contract as the mapping sees it.
LEMMA Ended ==
    ASSUME NEW c \in Clients, NEW o,
           Told' = [Told EXCEPT ![c] = o], Requested' = [Requested EXCEPT ![c] = None]
    PROVE  Contract!Answer(c, o)
BY Zenon DEF Contract!Answer, Told, Requested

\* A call whose change the service has not served is in progress.
LEMMA Unserved ==
    ASSUME Inv, NEW c \in Clients, request[c] # None, ~Served(c)
    PROVE  /\ Told[c] = "pending" /\ published[c] = 0
           /\ Requested[c].op = IF request[c].op = "setmetadata" THEN "stat" ELSE request[c].op
           /\ Requested[c].path = request[c].path /\ Requested[c].to = request[c].to
           /\ Requested[c].content = request[c].content
           /\ Requested[c].replace = request[c].replace
<1>1. outcome[c] = "pending" /\ published[c] = 0
  BY Zenon, InProgress DEF Inv, HeadInvariant, Progress, Served
<1>2. QED
  BY Zenon, <1>1 DEF Told, Requested

\* A path holds an object exactly if the contract sees a content there.
LEMMA SeenIff ==
    ASSUME TypeOK, NEW p \in Paths
    PROVE  /\ Exists(p) <=> Seen[p] # None
           /\ Exists(p) => Seen[p] = objects[p].content
BY Zenon, Stored, S3Assumption DEF Seen

\* The clients whose part of the state a step leaves alone.
LEMMA Others ==
    ASSUME NEW d \in Clients, request'[d] = request[d], step'[d] = step[d],
           published'[d] = published[d], outcome'[d] = outcome[d]
    PROVE  Told'[d] = Told[d] /\ Requested'[d] = Requested[d]
<1>1. Served(d)' <=> Served(d)
  BY DEF Served
<1>2. QED
  BY ZenonT(60), <1>1 DEF Told, Requested

\* An answer, or its arrival after the call has taken effect.
LEMMA AnswersAs ==
    ASSUME Inv, NEW c \in Clients, NEW o \in {"ok", "notfound", "exists", "error"}, Answer(c, o),
           UNCHANGED published
    PROVE  /\ Requested' = [Requested EXCEPT ![c] = None]
           /\ Told' = [Told EXCEPT ![c] =
                 IF published[c] # 0 /\ o = "notfound" THEN "error" ELSE o]
<1>1. /\ request'[c] = None /\ outcome'[c] = o /\ step'[c] = "done"
      /\ \A d \in Clients : d # c => /\ request'[d] = request[d] /\ step'[d] = step[d]
                                     /\ outcome'[d] = outcome[d]
  BY Ends DEF Inv, HeadInvariant
<1>2. ~Served(c)'
  BY <1>1 DEF Served
<1>3. \A d \in Clients : d # c => Told'[d] = Told[d] /\ Requested'[d] = Requested[d]
  BY Zenon, <1>1, Others
<1>4. /\ Requested'[c] = None
      /\ Told'[c] = IF published[c] # 0 /\ o = "notfound" THEN "error" ELSE o
  BY Zenon, <1>1, <1>2 DEF Requested, Told
<1>5. QED
  BY <1>3, <1>4, OnClients

\* The service serves the request that takes effect: in the contract the call
\* has succeeded, whether or not the reply arrives.
LEMMA ServesAs ==
    ASSUME Inv, NEW c \in Clients, NEW s \in {"uploaded", "replied"}, outcome[c] = "pending",
           Goto(c, s), \A d \in Clients : d # c => published'[d] = published[d]
    PROVE  Contract!Answer(c, "ok")
<1>1. /\ request' = request /\ outcome' = outcome /\ step'[c] = s
      /\ \A d \in Clients : d # c => step'[d] = step[d]
  BY ZenonT(60), Moves DEF Inv, HeadInvariant, Steps
<1>2. Served(c)'
  BY <1>1 DEF Served
<1>3. \A d \in Clients : d # c => Told'[d] = Told[d] /\ Requested'[d] = Requested[d]
  BY <1>1, Others
<1>4. Requested'[c] = None /\ Told'[c] = "ok"
  BY Zenon, <1>2 DEF Requested, Told
<1>5. Told' = [Told EXCEPT ![c] = "ok"] /\ Requested' = [Requested EXCEPT ![c] = None]
  BY <1>3, <1>4, OnClients
<1>6. QED
  BY Zenon, <1>5, Ended

\* A step to the next request is none in the contract.
LEMMA GoesAs ==
    ASSUME Inv, NEW c \in Clients, NEW s \in Steps \ {"done"}, outcome[c] = "pending", Goto(c, s),
           UNCHANGED <<published, objects, answer>>,
           Served(c) <=> s \in {"uploaded", "replied"} \/ (s = "head" /\ published[c] # 0)
    PROVE  UNCHANGED Contract!vars
<1>1. /\ request' = request /\ outcome' = outcome /\ step'[c] = s
      /\ \A d \in Clients : d # c => step'[d] = step[d]
  BY Moves DEF Inv, HeadInvariant
<1>2. Served(c)' <=> Served(c)
  BY <1>1 DEF Served
<1>3. \A d \in Clients : d # c => Told'[d] = Told[d] /\ Requested'[d] = Requested[d]
  BY Zenon, <1>1, Others
<1>4. Told'[c] = Told[c] /\ Requested'[c] = Requested[c]
  BY Zenon, <1>1, <1>2 DEF Told, Requested
<1>5. Told' = Told /\ Requested' = Requested /\ Seen' = Seen
  BY <1>3, <1>4, OnClients DEF Seen, Exists
<1>6. QED
  BY Zenon, <1>5 DEF Contract!vars, Told, Requested, Seen

\* A call that fails, before or after it took effect.
LEMMA FailsAs ==
    ASSUME Inv, NEW c \in Clients, outcome[c] = "pending", UNCHANGED <<objects, published, answer>>,
           Answer(c, "error") \/ (Answer(c, "notfound") /\ published[c] # 0)
    PROVE  Contract!Next
<1>1. Told' = [Told EXCEPT ![c] = "error"] /\ Requested' = [Requested EXCEPT ![c] = None]
  BY AnswersAs
<1>2. Told[c] \in {"pending", "ok"}
  BY DEF Told
<1>3. Seen' = Seen
  BY DEF Seen, Exists
<1>4. Contract!Fail(c)
  BY Zenon, <1>1, <1>2, <1>3, Ended DEF Contract!Fail, Told, Requested, Seen
<1>5. QED
  BY Zenon, <1>4 DEF Contract!Next

\* The steps that change no object.
LEMMA RequestsRefine ==
    ASSUME Inv, NEW c \in Clients,
           Refuse(c) \/ Start(c) \/ NotFound(c) \/ RequestFails(c) \/ Open(c) \/ Uploaded(c)
              \/ Stat(c) \/ Reply(c)
    PROVE  Contract!Next \/ UNCHANGED Contract!vars
<1>0. /\ outcome[c] = "pending" /\ request[c] # None /\ request[c] \in Calls
      /\ request[c] \in Requests /\ request[c].path \in Paths
      /\ UNCHANGED <<objects, now, published>> /\ TypeOK
  BY Zenon, InProgress
     DEF Inv, HeadInvariant, Refuse, Start, NotFound, RequestFails, Open, Sends,
                    Uploaded, Stat, Reply, At
<1>1. Seen' = Seen
  BY Zenon, <1>0 DEF Seen, Exists
<1>2. CASE Refuse(c) \/ RequestFails(c)
  BY Zenon, <1>0, <1>2, FailsAs DEF Refuse, RequestFails
<1>3. CASE Start(c)
  <2>1. PICK s \in {"send", "head"} : Goto(c, s)
    BY Zenon, <1>3 DEF Start
  <2>2. published[c] = 0 /\ ~Served(c) /\ s \in Steps \ {"done"} /\ UNCHANGED answer
    BY Zenon, <1>0, <1>3 DEF Start, At, Inv, Progress, Served, Steps
  <2>3. QED
    BY Zenon, <1>0, <2>1, <2>2, GoesAs
<1>4. CASE NotFound(c)
  <2>1. Answer(c, "notfound") /\ UNCHANGED answer /\ ~Exists(request[c].path)
    BY Zenon, <1>4 DEF NotFound
  <2>2. CASE published[c] # 0
    BY Zenon, <1>0, <2>1, <2>2, FailsAs
  <2>3. CASE published[c] = 0
    <3>1. ~Served(c) /\ request[c].op \notin {"write", "list"}
      BY Zenon, <1>0, <1>4, <2>3 DEF NotFound, At, Served, Inv, Progress, Requests, Operations
    <3>2. Told[c] = "pending" /\ Requested[c].op \notin {"write", "list"}
          /\ Requested[c].path = request[c].path
      BY Zenon, <1>0, <3>1, Unserved
    <3>3. Seen[Requested[c].path] = None
      BY Zenon, <1>0, <2>1, <3>2, SeenIff
    <3>4. Contract!Answer(c, "notfound")
      BY Zenon, <2>1, <2>3, <1>0, AnswersAs, Ended
    <3>5. Contract!NotFound(c)
      BY Zenon, <1>1, <2>1, <3>2, <3>3, <3>4 DEF Contract!NotFound, Told, Requested, Seen
    <3>6. QED
      BY <3>5 DEF Contract!Next
  <2>4. QED
    BY <2>2, <2>3
<1>5. CASE Open(c)
  <2>1. /\ step[c] = "send" /\ request[c].op = "read" /\ Exists(request[c].path)
        /\ answer' = [answer EXCEPT ![c] = objects[request[c].path].content]
        /\ Answer(c, "ok")
    BY Zenon, <1>5 DEF Open, Sends, At
  <2>2. ~Served(c)
    BY Zenon, <2>1 DEF Served
  <2>3. Told[c] = "pending" /\ Requested[c].op = "read" /\ Requested[c].path = request[c].path
    BY Zenon, <1>0, <2>1, <2>2, Unserved
  <2>4. /\ Seen[Requested[c].path] # None
        /\ Seen[Requested[c].path] = objects[request[c].path].content
    BY Zenon, <1>0, <2>1, <2>3, SeenIff
  <2>5. Contract!Answer(c, "ok")
    BY Zenon, <1>0, <2>1, AnswersAs, Ended
  <2>6. answer' = [answer EXCEPT ![c] = Seen[Requested[c].path]]
    BY Zenon, <2>1, <2>4
  <2>7. Contract!Read(c)
    BY Zenon, <1>1, <2>3, <2>4, <2>5, <2>6
       DEF Contract!Read, Contract!Pending, Told, Requested, Seen
  <2>8. QED
    BY <2>7 DEF Contract!Next
<1>6. CASE Uploaded(c)
  <2>1. step[c] = "uploaded" /\ published[c] # 0 /\ UNCHANGED answer
    BY Zenon, <1>0, <1>6 DEF Uploaded, At, Inv, Progress
  <2>2. CASE Answer(c, "error")
    BY Zenon, <1>0, <2>1, <2>2, FailsAs
  <2>3. CASE Goto(c, "head")
    <3>1. Served(c) /\ "head" \in Steps \ {"done"}
      BY Zenon, <2>1 DEF Served, Steps
    <3>2. QED
      BY ZenonT(60), <1>0, <2>1, <2>3, <3>1, GoesAs
  <2>4. QED
    BY <1>6, <2>2, <2>3 DEF Uploaded
<1>7. ASSUME Answer(c, "ok"), Served(c), UNCHANGED answer
      PROVE  UNCHANGED Contract!vars
  <2>1. Told' = [Told EXCEPT ![c] = "ok"] /\ Requested' = [Requested EXCEPT ![c] = None]
    BY ZenonT(60), <1>0, <1>7, AnswersAs
  <2>2. Told[c] = "ok" /\ Requested[c] = None
    BY Zenon, <1>7 DEF Told, Requested
  <2>3. Told' = Told /\ Requested' = Requested
    BY ZenonT(60), <2>1, <2>2, OnClients
  <2>4. QED
    BY Zenon, <1>1, <1>7, <2>3 DEF Contract!vars, Told, Requested, Seen
<1>8. CASE Reply(c)
  BY Zenon, <1>7, <1>8 DEF Reply, At, Served
<1>9. CASE Stat(c)
  <2>1. step[c] = "head" /\ Exists(request[c].path) /\ UNCHANGED answer
    BY Zenon, <1>9 DEF Stat, At
  <2>2. CASE Answer(c, "error")
    BY ZenonT(60), <1>0, <2>1, <2>2, FailsAs
  <2>3. CASE request[c].op = "setmetadata" /\ Goto(c, "copy")
    <3>1. ~Served(c) /\ "copy" \in Steps \ {"done"}
      BY Zenon, <1>0, <2>1, <2>3 DEF Served, Steps, Inv, Progress
    <3>2. QED
      BY Zenon, <1>0, <2>1, <2>3, <3>1, GoesAs
  <2>4. CASE request[c].op # "setmetadata" /\ Answer(c, "ok")
    <3>1. CASE Served(c)
      BY Zenon, <1>7, <2>1, <2>4, <3>1
    <3>2. CASE ~Served(c)
      <4>1. request[c].op = "stat"
        BY Zenon, <1>0, <2>1, <2>4, <3>2 DEF Served, Inv, Progress
      <4>2. Told[c] = "pending" /\ Requested[c].op = "stat" /\ Requested[c].path = request[c].path
        BY Zenon, <1>0, <3>2, <4>1, Unserved
      <4>3. Seen[Requested[c].path] # None
        BY ZenonT(60), <1>0, <2>1, <4>2, SeenIff
      <4>4. Contract!Answer(c, "ok")
        BY Zenon, <1>0, <2>4, AnswersAs, Ended
      <4>5. Contract!Stat(c)
        BY Zenon, <1>1, <2>1, <4>2, <4>3, <4>4
           DEF Contract!Stat, Contract!Pending, Told, Requested, Seen
      <4>6. QED
        BY <4>5 DEF Contract!Next
    <3>3. QED
      BY <3>1, <3>2
  <2>5. QED
    BY Zenon, <1>9, <2>2, <2>3, <2>4 DEF Stat
<1>10. QED
  BY SMTT(60), <1>2, <1>3, <1>4, <1>5, <1>6, <1>8, <1>9

\* What the contract sees after the object at p was put or deleted.
LEMMA SeenAfter ==
    ASSUME NEW p \in Paths, NEW v,
           \A q \in Paths : q # p => objects'[q] = objects[q],
           v = IF objects'[p] = None THEN None ELSE objects'[p].content
    PROVE  Seen' = [Seen EXCEPT ![p] = v]
<1>1. \A q \in Paths : Seen'[q] = IF q = p THEN v ELSE Seen[q]
  BY DEF Seen, Exists
<1>2. QED
  BY Zenon, <1>1 DEF Seen

\* The requests that change the bucket.
LEMMA UploadRefines ==
    ASSUME Inv, NEW c \in Clients, Upload(c)
    PROVE  Contract!Next
<1> DEFINE r == request[c]
<1>0. /\ outcome[c] = "pending" /\ step[c] = "send" /\ r # None /\ r \in Calls /\ r.op = "write"
      /\ r \in Requests /\ r.path \in Paths /\ r.to = r.path /\ published[c] = 0
      /\ UNCHANGED <<head, answer>> /\ ~Served(c) /\ TypeOK
  BY ZenonT(60), InProgress DEF Inv, HeadInvariant, Upload, Sends, At, Progress, Calls, Served
<1>1. /\ Told[c] = "pending" /\ Requested[c].op = "write" /\ Requested[c].to = r.path
      /\ Requested[c].content = r.content /\ Requested[c].replace = r.replace
  BY Zenon, <1>0, Unserved
<1>2. CASE /\ ~r.replace /\ Exists(r.path)
           /\ Answer(c, "exists")
           /\ UNCHANGED <<objects, now, published>>
  <2>1. Seen' = Seen
    BY <1>2 DEF Seen, Exists
  <2>2. Seen[Requested[c].to] # None
    BY Zenon, <1>0, <1>1, <1>2, SeenIff
  <2>3. Contract!Answer(c, "exists")
    BY Zenon, <1>2, AnswersAs, Ended
  <2>4. Contract!Exists(c)
    BY Zenon, <1>0, <1>1, <1>2, <2>1, <2>2, <2>3 DEF Contract!Exists, Told, Requested, Seen
  <2>5. QED
    BY <2>4 DEF Contract!Next
<1>3. CASE /\ r.replace \/ ~Exists(r.path)
           /\ Put(r.path, [content |-> r.content, type |-> r.type,
                           metadata |-> r.metadata, modified |-> now])
           /\ published' = [published EXCEPT ![c] = now + 1]
           /\ Goto(c, "uploaded")
  <2>1. /\ objects'[r.path].content = r.content
        /\ \A q \in Paths : q # r.path => objects'[q] = objects[q]
    BY SMTT(60), <1>0, <1>3 DEF Put, TypeOK
  <2>2. r.content \in Contents /\ r.content # None
    BY SMTT(60), <1>0, S3Assumption DEF Calls, Requests
  <2>3. objects'[r.path] # None
    <3>1. now + 1 \in 1..MaxTime
      BY SMTT(60), <1>0, <1>3, S3Assumption DEF Put, TypeOK
    <3>2. [content |-> r.content, type |-> r.type, metadata |-> r.metadata,
           modified |-> now + 1] \in Object
      BY Zenon, <1>0, <2>2, <3>1 DEF Object, Requests
    <3>3. objects'[r.path] = [content |-> r.content, type |-> r.type, metadata |-> r.metadata,
                              modified |-> now + 1]
      BY SMTT(60), <1>0, <1>3 DEF Put, TypeOK
    <3>4. QED
      BY Zenon, <3>2, <3>3, S3Assumption
  <2>4. Seen' = [Seen EXCEPT ![Requested[c].to] = Requested[c].content]
    <3>1. r.path \in Paths
      BY Zenon, <1>0
    <3>2. Seen' = [Seen EXCEPT ![r.path] = r.content]
      BY Zenon, <2>1, <2>3, <3>1, SeenAfter
    <3>3. QED
      BY Zenon, <1>1, <3>2
  <2>5. Requested[c].replace \/ Seen[Requested[c].to] = None
    BY Zenon, <1>0, <1>1, <1>3, SeenIff
  <2>6. Contract!Answer(c, "ok")
    BY Zenon, <1>0, <1>3, ServesAs DEF TypeOK
  <2>7. Contract!Write(c)
    BY Zenon, <1>0, <1>1, <2>4, <2>5, <2>6
       DEF Contract!Write, Contract!Put, Contract!Pending, Told, Requested, Seen
  <2>8. QED
    BY <2>7 DEF Contract!Next
<1>4. QED
  BY <1>2, <1>3 DEF Upload

\* SetMetadata, Delete and Copy take effect when they are served.
LEMMA ChangesRefine ==
    ASSUME Inv, NEW c \in Clients, SetMetadata(c) \/ Delete(c) \/ Copy(c)
    PROVE  Contract!Next
<1> DEFINE r == request[c]
<1>0. /\ outcome[c] = "pending" /\ step[c] \in {"send", "copy"} /\ r # None /\ r \in Calls
      /\ r \in Requests /\ r.path \in Paths /\ r.to \in Paths /\ ~Refused(r)
      /\ UNCHANGED <<answer, published>> /\ Goto(c, "replied") /\ TypeOK
  BY InProgress DEF Inv, HeadInvariant, SetMetadata, Delete, Copy, Sends, At, Progress
<1>1. /\ Told[c] = "pending"
      /\ Requested[c].op = IF r.op = "setmetadata" THEN "stat" ELSE r.op
      /\ Requested[c].path = r.path /\ Requested[c].to = r.to
      /\ Requested[c].replace = r.replace
  BY Zenon, <1>0, Unserved DEF Served
<1>2. Contract!Answer(c, "ok")
  BY <1>0, ServesAs
<1>3. CASE Delete(c)
  <2>1. objects'[r.path] = None /\ \A q \in Paths : q # r.path => objects'[q] = objects[q]
    BY Zenon, <1>0, <1>3 DEF Delete, TypeOK
  <2>2. Seen' = [Seen EXCEPT ![Requested[c].path] = None]
    <3>1. Seen' = [Seen EXCEPT ![r.path] = None]
      BY Zenon, <1>0, <2>1, SeenAfter
    <3>2. QED
      BY Zenon, <1>1, <3>1
  <2>3. Requested[c].op = "delete"
    BY Zenon, <1>1, <1>3 DEF Delete, Sends
  <2>4. Contract!Delete(c)
    BY Zenon, <1>0, <1>1, <1>2, <2>2, <2>3
       DEF Contract!Delete, Contract!Pending, Told, Requested, Seen
  <2>5. QED
    BY <2>4 DEF Contract!Next
<1>4. CASE Copy(c)
  <2>1. Exists(r.path) /\ Put(r.to, objects[r.path]) /\ r.op = "copy"
    BY Zenon, <1>4 DEF Copy, Sends
  <2>2. objects[r.path] \in Object /\ Seen[r.path] = objects[r.path].content /\ Seen[r.path] # None
    BY Zenon, <1>0, <2>1, Stored, SeenIff
  <2>3. /\ objects'[r.to] = [objects[r.path] EXCEPT !.modified = now + 1]
        /\ \A q \in Paths : q # r.to => objects'[q] = objects[q]
    BY <1>0, <2>1 DEF Put, TypeOK
  <2>4. now + 1 \in 1..MaxTime
    BY <1>0, <2>1, S3Assumption DEF Put, TypeOK
  <2>5. objects'[r.to] # None /\ objects'[r.to].content = objects[r.path].content
    <3>1. objects'[r.to] \in Object
      BY <2>2, <2>3, <2>4 DEF Object
    <3>2. QED
      BY <2>2, <2>3, <3>1, S3Assumption DEF Object
  <2>6. Seen' = [Seen EXCEPT ![Requested[c].to] = Seen[Requested[c].path]]
    <3>1. PICK v : v = Seen[r.path]
      OBVIOUS
    <3>2. v = IF objects'[r.to] = None THEN None ELSE objects'[r.to].content
      BY Zenon, <2>2, <2>5, <3>1
    <3>3. Seen' = [Seen EXCEPT ![r.to] = v]
      BY ZenonT(60), <1>0, <2>3, <3>2, SeenAfter
    <3>4. QED
      BY <1>1, <3>1, <3>3
  <2>7. Requested[c].replace /\ Requested[c].op = "copy" /\ Seen[Requested[c].path] # None
    BY Zenon, <1>0, <1>1, <2>1, <2>2, Keys
  <2>8. Contract!Copy(c)
    BY Zenon, <1>0, <1>1, <1>2, <2>6, <2>7
       DEF Contract!Copy, Contract!Put, Contract!Pending, Told, Requested, Seen
  <2>9. QED
    BY <2>8 DEF Contract!Next
<1>5. CASE SetMetadata(c)
  <2> DEFINE o == [objects[r.path] EXCEPT !.metadata = r.metadata, !.type = head[c].type]
  <2>1. Exists(r.path) /\ Put(r.path, o) /\ step[c] = "copy"
    BY SMTT(60), <1>5 DEF SetMetadata, At
  <2>2. /\ objects[r.path] \in Object /\ head[c] \in Object /\ r.metadata \in Metadata
        /\ Seen[r.path] = objects[r.path].content /\ Seen[r.path] # None
        /\ r.op = "setmetadata"
    BY SMTT(60), <1>0, <2>1, Stored, SeenIff DEF TypeOK, Requests, Inv, Progress
  <2>3. o \in Object /\ o.content = objects[r.path].content
    BY Zenon, <2>2 DEF Object
  <2>4. /\ objects'[r.path] = [o EXCEPT !.modified = now + 1]
        /\ \A q \in Paths : q # r.path => objects'[q] = objects[q]
    BY Zenon, <1>0, <2>1 DEF Put, TypeOK
  <2>5. now + 1 \in 1..MaxTime
    BY <1>0, <2>1, S3Assumption DEF Put, TypeOK
  <2> HIDE DEF o
  <2>6. objects'[r.path] # None /\ objects'[r.path].content = objects[r.path].content
    <3>1. objects'[r.path] \in Object
      BY SMTT(60), <2>3, <2>4, <2>5 DEF Object
    <3>2. QED
      BY <2>3, <2>4, <3>1, S3Assumption DEF Object
  <2>7. PICK v : v = Seen[r.path]
    OBVIOUS
  <2>8. Seen' = Seen
    <3>1. v = IF objects'[r.path] = None THEN None ELSE objects'[r.path].content
      BY Zenon, <2>2, <2>6, <2>7
    <3>2. Seen' = [Seen EXCEPT ![r.path] = v]
      BY ZenonT(60), <1>0, <2>4, <3>1, SeenAfter
    <3>3. QED
      BY Zenon, <2>7, <3>2 DEF Seen
  <2>9. Contract!Stat(c)
    BY Zenon, <1>0, <1>1, <1>2, <2>2, <2>8
       DEF Contract!Stat, Contract!Pending, Told, Requested, Seen
  <2>10. QED
    BY <2>9 DEF Contract!Next
<1>6. QED
  BY <1>3, <1>4, <1>5

\* A call begins in the contract as well, with the request it maps to.
LEMMA InvokeRefines ==
    ASSUME Inv, NEW c \in Clients, Invoke(c)
    PROVE  Contract!Next
<1>1. PICK r \in Calls : request' = [request EXCEPT ![c] = r]
  BY Zenon DEF Invoke
<1>2. r \in Requests /\ r # None
  BY S3Assumption DEF Calls
<1>3. /\ request'[c] = r /\ outcome'[c] = "pending" /\ step'[c] = "start" /\ published'[c] = 0
      /\ \A d \in Clients : d # c =>
            /\ request'[d] = request[d] /\ step'[d] = step[d]
            /\ published'[d] = published[d] /\ outcome'[d] = outcome[d]
  BY ZenonT(60), <1>1 DEF Invoke, Inv, HeadInvariant, TypeOK
<1>4. ~Served(c)' /\ ~Served(c) /\ outcome[c] \in {"idle", "ok", "notfound", "exists", "error"}
  BY Zenon, <1>3 DEF Served, Invoke, Inv, HeadInvariant, TypeOK
<1>5. \A d \in Clients : d # c => Told'[d] = Told[d] /\ Requested'[d] = Requested[d]
  BY Zenon, <1>3, Others
<1>6. Told'[c] = "pending" /\ Told[c] \notin {"pending", "loaded"}
  BY Zenon, <1>3, <1>4 DEF Told
<1>7. Requested'[c] = [op |-> IF r.op = "setmetadata" THEN "stat" ELSE r.op, path |-> r.path,
                       to |-> r.to, content |-> r.content, replace |-> r.replace]
  BY Zenon, <1>2, <1>3, <1>4 DEF Requested
<1>8. Requested'[c] \in Contract!Requests
  <2>1. PICK o : o = IF r.op = "setmetadata" THEN "stat" ELSE r.op
    BY Zenon
  <2>2. o \in Contract!Methods
    BY <1>2, <2>1 DEF Contract!Methods, Requests, Operations
  <2>3. /\ r.path \in Paths /\ r.to \in Paths /\ r.content \in Contents \cup {None}
        /\ r.replace \in BOOLEAN
    BY Zenon, <1>2 DEF Requests
  <2>4. QED
    BY SMTT(60), <1>7, <2>1, <2>2, <2>3 DEF Contract!Requests
<1>9. /\ Told' = [Told EXCEPT ![c] = "pending"]
      /\ Requested' = [Requested EXCEPT ![c] = Requested'[c]]
  BY <1>5, <1>6, OnClients
<1>10. Seen' = Seen /\ answer' = [answer EXCEPT ![c] = None]
  BY DEF Invoke, Seen, Exists
<1>11. Contract!Invoke(c)
  BY Zenon, <1>6, <1>8, <1>9, <1>10
     DEF Contract!Invoke, Contract!Returned, Told, Requested, Seen
<1>12. QED
  BY <1>11 DEF Contract!Next

-----------------------------------------------------------------------------
\* Linearizable: every call of the S3 adapter takes effect when the service
\* serves the one request that changes the bucket or that reads it, with the
\* answer contracts.go promises; a call whose reply is lost after that reports
\* an error, and ErrNotFound and ErrPreconditionFailed never come from a call
\* that changed an object, but for the Stat that ends a Write (s3.go: Write,
\* Stat, Open, Delete, Copy, SetMetadata).
THEOREM S3ImplementsContract == Spec => Linearizable
<1>1. Init => Contract!Init
  <2> SUFFICES ASSUME Init PROVE Contract!Init
    OBVIOUS
  <2>1. /\ Seen = [p \in Paths |-> None] /\ Requested = [c \in Clients |-> None]
        /\ Told = [c \in Clients |-> "idle"]
    BY DEF Init, Seen, Requested, Told, Exists, Served
  <2>2. QED
    BY Zenon, <2>1 DEF Init, Contract!Init, Seen, Requested, Told
<1>2. Inv /\ [Next]_vars => [Contract!Next \/ ForeignPut]_(Contract!vars)
  <2> SUFFICES ASSUME Inv, [Next]_vars
               PROVE  Contract!Next \/ ForeignPut \/ UNCHANGED Contract!vars
    OBVIOUS
  <2>1. ASSUME UNCHANGED <<objects, request, step, published, outcome, answer>>
        PROVE  UNCHANGED Contract!vars
    <3>1. Seen' = Seen /\ Told' = Told /\ Requested' = Requested
      BY ZenonT(60), <2>1 DEF Seen, Told, Requested, Exists, Served
    <3>2. QED
      BY Zenon, <2>1, <3>1 DEF Contract!vars, Seen, Told, Requested
  <2>2. CASE UNCHANGED vars \/ \E c \in Clients : Cancel(c)
    BY <2>1, <2>2 DEF vars, Cancel
  <2>3. CASE Next /\ ~\E c \in Clients : Cancel(c)
    BY <2>3, InvokeRefines, RequestsRefine, UploadRefines, ChangesRefine DEF Next
  <2>4. QED
    BY <2>2, <2>3
<1>3. QED
  BY <1>1, <1>2, InvHolds, PTL DEF Spec, Linearizable
=============================================================================
