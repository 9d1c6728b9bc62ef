------------------------------- MODULE S3Store -------------------------------
(***************************************************************************)
(* s3.Adapter on one bucket: the calls on single objects.  Each call is a  *)
(* sequence of requests to the service, which serves one request at one    *)
(* instant; the reply can be lost, and other clients of the adapter are    *)
(* served in between.  Write is an upload followed by a HeadObject,        *)
(* SetMetadata a HeadObject followed by a copy of the object onto itself.  *)
(* Package r2 builds the same adapter.                                     *)
(*                                                                         *)
(* The bucket and the SDK are external.  The transfer manager's parts are  *)
(* invisible until it completes an upload, so an upload is one request.    *)
(***************************************************************************)
EXTENDS Naturals

CONSTANTS
    Clients,    \* goroutines calling the adapter
    Names,      \* object paths
    Root,       \* the zero filesystem.Path
    Contents,   \* object contents
    Types,      \* content types
    None,       \* no object, no call
    MaxTime,    \* bound: modifications of the bucket
    Workloads   \* bound: operations that occur together, whether the adapter has a
                \* key prefix, whether other programs put objects into the bucket

VARIABLES
    objects,    \* the object under the key of each path
    now,        \* the service's clock
    request,    \* the call each client is in
    step,       \* where it is
    cancelled,  \* its context is done
    head,       \* what its HeadObject has returned
    published,  \* when its upload became the object at its path
    outcome,    \* how the client's latest call ended, or "pending"
    answer,     \* the content its latest Open returned
    workload    \* what this execution calls, and on which bucket

vars == <<objects, now, request, step, cancelled, head, published, outcome, answer, workload>>

Operations == {"read", "stat", "write", "delete", "copy", "move", "setmetadata"}

Paths == Names \cup {Root}

\* User metadata, by whether WithMetadataLimits admits it.
Metadata == {"within", "beyond"}

Object == [content : Contents, type : Types, metadata : Metadata, modified : 1..MaxTime]

Requests ==
    [op : Operations, path : Paths, to : Paths, content : Contents \cup {None}, type : Types,
     metadata : Metadata, replace : BOOLEAN]

\* Fields an operation does not use have a fixed value.
Calls ==
    {r \in Requests :
        /\ r.op \notin {"copy", "move"} => r.to = r.path
        /\ (r.content # None) <=> (r.op = "write")
        /\ r.op # "write" => r.type = CHOOSE t \in Types : TRUE
        /\ r.op \notin {"write", "copy", "move"} => r.replace
        /\ r.op \notin {"write", "setmetadata"} => r.metadata = "within"}

Steps == {"start", "send", "uploaded", "head", "copy", "replied", "done"}

ASSUME S3Assumption ==
    /\ Root \notin Names
    /\ None \notin Contents \cup Object \cup Requests
    /\ Types # {}
    /\ MaxTime \in Nat
    /\ Workloads \subseteq
          [operations : SUBSET Operations, prefixed : BOOLEAN, foreign : BOOLEAN]

TypeOK ==
    /\ objects \in [Paths -> Object \cup {None}]
    /\ now \in 0..MaxTime
    /\ request \in [Clients -> Requests \cup {None}]
    /\ step \in [Clients -> Steps]
    /\ cancelled \in [Clients -> BOOLEAN]
    /\ head \in [Clients -> Object \cup {None}]
    /\ published \in [Clients -> 0..MaxTime]
    /\ outcome \in [Clients -> {"idle", "pending", "ok", "notfound", "exists", "error"}]
    /\ answer \in [Clients -> Contents \cup {None}]
    /\ workload \in Workloads
    /\ ~workload.prefixed => objects[Root] = None
    /\ \A c \in Clients :
          /\ request[c] # None <=> outcome[c] = "pending"
          /\ step[c] = "done" <=> outcome[c] # "pending"
          /\ step[c] = "copy" => head[c] # None

\* New.
Init ==
    /\ objects = [p \in Paths |-> None]
    /\ now = 0
    /\ request = [c \in Clients |-> None]
    /\ step = [c \in Clients |-> "done"]
    /\ cancelled = [c \in Clients |-> FALSE]
    /\ head = [c \in Clients |-> None]
    /\ published = [c \in Clients |-> 0]
    /\ outcome = [c \in Clients |-> "idle"]
    /\ answer = [c \in Clients |-> None]
    /\ workload \in Workloads

-----------------------------------------------------------------------------
Exists(p) == objects[p] # None

At(c, s) == step[c] = s

Goto(c, s) ==
    /\ step' = [step EXCEPT ![c] = s]
    /\ UNCHANGED <<request, cancelled, outcome>>

Answer(c, o) ==
    /\ outcome' = [outcome EXCEPT ![c] = o]
    /\ request' = [request EXCEPT ![c] = None]
    /\ step' = [step EXCEPT ![c] = "done"]
    /\ cancelled' = [cancelled EXCEPT ![c] = FALSE]

\* The bucket has object o at p from now on.
Put(p, o) ==
    /\ now < MaxTime
    /\ now' = now + 1
    /\ objects' = [objects EXCEPT ![p] = [o EXCEPT !.modified = now + 1]]

\* The key of a path: without a prefix the root has the empty key, which the
\* SDK does not send.
key(p) == IF p = Root /\ ~workload.prefixed THEN None ELSE p

\* cloneMetadata: a copy of metadata within the limits, or ErrResourceLimit.
cloneMetadata(metadata) == metadata = "within"

-----------------------------------------------------------------------------
(* The application and its environment.                                    *)

Invoke(c) ==
    /\ outcome[c] # "pending"
    /\ \E r \in Calls :
          /\ r.op \in workload.operations
          /\ request' = [request EXCEPT ![c] = r]
    /\ step' = [step EXCEPT ![c] = "start"]
    /\ head' = [head EXCEPT ![c] = None]
    /\ published' = [published EXCEPT ![c] = 0]
    /\ outcome' = [outcome EXCEPT ![c] = "pending"]
    /\ answer' = [answer EXCEPT ![c] = None]
    /\ UNCHANGED <<objects, now, cancelled>>

\* The context of a call ends.
Cancel(c) ==
    /\ outcome[c] = "pending" /\ ~cancelled[c]
    /\ cancelled' = [cancelled EXCEPT ![c] = TRUE]
    /\ UNCHANGED <<objects, now, request, step, head, published, outcome, answer>>

\* Another program writes an object, with metadata of its own.
ForeignPut ==
    /\ workload.foreign
    /\ \E p \in Names, o \in Object : o.modified = 1 /\ Put(p, o)
    /\ UNCHANGED <<request, step, cancelled, head, published, outcome, answer>>

\* A request fails, before the service has served it or after (its reply is
\* lost): mapError keeps a context error and redacts the others.
RequestFails(c) ==
    /\ outcome[c] = "pending" /\ ~At(c, "start")
    /\ Answer(c, "error")
    /\ UNCHANGED <<objects, now, head, published, answer>>

-----------------------------------------------------------------------------
(* Arguments an operation refuses before it sends anything.                *)

Refused(r) ==
    \/ r.op = "write" /\ r.path = Root
    \/ r.op \in {"write", "setmetadata"} /\ ~cloneMetadata(r.metadata)
    \/ r.op = "copy" /\ ~r.replace
    \/ r.op = "move"
    \/ None \in {key(r.path), key(r.to)}

Refuse(c) ==
    /\ At(c, "start") /\ Refused(request[c])
    /\ Answer(c, "error")
    /\ UNCHANGED <<objects, now, head, published, answer>>

Start(c) ==
    /\ At(c, "start") /\ ~Refused(request[c])
    /\ Goto(c, IF request[c].op \in {"stat", "setmetadata"} THEN "head" ELSE "send")
    /\ UNCHANGED <<objects, now, head, published, answer>>

\* GetObject, HeadObject or CopyObject of an absent key (mapError).
NotFound(c) ==
    /\ \/ At(c, "send") /\ request[c].op \in {"read", "copy"}
       \/ At(c, "head") \/ At(c, "copy")
    /\ ~Exists(request[c].path)
    /\ Answer(c, "notfound")
    /\ UNCHANGED <<objects, now, head, published, answer>>

-----------------------------------------------------------------------------
(* The requests.                                                           *)

Sends(c, op) == At(c, "send") /\ request[c].op = op

\* Open, and OpenRange of a valid range.
Open(c) ==
    /\ Sends(c, "read") /\ Exists(request[c].path)
    /\ answer' = [answer EXCEPT ![c] = objects[request[c].path].content]
    /\ Answer(c, "ok")
    /\ UNCHANGED <<objects, now, head, published>>

\* Mutant: IfNoneMatch is not passed on.
UploadReplaces(c) ==
    LET r == request[c] IN
    /\ Sends(c, "write")
    /\ Put(r.path, [content |-> r.content, type |-> r.type,
                    metadata |-> r.metadata, modified |-> now])
    /\ published' = [published EXCEPT ![c] = now + 1]
    /\ Goto(c, "uploaded")
    /\ UNCHANGED <<head, answer>>

\* Mutant: the Write reports the object that it replaces.
UploadReportsReplaced(c) ==
    LET r == request[c] IN
    /\ Sends(c, "write") /\ Exists(r.path)
    /\ Put(r.path, [content |-> r.content, type |-> r.type,
                    metadata |-> r.metadata, modified |-> now])
    /\ published' = [published EXCEPT ![c] = now + 1]
    /\ head' = [head EXCEPT ![c] = objects[r.path]]
    /\ Answer(c, "ok")
    /\ UNCHANGED answer

\* Write: UploadObject, under If-None-Match when the write is create-only.
Upload(c) ==
    LET r == request[c] IN
    /\ Sends(c, "write")
    /\ \/ /\ r.replace \/ ~Exists(r.path)
          /\ Put(r.path, [content |-> r.content, type |-> r.type,
                          metadata |-> r.metadata, modified |-> now])
          /\ published' = [published EXCEPT ![c] = now + 1]
          /\ Goto(c, "uploaded")
       \/ /\ ~r.replace /\ Exists(r.path)
          /\ Answer(c, "exists")
          /\ UNCHANGED <<objects, now, published>>
    /\ UNCHANGED <<head, answer>>

\* The context is looked at between the upload and the Stat.
Uploaded(c) ==
    /\ At(c, "uploaded")
    /\ IF cancelled[c] THEN Answer(c, "error") ELSE Goto(c, "head")
    /\ UNCHANGED <<objects, now, head, published, answer>>

\* Stat: HeadObject, whose metadata must be within the limits too.
Stat(c) ==
    LET o == objects[request[c].path] IN
    /\ At(c, "head") /\ Exists(request[c].path)
    /\ IF cloneMetadata(o.metadata)
       THEN /\ head' = [head EXCEPT ![c] = o]
            /\ IF request[c].op = "setmetadata" THEN Goto(c, "copy") ELSE Answer(c, "ok")
       ELSE Answer(c, "error") /\ UNCHANGED head
    /\ UNCHANGED <<objects, now, published, answer>>

\* SetMetadata: CopyObject onto itself, with the content type Stat has seen.
SetMetadata(c) ==
    LET p == request[c].path IN
    /\ At(c, "copy") /\ Exists(p)
    /\ Put(p, [objects[p] EXCEPT !.metadata = request[c].metadata, !.type = head[c].type])
    /\ Goto(c, "replied")
    /\ UNCHANGED <<head, published, answer>>

\* DeleteObject succeeds whether or not there is an object.
Delete(c) ==
    /\ Sends(c, "delete")
    /\ objects' = [objects EXCEPT ![request[c].path] = None]
    /\ Goto(c, "replied")
    /\ UNCHANGED <<now, head, published, answer>>

\* CopyObject takes the properties of the source along.
Copy(c) ==
    /\ Sends(c, "copy") /\ Exists(request[c].path)
    /\ Put(request[c].to, objects[request[c].path])
    /\ Goto(c, "replied")
    /\ UNCHANGED <<head, published, answer>>

\* The reply to a delete or a copy arrives.
Reply(c) ==
    /\ At(c, "replied")
    /\ Answer(c, "ok")
    /\ UNCHANGED <<objects, now, head, published, answer>>

Next ==
    /\ \/ ForeignPut
       \/ \E c \in Clients :
             \/ Invoke(c) \/ Cancel(c)
             \/ Refuse(c) \/ Start(c) \/ NotFound(c) \/ RequestFails(c)
             \/ Open(c) \/ Upload(c) \/ Uploaded(c) \/ Stat(c) \/ SetMetadata(c)
             \/ Delete(c) \/ Copy(c) \/ Reply(c)
    /\ UNCHANGED workload

Spec == Init /\ [][Next]_vars

-----------------------------------------------------------------------------
(* Properties.                                                             *)

\* A call has taken effect once the service has served the request that
\* changes the bucket; errors after that, the NotFound of the Stat that ends a
\* Write included, are errors of a call that took effect.
Served(c) == step[c] \in {"uploaded", "replied"} \/ (step[c] = "head" /\ published[c] # 0)

Contract == INSTANCE ObjectStore WITH
    objects <- [p \in Paths |-> IF Exists(p) THEN objects[p].content ELSE None],
    request <- [c \in Clients |->
                  IF request[c] = None \/ Served(c) THEN None
                  ELSE [op |-> IF request[c].op = "setmetadata" THEN "stat" ELSE request[c].op,
                        path |-> request[c].path, to |-> request[c].to,
                        content |-> request[c].content, replace |-> request[c].replace]],
    outcome <- [c \in Clients |->
                  IF Served(c) THEN "ok"
                  ELSE IF published[c] # 0 /\ outcome[c] = "notfound" THEN "error"
                  ELSE outcome[c]]

\* The adapter implements the contract: whatever the interleaving of requests
\* and the replies that get lost, a call that succeeds took effect at one
\* instant, and the answers NotFound (but for a Write's) and
\* ErrPreconditionFailed come from a call that changed nothing.  Only other
\* programs do what no call asked for.
Linearizable == Contract!Init /\ [][Contract!Next \/ ForeignPut]_(Contract!vars)

\* The metadata a successful Write returns describes its own object or a later
\* one, never what its upload replaced (Write: Stat after UploadObject).
ReportsOwnOrLater ==
    \A c \in Clients :
        outcome[c] = "ok" /\ published[c] # 0 => head[c].modified >= published[c]

\* No call hands out user metadata beyond the limits, even when another
\* program has stored it (Stat: cloneMetadata of the response).
MetadataWithinLimits ==
    \A c \in Clients : head[c] # None => head[c].metadata = "within"

\* What the metadata that a call returns can be: of the call's own object or a
\* later one, and within the limits, whoever stored it.
HeadInvariant == TypeOK /\ ReportsOwnOrLater /\ MetadataWithinLimits
=============================================================================
