------------------------------ MODULE MemoryStore ------------------------------
(***************************************************************************)
(* memory.Adapter: a map of objects behind one RWMutex.                    *)
(*                                                                         *)
(* Every call is two or three steps: the call itself (argument and context *)
(* checks happen between it and the lock), for Write the construction of   *)
(* the stored object outside the lock, and the critical section.           *)
(*                                                                         *)
(* Go maps are references, so user metadata is a cell: the adapter clones  *)
(* a map into a fresh cell (cloneMap), while the application keeps cells   *)
(* of its own and may write to them at any time.  `callerMaps` is the set  *)
(* of cells application code can reach.                                    *)
(***************************************************************************)
EXTENDS Naturals

CONSTANTS
    Clients,    \* goroutines calling the adapter
    Names,      \* object paths
    Root,       \* the zero filesystem.Path
    Contents,   \* object contents
    None,       \* no object, no call
    Cells,      \* bound: user-metadata maps alive at one time
    NilMap,     \* a nil map
    Operations, \* the operations of this instance
    MaxTime     \* bound: ticks of the clock

VARIABLES
    objects,    \* Adapter.objects
    request,    \* the call each client is in
    since,      \* when it was made
    staged,     \* the object a Write has built and not yet published
    outcome,    \* how the client's latest call ended, or "pending"
    answer,     \* the content its latest Open returned
    callerMaps, \* metadata maps application code can reach
    now,        \* Adapter.clock
    leaked      \* a panicking List never released the read lock

vars == <<objects, request, since, staged, outcome, answer, callerMaps, now, leaked>>

Paths == Names \cup {Root}

Maps == Cells \cup {NilMap}

Object == [content : Contents, metadata : Maps, modified : 0..MaxTime]

\* path is the object or the source, to the destination; replace is Overwrite
\* or the negation of IfNoneMatch; metadata the map the caller passes.
Requests ==
    [op : {"read", "stat", "list", "write", "delete", "copy", "move",
           "setmetadata", "setvisibility"},
     path : Paths, to : Paths, content : Contents \cup {None},
     replace : BOOLEAN, metadata : Maps]

\* The calls that application code makes: fields an operation does not use
\* have a fixed value, and only a write has a content.
Calls ==
    {r \in Requests :
        /\ r.op \in Operations
        /\ r.op \notin {"copy", "move"} => r.to = r.path
        /\ (r.content # None) <=> (r.op = "write")
        /\ r.op \notin {"write", "copy", "move"} => r.replace
        /\ r.op \notin {"write", "setmetadata"} => r.metadata = NilMap}

ASSUME MemoryAssumption ==
    /\ Root \notin Names
    /\ NilMap \notin Cells
    /\ None \notin Contents \cup Object \cup Requests
    /\ MaxTime \in Nat

Pending(c, op) == outcome[c] = "pending" /\ request[c].op = op

TypeOK ==
    /\ objects \in [Paths -> Object \cup {None}]
    /\ request \in [Clients -> Requests \cup {None}]
    /\ since \in [Clients -> 0..MaxTime]
    /\ staged \in [Clients -> Object \cup {None}]
    /\ outcome \in [Clients -> {"idle", "pending", "ok", "notfound", "exists", "error"}]
    /\ answer \in [Clients -> Contents \cup {None}]
    /\ callerMaps \in SUBSET Cells
    /\ now \in 0..MaxTime
    /\ leaked \in BOOLEAN
    /\ \A c \in Clients :
          /\ request[c] # None <=> outcome[c] = "pending"
          /\ request[c] # None => (request[c].content # None <=> request[c].op = "write")
          /\ staged[c] # None => Pending(c, "write") /\ request[c].path # Root

\* New.
Init ==
    /\ objects = [p \in Paths |-> None]
    /\ request = [c \in Clients |-> None]
    /\ since = [c \in Clients |-> 0]
    /\ staged = [c \in Clients |-> None]
    /\ outcome = [c \in Clients |-> "idle"]
    /\ answer = [c \in Clients |-> None]
    /\ callerMaps = {}
    /\ now = 0
    /\ leaked = FALSE

-----------------------------------------------------------------------------
Exists(p) == objects[p] # None

\* Cells nobody refers to.
Free ==
    {m \in Cells \ callerMaps :
        /\ \A p \in Paths : Exists(p) => objects[p].metadata # m
        /\ \A c \in Clients :
              /\ staged[c] # None => staged[c].metadata # m
              /\ request[c] # None => request[c].metadata # m}

\* cloneMap: a fresh copy of a map, nil of nil.
cloneMap(m, clone) == IF m = NilMap THEN clone = NilMap ELSE clone \in Free

\* The result carries a copy of the stored metadata (metadataFor), which the
\* caller keeps or drops.
metadataFor(stored) ==
    \/ \E clone \in Maps :
          /\ cloneMap(stored.metadata, clone)
          /\ callerMaps' = callerMaps \cup ({clone} \ {NilMap})
    \/ UNCHANGED callerMaps

Answer(c, o) ==
    /\ outcome' = [outcome EXCEPT ![c] = o]
    /\ request' = [request EXCEPT ![c] = None]
    /\ UNCHANGED <<since, now>>

-----------------------------------------------------------------------------
(* The application.                                                        *)

Invoke(c) ==
    /\ outcome[c] # "pending"
    /\ \E r \in Calls :
          /\ r.metadata \in callerMaps \cup {NilMap}
          /\ request' = [request EXCEPT ![c] = r]
    /\ since' = [since EXCEPT ![c] = now]
    /\ outcome' = [outcome EXCEPT ![c] = "pending"]
    /\ answer' = [answer EXCEPT ![c] = None]
    /\ UNCHANGED <<objects, staged, callerMaps, now, leaked>>

\* Application code makes a map, or drops the last reference to one.
MakeMap ==
    /\ \E m \in Free : callerMaps' = callerMaps \cup {m}
    /\ UNCHANGED <<objects, request, since, staged, outcome, answer, now, leaked>>

DropMap ==
    /\ \E m \in callerMaps :
          /\ \A c \in Clients : request[c] # None => request[c].metadata # m
          /\ callerMaps' = callerMaps \ {m}
    /\ UNCHANGED <<objects, request, since, staged, outcome, answer, now, leaked>>

Tick ==
    /\ now < MaxTime
    /\ now' = now + 1
    /\ UNCHANGED <<objects, request, since, staged, outcome, answer, callerMaps, leaked>>

-----------------------------------------------------------------------------
(* The adapter.                                                            *)

\* The call fails before the lock: cancelled context, invalid visibility,
\* negative limit, a source that fails to read, a write to the root.
Reject(c) ==
    /\ outcome[c] = "pending"
    /\ staged[c] = None
    /\ Answer(c, "error")
    /\ UNCHANGED <<objects, staged, answer, callerMaps, leaked>>

\* Lookup of an absent object, under either lock.
notFound(c) ==
    /\ outcome[c] = "pending"
    /\ request[c].op \notin {"write", "list"}
    /\ ~Exists(request[c].path)
    /\ request[c].op \notin {"read", "stat"} => ~leaked
    /\ Answer(c, "notfound")
    /\ UNCHANGED <<objects, staged, answer, callerMaps, leaked>>

\* Open and OpenRange: an immutable snapshot.
Open(c) ==
    /\ Pending(c, "read")
    /\ Exists(request[c].path)
    /\ answer' = [answer EXCEPT ![c] = objects[request[c].path].content]
    /\ Answer(c, "ok")
    /\ UNCHANGED <<objects, staged, callerMaps, leaked>>

\* Stat, and Visibility through it.  Checksum looks the object up in the same
\* way and returns a digest.
Stat(c) ==
    /\ Pending(c, "stat")
    /\ Exists(request[c].path)
    /\ metadataFor(objects[request[c].path])
    /\ Answer(c, "ok")
    /\ UNCHANGED <<objects, staged, answer, leaked>>

\* List panics on an object named by the root: MustParsePath rejects "".  The
\* read lock is not released by a defer and stays held.
List(c) ==
    /\ Pending(c, "list")
    /\ IF request[c].path = Root /\ Exists(Root)
       THEN leaked' = TRUE /\ Answer(c, "error")
       ELSE UNCHANGED leaked /\ Answer(c, "ok")
    /\ UNCHANGED <<objects, staged, answer, callerMaps>>

\* Write, before the lock: the object is built, its metadata cloned and the
\* clock read.
WriteStage(c) ==
    /\ Pending(c, "write")
    /\ request[c].path # Root
    /\ staged[c] = None
    /\ \E clone \in Maps :
          /\ cloneMap(request[c].metadata, clone)
          /\ staged' = [staged EXCEPT ![c] = [content |-> request[c].content,
                            metadata |-> clone, modified |-> now]]
    /\ UNCHANGED <<objects, request, since, outcome, answer, callerMaps, now, leaked>>

WriteCommitUnchecked(c) ==
    /\ staged[c] # None
    /\ ~leaked
    /\ objects' = [objects EXCEPT ![request[c].path] = staged[c]]
    /\ metadataFor(staged[c])
    /\ Answer(c, "ok")
    /\ staged' = [staged EXCEPT ![c] = None]
    /\ UNCHANGED <<answer, leaked>>

\* Write, under the lock: the create-only check and the publication.
WriteCommit(c) ==
    /\ staged[c] # None
    /\ ~leaked
    /\ IF ~request[c].replace /\ Exists(request[c].path)
       THEN /\ Answer(c, "exists")
            /\ UNCHANGED <<objects, callerMaps>>
       ELSE /\ objects' = [objects EXCEPT ![request[c].path] = staged[c]]
            /\ metadataFor(staged[c])
            /\ Answer(c, "ok")
    /\ staged' = [staged EXCEPT ![c] = None]
    /\ UNCHANGED <<answer, leaked>>

Delete(c) ==
    /\ Pending(c, "delete")
    /\ ~leaked
    /\ Exists(request[c].path)
    /\ objects' = [objects EXCEPT ![request[c].path] = None]
    /\ Answer(c, "ok")
    /\ UNCHANGED <<staged, answer, callerMaps, leaked>>

\* Copy and Move refuse an existing destination unless Overwrite is set.
AlreadyExists(c) ==
    /\ outcome[c] = "pending"
    /\ request[c].op \in {"copy", "move"}
    /\ ~leaked
    /\ Exists(request[c].path)
    /\ ~request[c].replace
    /\ Exists(request[c].to)
    /\ Answer(c, "exists")
    /\ UNCHANGED <<objects, staged, answer, callerMaps, leaked>>

Admitted(c) ==
    /\ ~leaked
    /\ Exists(request[c].path)
    /\ request[c].replace \/ ~Exists(request[c].to)

CopySharing(c) ==
    /\ Pending(c, "copy")
    /\ Admitted(c)
    /\ objects' = [objects EXCEPT ![request[c].to] =
                       [objects[request[c].path] EXCEPT !.modified = now]]
    /\ Answer(c, "ok")
    /\ UNCHANGED <<staged, answer, callerMaps, leaked>>

Copy(c) ==
    /\ Pending(c, "copy")
    /\ Admitted(c)
    /\ \E clone \in Maps :
          /\ cloneMap(objects[request[c].path].metadata, clone)
          /\ objects' = [objects EXCEPT ![request[c].to] =
                [objects[request[c].path] EXCEPT !.metadata = clone, !.modified = now]]
    /\ Answer(c, "ok")
    /\ UNCHANGED <<staged, answer, callerMaps, leaked>>

MoveKeepsStamp(c) ==
    /\ Pending(c, "move")
    /\ Admitted(c)
    /\ objects' = [objects EXCEPT ![request[c].path] = None,
                                  ![request[c].to] = objects[request[c].path]]
    /\ Answer(c, "ok")
    /\ UNCHANGED <<staged, answer, callerMaps, leaked>>

\* Equal paths are a no-op; otherwise the object is stamped, stored at the
\* destination and removed from the source.
Move(c) ==
    /\ Pending(c, "move")
    /\ Admitted(c)
    /\ IF request[c].path = request[c].to
       THEN UNCHANGED objects
       ELSE objects' = [objects EXCEPT
                ![request[c].to] = [objects[request[c].path] EXCEPT !.modified = now],
                ![request[c].path] = None]
    /\ Answer(c, "ok")
    /\ UNCHANGED <<staged, answer, callerMaps, leaked>>

SetMetadata(c) ==
    /\ Pending(c, "setmetadata")
    /\ ~leaked
    /\ Exists(request[c].path)
    /\ \E clone \in Maps :
          /\ cloneMap(request[c].metadata, clone)
          /\ objects' = [objects EXCEPT ![request[c].path].metadata = clone,
                                        ![request[c].path].modified = now]
    /\ Answer(c, "ok")
    /\ UNCHANGED <<staged, answer, callerMaps, leaked>>

\* The visibility itself is not modelled; the stamp is.
SetVisibility(c) ==
    /\ Pending(c, "setvisibility")
    /\ ~leaked
    /\ Exists(request[c].path)
    /\ objects' = [objects EXCEPT ![request[c].path].modified = now]
    /\ Answer(c, "ok")
    /\ UNCHANGED <<staged, answer, callerMaps, leaked>>

-----------------------------------------------------------------------------
Step(c) ==
    \/ Reject(c) \/ notFound(c) \/ AlreadyExists(c)
    \/ Open(c) \/ Stat(c) \/ List(c)
    \/ WriteStage(c) \/ WriteCommit(c) \/ Delete(c)
    \/ Copy(c) \/ Move(c) \/ SetMetadata(c) \/ SetVisibility(c)

Next ==
    \/ \E c \in Clients : Invoke(c) \/ Step(c)
    \/ MakeMap \/ DropMap \/ Tick

Spec == Init /\ [][Next]_vars

-----------------------------------------------------------------------------
(* Properties.                                                             *)

\* The contract: every call takes effect at one instant, and its answer tells
\* what the store held then.  SetMetadata and SetVisibility are Stats to it.
AbstractRequest(r) ==
    [op |-> IF r.op \in {"setmetadata", "setvisibility"} THEN "stat" ELSE r.op,
     path |-> r.path, to |-> r.to, content |-> r.content, replace |-> r.replace]

Contract == INSTANCE ObjectStore WITH
    objects <- [p \in Paths |-> IF Exists(p) THEN objects[p].content ELSE None],
    request <- [c \in Clients |-> IF request[c] = None THEN None
                                  ELSE AbstractRequest(request[c])]

\* The adapter implements the contract, create-only writes that race other
\* writers included.
Linearizable == Contract!Spec

Shared(o1, o2) == o1.metadata = o2.metadata /\ o1.metadata # NilMap

\* The adapter's maps are private: application code reaches no map of a stored
\* or staged object, and no two objects share one.  A later change by the
\* caller or through another path cannot show up in an object.
PrivateMetadata ==
    /\ \A p \in Paths : Exists(p) => objects[p].metadata \notin callerMaps
    /\ \A c \in Clients : staged[c] # None => staged[c].metadata \notin callerMaps
    /\ \A p, q \in Paths :
          p # q /\ Exists(p) /\ Exists(q) => ~Shared(objects[p], objects[q])
    /\ \A p \in Paths, c \in Clients :
          Exists(p) /\ staged[c] # None => ~Shared(objects[p], staged[c])
    /\ \A c, d \in Clients :
          c # d /\ staged[c] # None /\ staged[d] # None => ~Shared(staged[c], staged[d])

\* An object is stamped with a time within the call that stored it.  Write
\* reads the clock before it has the lock, so it alone may store an older
\* stamp than the one it replaces.
StampWithinCall ==
    [][\A p \in Paths : Exists(p)' /\ objects'[p] # objects[p] =>
          \E c \in Clients :
              /\ outcome[c] = "pending" /\ outcome'[c] = "ok"
              /\ objects'[p].modified \in since[c]..now
              /\ \/ request[c].op = "write"
                 \/ ~Exists(p)
                 \/ objects'[p].modified >= objects[p].modified]_vars

=============================================================================
