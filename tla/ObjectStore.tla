------------------------------ MODULE ObjectStore ------------------------------
(***************************************************************************)
(* What contracts.go promises of a backend, whatever the adapter: clients  *)
(* call, every call takes effect at one instant between its invocation and *)
(* its return, and its answer tells what happened at that instant.  Two    *)
(* things are weaker than a linearizable map, both stated by contracts.go: *)
(* an error other than NotFound, AlreadyExists and PreconditionFailed does *)
(* not prove that nothing was written, and Copy is not atomic: it may read *)
(* the source at one instant and publish the destination at a later one.   *)
(***************************************************************************)

CONSTANTS
    Clients,    \* goroutines calling one adapter
    Paths,      \* logical paths
    Contents,   \* object contents
    None        \* no object, no content

VARIABLES
    objects,    \* the object at each path
    request,    \* the call each client has in progress
    outcome,    \* its answer, "pending" until the call has taken effect
    answer      \* the content a read or a copy has obtained

vars == <<objects, request, outcome, answer>>

Methods == {"read", "stat", "list", "write", "delete", "copy", "move"}

\* A call: path is the object or the source, to the destination, content what
\* a write publishes.  replace is Overwrite, or the negation of IfNoneMatch.
Requests ==
    [op : Methods, path : Paths, to : Paths, content : Contents \cup {None},
     replace : BOOLEAN]

Outcomes == {"idle", "pending", "loaded", "ok", "notfound", "exists", "error"}

TypeOK ==
    /\ objects \in [Paths -> Contents \cup {None}]
    /\ request \in [Clients -> Requests \cup {None}]
    /\ outcome \in [Clients -> Outcomes]
    /\ answer \in [Clients -> Contents \cup {None}]

Init ==
    /\ objects = [p \in Paths |-> None]
    /\ request = [c \in Clients |-> None]
    /\ outcome = [c \in Clients |-> "idle"]
    /\ answer = [c \in Clients |-> None]

-----------------------------------------------------------------------------
Returned(c) == outcome[c] \notin {"pending", "loaded"}

Answer(c, o) ==
    /\ outcome' = [outcome EXCEPT ![c] = o]
    /\ request' = [request EXCEPT ![c] = None]

Invoke(c) ==
    /\ Returned(c)
    /\ outcome' = [outcome EXCEPT ![c] = "pending"]
    /\ answer' = [answer EXCEPT ![c] = None]
    /\ UNCHANGED objects
    \* any call of the client's choosing
    /\ request'[c] \in Requests
    /\ request' = [request EXCEPT ![c] = request'[c]]

Pending(c, op) == outcome[c] = "pending" /\ request[c].op = op

\* An operation on an absent object.
NotFound(c) ==
    /\ outcome[c] = "pending"
    /\ request[c].op \notin {"write", "list"}
    /\ objects[request[c].path] = None
    /\ Answer(c, "notfound")
    /\ UNCHANGED <<objects, answer>>

\* A write, copy or move that may not replace an existing destination.
Exists(c) ==
    /\ outcome[c] \in {"pending", "loaded"}
    /\ request[c].op \in {"write", "copy", "move"}
    /\ ~request[c].replace
    /\ objects[request[c].to] # None
    /\ Answer(c, "exists")
    /\ UNCHANGED <<objects, answer>>

Read(c) ==
    /\ Pending(c, "read")
    /\ objects[request[c].path] # None
    /\ answer' = [answer EXCEPT ![c] = objects[request[c].path]]
    /\ Answer(c, "ok")
    /\ UNCHANGED objects

\* Stat, and the calls that change only what Stat reports.
Stat(c) ==
    /\ Pending(c, "stat")
    /\ objects[request[c].path] # None
    /\ Answer(c, "ok")
    /\ UNCHANGED <<objects, answer>>

\* A listing: its entries are not part of this specification.
List(c) ==
    /\ Pending(c, "list")
    /\ Answer(c, "ok")
    /\ UNCHANGED <<objects, answer>>

\* Publication of a complete content at the destination.
Put(c, content) ==
    /\ request[c].replace \/ objects[request[c].to] = None
    /\ objects' = [objects EXCEPT ![request[c].to] = content]
    /\ Answer(c, "ok")

Write(c) ==
    /\ Pending(c, "write")
    /\ Put(c, request[c].content)
    /\ UNCHANGED answer

\* Whether deleting an absent object is an error is the provider's choice.
Delete(c) ==
    /\ Pending(c, "delete")
    /\ objects' = [objects EXCEPT ![request[c].path] = None]
    /\ Answer(c, "ok")
    /\ UNCHANGED answer

\* A copy in one step, or its two halves.
Copy(c) ==
    /\ Pending(c, "copy")
    /\ objects[request[c].path] # None
    /\ Put(c, objects[request[c].path])
    /\ UNCHANGED answer

CopyLoad(c) ==
    /\ Pending(c, "copy")
    /\ objects[request[c].path] # None
    /\ answer' = [answer EXCEPT ![c] = objects[request[c].path]]
    /\ outcome' = [outcome EXCEPT ![c] = "loaded"]
    /\ UNCHANGED <<objects, request>>

CopyStore(c) ==
    /\ outcome[c] = "loaded"
    /\ Put(c, answer[c])
    /\ UNCHANGED answer

\* Moving a path onto itself leaves the object where it is.
Move(c) ==
    /\ Pending(c, "move")
    /\ objects[request[c].path] # None
    /\ request[c].replace \/ objects[request[c].to] = None
    /\ objects' = [objects EXCEPT ![request[c].path] = None,
                                  ![request[c].to] = objects[request[c].path]]
    /\ Answer(c, "ok")
    /\ UNCHANGED answer

\* An error: the call may have taken effect or not.
Fail(c) ==
    /\ outcome[c] \in {"pending", "loaded", "ok"}
    /\ Answer(c, "error")
    /\ UNCHANGED <<objects, answer>>

Next ==
    \E c \in Clients :
        \/ Invoke(c)
        \/ NotFound(c) \/ Exists(c) \/ Fail(c)
        \/ Read(c) \/ Stat(c) \/ List(c) \/ Write(c) \/ Delete(c) \/ Move(c)
        \/ Copy(c) \/ CopyLoad(c) \/ CopyStore(c)

Spec == Init /\ [][Next]_vars
=============================================================================
