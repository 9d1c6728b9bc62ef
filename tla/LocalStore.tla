------------------------------- MODULE LocalStore -------------------------------
(***************************************************************************)
(* local.Adapter: objects are files below an os.Root.                      *)
(*                                                                         *)
(* The directory is the shared state: `entry` maps object paths to files   *)
(* (inodes) and `temps` is the set of files that have a temporary name.  A *)
(* Write fills a file under a temporary name and gives it the object's     *)
(* name by Rename, or by Link when IfNoneMatch is set.  Every system call  *)
(* is one step and steps of the clients, which may be goroutines or other  *)
(* processes, interleave.                                                  *)
(*                                                                         *)
(* Any system call may fail for a reason of its own (a full disk, a        *)
(* missing parent, a denied symbolic link, a cancelled context): Fault.  A *)
(* client may die between two steps.  The machine may lose power: file     *)
(* data that was not synced and directory changes that were not flushed    *)
(* are then gone.                                                          *)
(***************************************************************************)

CONSTANTS
    Clients,    \* callers of Write, Copy, Move, Delete, Open
    Paths,      \* object paths
    Contents,   \* object contents
    None,       \* no file, no content, no call
    Files,      \* bound: inodes alive at one time
    Workloads   \* bound: operations and failures that occur together; the failures
                \* are those of a step, of the last Remove, of a process, of power

VARIABLES
    entry,      \* the file at each object path
    temps,      \* files that have a temporary name
    data,       \* what each file holds, and whether all of it is there and synced
    durable,    \* the directory as it would be found after a power loss
    pc,         \* control state of each client's call
    request,    \* the call
    file,       \* the temporary file of a Write
    stream,     \* the file a client has open for reading
    outcome,    \* the answer of the call: ErrNotFound is "notfound" when the object asked
                \* for is missing and "gone" when something else is
    answer,     \* what Open has given the client to read
    stray,      \* temporary names that a failed Remove or a crash left behind
    workload    \* what this execution calls and suffers

vars == <<entry, temps, data, durable, pc, request, file, stream, outcome, answer, stray,
          workload>>

Operations == {"read", "stat", "write", "delete", "copy", "move"}

Requests ==
    [op : Operations, path : Paths, to : Paths, content : Contents \cup {None},
     replace : BOOLEAN]

\* Fields an operation does not use have a fixed value.
Calls ==
    {r \in Requests :
        /\ r.op \notin {"copy", "move"} => r.to = r.path
        /\ (r.content # None) <=> (r.op = "write")
        /\ r.op \notin {"write", "copy", "move"} => r.replace}

ASSUME LocalAssumption ==
    /\ None \notin Contents \cup Files \cup Requests
    /\ Workloads \subseteq [operations : SUBSET Operations,
                             failures : SUBSET {"fault", "remove", "crash", "power"}]

Data == [content : Contents \cup {None}, full : BOOLEAN, synced : BOOLEAN]

Empty == [content |-> None, full |-> FALSE, synced |-> FALSE]

Directory == [entry : [Paths -> Files \cup {None}], temps : SUBSET Files]

TypeOK ==
    /\ entry \in [Paths -> Files \cup {None}]
    /\ temps \in SUBSET Files
    /\ data \in [Files -> Data]
    /\ durable \in Directory
    /\ pc \in [Clients -> {"idle", "open", "stat", "remove", "check", "rename",
                           "precheck", "create", "fill", "sync", "publish",
                           "unlink", "confirm", "cleanup"}]
    /\ request \in [Clients -> Requests \cup {None}]
    /\ file \in [Clients -> Files \cup {None}]
    /\ stream \in [Clients -> Files \cup {None}]
    /\ outcome \in [Clients -> {"idle", "pending", "loaded", "ok", "notfound", "gone",
                                "exists", "error"}]
    /\ answer \in [Clients -> Contents \cup {None}]
    /\ stray \in SUBSET Files
    /\ workload \in Workloads
    /\ \A c \in Clients :
          /\ request[c] = None <=> pc[c] = "idle"
          /\ file[c] # None <=> (pc[c] \in {"fill", "sync", "publish", "unlink",
                                           "confirm", "cleanup"})

Init ==
    /\ entry = [p \in Paths |-> None]
    /\ temps = {}
    /\ data = [f \in Files |-> Empty]
    /\ durable = [entry |-> entry, temps |-> temps]
    /\ pc = [c \in Clients |-> "idle"]
    /\ request = [c \in Clients |-> None]
    /\ file = [c \in Clients |-> None]
    /\ stream = [c \in Clients |-> None]
    /\ outcome = [c \in Clients |-> "idle"]
    /\ answer = [c \in Clients |-> None]
    /\ stray = {}
    /\ workload \in Workloads

-----------------------------------------------------------------------------
directoryVars == <<entry, temps>>
diskVars == <<entry, temps, data, durable>>
callVars == <<request, file, stream, outcome, answer>>

Goto(c, state) == pc' = [pc EXCEPT ![c] = state]

Answer(c, o) == outcome' = [outcome EXCEPT ![c] = o]

\* Return gives up the call's temporary file and the stream a Copy reads.
Return(c) ==
    /\ Goto(c, "idle")
    /\ request' = [request EXCEPT ![c] = None]
    /\ file' = [file EXCEPT ![c] = None]
    /\ stream' = IF request[c].op = "copy" THEN [stream EXCEPT ![c] = None] ELSE stream

\* Inodes with no name and no open handle, here or on disk.
Free ==
    {f \in Files \ (temps \cup durable.temps) :
        /\ \A p \in Paths : entry[p] # f /\ durable.entry[p] # f
        /\ \A c \in Clients : file[c] # f /\ stream[c] # f}

First(op) ==
    CASE op = "read" -> "open"
      [] op = "stat" -> "stat"
      [] op = "delete" -> "remove"
      [] op = "write" -> "precheck"
      [] OTHER -> "check"

Invoke(c) ==
    /\ pc[c] = "idle"
    /\ stream[c] = None
    /\ \E r \in Calls :
          /\ r.op \in workload.operations
          /\ request' = [request EXCEPT ![c] = r]
          /\ Goto(c, First(r.op))
    /\ Answer(c, "pending")
    /\ answer' = [answer EXCEPT ![c] = None]
    /\ UNCHANGED <<diskVars, file, stream, stray>>

-----------------------------------------------------------------------------
(* Open, Stat, Delete.                                                     *)

\* root.Open of the object, for a reader or for the source of a Copy.
Open(c) ==
    /\ pc[c] = "open"
    /\ LET f == entry[request[c].path] IN
       IF f = None
       THEN Answer(c, "notfound") /\ Return(c) /\ UNCHANGED answer
       ELSE /\ stream' = [stream EXCEPT ![c] = f]
            /\ answer' = [answer EXCEPT ![c] = data[f].content]
            /\ IF request[c].op = "copy"
               THEN Goto(c, "precheck") /\ Answer(c, "loaded") /\ UNCHANGED <<request, file>>
               ELSE /\ Goto(c, "idle") /\ Answer(c, "ok")
                    /\ request' = [request EXCEPT ![c] = None]
                    /\ UNCHANGED file
    /\ UNCHANGED <<diskVars, stray>>

\* The caller is done with the stream.
CloseStream(c) ==
    /\ pc[c] = "idle"
    /\ stream[c] # None
    /\ stream' = [stream EXCEPT ![c] = None]
    /\ UNCHANGED <<diskVars, pc, request, file, outcome, answer, stray>>

Stat(c) ==
    /\ pc[c] = "stat"
    /\ Answer(c, IF entry[request[c].path] = None THEN "notfound" ELSE "ok")
    /\ Return(c)
    /\ UNCHANGED <<diskVars, answer, stray>>

DeleteTruncates(c) ==
    /\ pc[c] = "remove"
    /\ entry[request[c].path] # None
    /\ data' = [data EXCEPT ![entry[request[c].path]] = Empty]
    /\ entry' = [entry EXCEPT ![request[c].path] = None]
    /\ Answer(c, "ok")
    /\ Return(c)
    /\ UNCHANGED <<temps, durable, answer, stray>>

Delete(c) ==
    /\ pc[c] = "remove"
    /\ Answer(c, IF entry[request[c].path] = None THEN "notfound" ELSE "ok")
    /\ entry' = [entry EXCEPT ![request[c].path] = None]
    /\ Return(c)
    /\ UNCHANGED <<temps, data, durable, answer, stray>>

-----------------------------------------------------------------------------
(* Write, and Copy as a Write of the stream it has opened.                 *)

\* The Stat of the destination that Copy and Move make when they may not
\* replace it.
Check(c) ==
    /\ pc[c] = "check"
    /\ IF ~request[c].replace /\ entry[request[c].to] # None
       THEN Answer(c, "exists") /\ Return(c)
       ELSE /\ Goto(c, IF request[c].op = "copy" THEN "open" ELSE "rename")
            /\ UNCHANGED <<request, file, stream, outcome>>
    /\ UNCHANGED <<diskVars, answer, stray>>

\* The Stat that a create-only Write makes, also the Write inside a Copy.
Precheck(c) ==
    /\ pc[c] = "precheck"
    /\ IF ~request[c].replace /\ entry[request[c].to] # None
       THEN Answer(c, "exists") /\ Return(c)
       ELSE Goto(c, "create") /\ UNCHANGED <<request, file, stream, outcome>>
    /\ UNCHANGED <<diskVars, answer, stray>>

\* MkdirAll of the parent, temporaryName and the exclusive OpenFile.
Create(c) ==
    /\ pc[c] = "create"
    /\ \E f \in Free :
          /\ temps' = temps \cup {f}
          /\ data' = [data EXCEPT ![f] = Empty]
          /\ file' = [file EXCEPT ![c] = f]
    /\ Goto(c, "fill")
    /\ UNCHANGED <<entry, durable, request, stream, outcome, answer, stray>>

Source(c) == IF request[c].op = "copy" THEN data[stream[c]].content ELSE request[c].content

\* io.Copy: first a part of the content, then the rest of it.
Fill(c) ==
    /\ pc[c] = "fill"
    /\ LET begun == data[file[c]].content = Source(c) IN
       /\ data' = [data EXCEPT ![file[c]] =
                       [content |-> Source(c), full |-> begun, synced |-> FALSE]]
       /\ IF begun THEN Goto(c, "sync") ELSE UNCHANGED pc
    /\ UNCHANGED <<directoryVars, durable, callVars, stray>>

SyncSkipped(c) ==
    /\ pc[c] = "sync"
    /\ Goto(c, "publish")
    /\ UNCHANGED <<diskVars, callVars, stray>>

\* Sync and Close of the temporary file.
Sync(c) ==
    /\ pc[c] = "sync"
    /\ data' = [data EXCEPT ![file[c]].synced = TRUE]
    /\ Goto(c, "publish")
    /\ UNCHANGED <<directoryVars, durable, callVars, stray>>

\* Rename replaces whatever has the destination's name.
PublishRename(c) ==
    /\ pc[c] = "publish"
    /\ request[c].replace
    /\ entry' = [entry EXCEPT ![request[c].to] = file[c]]
    /\ temps' = temps \ {file[c]}
    /\ Answer(c, "ok")
    /\ Goto(c, "confirm")
    /\ UNCHANGED <<data, durable, request, file, stream, answer, stray>>

PublishLinkReplacing(c) ==
    /\ pc[c] = "publish"
    /\ ~request[c].replace
    /\ entry' = [entry EXCEPT ![request[c].to] = file[c]]
    /\ Answer(c, "ok")
    /\ Goto(c, "unlink")
    /\ UNCHANGED <<temps, data, durable, request, file, stream, answer, stray>>

\* Link fails on an existing name, whatever the earlier Stat said.
PublishLink(c) ==
    /\ pc[c] = "publish"
    /\ ~request[c].replace
    /\ IF entry[request[c].to] = None
       THEN /\ entry' = [entry EXCEPT ![request[c].to] = file[c]]
            /\ Answer(c, "ok")
            /\ Goto(c, "unlink")
       ELSE Answer(c, "exists") /\ Goto(c, "cleanup") /\ UNCHANGED entry
    /\ UNCHANGED <<temps, data, durable, request, file, stream, answer, stray>>

\* Removal of the temporary name after Link.  If it fails the Write fails,
\* although the object is published, and cleanup tries once more.
Unlink(c) ==
    /\ pc[c] = "unlink"
    /\ \/ temps' = temps \ {file[c]} /\ Goto(c, "confirm") /\ UNCHANGED outcome
       \/ "fault" \in workload.failures /\ UNCHANGED temps /\ Goto(c, "cleanup") /\ Answer(c, "error")
    /\ UNCHANGED <<entry, data, durable, request, file, stream, answer, stray>>

\* The Stat that ends a Write.  It fails on a cancelled context, and with
\* ErrNotFound when the object it has published has been deleted or moved away
\* in the meantime.
Confirm(c) ==
    /\ pc[c] = "confirm"
    /\ \/ entry[request[c].to] # None /\ UNCHANGED outcome
       \/ entry[request[c].to] = None /\ Answer(c, "gone")
       \/ "fault" \in workload.failures /\ Answer(c, "error")
    /\ Return(c)
    /\ UNCHANGED <<diskVars, answer, stray>>

CleanupForgotten(c) ==
    /\ pc[c] = "cleanup"
    /\ Return(c)
    /\ UNCHANGED <<diskVars, outcome, answer, stray>>

\* The deferred Remove of the temporary name; its error is ignored.
Cleanup(c) ==
    /\ pc[c] = "cleanup"
    /\ \/ temps' = temps \ {file[c]} /\ UNCHANGED stray
       \/ "remove" \in workload.failures /\ stray' = stray \cup {file[c]} /\ UNCHANGED temps
    /\ Return(c)
    /\ UNCHANGED <<entry, data, durable, outcome, answer>>

-----------------------------------------------------------------------------
(* Move.                                                                   *)

Renamed(from, to) ==
    IF from = to THEN UNCHANGED entry
    ELSE entry' = [entry EXCEPT ![from] = None, ![to] = entry[from]]

\* Rename, the Move with Overwrite.
Rename(c) ==
    /\ pc[c] = "rename"
    /\ request[c].replace
    /\ IF entry[request[c].path] = None
       THEN Answer(c, "notfound") /\ UNCHANGED entry
       ELSE Answer(c, "ok") /\ Renamed(request[c].path, request[c].to)
    /\ Return(c)
    /\ UNCHANGED <<temps, data, durable, answer, stray>>

\* The exclusive rename fails on an existing destination, whatever the earlier
\* Stat said.
RenameNoReplace(c) ==
    /\ pc[c] = "rename"
    /\ ~request[c].replace
    /\ CASE entry[request[c].path] = None ->
              Answer(c, "notfound") /\ UNCHANGED entry
         [] entry[request[c].path] # None /\ entry[request[c].to] # None ->
              Answer(c, "exists") /\ UNCHANGED entry
         [] OTHER ->
              Answer(c, "ok") /\ Renamed(request[c].path, request[c].to)
    /\ Return(c)
    /\ UNCHANGED <<temps, data, durable, answer, stray>>

-----------------------------------------------------------------------------
(* Failures.                                                               *)

\* A step fails before anything is published.  Move's rename answers ErrNotFound
\* also when the directory of its destination is gone, which MkdirAll had made.
Fault(c) ==
    /\ "fault" \in workload.failures
    /\ pc[c] \in {"open", "stat", "remove", "check", "rename", "precheck", "create",
                  "fill", "sync", "publish"}
    /\ \/ Answer(c, "error")
       \/ pc[c] = "rename" /\ Answer(c, "gone")
    /\ IF file[c] = None THEN Return(c)
       ELSE Goto(c, "cleanup") /\ UNCHANGED <<request, file, stream>>
    /\ UNCHANGED <<diskVars, answer, stray>>

\* The process of a client dies in a call.
Crash(c) ==
    /\ "crash" \in workload.failures
    /\ pc[c] # "idle"
    /\ Goto(c, "idle")
    /\ outcome' = [outcome EXCEPT ![c] = IF @ \in {"pending", "loaded", "ok"}
                                         THEN "error" ELSE @]
    /\ request' = [request EXCEPT ![c] = None]
    /\ file' = [file EXCEPT ![c] = None]
    /\ stream' = [stream EXCEPT ![c] = None]
    /\ stray' = IF file[c] \in temps THEN stray \cup {file[c]} ELSE stray
    /\ UNCHANGED <<diskVars, answer>>

\* The kernel writes the directory back; the adapter never asks it to.
FlushDirectory ==
    /\ "power" \in workload.failures
    /\ durable' = [entry |-> entry, temps |-> temps]
    /\ UNCHANGED <<entry, temps, data, pc, callVars, stray>>

LosePower ==
    /\ "power" \in workload.failures
    /\ entry' = durable.entry
    /\ temps' = durable.temps
    /\ data' = [f \in Files |-> IF data[f].synced THEN data[f]
                                ELSE [data[f] EXCEPT !.full = FALSE]]
    /\ pc' = [c \in Clients |-> "idle"]
    /\ request' = [c \in Clients |-> None]
    /\ file' = [c \in Clients |-> None]
    /\ stream' = [c \in Clients |-> None]
    /\ outcome' = [c \in Clients |-> "error"]
    /\ stray' = durable.temps
    /\ UNCHANGED <<durable, answer>>

-----------------------------------------------------------------------------
Step(c) ==
    \/ Open(c) \/ Stat(c) \/ Delete(c)
    \/ Check(c) \/ Precheck(c) \/ Create(c) \/ Fill(c) \/ Sync(c)
    \/ PublishRename(c) \/ PublishLink(c) \/ Unlink(c) \/ Confirm(c) \/ Cleanup(c)
    \/ Rename(c) \/ RenameNoReplace(c)

Next ==
    /\ \/ \E c \in Clients : Invoke(c) \/ CloseStream(c) \/ Step(c) \/ Fault(c) \/ Crash(c)
       \/ FlushDirectory \/ LosePower
    /\ UNCHANGED workload

Spec == Init /\ [][Next]_vars

-----------------------------------------------------------------------------
(* Properties.                                                             *)

InEffect(c) == outcome[c] \in {"pending", "loaded"}

\* An ErrNotFound about something else than the object of the call tells no more
\* than any other error.
Contract == INSTANCE ObjectStore WITH
    objects <- [p \in Paths |-> IF entry[p] = None THEN None ELSE data[entry[p]].content],
    request <- [c \in Clients |-> IF InEffect(c) THEN request[c] ELSE None],
    outcome <- [c \in Clients |-> IF outcome[c] = "gone" THEN "error" ELSE outcome[c]]

\* The adapter keeps the contract: a create-only Write never replaces, a Move
\* without Overwrite never destroys its destination, and every object that
\* appears is what one call asked for, however the steps interleave.  Only a
\* power loss may do what no call asked for.  Two answers of ErrNotFound are
\* excepted, as they do not prove that the call's object was missing: that of
\* the Stat after a publication, and that of a Move into a directory that has
\* been removed.
Linearizable == Contract!Init /\ [][Contract!Next \/ LosePower]_(Contract!vars)

\* An object is never seen half written: whatever has an object's name holds
\* one writer's whole content, after a power loss too.
CompleteObjects ==
    \A p \in Paths : entry[p] # None => data[entry[p]].full

\* A stream goes on reading the object it was opened on, whatever is renamed
\* over it, linked or deleted meanwhile.
StableStreams ==
    \A c \in Clients : stream[c] # None =>
        data[stream[c]].full /\ data[stream[c]].content = answer[c]

\* Every temporary name belongs to a Write still running, unless a crash or a
\* failed Remove left it behind.
TempsOwned ==
    \A f \in temps : f \in stray \/ \E c \in Clients : file[c] = f /\ pc[c] # "idle"

\* Link and Rename leave one name per file: only between Link and the removal
\* of the temporary name has a file two.
OneNamePerFile ==
    /\ \A p, q \in Paths : p # q /\ entry[p] # None => entry[p] # entry[q]
    /\ \A p \in Paths : entry[p] \in temps =>
          \/ entry[p] \in stray
          \/ \E c \in Clients : file[c] = entry[p] /\ pc[c] \in {"unlink", "cleanup"}

\* The directory accounts for every name: temporary names have owners, files
\* have one name, and both after every failure of Write, Copy and Move.
DirectoryInvariant == TypeOK /\ TempsOwned /\ OneNamePerFile
=============================================================================
