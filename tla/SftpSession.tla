------------------------------ MODULE SftpSession ------------------------------
(***************************************************************************)
(* sftp.Adapter: one session shared by every call.  There is no operation  *)
(* lock: only the session and the closed flag are guarded by a mutex, so a *)
(* session may be replaced or closed while other calls work on it.         *)
(*                                                                         *)
(* Each client is a goroutine that makes one call after another.  A stream *)
(* that Open returns also has a watcher goroutine, which closes it when    *)
(* its context ends.  A protocol call answers, is refused, or finds its    *)
(* connection gone: then its effect may have happened or not.              *)
(*                                                                         *)
(* The server keeps POSIX semantics: an open file stays what it was when   *)
(* its name is renamed over or removed, and closing a session closes its   *)
(* files.                                                                  *)
(***************************************************************************)
EXTENDS Naturals

CONSTANTS
    Clients,    \* goroutines using the adapter
    Paths,      \* object paths
    Contents,   \* object contents
    None,       \* no object, no session, no call
    Sessions,   \* bound: sessions referred to at one time
    Workloads   \* bound: operations, paths and failures that occur together; the
                \* failures are lost connections and refusals to remove a file

VARIABLES
    session,      \* Adapter.session
    closed,       \* Adapter.closed
    atomicRename, \* Adapter.atomicRename: the first server had the extension
    link,         \* each session: "none", "up", "down" (lost) or "closed"
    objects,      \* the objects on the server
    call,         \* control state of each client's call
    temp,         \* the temporary file of its Write
    stray,        \* a temporary file is on the server and its Write has ended
    stream,       \* the stream it has opened
    request,      \* the call
    outcome,      \* its answer: ErrNotFound is "notfound" when the object asked for is
                  \* missing and "gone" when something else is
    answer,       \* the content its Open has found
    workload      \* what this execution calls

vars == <<session, closed, atomicRename, link, objects, call, temp, stray, stream,
          request, outcome, answer, workload>>
sessionVars == <<session, closed, link>>
callVars == <<request, outcome, answer>>

Operations == {"read", "stat", "write", "delete", "copy", "move"}

Requests ==
    [op : Operations, path : Paths, to : Paths, content : Contents \cup {None}]

\* Fields an operation does not use have a fixed value.
Calls ==
    {r \in Requests :
        /\ r.op \notin {"copy", "move"} => r.to = r.path
        /\ (r.content # None) <=> (r.op = "write")}

ASSUME SftpAssumption ==
    /\ None \notin Contents \cup Sessions \cup Requests
    /\ Workloads \subseteq [operations : SUBSET Operations, paths : SUBSET Paths,
                            failures : SUBSET {"drop", "refuse"}]

\* goal is where the call goes with the session it is about to get; attempt 2
\* follows a reconnect; ctx is the context of the call and of its stream.
Call ==
    [pc : {"idle", "session", "stat", "open", "stream", "check", "fill",
           "finish", "publish", "cleanup", "unlink", "confirm", "remove", "move",
           "lost", "closing", "waiting"},
     goal : {None, "stat", "open", "check", "confirm", "remove", "move"},
     using : Sessions \cup {None},
     attempt : 1..2,
     ctx : {"live", "cancelled"}]

\* A temporary file: its content, None until all of it is there; its handle.
Temp == [content : Contents \cup {None}, open : BOOLEAN]

\* A stream: the session of its file; closeOnce, and which goroutine is in it;
\* the watcher.
Stream ==
    [on : Sessions,
     once : {"new", "caller", "watcher", "done"},
     watcher : {"watch", "closing", "ended"}]

NoCall == [pc |-> "idle", goal |-> None, using |-> None, attempt |-> 1, ctx |-> "live"]

TypeOK ==
    /\ session \in Sessions \cup {None}
    /\ closed \in BOOLEAN /\ atomicRename \in BOOLEAN
    /\ link \in [Sessions -> {"none", "up", "down", "closed"}]
    /\ objects \in [Paths -> Contents \cup {None}]
    /\ call \in [Clients -> Call]
    /\ temp \in [Clients -> Temp \cup {None}]
    /\ stray \in BOOLEAN
    /\ stream \in [Clients -> Stream \cup {None}]
    /\ request \in [Clients -> Requests \cup {None}]
    /\ outcome \in [Clients -> {"idle", "pending", "loaded", "ok", "notfound", "gone",
                                "error"}]
    /\ answer \in [Clients -> Contents \cup {None}]
    /\ workload \in Workloads

pc(c) == call[c].pc

\* newAdapter has dialled the first session and asked it for the extension.
Init ==
    /\ session \in Sessions
    /\ closed = FALSE
    /\ atomicRename \in BOOLEAN
    /\ link = [s \in Sessions |-> IF s = session THEN "up" ELSE "none"]
    /\ objects = [p \in Paths |-> None]
    /\ call = [c \in Clients |-> NoCall]
    /\ temp = [c \in Clients |-> None]
    /\ stray = FALSE
    /\ stream = [c \in Clients |-> None]
    /\ request = [c \in Clients |-> None]
    /\ outcome = [c \in Clients |-> "idle"]
    /\ answer = [c \in Clients |-> None]
    /\ workload \in Workloads

-----------------------------------------------------------------------------
Up(c) == link[call[c].using] = "up"

\* What isConnectionError accepts: the connection is lost, or the session was
\* closed by another call.
ConnectionError(c) == link[call[c].using] \in {"down", "closed"}

Cancelled(c) == call[c].ctx = "cancelled"

Goto(c, state) == call' = [call EXCEPT ![c].pc = state]

Answer(c, o) == outcome' = [outcome EXCEPT ![c] = o]

\* A finished call is forgotten.  A Copy first closes its stream.
Return(c) ==
    IF stream[c] = None
    THEN /\ call' = [call EXCEPT ![c] = NoCall]
         /\ request' = [request EXCEPT ![c] = None]
    ELSE /\ call' = [call EXCEPT ![c].pc = "closing", ![c].using = None]
         /\ UNCHANGED request

Fail(c) == Answer(c, "error") /\ Return(c)

\* Some goroutine can still use s: a new session is never one of these.
Referenced(s) ==
    \/ session = s
    \/ \E c \in Clients : call[c].using = s \/ (stream[c] # None /\ stream[c].on = s)

-----------------------------------------------------------------------------
(* The session.                                                            *)

\* currentSession returns the session there is, or dials s.  The mutex is held
\* during the dial; the connection may be lost (Drop) at once.
currentSession(c, s) ==
    /\ ~Cancelled(c)
    /\ ~closed
    /\ \/ session = s /\ UNCHANGED <<session, link>>
       \/ /\ session = None
          /\ ~Referenced(s)
          /\ session' = s
          /\ link' = [link EXCEPT ![s] = "up"]

invalidateAny(failed) ==
    IF session # None
    THEN /\ link' = [link EXCEPT ![session] = "closed"]
         /\ session' = None
    ELSE UNCHANGED <<session, link>>

\* invalidate: only the session that failed is closed and forgotten.
invalidate(failed) ==
    IF session = failed
    THEN /\ link' = [link EXCEPT ![failed] = "closed"]
         /\ session' = None
    ELSE UNCHANGED <<session, link>>

Session(c) ==
    /\ pc(c) = "session"
    /\ \/ \E s \in Sessions :
             /\ currentSession(c, s)
             /\ call' = [call EXCEPT ![c].pc = call[c].goal, ![c].goal = None, ![c].using = s]
             /\ UNCHANGED callVars
       \/ /\ Cancelled(c) \/ closed \/ session = None
          /\ Fail(c)
          /\ UNCHANGED <<session, link, answer>>
    /\ UNCHANGED <<closed, atomicRename, objects, temp, stray, stream>>

\* The network or the server drops the current connection.
Drop(s) ==
    /\ "drop" \in workload.failures
    /\ s = session
    /\ link[s] = "up"
    /\ link' = [link EXCEPT ![s] = "down"]
    /\ UNCHANGED <<session, closed, atomicRename, objects, call, temp, stray, stream, callVars>>

-----------------------------------------------------------------------------
(* Calls.                                                                  *)

Goal(op) ==
    CASE op = "stat" -> "stat"
      [] op \in {"read", "copy"} -> "open"
      [] op = "write" -> "check"
      [] op = "delete" -> "remove"
      [] op = "move" -> "move"

\* Without the extension Move is refused before anything is sent.
Invoke(c) ==
    /\ pc(c) = "idle"
    /\ stream[c] = None
    /\ \E r \in Calls :
          /\ r.op \in workload.operations
          /\ {r.path, r.to} \subseteq workload.paths
          /\ r.op = "move" => atomicRename
          /\ request' = [request EXCEPT ![c] = r]
          /\ call' = [call EXCEPT ![c].pc = "session", ![c].goal = Goal(r.op)]
    /\ Answer(c, "pending")
    /\ answer' = [answer EXCEPT ![c] = None]
    /\ UNCHANGED <<sessionVars, atomicRename, objects, temp, stray, stream>>

Cancel(c) ==
    /\ pc(c) # "idle"
    /\ ~Cancelled(c)
    /\ call' = [call EXCEPT ![c].ctx = "cancelled"]
    /\ UNCHANGED <<sessionVars, atomicRename, objects, temp, stray, stream, callVars>>

\* A reading call that has lost its connection starts again, once, with
\* another session (withSession).
Reconnect(c) ==
    /\ pc(c) \in {"stat", "open", "confirm"}
    /\ ConnectionError(c)
    /\ call[c].attempt = 1
    /\ invalidate(call[c].using)
    /\ call' = [call EXCEPT ![c].pc = "session", ![c].goal = pc(c), ![c].attempt = 2,
                            ![c].using = None]
    /\ UNCHANGED <<closed, atomicRename, objects, temp, stray, stream, callVars>>

\* Any other error of a call that has changed nothing yet: refused by the
\* server, a symbolic link, a second lost connection, a lost connection of a
\* call that is never repeated.  The server's "no such file" is ErrNotFound of the
\* path also when it is about the directory of a Write or of a Move's destination.
Refuse(c) ==
    /\ \/ pc(c) \in {"check", "remove", "move"} /\ Fail(c)
       \/ pc(c) \in {"check", "move"} /\ Up(c) /\ Answer(c, "gone") /\ Return(c)
       \/ pc(c) \in {"stat", "open", "confirm"} /\ (Up(c) \/ call[c].attempt = 2) /\ Fail(c)
    /\ UNCHANGED <<sessionVars, atomicRename, objects, temp, stray, stream, answer>>

Stat(c) ==
    /\ pc(c) = "stat"
    /\ Up(c)
    /\ Answer(c, IF objects[request[c].path] = None THEN "notfound" ELSE "ok")
    /\ Return(c)
    /\ UNCHANGED <<sessionVars, atomicRename, objects, temp, stray, stream, answer>>

\* Open, and the Open in Copy, whose Write then asks for a session of its own.
Open(c) ==
    /\ pc(c) = "open"
    /\ Up(c)
    /\ IF objects[request[c].path] = None
       THEN Answer(c, "notfound") /\ Return(c) /\ UNCHANGED <<stream, answer>>
       ELSE /\ stream' = [stream EXCEPT ![c] = [on |-> call[c].using, once |-> "new",
                                                      watcher |-> "watch"]]
            /\ answer' = [answer EXCEPT ![c] = objects[request[c].path]]
            /\ Answer(c, IF request[c].op = "copy" THEN "loaded" ELSE "ok")
            /\ call' = [call EXCEPT ![c].using = None, ![c].attempt = 1,
                           ![c].pc = IF request[c].op = "copy" THEN "session" ELSE "stream",
                           ![c].goal = IF request[c].op = "copy" THEN "check" ELSE None]
            /\ UNCHANGED request
    /\ UNCHANGED <<sessionVars, atomicRename, objects, temp, stray>>

\* Remove, never repeated: answered, or its reply lost.
Delete(c) ==
    /\ pc(c) = "remove"
    /\ Up(c)
    /\ \/ /\ Answer(c, IF objects[request[c].path] = None THEN "notfound" ELSE "ok")
          /\ Return(c)
          /\ UNCHANGED link
       \/ /\ objects[request[c].path] # None
          /\ "drop" \in workload.failures
          /\ link' = [link EXCEPT ![call[c].using] = "down"]
          /\ Answer(c, "ok")
          /\ Goto(c, "lost")
          /\ UNCHANGED request
    /\ objects' = [objects EXCEPT ![request[c].path] = None]
    /\ UNCHANGED <<session, closed, atomicRename, temp, stray, stream, answer>>

\* PosixRename of an object, never repeated.
Move(c) ==
    /\ pc(c) = "move"
    /\ Up(c)
    /\ LET content == objects[request[c].path] IN
       \/ /\ content = None
          /\ Answer(c, "notfound")
          /\ Return(c)
          /\ UNCHANGED <<objects, link>>
       \/ /\ content # None
          /\ objects' = [objects EXCEPT ![request[c].path] = None, ![request[c].to] = content]
          /\ Answer(c, "ok")
          /\ \/ Return(c) /\ UNCHANGED link
             \/ /\ "drop" \in workload.failures
                /\ link' = [link EXCEPT ![call[c].using] = "down"]
                /\ Goto(c, "lost")
                /\ UNCHANGED request
    /\ UNCHANGED <<session, closed, atomicRename, temp, stray, stream, answer>>

\* The caller learns that the reply was lost.
Lost(c) ==
    /\ pc(c) = "lost"
    /\ Fail(c)
    /\ UNCHANGED <<sessionVars, atomicRename, objects, temp, stray, stream, answer>>

-----------------------------------------------------------------------------
(* Write, and Copy as a Write of the stream it has opened.                 *)

\* rejectSymlinks, Stat, MkdirAll, temporaryPath and the exclusive OpenFile.
Check(c) ==
    /\ pc(c) = "check"
    /\ Up(c)
    /\ atomicRename \/ objects[request[c].to] = None
    /\ temp' = [temp EXCEPT ![c] = [content |-> None, open |-> TRUE]]
    /\ Goto(c, "fill")
    /\ UNCHANGED <<sessionVars, atomicRename, objects, stray, stream, callVars>>

\* What a Copy reads comes from its stream, until that is closed or its session
\* is gone.
Readable(c) ==
    request[c].op = "copy" => stream[c].once = "new" /\ link[stream[c].on] = "up"

\* io.Copy to the end, then a last look at the context.
Fill(c) ==
    /\ pc(c) = "fill"
    /\ Up(c)
    /\ Readable(c)
    /\ ~Cancelled(c)
    /\ temp' = [temp EXCEPT ![c].content =
           IF request[c].op = "copy" THEN answer[c] ELSE request[c].content]
    /\ Goto(c, "finish")
    /\ UNCHANGED <<sessionVars, atomicRename, objects, stray, stream, callVars>>

\* Sync, which the server need not support, and Close.
Finish(c) ==
    /\ pc(c) = "finish"
    /\ Up(c)
    /\ temp' = [temp EXCEPT ![c].open = FALSE]
    /\ Goto(c, "publish")
    /\ UNCHANGED <<sessionVars, atomicRename, objects, stray, stream, callVars>>

PublishReplaces(c) ==
    /\ pc(c) = "publish"
    /\ Up(c)
    /\ objects' = [objects EXCEPT ![request[c].to] = temp[c].content]
    /\ temp' = [temp EXCEPT ![c] = None]
    /\ Answer(c, "ok")
    /\ call' = [call EXCEPT ![c].pc = "session", ![c].goal = "confirm",
                            ![c].using = None, ![c].attempt = 1]
    /\ UNCHANGED <<sessionVars, atomicRename, stray, stream, request, answer>>

\* PosixRename replaces the destination; Rename, used without the extension,
\* fails when there is one.  Stat follows; a lost reply is not repeated.
Publish(c) ==
    /\ pc(c) = "publish"
    /\ Up(c)
    /\ atomicRename \/ objects[request[c].to] = None
    /\ objects' = [objects EXCEPT ![request[c].to] = temp[c].content]
    /\ Answer(c, "ok")
    /\ \/ /\ temp' = [temp EXCEPT ![c] = None]
          /\ call' = [call EXCEPT ![c].pc = "session", ![c].goal = "confirm",
                                  ![c].using = None, ![c].attempt = 1]
          /\ UNCHANGED link
       \/ /\ "drop" \in workload.failures
          /\ link' = [link EXCEPT ![call[c].using] = "down"]
          /\ Goto(c, "unlink")
          /\ UNCHANGED temp
    /\ UNCHANGED <<session, closed, atomicRename, stray, stream, request, answer>>

UploadForgotten(c) ==
    /\ \/ pc(c) \in {"fill", "finish"} /\ Goto(c, "cleanup") /\ Answer(c, "error")
                                       /\ UNCHANGED request
       \/ pc(c) \in {"finish", "publish"} /\ Fail(c)
    /\ UNCHANGED <<sessionVars, atomicRename, objects, temp, stray, stream, answer>>

\* A step fails, and its error will be the answer: the cleanup closes an open
\* file and removes it, a failed Close or rename is followed by Remove alone.
\* The rename's "no such file", of a directory that is gone, is ErrNotFound.
UploadFails(c) ==
    /\ \/ pc(c) \in {"fill", "finish"} /\ Goto(c, "cleanup") /\ Answer(c, "error")
       \/ pc(c) \in {"finish", "publish"} /\ Goto(c, "unlink") /\ Answer(c, "error")
       \/ pc(c) = "publish" /\ Up(c) /\ Goto(c, "unlink") /\ Answer(c, "gone")
    /\ UNCHANGED <<sessionVars, atomicRename, objects, temp, stray, stream, request, answer>>

Cleanup(c) ==
    /\ pc(c) = "cleanup"
    /\ temp' = [temp EXCEPT ![c].open = FALSE]
    /\ Goto(c, "unlink")
    /\ UNCHANGED <<sessionVars, atomicRename, objects, stray, stream, callVars>>

\* Remove of the temporary name; whatever comes of it the Write has failed, also
\* when its file has the object's name and only the reply was lost.  The error of
\* Remove is ignored: on a session that is gone, or if the server refuses, the
\* file stays where it is.
Unlink(c) ==
    /\ pc(c) = "unlink"
    /\ temp' = [temp EXCEPT ![c] = None]
    /\ \/ (Up(c) \/ outcome[c] = "ok") /\ UNCHANGED stray
       \/ /\ outcome[c] # "ok"
          /\ ~Up(c) \/ "refuse" \in workload.failures
          /\ stray' = TRUE
    /\ outcome' = [outcome EXCEPT ![c] = IF @ = "ok" THEN "error" ELSE @]
    /\ Return(c)
    /\ UNCHANGED <<sessionVars, atomicRename, objects, stream, answer>>

\* The Stat after publication: ErrNotFound if the object was deleted meanwhile.
Confirm(c) ==
    /\ pc(c) = "confirm"
    /\ Up(c)
    /\ IF objects[request[c].to] = None THEN Answer(c, "gone") ELSE UNCHANGED outcome
    /\ Return(c)
    /\ UNCHANGED <<sessionVars, atomicRename, objects, temp, stray, stream, answer>>

-----------------------------------------------------------------------------
(* Streams: the caller's Close and the watcher's run the same Once.        *)

\* The caller of Open is done with its stream.
CloseReader(c) ==
    /\ pc(c) = "stream"
    /\ Goto(c, "closing")
    /\ UNCHANGED <<sessionVars, atomicRename, objects, temp, stray, stream, callVars>>

\* Once.Do: the first to come closes done and then the file.
CallerCloses(c) ==
    /\ pc(c) = "closing"
    /\ IF stream[c].once = "new"
       THEN stream' = [stream EXCEPT ![c].once = "caller"]
       ELSE UNCHANGED stream
    /\ Goto(c, "waiting")
    /\ UNCHANGED <<sessionVars, atomicRename, objects, temp, stray, callVars>>

\* A goroutine with nothing left to do is gone; the last one ends the stream.
CallerReturns(c) ==
    /\ pc(c) = "waiting"
    /\ stream[c].once \in {"caller", "done"}
    /\ stream' = [stream EXCEPT ![c] =
           IF stream[c].watcher = "ended" THEN None ELSE [@ EXCEPT !.once = "done"]]
    /\ call' = [call EXCEPT ![c] = NoCall]
    /\ request' = [request EXCEPT ![c] = None]
    /\ UNCHANGED <<sessionVars, atomicRename, objects, temp, stray, outcome, answer>>

DoneClosed(c) == stream[c].once # "new"

WatchDone(c) ==
    /\ stream[c] # None
    /\ stream[c].watcher = "watch"
    /\ DoneClosed(c)
    /\ stream' = [stream EXCEPT ![c] =
           IF pc(c) = "idle" THEN None ELSE [@ EXCEPT !.watcher = "ended"]]
    /\ UNCHANGED <<sessionVars, atomicRename, objects, call, temp, stray, callVars>>

\* The watcher wakes: the context has ended, or the stream was closed.
Watch(c) ==
    /\ stream[c] # None
    /\ stream[c].watcher = "watch"
    /\ \/ /\ Cancelled(c)
          /\ stream' = [stream EXCEPT ![c].watcher = "closing",
                                      ![c].once = IF @ = "new" THEN "watcher" ELSE @]
       \/ /\ DoneClosed(c)
          /\ stream' = [stream EXCEPT ![c] =
                 IF pc(c) = "idle" THEN None ELSE [@ EXCEPT !.watcher = "ended"]]
    /\ UNCHANGED <<sessionVars, atomicRename, objects, call, temp, stray, callVars>>

WatcherEnds(c) ==
    /\ stream[c] # None
    /\ stream[c].watcher = "closing"
    /\ stream[c].once \in {"watcher", "done"}
    /\ stream' = [stream EXCEPT ![c] =
           IF pc(c) = "idle" THEN None ELSE [@ EXCEPT !.once = "done", !.watcher = "ended"]]
    /\ UNCHANGED <<sessionVars, atomicRename, objects, call, temp, stray, callVars>>

-----------------------------------------------------------------------------
\* Adapter.Close does not wait for the calls in progress.
Close ==
    /\ ~closed
    /\ closed' = TRUE
    /\ session' = None
    /\ link' = [s \in Sessions |-> IF s = session THEN "closed" ELSE link[s]]
    /\ UNCHANGED <<atomicRename, objects, call, temp, stray, stream, callVars>>

Step(c) ==
    \/ Session(c) \/ Reconnect(c) \/ Refuse(c) \/ Lost(c)
    \/ Stat(c) \/ Open(c) \/ Delete(c) \/ Move(c)
    \/ Check(c) \/ Fill(c) \/ Finish(c) \/ Publish(c)
    \/ UploadFails(c) \/ Cleanup(c) \/ Unlink(c) \/ Confirm(c)
    \/ CallerCloses(c) \/ CallerReturns(c)

Watcher(c) == Watch(c) \/ WatcherEnds(c)

Next ==
    /\ \/ \E c \in Clients :
             Invoke(c) \/ Cancel(c) \/ CloseReader(c) \/ Step(c) \/ Watcher(c)
       \/ \E s \in Sessions : Drop(s)
       \/ Close
    /\ UNCHANGED workload

Spec == Init /\ [][Next]_vars

\* A protocol call or a dial is answered or loses its connection, and
\* goroutines that are ready run.  Nothing makes a caller close its stream.
Fairness ==
    \A c \in Clients :
        /\ WF_vars(Step(c) /\ UNCHANGED workload)
        /\ WF_vars(Watcher(c) /\ UNCHANGED workload)

FairSpec == Spec /\ Fairness

-----------------------------------------------------------------------------
(* Properties.                                                             *)

InEffect(c) == outcome[c] \in {"pending", "loaded"}

Replaceable(r) ==
    [op |-> r.op, path |-> r.path, to |-> r.to, content |-> r.content,
     replace |-> atomicRename]

\* An ErrNotFound about something else than the object of the call tells no more
\* than any other error.
Contract == INSTANCE ObjectStore WITH
    request <- [c \in Clients |-> IF InEffect(c) THEN Replaceable(request[c]) ELSE None],
    outcome <- [c \in Clients |-> IF outcome[c] = "gone" THEN "error" ELSE outcome[c]]

\* Overlapping calls on one session, lost connections and Adapter.Close keep
\* the contract of contracts.go: every object that appears is what one call
\* asked for, whole, no command is applied twice, and without the POSIX rename
\* extension nothing is ever replaced.  Some answers of ErrNotFound are excepted,
\* as they do not prove that the call's object was missing: that of the Stat after
\* a publication, and those about the directory of a destination.
Linearizable == Contract!Spec

\* Every connection that is open belongs to the adapter's current session: what
\* reconnects replace is closed, and Adapter.Close leaves none behind.
NoSessionLeak ==
    /\ \A s \in Sessions : link[s] \in {"up", "down"} => s = session
    /\ closed => session = None

\* A call whose connection was lost does not close the session that another
\* call has dialled since: only Adapter.Close closes a session that is up.
HealthySessionKept ==
    [][\A s \in Sessions : link[s] = "up" /\ link'[s] = "closed" => closed']_vars

\* No way out of Write forgets its temporary file: after the exclusive create it
\* has renamed it or asked the server to remove it.
UploadsOwned ==
    \A c \in Clients : temp[c] # None =>
        pc(c) \in {"fill", "finish", "publish", "cleanup", "unlink"}

\* While no connection is lost, no Remove refused and the adapter not closed, no
\* temporary file stays behind, though contexts are cancelled and sources, Sync,
\* Close and renames fail.
StraysHaveCause == stray => closed \/ workload.failures # {}

\* What the adapter leaves on the server: only its current session is open, and
\* a temporary file outlives its Write only if the Remove that every failed
\* Write sends could not succeed.
SessionInvariant == TypeOK /\ NoSessionLeak /\ UploadsOwned /\ StraysHaveCause

\* Every call returns: one reconnect at most, and no waiting between the
\* goroutines of a stream.
CallsReturn ==
    \A c \in Clients :
        pc(c) \notin {"idle", "stream"} ~> pc(c) \in {"idle", "stream"}

\* A stream whose context ends is closed though its caller never closes it, and
\* the watcher of a closed stream ends though its context never does.
StreamEnds ==
    \A c \in Clients :
        (stream[c] # None /\ (Cancelled(c) \/ DoneClosed(c)))
            ~> (stream[c] = None \/ stream[c].watcher = "ended")

\* Neither a call nor the goroutine of a stream goes on for ever.
CallsAndStreamsEnd == CallsReturn /\ StreamEnds
=============================================================================
