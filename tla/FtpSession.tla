------------------------------ MODULE FtpSession ------------------------------
(***************************************************************************)
(* ftp.Adapter: operations over one control session, serialized by opMu.   *)
(*                                                                         *)
(* Each client is a goroutine that makes one call after another: a query   *)
(* (Stat, List), a read (Open and its stream), a write, a delete, or       *)
(* Adapter.Close.  A read also has the two goroutines Open starts: the     *)
(* transfer, which owns opMu until it ends, and the watcher, which waits   *)
(* for the stream's context.  The remote server holds one object.          *)
(*                                                                         *)
(* A protocol call answers, is refused, or loses the connection: then its  *)
(* effect may have happened or not.  Abort is a protocol call that         *)
(* abortTransfer makes without opMu, on whatever session is current.       *)
(***************************************************************************)
EXTENDS Naturals

CONSTANTS
    Clients,    \* goroutines using the adapter
    Contents,   \* contents of the remote object
    None,       \* no object, no session, nobody
    Sessions,   \* bound: sessions open at one time
    Length,     \* bound: chunks of a transfer
    Workloads   \* the mixtures of operations, each with its sessions

Operations == {"query", "read", "write", "delete", "close"}

ASSUME FtpAssumption ==
    /\ None \notin Contents \cup Clients \cup Sessions
    /\ Length \in Nat
    /\ Workloads \subseteq [operations : SUBSET Operations, sessions : SUBSET Sessions]

VARIABLES
    opMu,       \* Adapter.opMu: its owner, None when unlocked
    session,    \* Adapter.session
    closed,     \* Adapter.closed
    link,       \* each session's connection: "none", "up" or "down"
    late,       \* sessions whose dial was given up before it ended
    object,     \* the remote object
    call,       \* the call each client makes
    stream,     \* the stream of its latest read
    workload    \* the mixture this behaviour is about

vars == <<opMu, session, closed, link, late, object, call, stream, workload>>
sessionVars == <<session, closed, link, late>>

\* A call: its control state, operation and upload; the session it works on;
\* attempt 2 follows a reconnect; its context, which is the stream's too;
\* whether it has sent a command that changes the server; whether
\* the protocol call it is in was aborted.
Call ==
    [pc : {"idle", "abort", "lock", "session", "query", "check", "store", "rename",
           "discard", "remove", "quit", "stream", "closing", "waiting"},
     op : Operations \cup {None},
     content : Contents \cup {None},
     using : Sessions \cup {None},
     attempt : 1..2,
     ctx : {"live", "cancelled"},
     sent : BOOLEAN,
     aborted : BOOLEAN]

\* A stream: the transfer goroutine, and its number of Retrieves; the
\* chunks the running Retrieve has delivered and those the caller has read;
\* the two sides of the pipe; the watcher goroutine.
Stream ==
    [transfer : {"none", "retrieve", "reconnect", "unlock"},
     tries : 0..2,
     position : 0..Length,
     got : 0..(2 * Length),
     reader : {"open", "closed"},
     end : {"open", "eof", "error"},
     watcher : {"none", "watch", "abort"}]

NoCall ==
    [pc |-> "idle", op |-> None, content |-> None, using |-> None, attempt |-> 1,
     ctx |-> "live", sent |-> FALSE, aborted |-> FALSE]

NoStream ==
    [transfer |-> "none", tries |-> 0, position |-> 0, got |-> 0,
     reader |-> "open", end |-> "open", watcher |-> "none"]

TypeOK ==
    /\ opMu \in Clients \cup {None}
    /\ session \in Sessions \cup {None}
    /\ closed \in BOOLEAN
    /\ link \in [Sessions -> {"none", "up", "down"}]
    /\ late \in SUBSET Sessions
    /\ object \in Contents \cup {None}
    /\ call \in [Clients -> Call]
    /\ stream \in [Clients -> Stream]
    /\ workload \in Workloads

\* newAdapter has dialled the first session; the object may be there already.
Init ==
    /\ opMu = None
    /\ workload \in Workloads
    /\ session \in workload.sessions
    /\ closed = FALSE
    /\ link = [s \in Sessions |-> IF s = session THEN "up" ELSE "none"]
    /\ late = {}
    /\ object \in Contents \cup {None}
    /\ call = [c \in Clients |-> NoCall]
    /\ stream = [c \in Clients |-> NoStream]

-----------------------------------------------------------------------------
pc(c) == call[c].pc

Cancelled(c) == call[c].ctx = "cancelled"

Goto(c, state) == call' = [call EXCEPT ![c].pc = state, ![c].aborted = FALSE]

\* The call ends and opMu is unlocked.
Return(c) ==
    /\ call' = [call EXCEPT ![c] = NoCall]
    /\ opMu' = None

\* A protocol call in progress fails with a connection error (isConnectionError)
\* when its connection is down, and when it was aborted (reply 426).
ConnectionError(c) == link[call[c].using] = "down" \/ call[c].aborted

Up(c) == link[call[c].using] = "up"

\* The reply to a command is lost together with the connection.
ReplyLost(c) == Up(c) /\ link' = [link EXCEPT ![call[c].using] = "down"]

\* invalidate: the failed session is quit and forgotten.
invalidate(failed) ==
    IF session = failed
    THEN session' = None /\ link' = [link EXCEPT ![failed] = "none"]
    ELSE UNCHANGED <<session, link>>

Unused(s) == s \in workload.sessions /\ link[s] = "none"

\* currentSession returns s, dialling it if there is none.
currentSession(c, s) ==
    /\ ~Cancelled(c)
    /\ ~closed
    /\ \/ session = s /\ UNCHANGED <<session, link>>
       \/ /\ session = None
          /\ Unused(s)
          /\ session' = s
          /\ link' = [link EXCEPT ![s] = "up"]
    /\ UNCHANGED <<closed, late>>

\* currentSession fails: cancelled, closed, the dial fails, or it is given up on
\* cancellation and its session arrives late.
noSession(c) ==
    /\ \/ (Cancelled(c) \/ closed \/ session = None) /\ UNCHANGED <<link, late>>
       \/ /\ ~Cancelled(c) /\ ~closed /\ session = None
          /\ \E s \in Sessions :
                /\ Unused(s)
                /\ link' = [link EXCEPT ![s] = "up"]
                /\ late' = late \cup {s}
    /\ UNCHANGED <<session, closed>>

\* The protocol call in progress on the current session, whoever makes it.
InCommand(c) ==
    \/ pc(c) \in {"query", "check", "store", "rename", "discard", "remove"}
    \/ stream[c].transfer = "retrieve"

\* abortTransfer, after which c goes on in the given state.
abortTransfer(c, state) ==
    call' = [d \in Clients |->
        [call[d] EXCEPT !.pc = IF d = c THEN state ELSE @,
                        !.aborted = @ \/ (/\ InCommand(d) /\ session # None
                                         /\ call[d].using = session)]]

-----------------------------------------------------------------------------
(* A call, up to the session it works on.                                  *)

\* One client's goroutines belong to one call at a time.
Invoke(c) ==
    /\ pc(c) = "idle"
    /\ stream[c].transfer = "none"
    /\ stream[c].watcher = "none"
    /\ \E o \in workload.operations, content \in Contents \cup {None} :
          /\ (o = "write") <=> (content # None)
          /\ call' = [call EXCEPT ![c] =
                [NoCall EXCEPT !.pc = IF o = "close" THEN "abort" ELSE "lock",
                               !.op = o, !.content = content]]
    /\ UNCHANGED <<opMu, sessionVars, object, stream>>

Cancel(c) ==
    /\ pc(c) # "idle" \/ stream[c].watcher # "none"
    /\ ~Cancelled(c)
    /\ call' = [call EXCEPT ![c].ctx = "cancelled"]
    /\ UNCHANGED <<opMu, sessionVars, object, stream>>

Lock(c) ==
    /\ pc(c) = "lock"
    /\ opMu = None
    /\ opMu' = c
    /\ Goto(c, IF call[c].op = "close" THEN "quit" ELSE "session")
    /\ UNCHANGED <<sessionVars, object, stream>>

First(o) ==
    CASE o \in {"query", "read"} -> "query"
      [] o = "write" -> "check"
      [] o = "delete" -> "remove"

Session(c) ==
    /\ pc(c) = "session"
    /\ \/ \E s \in Sessions :
             /\ currentSession(c, s)
             /\ call' = [call EXCEPT ![c].pc = First(call[c].op), ![c].using = s]
             /\ UNCHANGED opMu
       \/ noSession(c) /\ Return(c)
    /\ UNCHANGED <<object, stream>>

\* A dial that was given up ends, and its session is quit.
QuitLate(s) ==
    /\ s \in late
    /\ late' = late \ {s}
    /\ link' = [link EXCEPT ![s] = "none"]
    /\ UNCHANGED <<opMu, session, closed, object, call, stream>>

\* The network or the server drops the connection.
Drop(s) ==
    /\ s = session
    /\ link[s] = "up"
    /\ link' = [link EXCEPT ![s] = "down"]
    /\ UNCHANGED <<opMu, session, closed, late, object, call, stream>>

-----------------------------------------------------------------------------
(* Stat and List, and the checks Open makes before its transfer.           *)

StartStream(c) ==
    /\ stream' = [stream EXCEPT ![c] = [NoStream EXCEPT !.transfer = "retrieve",
                                            !.tries = 1, !.watcher = "watch"]]
    /\ call' = [call EXCEPT ![c].pc = "stream", ![c].attempt = 1, ![c].aborted = FALSE]
    /\ UNCHANGED opMu

Query(c) ==
    /\ pc(c) = "query"
    /\ Up(c)
    /\ \/ call[c].op = "read" /\ object # None /\ StartStream(c)
       \/ Return(c) /\ UNCHANGED stream
    /\ UNCHANGED <<sessionVars, object>>

QueryLostForever(c) ==
    /\ pc(c) = "query"
    /\ ConnectionError(c)
    /\ invalidate(call[c].using)
    /\ call' = [call EXCEPT ![c].pc = "session", ![c].using = None, ![c].aborted = FALSE]
    /\ UNCHANGED <<opMu, closed, late, object, stream>>

\* A lost connection is replaced once.
QueryLost(c) ==
    /\ pc(c) = "query"
    /\ ConnectionError(c)
    /\ IF call[c].attempt = 1
       THEN /\ invalidate(call[c].using)
            /\ call' = [call EXCEPT ![c].pc = "session", ![c].attempt = 2,
                                    ![c].using = None, ![c].aborted = FALSE]
            /\ UNCHANGED opMu
       ELSE Return(c) /\ UNCHANGED <<session, link>>
    /\ UNCHANGED <<closed, late, object, stream>>

-----------------------------------------------------------------------------
(* Write and Delete, which are never repeated.                             *)

CheckSkipsStat(c) ==
    /\ pc(c) = "check"
    /\ Goto(c, "store")
    /\ UNCHANGED <<opMu, sessionVars, object, stream>>

\* rejectLink, Stat of the destination, makeDirectories, temporaryPath.
Check(c) ==
    /\ pc(c) = "check"
    /\ \/ Up(c) /\ object = None /\ Goto(c, "store") /\ UNCHANGED opMu
       \/ Return(c)
    /\ UNCHANGED <<sessionVars, object, stream>>

\* Store under the temporary name, then a look at the context.
Store(c) ==
    /\ pc(c) = "store"
    /\ \/ Up(c) /\ ~Cancelled(c) /\ Goto(c, "rename")
       \/ Goto(c, "discard")
    /\ UNCHANGED <<opMu, sessionVars, object, stream>>

\* Publication.  The Stat that follows is a query of its own, after unlocking.
Rename(c) ==
    /\ pc(c) = "rename"
    /\ \/ /\ Up(c)
          /\ object' = call[c].content
          /\ opMu' = None
          /\ call' = [call EXCEPT ![c] = [@ EXCEPT !.pc = "lock", !.op = "query",
                          !.using = None, !.sent = TRUE, !.aborted = FALSE]]
          /\ UNCHANGED link
       \/ /\ ReplyLost(c)
          /\ object' = call[c].content
          /\ call' = [call EXCEPT ![c].pc = "discard", ![c].sent = TRUE,
                                  ![c].aborted = FALSE]
          /\ UNCHANGED opMu
       \/ Goto(c, "discard") /\ UNCHANGED <<opMu, object, link>>
    /\ UNCHANGED <<session, closed, late, stream>>

\* Delete of the temporary name; whatever comes of it the Write has failed.
Discard(c) ==
    /\ pc(c) = "discard"
    /\ Return(c)
    /\ UNCHANGED <<sessionVars, object, stream>>

RemoveRetried(c) ==
    /\ pc(c) = "remove"
    /\ \/ /\ ReplyLost(c)
          /\ object' = None
          /\ call[c].attempt = 1
          /\ call' = [call EXCEPT ![c].pc = "session", ![c].attempt = 2, ![c].sent = TRUE]
          /\ UNCHANGED opMu
       \/ Up(c) /\ object' = None /\ Return(c) /\ UNCHANGED link
    /\ UNCHANGED <<session, closed, late, stream>>

\* Delete: answered, applied with the reply lost, or failed.
Remove(c) ==
    /\ pc(c) = "remove"
    /\ \/ Up(c) /\ object' = None /\ UNCHANGED link
       \/ ReplyLost(c) /\ object' = None
       \/ UNCHANGED <<object, link>>
    /\ Return(c)
    /\ UNCHANGED <<session, closed, late, stream>>

-----------------------------------------------------------------------------
(* The transfer goroutine of a read.                                       *)

\* One chunk passes from Retrieve through the pipe to a Read of the caller.
Deliver(c) ==
    /\ stream[c].transfer = "retrieve"
    /\ stream[c].position < Length
    /\ stream[c].reader = "open"
    /\ pc(c) = "stream"
    /\ Up(c)
    /\ stream' = [stream EXCEPT ![c].position = @ + 1, ![c].got = @ + 1]
    /\ UNCHANGED <<opMu, sessionVars, object, call>>

\* The pipe is closed with the result, or with the context's error, and done.
CloseWriter(c, e) ==
    /\ stream' = [stream EXCEPT ![c] = [@ EXCEPT !.transfer = "unlock", !.end = e,
                                                 !.tries = 0, !.position = 0]]
    /\ call' = [call EXCEPT ![c].using = None, ![c].aborted = FALSE]

\* Retrieve returns: all chunks are delivered, or the server refuses, or the
\* pipe's read side is closed.
Retrieved(c) ==
    /\ stream[c].transfer = "retrieve"
    /\ \/ /\ Up(c)
          /\ stream[c].position = Length
          /\ ~Cancelled(c)
          /\ CloseWriter(c, "eof")
       \/ CloseWriter(c, "error")
    /\ UNCHANGED <<opMu, sessionVars, object>>

RetrieveReplayed(c) ==
    /\ stream[c].transfer = "retrieve"
    /\ ConnectionError(c)
    /\ stream[c].tries = 1
    /\ invalidate(call[c].using)
    /\ stream' = [stream EXCEPT ![c].transfer = "reconnect"]
    /\ UNCHANGED <<opMu, closed, late, object, call>>

\* A connection error before the first chunk was delivered: reconnect.
RetrieveLost(c) ==
    /\ stream[c].transfer = "retrieve"
    /\ ConnectionError(c)
    /\ stream[c].tries = 1
    /\ stream[c].got = 0
    /\ ~Cancelled(c)
    /\ invalidate(call[c].using)
    /\ stream' = [stream EXCEPT ![c].transfer = "reconnect"]
    /\ UNCHANGED <<opMu, closed, late, object, call>>

\* The one replay.
Reconnect(c) ==
    /\ stream[c].transfer = "reconnect"
    /\ \/ \E s \in Sessions :
             /\ currentSession(c, s)
             /\ call' = [call EXCEPT ![c].using = s]
             /\ stream' = [stream EXCEPT ![c].transfer = "retrieve", ![c].tries = 2,
                                         ![c].position = 0]
       \/ noSession(c) /\ CloseWriter(c, "error")
    /\ UNCHANGED <<opMu, object>>

UnlockEarly(c) ==
    /\ stream[c].transfer = "unlock"
    /\ opMu' = None
    /\ \/ stream' = [stream EXCEPT ![c].transfer = "none"]
       \/ opMu # None /\ UNCHANGED stream
    /\ UNCHANGED <<sessionVars, object, call>>

Unlock(c) ==
    /\ stream[c].transfer = "unlock"
    /\ stream' = [stream EXCEPT ![c].transfer = "none"]
    /\ opMu' = None
    /\ UNCHANGED <<sessionVars, object, call>>

Done(c) == stream[c].transfer \in {"unlock", "none"}

-----------------------------------------------------------------------------
(* The watcher, the caller's Close of the stream, and Adapter.Close.       *)

Watch(c) ==
    /\ stream[c].watcher = "watch"
    /\ \/ /\ Cancelled(c)
          /\ stream' = [stream EXCEPT ![c].reader = "closed", ![c].watcher = "abort"]
       \/ Done(c) /\ stream' = [stream EXCEPT ![c].watcher = "none"]
    /\ UNCHANGED <<opMu, sessionVars, object, call>>

WatcherAborts(c) ==
    /\ stream[c].watcher = "abort"
    /\ abortTransfer(c, pc(c))
    /\ stream' = [stream EXCEPT ![c].watcher = "none"]
    /\ UNCHANGED <<opMu, sessionVars, object>>

CloseReader(c) ==
    /\ pc(c) = "stream"
    /\ stream' = [stream EXCEPT ![c].reader = "closed"]
    /\ call' = [call EXCEPT ![c].pc = "closing"]
    /\ UNCHANGED <<opMu, sessionVars, object>>

CloseAborts(c) ==
    /\ pc(c) = "closing"
    /\ abortTransfer(c, "waiting")
    /\ UNCHANGED <<opMu, sessionVars, object, stream>>

\* The caller is done with the stream; its goroutines may not be.
CloseReturns(c) ==
    /\ pc(c) = "waiting"
    /\ Done(c)
    /\ call' = [call EXCEPT ![c] = [NoCall EXCEPT !.ctx = call[c].ctx]]
    /\ stream' = [stream EXCEPT ![c] = [NoStream EXCEPT !.transfer = stream[c].transfer,
                                                        !.watcher = stream[c].watcher]]
    /\ UNCHANGED <<opMu, sessionVars, object>>

\* Adapter.Close aborts before it waits for opMu.
AdapterAborts(c) ==
    /\ pc(c) = "abort"
    /\ abortTransfer(c, "lock")
    /\ UNCHANGED <<opMu, sessionVars, object, stream>>

Quit(c) ==
    /\ pc(c) = "quit"
    /\ closed' = TRUE
    /\ session' = None
    /\ link' = [s \in Sessions |-> IF s = session THEN "none" ELSE link[s]]
    /\ Return(c)
    /\ UNCHANGED <<late, object, stream>>

-----------------------------------------------------------------------------
Step(c) ==
    \/ Session(c) \/ Query(c) \/ QueryLost(c)
    \/ Check(c) \/ Store(c) \/ Rename(c) \/ Discard(c) \/ Remove(c)
    \/ CloseReader(c) \/ CloseAborts(c) \/ CloseReturns(c)
    \/ AdapterAborts(c) \/ Quit(c)

\* The transfer goroutine, but for the delivery of chunks.
Transfer(c) ==
    Retrieved(c) \/ RetrieveLost(c) \/ Reconnect(c) \/ Unlock(c)

Watcher(c) == Watch(c) \/ WatcherAborts(c)

Next ==
    /\ \/ \E c \in Clients :
             \/ Invoke(c) \/ Cancel(c) \/ Lock(c) \/ Step(c)
             \/ Deliver(c) \/ Transfer(c) \/ Watcher(c)
       \/ \E s \in Sessions : QuitLate(s) \/ Drop(s)
    /\ UNCHANGED workload

Spec == Init /\ [][Next]_vars

\* Protocol calls and dials end (the protocol client has a timeout), goroutines
\* that are ready run, and callers close the streams they were given.  A mutex
\* that is unlocked again and again is not withheld from one waiter for ever.
Fairness ==
    /\ \A c \in Clients :
          /\ SF_vars(Lock(c) /\ UNCHANGED workload)
          /\ WF_vars(Step(c) /\ UNCHANGED workload)
          /\ WF_vars(Transfer(c) /\ UNCHANGED workload)
          /\ WF_vars(Watcher(c) /\ UNCHANGED workload)
    /\ \A s \in Sessions : WF_vars(QuitLate(s) /\ UNCHANGED workload)

FairSpec == Spec /\ Fairness

-----------------------------------------------------------------------------
(* Properties.                                                             *)

\* A call past the lock, or the transfer goroutine it has handed the lock to.
Holds(c) ==
    \/ pc(c) \in {"session", "query", "check", "store", "rename", "discard", "remove", "quit"}
    \/ stream[c].transfer # "none"

\* opMu is owned by the one call or transfer that works on the session, though
\* Open locks it in one goroutine and the transfer unlocks it in another.
LockDiscipline == \A c \in Clients : Holds(c) <=> opMu = c

\* A stream is never a mixture of two transfers: what the caller has read is
\* what the running Retrieve has delivered, and EOF means all of it.
WholeOrError ==
    \A c \in Clients :
        /\ stream[c].transfer = "retrieve" => stream[c].got = stream[c].position
        /\ stream[c].end = "eof" => stream[c].got = Length

\* A Write publishes only where there was no object: clients of one adapter
\* never overwrite each other.
NoClobber ==
    [][\A c \in Clients : pc(c) = "rename" /\ call'[c].sent => object = None]_vars

\* A call that has sent a command that changes the server, and perhaps lost
\* the reply, never comes to send it again.
SentOnce == \A c \in Clients : call[c].sent => pc(c) \notin {"rename", "remove"}

\* Every open session is the adapter's current one or about to be quit, also
\* after Adapter.Close: no reconnect and no abandoned dial leaks one.
NoSessionLeak ==
    /\ \A s \in Sessions : link[s] # "none" => s = session \/ s \in late
    /\ closed => session = None

\* The adapter's lock and its connections, through every failure, reconnect and
\* Adapter.Close: one owner of opMu, and no session that nobody will quit.
SessionInvariant == TypeOK /\ LockDiscipline /\ NoSessionLeak

\* Every call returns, Adapter.Close included, and the lock is released.
CallsReturn ==
    \A c \in Clients : pc(c) \notin {"idle", "stream"} ~> pc(c) \in {"idle", "stream"}
=============================================================================
