--------------------------- MODULE FtpAndIOFSProofs ---------------------------
(***************************************************************************)
(* Proofs about FtpSession, for any number of clients, sessions, contents  *)
(* and chunks, and any mixture of operations; and about IOFS, for any      *)
(* keys, names and counts, any cap on a listing and any number of changes. *)
(***************************************************************************)
EXTENDS FtpSession, IOFS, FiniteSetTheorems, TLAPS

-----------------------------------------------------------------------------
(* FtpSession.                                                             *)

\* opMu is released by one goroutine at a time: while a transfer runs, its call
\* is out of the states in which a call unlocks.
Handover(c) ==
    stream[c].transfer # "none" => pc(c) \in {"stream", "closing", "waiting", "idle"}

\* What a call's operation is by the time it gets somewhere.
Routed(c) ==
    /\ pc(c) \in {"lock", "abort"} => call[c].op \in Operations
    /\ pc(c) \in {"session", "query"} => call[c].op \in {"query", "read", "write", "delete"}
    /\ pc(c) \in {"check", "store", "rename"} => call[c].op = "write"
    /\ pc(c) = "remove" => call[c].op = "delete"
    /\ call[c].sent => pc(c) = "discard" \/ call[c].op = "query"

\* A transfer delivers from the start of the object, and only while the pipe is
\* open.
Delivered(c) ==
    /\ stream[c].transfer = "retrieve" => stream[c].got = stream[c].position
    /\ stream[c].transfer = "reconnect" => stream[c].got = 0
    /\ stream[c].transfer \in {"retrieve", "reconnect"} => stream[c].end = "open"
    /\ stream[c].end = "eof" => stream[c].got = Length

\* The Stat before a Write stays true until its rename.
Vacant(c) == pc(c) \in {"store", "rename"} => object = None

CallsOK == \A c \in Clients : Handover(c) /\ Routed(c) /\ Vacant(c)

StreamsOK == \A c \in Clients : Delivered(c)

Inv == SessionInvariant /\ CallsOK /\ StreamsOK

-----------------------------------------------------------------------------
\* An adapter begins with one session, which is its current one (newAdapter).
LEMMA InitInv == Init => Inv
<1> SUFFICES ASSUME Init PROVE Inv
  OBVIOUS
<1>1. NoCall \in Call /\ NoStream \in Stream
  BY FtpAssumption DEF NoCall, NoStream, Call, Stream
<1>2. session \in Sessions
  BY FtpAssumption DEF Init
<1>3. TypeOK
  BY Zenon, <1>1, <1>2 DEF Init, TypeOK
<1>4. LockDiscipline /\ CallsOK /\ StreamsOK
  BY FtpAssumption DEF Init, LockDiscipline, Holds, CallsOK, StreamsOK, Handover, Routed,
     Vacant, Delivered, NoCall, NoStream, pc
<1>5. NoSessionLeak
  BY <1>2 DEF Init, NoSessionLeak
<1>6. QED
  BY Zenon, <1>3, <1>4, <1>5 DEF Inv, SessionInvariant

-----------------------------------------------------------------------------
(* Types: one lemma per field, from which the updates of the actions are   *)
(* put together.                                                           *)

States == {"idle", "abort", "lock", "session", "query", "check", "store", "rename",
           "discard", "remove", "quit", "stream", "closing", "waiting"}

\* Assigning to one field of a call leaves a call.
LEMMA SetCall ==
    ASSUME NEW r \in Call
    PROVE  /\ \A v \in States : [r EXCEPT !.pc = v] \in Call
           /\ \A v \in Operations : [r EXCEPT !.op = v] \in Call
           /\ \A v \in Contents \cup {None} : [r EXCEPT !.content = v] \in Call
           /\ \A v \in Sessions \cup {None} : [r EXCEPT !.using = v] \in Call
           /\ \A v \in 1..2 : [r EXCEPT !.attempt = v] \in Call
           /\ \A v \in {"live", "cancelled"} : [r EXCEPT !.ctx = v] \in Call
           /\ \A v \in BOOLEAN : [r EXCEPT !.sent = v] \in Call
           /\ \A v \in BOOLEAN : [r EXCEPT !.aborted = v] \in Call
<1>1. \A v \in States : [r EXCEPT !.pc = v] \in Call
  BY DEF Call, States
<1>2. \A v \in Operations : [r EXCEPT !.op = v] \in Call
  BY DEF Call
<1>3. \A v \in Contents \cup {None} : [r EXCEPT !.content = v] \in Call
  BY DEF Call
<1>4. \A v \in Sessions \cup {None} : [r EXCEPT !.using = v] \in Call
  BY DEF Call
<1>5. \A v \in 1..2 : [r EXCEPT !.attempt = v] \in Call
  BY DEF Call
<1>6. \A v \in {"live", "cancelled"} : [r EXCEPT !.ctx = v] \in Call
  BY DEF Call
<1>7. \A v \in BOOLEAN : [r EXCEPT !.sent = v] \in Call
  BY DEF Call
<1>8. \A v \in BOOLEAN : [r EXCEPT !.aborted = v] \in Call
  BY DEF Call
<1>9. QED
  BY <1>1, <1>2, <1>3, <1>4, <1>5, <1>6, <1>7, <1>8

\* Assigning to one field of a stream leaves a stream.
LEMMA SetStream ==
    ASSUME NEW r \in Stream
    PROVE  /\ \A v \in {"none", "retrieve", "reconnect", "unlock"} :
                 [r EXCEPT !.transfer = v] \in Stream
           /\ \A v \in 0..2 : [r EXCEPT !.tries = v] \in Stream
           /\ \A v \in 0..Length : [r EXCEPT !.position = v] \in Stream
           /\ \A v \in 0..(2 * Length) : [r EXCEPT !.got = v] \in Stream
           /\ \A v \in {"open", "closed"} : [r EXCEPT !.reader = v] \in Stream
           /\ \A v \in {"open", "eof", "error"} : [r EXCEPT !.end = v] \in Stream
           /\ \A v \in {"none", "watch", "abort"} : [r EXCEPT !.watcher = v] \in Stream
<1>1. \A v \in {"none", "retrieve", "reconnect", "unlock"} :
         [r EXCEPT !.transfer = v] \in Stream
  BY DEF Stream
<1>2. \A v \in 0..2 : [r EXCEPT !.tries = v] \in Stream
  BY DEF Stream
<1>3. \A v \in 0..Length : [r EXCEPT !.position = v] \in Stream
  BY DEF Stream
<1>4. \A v \in 0..(2 * Length) : [r EXCEPT !.got = v] \in Stream
  BY DEF Stream
<1>5. \A v \in {"open", "closed"} : [r EXCEPT !.reader = v] \in Stream
  BY DEF Stream
<1>6. \A v \in {"open", "eof", "error"} : [r EXCEPT !.end = v] \in Stream
  BY DEF Stream
<1>7. \A v \in {"none", "watch", "abort"} : [r EXCEPT !.watcher = v] \in Stream
  BY DEF Stream
<1>8. QED
  BY <1>1, <1>2, <1>3, <1>4, <1>5, <1>6, <1>7

-----------------------------------------------------------------------------
(* What a step does to the call and to the stream of the client that takes *)
(* it, as far as the invariant sees it.                                    *)

Moved(c, state, o, sent) ==
    /\ call' \in [Clients -> Call]
    /\ call'[c].pc = state /\ call'[c].op = o /\ call'[c].sent = sent
    /\ \A d \in Clients \ {c} :
          call'[d].pc = call[d].pc /\ call'[d].op = call[d].op /\ call'[d].sent = call[d].sent

Stays(c) == Moved(c, pc(c), call[c].op, call[c].sent)

Streamed(c, transfer, position, got, end) ==
    /\ stream' \in [Clients -> Stream]
    /\ stream'[c].transfer = transfer /\ stream'[c].position = position
    /\ stream'[c].got = got /\ stream'[c].end = end
    /\ \A d \in Clients \ {c} : stream'[d] = stream[d]

\* The call as a whole is replaced by another.
LEMMA Replaced ==
    ASSUME call \in [Clients -> Call], NEW c \in Clients, NEW r \in Call,
           call' = [call EXCEPT ![c] = r]
    PROVE  Moved(c, r.pc, r.op, r.sent)
  BY DEF Moved

\* A call that goes on in another state, or returns (the mutex left aside).
LEMMA Moves ==
    ASSUME call \in [Clients -> Call], NEW c \in Clients
    PROVE  /\ \A state \in States : Goto(c, state) => Moved(c, state, call[c].op, call[c].sent)
           /\ Return(c) => Moved(c, "idle", None, FALSE)
           /\ UNCHANGED call => Stays(c)
           /\ Cancel(c) => Stays(c)
           /\ CloseReader(c) => Moved(c, "closing", call[c].op, call[c].sent)
           /\ CloseReturns(c) => Moved(c, "idle", None, FALSE)
<1> DEFINE r == call[c]
<1>0. NoCall \in Call /\ r \in Call
  BY DEF NoCall, Call
<1>1. ASSUME NEW state \in States, Goto(c, state)
      PROVE  Moved(c, state, r.op, r.sent)
  <2> DEFINE q == [r EXCEPT !.pc = state, !.aborted = FALSE]
  <2>1. q \in Call
    BY Zenon, <1>0, SetCall
  <2>2. q.pc = state /\ q.op = r.op /\ q.sent = r.sent
    BY <1>0 DEF Call
  <2>3. call' = [call EXCEPT ![c] = q]
    BY Zenon, <1>1 DEF Goto
  <2>4. QED
    BY Zenon, <2>1, <2>2, <2>3, Replaced
<1>2. ASSUME Return(c)
      PROVE  Moved(c, "idle", None, FALSE)
  BY <1>0, <1>2 DEF Return, Moved, NoCall
<1>3. ASSUME UNCHANGED call
      PROVE  Stays(c)
  BY <1>3 DEF Stays, Moved, pc
<1>4. ASSUME Cancel(c)
      PROVE  Stays(c)
  <2>1. [r EXCEPT !.ctx = "cancelled"] \in Call
    BY Zenon, <1>0, SetCall
  <2>2. QED
    BY <1>4, <2>1 DEF Cancel, Stays, Moved, pc, Call
<1>5. ASSUME CloseReader(c)
      PROVE  Moved(c, "closing", r.op, r.sent)
  <2>1. [r EXCEPT !.pc = "closing"] \in Call
    BY Zenon, <1>0, SetCall DEF States
  <2>2. QED
    BY <1>5, <2>1 DEF CloseReader, Moved, Call
<1>6. ASSUME CloseReturns(c)
      PROVE  Moved(c, "idle", None, FALSE)
  <2> DEFINE q == [NoCall EXCEPT !.ctx = r.ctx]
  <2>1. r.ctx \in {"live", "cancelled"}
    BY <1>0 DEF Call
  <2>2. q \in Call
    BY Zenon, <1>0, <2>1, SetCall
  <2>3. q.pc = "idle" /\ q.op = None /\ q.sent = FALSE
    BY DEF NoCall
  <2>4. call' = [call EXCEPT ![c] = q]
    BY <1>6 DEF CloseReturns
  <2>5. QED
    BY Zenon, <2>2, <2>3, <2>4, Replaced
<1>7. QED
  BY Zenon, <1>1, <1>2, <1>3, <1>4, <1>5, <1>6

\* The updates of more than one field: a call gets its session, or loses it,
\* and a Write goes on as the Stat that follows it.
LEMMA Updates ==
    ASSUME call \in [Clients -> Call], NEW c \in Clients
    PROVE  /\ \A state \in States, s \in Sessions :
                 call' = [call EXCEPT ![c].pc = state, ![c].using = s]
                 => Moved(c, state, call[c].op, call[c].sent)
           /\ StartStream(c) => Moved(c, "stream", call[c].op, call[c].sent)
           /\ call' = [call EXCEPT ![c].pc = "session", ![c].attempt = 2,
                                   ![c].using = None, ![c].aborted = FALSE]
              => Moved(c, "session", call[c].op, call[c].sent)
           /\ call' = [call EXCEPT ![c] = [@ EXCEPT !.pc = "lock", !.op = "query",
                           !.using = None, !.sent = TRUE, !.aborted = FALSE]]
              => Moved(c, "lock", "query", TRUE)
           /\ call' = [call EXCEPT ![c].pc = "discard", ![c].sent = TRUE, ![c].aborted = FALSE]
              => Moved(c, "discard", call[c].op, TRUE)
           /\ \A e : CloseWriter(c, e) => Stays(c)
           /\ \A s \in Sessions : call' = [call EXCEPT ![c].using = s] => Stays(c)
<1> DEFINE r == call[c]
<1>0. r \in Call /\ {"stream", "session", "lock", "discard"} \subseteq States
      /\ "query" \in Operations /\ 1 \in 1..2 /\ 2 \in 1..2
  BY DEF States, Operations
<1>1. ASSUME NEW state \in States, NEW s \in Sessions,
             call' = [call EXCEPT ![c].pc = state, ![c].using = s]
      PROVE  Moved(c, state, r.op, r.sent)
  <2> DEFINE q == [r EXCEPT !.pc = state, !.using = s]
  <2>1. q \in Call
    BY Zenon, <1>0, SetCall
  <2>2. q.pc = state /\ q.op = r.op /\ q.sent = r.sent /\ call' = [call EXCEPT ![c] = q]
    BY Zenon, <1>0, <1>1 DEF Call
  <2>3. QED
    BY Zenon, <2>1, <2>2, Replaced
<1>2. ASSUME StartStream(c)
      PROVE  Moved(c, "stream", r.op, r.sent)
  <2> DEFINE q == [r EXCEPT !.pc = "stream", !.attempt = 1, !.aborted = FALSE]
  <2>1. q \in Call
    BY Zenon, <1>0, SetCall
  <2>2. q.pc = "stream" /\ q.op = r.op /\ q.sent = r.sent /\ call' = [call EXCEPT ![c] = q]
    BY Zenon, <1>0, <1>2 DEF Call, StartStream
  <2>3. QED
    BY Zenon, <2>1, <2>2, Replaced
<1>3. ASSUME call' = [call EXCEPT ![c].pc = "session", ![c].attempt = 2,
                                  ![c].using = None, ![c].aborted = FALSE]
      PROVE  Moved(c, "session", r.op, r.sent)
  <2> DEFINE q == [r EXCEPT !.pc = "session", !.attempt = 2, !.using = None, !.aborted = FALSE]
  <2>1. q \in Call
    BY Zenon, <1>0, SetCall
  <2>2. q.pc = "session" /\ q.op = r.op /\ q.sent = r.sent /\ call' = [call EXCEPT ![c] = q]
    BY Zenon, <1>0, <1>3 DEF Call
  <2>3. QED
    BY Zenon, <2>1, <2>2, Replaced
<1>4. ASSUME call' = [call EXCEPT ![c] = [@ EXCEPT !.pc = "lock", !.op = "query",
                          !.using = None, !.sent = TRUE, !.aborted = FALSE]]
      PROVE  Moved(c, "lock", "query", TRUE)
  <2> DEFINE q == [r EXCEPT !.pc = "lock", !.op = "query", !.using = None, !.sent = TRUE,
                            !.aborted = FALSE]
  <2>1. q \in Call
    BY Zenon, <1>0, SetCall
  <2>2. q.pc = "lock" /\ q.op = "query" /\ q.sent = TRUE /\ call' = [call EXCEPT ![c] = q]
    BY <1>0, <1>4 DEF Call
  <2>3. QED
    BY Zenon, <2>1, <2>2, Replaced
<1>5. ASSUME call' = [call EXCEPT ![c].pc = "discard", ![c].sent = TRUE, ![c].aborted = FALSE]
      PROVE  Moved(c, "discard", r.op, TRUE)
  <2> DEFINE q == [r EXCEPT !.pc = "discard", !.sent = TRUE, !.aborted = FALSE]
  <2>1. q \in Call
    BY Zenon, <1>0, SetCall
  <2>2. q.pc = "discard" /\ q.op = r.op /\ q.sent = TRUE /\ call' = [call EXCEPT ![c] = q]
    BY Zenon, <1>0, <1>5 DEF Call
  <2>3. QED
    BY Zenon, <2>1, <2>2, Replaced
<1>6. ASSUME NEW e, CloseWriter(c, e)
      PROVE  Stays(c)
  <2> DEFINE q == [r EXCEPT !.using = None, !.aborted = FALSE]
  <2>1. q \in Call
    BY Zenon, <1>0, SetCall
  <2>2. q.pc = r.pc /\ q.op = r.op /\ q.sent = r.sent /\ call' = [call EXCEPT ![c] = q]
    BY Zenon, <1>0, <1>6 DEF Call, CloseWriter
  <2>3. QED
    BY Zenon, <2>1, <2>2, Replaced DEF Stays, pc
<1>7. ASSUME NEW s \in Sessions, call' = [call EXCEPT ![c].using = s]
      PROVE  Stays(c)
  <2> DEFINE q == [r EXCEPT !.using = s]
  <2>1. q \in Call
    BY Zenon, <1>0, SetCall
  <2>2. q.pc = r.pc /\ q.op = r.op /\ q.sent = r.sent /\ call' = [call EXCEPT ![c] = q]
    BY <1>0, <1>7 DEF Call
  <2>3. QED
    BY Zenon, <2>1, <2>2, Replaced DEF Stays, pc
<1>8. QED
  BY Zenon, <1>1, <1>2, <1>3, <1>4, <1>5, <1>6, <1>7

\* abortTransfer marks calls of any client, and nothing else of them.
LEMMA Aborts ==
    ASSUME call \in [Clients -> Call], NEW c \in Clients, NEW state \in States,
           abortTransfer(c, state)
    PROVE  Moved(c, state, call[c].op, call[c].sent)
<1>1. ASSUME NEW d \in Clients
      PROVE  /\ call'[d] \in Call
             /\ call'[d].pc = IF d = c THEN state ELSE call[d].pc
             /\ call'[d].op = call[d].op
             /\ call'[d].sent = call[d].sent
  <2> DEFINE hit == /\ InCommand(d)
                    /\ session # None
                    /\ call[d].using = session
  <2> DEFINE q == [call[d] EXCEPT !.pc = IF d = c THEN state ELSE call[d].pc,
                                  !.aborted = call[d].aborted \/ hit]
  <2>0. call'[d] = q
    BY Zenon DEF abortTransfer
  <2>1. call[d] \in Call /\ (call[d].aborted \/ hit) \in BOOLEAN
        /\ (IF d = c THEN state ELSE call[d].pc) \in States
    BY DEF Call, States
  <2>2. q \in Call
    BY Zenon, <2>1, SetCall
  <2>3. q.pc = (IF d = c THEN state ELSE call[d].pc) /\ q.op = call[d].op
        /\ q.sent = call[d].sent
    BY <2>1 DEF Call
  <2>4. QED
    BY <2>0, <2>2, <2>3
<1>2. call' \in [Clients -> Call]
  BY Zenon, <1>1 DEF abortTransfer
<1>3. QED
  BY <1>1, <1>2 DEF Moved

\* A new call has its operation, and has sent nothing.
LEMMA Invokes ==
    ASSUME call \in [Clients -> Call], workload \in Workloads, NEW c \in Clients, Invoke(c)
    PROVE  \E o \in Operations, state \in {"abort", "lock"} : Moved(c, state, o, FALSE)
<1>1. PICK o \in workload.operations, content \in Contents \cup {None} :
         call' = [call EXCEPT ![c] =
              [NoCall EXCEPT !.pc = IF o = "close" THEN "abort" ELSE "lock",
                             !.op = o, !.content = content]]
  BY Zenon DEF Invoke
<1>2. o \in Operations
  BY FtpAssumption
<1> DEFINE state == IF o = "close" THEN "abort" ELSE "lock"
<1> DEFINE q == [NoCall EXCEPT !.pc = state, !.op = o, !.content = content]
<1>3. NoCall \in Call /\ state \in States
  BY DEF NoCall, Call, States
<1>4. q \in Call
  BY Zenon, <1>2, <1>3, SetCall
<1>5. q.pc = state /\ q.op = o /\ q.sent = FALSE
  BY DEF NoCall
<1>6. Moved(c, state, o, FALSE)
  BY Zenon, <1>1, <1>4, <1>5, Replaced
<1>7. QED
  BY Zenon, <1>2, <1>6

\* What each step of a transfer, a watcher or a Close leaves of the stream.
LEMMA Streams ==
    ASSUME stream \in [Clients -> Stream], NEW c \in Clients
    PROVE  /\ UNCHANGED stream =>
                 Streamed(c, stream[c].transfer, stream[c].position, stream[c].got, stream[c].end)
           /\ StartStream(c) => Streamed(c, "retrieve", 0, 0, "open")
           /\ \A e \in {"eof", "error"} :
                 CloseWriter(c, e) => Streamed(c, "unlock", 0, stream[c].got, e)
           /\ \A t \in {"none", "reconnect"} :
                 stream' = [stream EXCEPT ![c].transfer = t] =>
                    Streamed(c, t, stream[c].position, stream[c].got, stream[c].end)
           /\ stream' = [stream EXCEPT ![c].transfer = "retrieve", ![c].tries = 2,
                                       ![c].position = 0] =>
                 Streamed(c, "retrieve", 0, stream[c].got, stream[c].end)
           /\ Watch(c) \/ WatcherAborts(c) \/ CloseReader(c) =>
                 Streamed(c, stream[c].transfer, stream[c].position, stream[c].got, stream[c].end)
           /\ CloseReturns(c) => Streamed(c, stream[c].transfer, 0, 0, "open")
<1> DEFINE r == stream[c]
<1> DEFINE Put(q) == stream' = [stream EXCEPT ![c] = q]
<1> DEFINE Same == Streamed(c, r.transfer, r.position, r.got, r.end)
<1>0. NoStream \in Stream /\ r \in Stream /\ Length \in Nat /\ 0 \in 0..2 /\ 1 \in 0..2
      /\ 2 \in 0..2 /\ 0 \in 0..Length
  BY FtpAssumption DEF NoStream, Stream
<1>1. ASSUME NEW q \in Stream, Put(q)
      PROVE  Streamed(c, q.transfer, q.position, q.got, q.end)
  BY <1>1 DEF Streamed
<1>2. ASSUME UNCHANGED stream
      PROVE  Same
  BY <1>2 DEF Streamed
<1>3. ASSUME StartStream(c)
      PROVE  Streamed(c, "retrieve", 0, 0, "open")
  <2> DEFINE q == [NoStream EXCEPT !.transfer = "retrieve", !.tries = 1, !.watcher = "watch"]
  <2>1. q \in Stream
    BY Zenon, <1>0, SetStream
  <2>2. q.transfer = "retrieve" /\ q.position = 0 /\ q.got = 0 /\ q.end = "open" /\ Put(q)
    BY <1>3 DEF NoStream, StartStream
  <2>3. QED
    BY Zenon, <1>1, <2>1, <2>2
<1>4. ASSUME NEW e \in {"eof", "error"}, CloseWriter(c, e)
      PROVE  Streamed(c, "unlock", 0, r.got, e)
  <2> DEFINE q == [r EXCEPT !.transfer = "unlock", !.end = e, !.tries = 0, !.position = 0]
  <2>1. q \in Stream
    BY Zenon, <1>0, SetStream
  <2>2. q.transfer = "unlock" /\ q.position = 0 /\ q.got = r.got /\ q.end = e /\ Put(q)
    BY <1>0, <1>4 DEF Stream, CloseWriter
  <2>3. QED
    BY Zenon, <1>1, <2>1, <2>2
<1>5. ASSUME NEW t \in {"none", "reconnect"}, stream' = [stream EXCEPT ![c].transfer = t]
      PROVE  Streamed(c, t, r.position, r.got, r.end)
  <2> DEFINE q == [r EXCEPT !.transfer = t]
  <2>1. q \in Stream
    BY Zenon, <1>0, SetStream
  <2>2. q.transfer = t /\ q.position = r.position /\ q.got = r.got /\ q.end = r.end /\ Put(q)
    BY <1>0, <1>5 DEF Stream
  <2>3. QED
    BY Zenon, <1>1, <2>1, <2>2
<1>6. ASSUME stream' = [stream EXCEPT ![c].transfer = "retrieve", ![c].tries = 2,
                                      ![c].position = 0]
      PROVE  Streamed(c, "retrieve", 0, r.got, r.end)
  <2> DEFINE q == [r EXCEPT !.transfer = "retrieve", !.tries = 2, !.position = 0]
  <2>1. q \in Stream
    BY Zenon, <1>0, SetStream
  <2>2. q.transfer = "retrieve" /\ q.position = 0 /\ q.got = r.got /\ q.end = r.end /\ Put(q)
    BY Zenon, <1>0, <1>6 DEF Stream
  <2>3. QED
    BY Zenon, <1>1, <2>1, <2>2
<1>7. ASSUME NEW q \in Stream, Put(q), q.transfer = r.transfer, q.position = r.position,
             q.got = r.got, q.end = r.end
      PROVE  Same
  BY Zenon, <1>1, <1>7
<1>8. ASSUME Watch(c) \/ WatcherAborts(c) \/ CloseReader(c)
      PROVE  Same
  <2> DEFINE q1 == [r EXCEPT !.reader = "closed", !.watcher = "abort"]
  <2> DEFINE q2 == [r EXCEPT !.watcher = "none"]
  <2> DEFINE q3 == [r EXCEPT !.reader = "closed"]
  <2>1. q1 \in Stream /\ q2 \in Stream /\ q3 \in Stream
    BY Zenon, <1>0, SetStream
  <2>2. \A q \in {q1, q2, q3} : /\ q.transfer = r.transfer /\ q.position = r.position
                                /\ q.got = r.got /\ q.end = r.end
    BY ZenonT(60), <1>0 DEF Stream
  <2>3. Put(q1) \/ Put(q2) \/ Put(q3)
    BY <1>8 DEF Watch, WatcherAborts, CloseReader
  <2> HIDE DEF q1, q2, q3, Put, Same
  <2>4. QED
    BY <1>7, <2>1, <2>2, <2>3
<1>9. ASSUME CloseReturns(c)
      PROVE  Streamed(c, r.transfer, 0, 0, "open")
  <2> DEFINE q == [NoStream EXCEPT !.transfer = r.transfer, !.watcher = r.watcher]
  <2>0. r.transfer \in {"none", "retrieve", "reconnect", "unlock"}
        /\ r.watcher \in {"none", "watch", "abort"}
    BY <1>0 DEF Stream
  <2>1. q \in Stream
    BY Zenon, <1>0, <2>0, SetStream
  <2>2. q.transfer = r.transfer /\ q.position = 0 /\ q.got = 0 /\ q.end = "open" /\ Put(q)
    BY <1>9 DEF NoStream, CloseReturns
  <2>3. QED
    BY Zenon, <1>1, <2>1, <2>2
<1>10. QED
  BY Zenon, <1>2, <1>3, <1>4, <1>5, <1>6, <1>8, <1>9

\* A delivered chunk counts on both sides of the pipe.
LEMMA Delivers ==
    ASSUME stream \in [Clients -> Stream], NEW c \in Clients, Delivered(c), Deliver(c)
    PROVE  Streamed(c, "retrieve", stream[c].position + 1, stream[c].position + 1, "open")
<1> DEFINE r == stream[c]
<1> DEFINE q == [r EXCEPT !.position = r.position + 1, !.got = r.got + 1]
<1>1. r \in Stream /\ Length \in Nat
  BY FtpAssumption
<1>2. /\ r.transfer = "retrieve" /\ r.got = r.position /\ r.end = "open"
      /\ r.position \in 0..Length /\ r.position < Length
  BY <1>1 DEF Stream, Delivered, Deliver
<1>3. r.position + 1 \in 0..Length /\ r.got + 1 \in 0..(2 * Length)
  BY <1>1, <1>2
<1>4. q \in Stream
  BY Zenon, <1>1, <1>3, SetStream
<1>5. /\ q.transfer = "retrieve" /\ q.position = r.position + 1
      /\ q.got = r.position + 1 /\ q.end = "open"
  BY <1>1, <1>2 DEF Stream
<1>6. stream' = [stream EXCEPT ![c] = q]
  BY Zenon DEF Deliver
<1>7. QED
  BY <1>4, <1>5, <1>6 DEF Streamed

-----------------------------------------------------------------------------
(* Sessions.                                                               *)

SessionsOK ==
    /\ session \in Sessions \cup {None}
    /\ closed \in BOOLEAN
    /\ link \in [Sessions -> {"none", "up", "down"}]
    /\ late \in SUBSET Sessions
    /\ NoSessionLeak

\* However a session is replaced, lost or given up, none is left without an
\* owner (currentSession, invalidate, quit, Adapter.Close).
LEMMA SessionSteps ==
    ASSUME SessionsOK, NEW c \in Clients
    PROVE  /\ UNCHANGED sessionVars => SessionsOK'
           /\ \A s \in Sessions : currentSession(c, s) => SessionsOK'
           /\ noSession(c) => SessionsOK'
           /\ invalidate(call[c].using) /\ UNCHANGED <<closed, late>> => SessionsOK'
           /\ ReplyLost(c) /\ UNCHANGED <<session, closed, late>> => SessionsOK'
           /\ Quit(c) => SessionsOK'
<1> USE DEF SessionsOK, NoSessionLeak
<1>1. ASSUME UNCHANGED sessionVars
      PROVE  SessionsOK'
  BY <1>1 DEF sessionVars
<1>2. ASSUME NEW s \in Sessions, currentSession(c, s)
      PROVE  SessionsOK'
  <2>1. CASE UNCHANGED <<session, link>>
    BY <1>2, <2>1 DEF currentSession
  <2>2. CASE session = None /\ session' = s /\ link' = [link EXCEPT ![s] = "up"]
    BY <1>2, <2>2, FtpAssumption DEF currentSession
  <2>3. QED
    BY <1>2, <2>1, <2>2 DEF currentSession
<1>3. ASSUME noSession(c)
      PROVE  SessionsOK'
  <2>1. CASE UNCHANGED <<link, late>>
    BY <1>3, <2>1 DEF noSession
  <2>2. CASE /\ ~closed
             /\ \E s \in Sessions : link' = [link EXCEPT ![s] = "up"] /\ late' = late \cup {s}
    BY <1>3, <2>2 DEF noSession
  <2>3. QED
    BY <1>3, <2>1, <2>2 DEF noSession
<1>4. ASSUME invalidate(call[c].using), UNCHANGED <<closed, late>>
      PROVE  SessionsOK'
  BY <1>4 DEF invalidate
<1>5. ASSUME ReplyLost(c), UNCHANGED <<session, closed, late>>
      PROVE  SessionsOK'
  BY Zenon, <1>5 DEF ReplyLost, Up
<1>6. ASSUME Quit(c)
      PROVE  SessionsOK'
  BY <1>6 DEF Quit
<1>7. QED
  BY <1>1, <1>2, <1>3, <1>4, <1>5, <1>6

\* The steps of the network and of a dial that was given up.
LEMMA NetworkSteps ==
    ASSUME SessionsOK, NEW s \in Sessions, QuitLate(s) \/ Drop(s)
    PROVE  SessionsOK'
<1>1. CASE QuitLate(s)
  BY <1>1 DEF QuitLate, SessionsOK, NoSessionLeak
<1>2. CASE Drop(s)
  BY <1>2 DEF Drop, SessionsOK, NoSessionLeak
<1>3. QED
  BY <1>1, <1>2

-----------------------------------------------------------------------------
(* One client's step.                                                      *)

Local(c) == Handover(c) /\ Routed(c) /\ Vacant(c) /\ Delivered(c)

Framed(c) ==
    /\ call' \in [Clients -> Call]
    /\ stream' \in [Clients -> Stream]
    /\ \A d \in Clients \ {c} :
          /\ call'[d].pc = call[d].pc /\ call'[d].op = call[d].op /\ call'[d].sent = call[d].sent
          /\ stream'[d] = stream[d]

\* Only the owner of opMu writes the object, or gives opMu up.
Owned(c) ==
    /\ object' \in Contents \cup {None}
    /\ object' = object \/ opMu = c
    /\ opMu' = opMu \/ (opMu \in {c, None} /\ opMu' \in {c, None})
    /\ Holds(c)' <=> opMu' = c

\* A step of c that respects opMu and keeps c's part of the invariant keeps all
\* of it: the others own neither the object nor the lock meanwhile.
LEMMA Gathered ==
    ASSUME Inv, NEW c \in Clients, Framed(c), Owned(c), Local(c)', SessionsOK',
           workload' = workload
    PROVE  Inv'
<1> USE DEF pc
<1>0. None \notin Clients
  BY FtpAssumption
<1>1. TypeOK'
  BY <1>0 DEF Inv, SessionInvariant, TypeOK, Framed, Owned, SessionsOK
<1>2. ASSUME NEW d \in Clients \ {c}
      PROVE  /\ Holds(d)' <=> Holds(d)
             /\ Handover(d)' /\ Routed(d)' /\ Delivered(d)'
  BY <1>2 DEF Framed, Holds, Inv, CallsOK, StreamsOK, Handover, Routed, Delivered
<1>3. ASSUME NEW d \in Clients \ {c}
      PROVE  Holds(d)' <=> opMu' = d
  <2>1. Holds(d) <=> opMu = d
    BY DEF Inv, SessionInvariant, LockDiscipline
  <2>2. QED
    BY <1>0, <1>2, <2>1 DEF Owned
<1>4. LockDiscipline'
  BY <1>3 DEF LockDiscipline, Owned
<1>5. ASSUME NEW d \in Clients \ {c}
      PROVE  Vacant(d)'
  <2>1. CASE pc(d) \in {"store", "rename"}
    <3>1. opMu = d
      BY <2>1 DEF Inv, SessionInvariant, LockDiscipline, Holds
    <3>2. object' = object /\ object = None
      BY Zenon, <2>1, <3>1 DEF Owned, Inv, CallsOK, Vacant
    <3>3. QED
      BY <3>2 DEF Vacant
  <2>2. CASE pc(d) \notin {"store", "rename"}
    BY <2>2 DEF Framed, Vacant
  <2>3. QED
    BY <2>1, <2>2
<1>6. CallsOK' /\ StreamsOK'
  BY <1>2, <1>5 DEF CallsOK, StreamsOK, Local
<1>7. QED
  BY <1>1, <1>4, <1>6 DEF Inv, SessionInvariant, SessionsOK

\* The call and the stream a step of c leaves, with opMu and the object as they
\* are afterwards, satisfy c's part of the invariant.
Fits(c, state, o, sent, transfer, position, got, end) ==
    /\ object' \in Contents \cup {None}
    /\ object' = object \/ opMu = c
    /\ opMu' = opMu \/ (opMu \in {c, None} /\ opMu' \in {c, None})
    /\ \/ state \in {"session", "query", "check", "store", "rename", "discard", "remove", "quit"}
       \/ transfer # "none"
       <=> opMu' = c
    /\ transfer # "none" => state \in {"stream", "closing", "waiting", "idle"}
    /\ state \in {"lock", "abort"} => o \in Operations
    /\ state \in {"session", "query"} => o \in {"query", "read", "write", "delete"}
    /\ state \in {"check", "store", "rename"} => o = "write"
    /\ state = "remove" => o = "delete"
    /\ sent => state = "discard" \/ o = "query"
    /\ state \in {"store", "rename"} => object' = None
    /\ transfer = "retrieve" => got = position
    /\ transfer = "reconnect" => got = 0
    /\ transfer \in {"retrieve", "reconnect"} => end = "open"
    /\ end = "eof" => got = Length

\* The parts of a step put together.
LEMMA Composed ==
    ASSUME Inv, NEW c \in Clients, NEW state, NEW o, NEW sent, NEW transfer, NEW position,
           NEW got, NEW end,
           Moved(c, state, o, sent), Streamed(c, transfer, position, got, end),
           Fits(c, state, o, sent, transfer, position, got, end),
           SessionsOK', workload' = workload
    PROVE  Inv'
<1>1. Framed(c)
  BY Zenon DEF Framed, Moved, Streamed
<1>2. /\ call'[c].pc = state /\ call'[c].op = o /\ call'[c].sent = sent
      /\ stream'[c].transfer = transfer /\ stream'[c].position = position
      /\ stream'[c].got = got /\ stream'[c].end = end
  BY DEF Moved, Streamed
<1>3. Owned(c)
  BY Zenon, <1>2 DEF Owned, Fits, Holds, pc
<1>4. Handover(c)' /\ Routed(c)' /\ Vacant(c)'
  BY <1>2 DEF Fits, Handover, Routed, Vacant, pc
<1>5. Delivered(c)'
  BY <1>2 DEF Fits, Delivered
<1>6. QED
  BY <1>1, <1>3, <1>4, <1>5, Gathered DEF Local

\* What the invariant says of one client, before a step.
LEMMA Before ==
    ASSUME Inv, NEW c \in Clients
    PROVE  /\ call \in [Clients -> Call] /\ stream \in [Clients -> Stream]
           /\ workload \in Workloads /\ object \in Contents \cup {None}
           /\ SessionsOK /\ Delivered(c)
           /\ workload' = workload /\ UNCHANGED <<opMu, object>> =>
                 Fits(c, pc(c), call[c].op, call[c].sent, stream[c].transfer,
                      stream[c].position, stream[c].got, stream[c].end)
  BY DEF Inv, SessionInvariant, TypeOK, SessionsOK, CallsOK, StreamsOK, LockDiscipline, Holds,
         Handover, Routed, Vacant, Delivered, Fits, pc

-----------------------------------------------------------------------------
(* The actions.                                                            *)

\* Where a call with the lock is, no transfer of the same client is running.
LEMMA Locked ==
    ASSUME Inv, NEW c \in Clients,
           pc(c) \in {"session", "query", "check", "store", "rename", "discard", "remove", "quit"}
    PROVE  stream[c].transfer = "none" /\ opMu = c
  BY DEF Inv, SessionInvariant, LockDiscipline, Holds, CallsOK, Handover

\* A call that returns unlocks opMu and leaves the stream of an earlier read.
LEMMA ReturnInv ==
    ASSUME Inv, NEW c \in Clients, Return(c), UNCHANGED stream, SessionsOK',
           workload' = workload, object' \in Contents \cup {None},
           pc(c) \in {"session", "query", "check", "store", "rename", "discard", "remove", "quit"}
    PROVE  Inv'
<1> DEFINE r == stream[c]
<1>1. Moved(c, "idle", None, FALSE)
  BY Zenon, Before, Moves
<1>2. Streamed(c, r.transfer, r.position, r.got, r.end)
  BY Zenon, Before, Streams
<1>3. r.transfer = "none" /\ opMu = c /\ opMu' = None /\ c # None
  BY Zenon, Locked, FtpAssumption DEF Return
<1>4. Fits(c, "idle", None, FALSE, r.transfer, r.position, r.got, r.end)
  BY Zenon, <1>3, Before DEF Fits, Delivered
<1>5. QED
  BY Zenon, <1>1, <1>2, <1>4, Composed

\* Calls begin, are cancelled and wait for opMu.
LEMMA EntryInv ==
    ASSUME Inv, NEW c \in Clients, Invoke(c) \/ Cancel(c) \/ Lock(c), workload' = workload
    PROVE  Inv'
<1> DEFINE r == stream[c]
<1> USE Before
<1>0. SessionsOK' /\ Streamed(c, r.transfer, r.position, r.got, r.end)
  <2>1. UNCHANGED sessionVars /\ UNCHANGED stream
    BY Zenon DEF Invoke, Cancel, Lock
  <2>2. QED
    BY Zenon, <2>1, SessionSteps, Streams
<1>1. CASE Invoke(c)
  <2>1. PICK o \in Operations, state \in {"abort", "lock"} : Moved(c, state, o, FALSE)
    BY Zenon, <1>1, Invokes
  <2>2. Fits(c, state, o, FALSE, r.transfer, r.position, r.got, r.end)
    BY Zenon, <1>1 DEF Invoke, Fits, pc
  <2>3. QED
    BY Zenon, <1>0, <2>1, <2>2, Composed
<1>2. CASE Cancel(c)
  <2>1. Stays(c)
    BY Zenon, <1>2, Moves
  <2>2. Fits(c, pc(c), call[c].op, call[c].sent, r.transfer, r.position, r.got, r.end)
    BY <1>2 DEF Cancel
  <2>3. QED
    BY Zenon, <1>0, <2>1, <2>2, Composed DEF Stays
<1>3. CASE Lock(c)
  <2> DEFINE state == IF call[c].op = "close" THEN "quit" ELSE "session"
  <2>1. Moved(c, state, call[c].op, call[c].sent)
    <3>1. state \in States /\ Goto(c, state)
      BY Zenon, <1>3 DEF Lock, States
    <3>2. QED
      BY Zenon, <3>1, Moves
  <2>2. call[c].op \in Operations /\ (call[c].sent => call[c].op = "query") /\ r.transfer = "none"
    BY Zenon, <1>3 DEF Lock, Inv, CallsOK, Routed, Handover, pc
  <2>3. Fits(c, state, call[c].op, call[c].sent, r.transfer, r.position, r.got, r.end)
    BY Zenon, <1>3, <2>2 DEF Lock, Fits, Delivered, Operations
  <2>4. QED
    BY Zenon, <1>0, <2>1, <2>3, Composed
<1>4. QED
  BY <1>1, <1>2, <1>3

\* The states of a Stat, a List and the beginning of an Open.
LEMMA QueryInv ==
    ASSUME Inv, NEW c \in Clients, Session(c) \/ Query(c) \/ QueryLost(c), workload' = workload
    PROVE  Inv'
<1> DEFINE r == stream[c]
<1> USE Before
<1>0. /\ r.transfer = "none" /\ opMu = c /\ c # None
      /\ call[c].op \in {"query", "read", "write", "delete"}
      /\ call[c].sent => call[c].op = "query"
      /\ UNCHANGED object
  BY Zenon, Locked, FtpAssumption DEF Session, Query, QueryLost, Inv, CallsOK, Routed, pc
<1>1. CASE Session(c)
  <2>1. ASSUME NEW s \in Sessions, currentSession(c, s), UNCHANGED opMu,
               call' = [call EXCEPT ![c].pc = First(call[c].op), ![c].using = s]
        PROVE  Inv'
    <3> DEFINE state == First(call[c].op)
    <3>1. state \in {"query", "check", "remove"}
          /\ (state = "query" => call[c].op \in {"query", "read"})
          /\ (state = "check" => call[c].op = "write")
          /\ (state = "remove" => call[c].op = "delete")
      BY Zenon, <1>0 DEF First
    <3>2. state \in States
      BY <3>1 DEF States
    <3> HIDE DEF state
    <3>3. Moved(c, state, call[c].op, call[c].sent)
      BY Zenon, <2>1, <3>2, Updates DEF state
    <3>4. Streamed(c, r.transfer, r.position, r.got, r.end)
      BY Zenon, <1>1, Streams DEF Session
    <3>5. Fits(c, state, call[c].op, call[c].sent, r.transfer, r.position, r.got, r.end)
      BY <1>0, <2>1, <3>1 DEF Fits, Delivered
    <3>6. SessionsOK'
      BY <2>1, SessionSteps
    <3>7. QED
      BY Zenon, <3>3, <3>4, <3>5, <3>6, Composed
  <2>2. CASE noSession(c) /\ Return(c)
    <3>1. SessionsOK'
      BY Zenon, <2>2, SessionSteps
    <3>2. QED
      BY <1>0, <1>1, <2>2, <3>1, ReturnInv DEF Session
  <2>3. QED
    BY <1>1, <2>1, <2>2 DEF Session
<1>2. CASE Query(c)
  <2>0. SessionsOK'
    BY Zenon, <1>2, SessionSteps DEF Query
  <2>1. CASE StartStream(c)
    <3>1. Moved(c, "stream", call[c].op, call[c].sent) /\ Streamed(c, "retrieve", 0, 0, "open")
      BY Zenon, <2>1, Updates, Streams
    <3>2. Fits(c, "stream", call[c].op, call[c].sent, "retrieve", 0, 0, "open")
      BY Zenon, <1>0, <1>2, <2>1 DEF Query, StartStream, Fits
    <3>3. QED
      BY <2>0, <3>1, <3>2, Composed
  <2>2. CASE Return(c) /\ UNCHANGED stream
    BY Zenon, <1>0, <1>2, <2>0, <2>2, ReturnInv DEF Query
  <2>3. QED
    BY <1>2, <2>1, <2>2 DEF Query
<1>3. CASE QueryLost(c)
  <2>1. CASE call[c].attempt = 1
    <3>1. Moved(c, "session", call[c].op, call[c].sent)
      BY Zenon, <1>3, <2>1, Updates DEF QueryLost
    <3>2. Streamed(c, r.transfer, r.position, r.got, r.end)
      BY Zenon, <1>3, Streams DEF QueryLost
    <3>3. Fits(c, "session", call[c].op, call[c].sent, r.transfer, r.position, r.got, r.end)
      BY Zenon, <1>0, <1>3, <2>1 DEF QueryLost, Fits, Delivered
    <3>4. SessionsOK'
      BY Zenon, <1>3, <2>1, SessionSteps DEF QueryLost
    <3>5. QED
      BY Zenon, <3>1, <3>2, <3>3, <3>4, Composed
  <2>2. CASE call[c].attempt # 1
    <3>1. SessionsOK'
      BY Zenon, <1>3, <2>2, SessionSteps DEF QueryLost, sessionVars
    <3>2. QED
      BY Zenon, <1>0, <1>3, <2>2, <3>1, ReturnInv DEF QueryLost
  <2>3. QED
    BY Zenon, <2>1, <2>2
<1>4. QED
  BY <1>1, <1>2, <1>3

\* A Write and a Delete.
LEMMA ChangeInv ==
    ASSUME Inv, NEW c \in Clients, Check(c) \/ Store(c) \/ Rename(c) \/ Discard(c) \/ Remove(c),
           workload' = workload
    PROVE  Inv'
<1> DEFINE r == stream[c]
<1> USE Before
<1>0. /\ r.transfer = "none" /\ opMu = c /\ c # None
      /\ pc(c) \in {"check", "store", "rename"} => call[c].op = "write" /\ ~call[c].sent
      /\ call[c].content \in Contents \cup {None}
      /\ Streamed(c, r.transfer, r.position, r.got, r.end)
  <2>1. r.transfer = "none" /\ opMu = c /\ c # None
    BY Zenon, Locked, FtpAssumption DEF Check, Store, Rename, Discard, Remove
  <2>2. pc(c) \in {"check", "store", "rename"} => call[c].op = "write" /\ ~call[c].sent
    BY Zenon DEF Inv, CallsOK, Routed, pc
  <2>3. call[c].content \in Contents \cup {None}
    BY DEF Call
  <2>4. Streamed(c, r.transfer, r.position, r.got, r.end)
    BY Zenon, Streams DEF Check, Store, Rename, Discard, Remove
  <2>5. QED
    BY Zenon, <2>1, <2>2, <2>3, <2>4
<1>1. ASSUME NEW state \in {"store", "rename", "discard"}, Goto(c, state), UNCHANGED opMu,
             pc(c) \in {"check", "store", "rename"}, UNCHANGED object, SessionsOK',
             state # "discard" => object = None
      PROVE  Inv'
  <2>1. Moved(c, state, call[c].op, call[c].sent)
    BY Zenon, <1>1, Moves DEF States
  <2>2. Fits(c, state, call[c].op, call[c].sent, r.transfer, r.position, r.got, r.end)
    BY Zenon, <1>0, <1>1 DEF Fits, Delivered
  <2>3. QED
    BY Zenon, <1>0, <1>1, <2>1, <2>2, Composed
<1>2. CASE Check(c)
  <2>1. SessionsOK'
    BY Zenon, <1>2, SessionSteps DEF Check
  <2>2. CASE Return(c)
    BY <1>2, <2>1, <2>2, ReturnInv DEF Check
  <2>3. QED
    BY Zenon, <1>1, <1>2, <2>1, <2>2 DEF Check
<1>3. CASE Store(c)
  <2>1. SessionsOK'
    BY Zenon, <1>3, SessionSteps DEF Store
  <2>2. object = None
    BY Zenon, <1>3 DEF Store, Inv, CallsOK, Vacant
  <2>3. QED
    BY Zenon, <1>1, <1>3, <2>1, <2>2 DEF Store
<1>4. CASE Rename(c)
  <2>1. CASE /\ object' = call[c].content /\ opMu' = None /\ UNCHANGED link
             /\ call' = [call EXCEPT ![c] = [@ EXCEPT !.pc = "lock", !.op = "query",
                            !.using = None, !.sent = TRUE, !.aborted = FALSE]]
    <3>1. Moved(c, "lock", "query", TRUE)
      BY Zenon, <2>1, Updates
    <3>2. Fits(c, "lock", "query", TRUE, r.transfer, r.position, r.got, r.end)
      BY Zenon, <1>0, <2>1 DEF Fits, Delivered, Operations
    <3>3. SessionsOK'
      BY Zenon, <1>4, <2>1, SessionSteps DEF Rename, sessionVars
    <3>4. QED
      BY Zenon, <1>0, <3>1, <3>2, <3>3, Composed
  <2>2. CASE /\ ReplyLost(c) /\ object' = call[c].content /\ UNCHANGED opMu
             /\ call' = [call EXCEPT ![c].pc = "discard", ![c].sent = TRUE, ![c].aborted = FALSE]
    <3>1. Moved(c, "discard", call[c].op, TRUE)
      BY Zenon, <2>2, Updates
    <3>2. Fits(c, "discard", call[c].op, TRUE, r.transfer, r.position, r.got, r.end)
      BY Zenon, <1>0, <2>2 DEF Fits, Delivered
    <3>3. SessionsOK'
      BY Zenon, <1>4, <2>2, SessionSteps DEF Rename
    <3>4. QED
      BY Zenon, <1>0, <3>1, <3>2, <3>3, Composed
  <2>3. CASE Goto(c, "discard") /\ UNCHANGED <<opMu, object, link>>
    <3>1. SessionsOK'
      BY Zenon, <1>4, <2>3, SessionSteps DEF Rename, sessionVars
    <3>2. QED
      BY Zenon, <1>1, <1>4, <2>3, <3>1 DEF Rename
  <2>4. QED
    BY Zenon, <1>4, <2>1, <2>2, <2>3 DEF Rename
<1>5. CASE Discard(c)
  <2>1. SessionsOK'
    BY Zenon, <1>5, SessionSteps DEF Discard
  <2>2. QED
    BY Zenon, <1>5, <2>1, ReturnInv DEF Discard
<1>6. CASE Remove(c)
  <2>1. SessionsOK'
    BY Zenon, <1>6, SessionSteps DEF Remove, sessionVars
  <2>2. object' \in Contents \cup {None}
    BY Zenon, <1>6 DEF Remove
  <2>3. QED
    BY Zenon, <1>6, <2>1, <2>2, ReturnInv DEF Remove
<1>7. QED
  BY Zenon, <1>2, <1>3, <1>4, <1>5, <1>6

\* The transfer goroutine: opMu is handed to it by Open, and it alone unlocks.
LEMMA TransferInv ==
    ASSUME Inv, NEW c \in Clients, Deliver(c) \/ Transfer(c), workload' = workload
    PROVE  Inv'
<1> DEFINE r == stream[c]
<1> USE Before
<1>0. /\ r.transfer # "none" /\ opMu = c /\ c # None
      /\ pc(c) \in {"stream", "closing", "waiting", "idle"}
      /\ call[c].sent => call[c].op = "query"
      /\ UNCHANGED object
  BY Zenon, FtpAssumption
     DEF Deliver, Transfer, Retrieved, RetrieveLost, Reconnect, Unlock, Inv,
     SessionInvariant, LockDiscipline, Holds, CallsOK, Handover, Routed, pc
<1>1. ASSUME NEW transfer, NEW position, NEW got, NEW end,
             Stays(c), Streamed(c, transfer, position, got, end), SessionsOK',
             opMu' = IF transfer = "none" THEN None ELSE opMu,
             transfer = "retrieve" => got = position,
             transfer = "reconnect" => got = 0,
             transfer \in {"retrieve", "reconnect"} => end = "open",
             end = "eof" => got = Length
      PROVE  Inv'
  <2>1. Fits(c, pc(c), call[c].op, call[c].sent, transfer, position, got, end)
    BY Zenon, <1>0, <1>1 DEF Fits
  <2>2. QED
    BY Zenon, <1>1, <2>1, Composed DEF Stays
<1>2. ASSUME NEW e \in {"eof", "error"}, CloseWriter(c, e), UNCHANGED opMu, SessionsOK',
             e = "eof" => r.got = Length
      PROVE  Inv'
  <2>1. Stays(c) /\ Streamed(c, "unlock", 0, r.got, e)
    BY Zenon, <1>2, Updates, Streams
  <2>2. QED
    BY Zenon, <1>1, <1>2, <2>1
<1>3. CASE Deliver(c)
  <2>1. Streamed(c, "retrieve", r.position + 1, r.position + 1, "open")
    BY Zenon, <1>3, Delivers
  <2>2. Stays(c) /\ SessionsOK' /\ UNCHANGED opMu
    BY Zenon, <1>3, Moves, SessionSteps DEF Deliver
  <2>3. QED
    BY <1>1, <2>1, <2>2
<1>4. CASE Retrieved(c)
  <2>1. SessionsOK' /\ UNCHANGED opMu
    BY Zenon, <1>4, SessionSteps DEF Retrieved
  <2>2. r.position = Length => r.got = Length
    BY Zenon, <1>4 DEF Retrieved, Delivered
  <2>3. QED
    BY Zenon, <1>2, <1>4, <2>1, <2>2 DEF Retrieved
<1>5. CASE RetrieveLost(c)
  <2>1. Streamed(c, "reconnect", r.position, r.got, r.end)
    BY Zenon, <1>5, Streams DEF RetrieveLost
  <2>2. Stays(c) /\ SessionsOK' /\ UNCHANGED opMu
    BY Zenon, <1>5, Moves, SessionSteps DEF RetrieveLost
  <2>3. r.got = 0 /\ r.end = "open"
    BY Zenon, <1>5 DEF RetrieveLost, Delivered
  <2>4. QED
    BY <1>1, <2>1, <2>2, <2>3
<1>6. CASE Reconnect(c)
  <2>0. r.got = 0 /\ r.end = "open" /\ UNCHANGED opMu
    BY Zenon, <1>6 DEF Reconnect, Delivered
  <2>1. ASSUME NEW s \in Sessions, currentSession(c, s), call' = [call EXCEPT ![c].using = s],
               stream' = [stream EXCEPT ![c].transfer = "retrieve", ![c].tries = 2,
                                        ![c].position = 0]
        PROVE  Inv'
    <3>1. Stays(c)
      BY Zenon, <2>1, Updates
    <3>2. Streamed(c, "retrieve", 0, r.got, r.end)
      BY Zenon, <2>1, Streams
    <3>3. SessionsOK'
      BY Zenon, <2>1, SessionSteps
    <3>4. QED
      BY Zenon, <1>1, <2>0, <3>1, <3>2, <3>3
  <2>2. CASE noSession(c) /\ CloseWriter(c, "error")
    <3>1. SessionsOK'
      BY Zenon, <2>2, SessionSteps
    <3>2. QED
      BY Zenon, <1>2, <2>0, <2>2, <3>1
  <2>3. QED
    BY Zenon, <1>6, <2>1, <2>2 DEF Reconnect
<1>7. CASE Unlock(c)
  <2>1. Streamed(c, "none", r.position, r.got, r.end)
    BY Zenon, <1>7, Streams DEF Unlock
  <2>2. Stays(c) /\ SessionsOK' /\ opMu' = None
    BY Zenon, <1>7, Moves, SessionSteps DEF Unlock
  <2>3. r.end = "eof" => r.got = Length
    BY Zenon DEF Delivered
  <2>4. QED
    BY <1>1, <2>1, <2>2, <2>3
<1>8. QED
  BY Zenon, <1>3, <1>4, <1>5, <1>6, <1>7 DEF Transfer

\* The watcher, Close of a stream and Adapter.Close.
LEMMA CloseInv ==
    ASSUME Inv, NEW c \in Clients, workload' = workload,
           \/ Watcher(c) \/ CloseReader(c) \/ CloseAborts(c) \/ CloseReturns(c)
           \/ AdapterAborts(c) \/ Quit(c)
    PROVE  Inv'
<1> DEFINE r == stream[c]
<1> DEFINE Same == Streamed(c, r.transfer, r.position, r.got, r.end)
<1> USE Before
<1>0. /\ (r.transfer # "none" /\ opMu = c) \/ (r.transfer = "none" /\ opMu # c)
         \/ pc(c) \in {"session", "query", "check", "store", "rename", "discard", "remove", "quit"}
      /\ call[c].sent => pc(c) = "discard" \/ call[c].op = "query"
      /\ r.transfer # "none" => pc(c) \in {"stream", "closing", "waiting", "idle"}
  BY Zenon DEF Inv, SessionInvariant, LockDiscipline, Holds, CallsOK, Handover, Routed, pc
<1>1. ASSUME Stays(c), Same, UNCHANGED <<opMu, object>>, SessionsOK'
      PROVE  Inv'
  <2>1. Fits(c, pc(c), call[c].op, call[c].sent, r.transfer, r.position, r.got, r.end)
    BY Zenon, <1>1
  <2>2. QED
    BY Zenon, <1>1, <2>1, Composed DEF Stays
<1>2. CASE Watch(c)
  <2>1. Stays(c) /\ SessionsOK' /\ UNCHANGED <<opMu, object>>
    BY Zenon, <1>2, Moves, SessionSteps DEF Watch
  <2>2. Same
    BY Zenon, <1>2, Streams
  <2>3. QED
    BY Zenon, <1>1, <2>1, <2>2
<1>3. CASE WatcherAborts(c)
  <2>0. pc(c) \in States
    BY Zenon DEF pc, Call, States
  <2>1. Stays(c)
    BY <1>3, <2>0, Aborts DEF WatcherAborts, Stays
  <2>2. SessionsOK' /\ UNCHANGED <<opMu, object>>
    BY <1>3, SessionSteps DEF WatcherAborts
  <2>3. Same
    BY Zenon, <1>3, Streams
  <2>4. QED
    BY Zenon, <1>1, <2>1, <2>2, <2>3
<1>4. CASE CloseReader(c)
  <2>1. Moved(c, "closing", call[c].op, call[c].sent) /\ SessionsOK' /\ Same
    BY Zenon, <1>4, Moves, SessionSteps, Streams DEF CloseReader
  <2>2. Fits(c, "closing", call[c].op, call[c].sent, r.transfer, r.position, r.got, r.end)
    BY Zenon, <1>0, <1>4 DEF CloseReader, Fits, Delivered
  <2>3. QED
    BY Zenon, <2>1, <2>2, Composed
<1>5. CASE CloseAborts(c)
  <2>1. Moved(c, "waiting", call[c].op, call[c].sent)
    BY Zenon, <1>5, Aborts DEF CloseAborts, States
  <2>2. SessionsOK' /\ Same
    BY Zenon, <1>5, SessionSteps, Streams DEF CloseAborts
  <2>3. Fits(c, "waiting", call[c].op, call[c].sent, r.transfer, r.position, r.got, r.end)
    BY Zenon, <1>0, <1>5 DEF CloseAborts, Fits, Delivered
  <2>4. QED
    BY Zenon, <2>1, <2>2, <2>3, Composed
<1>6. CASE CloseReturns(c)
  <2>1. /\ Moved(c, "idle", None, FALSE) /\ SessionsOK'
        /\ Streamed(c, r.transfer, 0, 0, "open")
    BY Zenon, <1>6, Moves, SessionSteps, Streams DEF CloseReturns
  <2>2. Fits(c, "idle", None, FALSE, r.transfer, 0, 0, "open")
    BY Zenon, <1>0, <1>6 DEF CloseReturns, Fits
  <2>3. QED
    BY Zenon, <2>1, <2>2, Composed
<1>7. CASE AdapterAborts(c)
  <2>1. Moved(c, "lock", call[c].op, call[c].sent)
    BY Zenon, <1>7, Aborts DEF AdapterAborts, States
  <2>2. SessionsOK' /\ Same
    BY Zenon, <1>7, SessionSteps, Streams DEF AdapterAborts
  <2>3. call[c].op \in Operations
    BY Zenon, <1>7 DEF AdapterAborts, Inv, CallsOK, Routed
  <2>4. Fits(c, "lock", call[c].op, call[c].sent, r.transfer, r.position, r.got, r.end)
    BY Zenon, <1>0, <1>7, <2>3 DEF AdapterAborts, Fits, Delivered
  <2>5. QED
    BY Zenon, <2>1, <2>2, <2>4, Composed
<1>8. CASE Quit(c)
  <2>1. SessionsOK'
    BY Zenon, <1>8, SessionSteps
  <2>2. QED
    BY Zenon, <1>8, <2>1, ReturnInv DEF Quit
<1>9. QED
  BY Zenon, <1>2, <1>3, <1>4, <1>5, <1>6, <1>7, <1>8 DEF Watcher

\* No step of the adapter, of its goroutines or of the network breaks Inv.
LEMMA StepInv == Inv /\ [Next]_vars => Inv'
<1> SUFFICES ASSUME Inv, [Next]_vars PROVE Inv'
  OBVIOUS
<1>1. ASSUME NEW c \in Clients,
             \/ Invoke(c) \/ Cancel(c) \/ Lock(c) \/ Step(c)
             \/ Deliver(c) \/ Transfer(c) \/ Watcher(c),
             workload' = workload
      PROVE  Inv'
  BY Zenon, <1>1, EntryInv, QueryInv, ChangeInv, TransferInv, CloseInv DEF Step
<1>2. ASSUME NEW s \in Sessions, QuitLate(s) \/ Drop(s), workload' = workload
      PROVE  Inv'
  <2>1. SessionsOK
    BY DEF Inv, SessionInvariant, TypeOK, SessionsOK
  <2>2. SessionsOK' /\ UNCHANGED <<opMu, object, call, stream, workload>>
    BY <1>2, <2>1, NetworkSteps DEF QuitLate, Drop
  <2>3. TypeOK' /\ NoSessionLeak'
    BY Zenon, <2>2 DEF Inv, SessionInvariant, TypeOK, SessionsOK
  <2>4. LockDiscipline' /\ CallsOK' /\ StreamsOK'
    BY ZenonT(60), <2>2 DEF Inv, SessionInvariant, LockDiscipline, Holds, CallsOK, StreamsOK,
                Handover, Routed, Vacant, Delivered, pc
  <2>5. QED
    BY Zenon, <2>3, <2>4 DEF Inv, SessionInvariant
<1>3. CASE UNCHANGED vars
  BY ZenonT(60), <1>3
     DEF vars, Inv, SessionInvariant, TypeOK, LockDiscipline, NoSessionLeak, Holds,
              CallsOK, StreamsOK, Handover, Routed, Vacant, Delivered, pc
<1>4. QED
  BY <1>1, <1>2, <1>3 DEF Next

\* The invariant holds throughout.
LEMMA Invariance == Spec => []Inv
  BY InitInv, StepInv, PTL DEF Spec

-----------------------------------------------------------------------------
\* opMu has one owner, the call or the transfer that works on the session, and
\* every open session is the current one or will be quit: for any number of
\* callers, whatever the network does and whenever the adapter is closed.
THEOREM LockAndSessions == Spec => []SessionInvariant
<1>1. Inv => SessionInvariant
  BY DEF Inv
<1>2. QED
  BY <1>1, Invariance, PTL

\* Open's replay after a lost connection never mixes two transfers, and a stream
\* that ends with EOF has delivered the whole object (Open's transfer goroutine).
THEOREM StreamsAreWhole == Spec => []WholeOrError
<1>1. Inv => WholeOrError
  BY Zenon DEF Inv, StreamsOK, Delivered, WholeOrError
<1>2. QED
  BY <1>1, Invariance, PTL

\* A rename or a remove whose reply may be lost is not sent again (Write and
\* Delete call withLocked without retry).
THEOREM ChangesAreSentOnce == Spec => []SentOnce
<1>1. Inv => SentOnce
  BY Zenon DEF Inv, CallsOK, Routed, SentOnce
<1>2. QED
  BY <1>1, Invariance, PTL

\* Between the Stat of a Write and its rename no other call of the adapter puts
\* an object there: opMu is not given up in between (Write).
THEOREM WritesDoNotClobber == Spec => NoClobber
<1>1. Inv /\ [Next]_vars =>
         [\A c \in Clients : pc(c) = "rename" /\ call'[c].sent => object = None]_vars
  BY DEF Inv, CallsOK, Vacant
<1>2. QED
  BY <1>1, Invariance, PTL DEF Spec, NoClobber

-----------------------------------------------------------------------------
(* IOFS: names and paths.                                                  *)

\* A path in the form ParsePath leaves it in.
Ordinary(p) ==
    /\ p \in Seq(Int) /\ p # <<>> /\ p[1] # Volume
    /\ \A i \in 1..Len(p) : p[i] \notin {Empty, Dot, DotDot, Backslash, Unc, Control}

Rank(v, i) == Cardinality({j \in Kept(v) : j <= i})

\* The places that are kept are numbered from 1, without gaps.
LEMMA Ranks ==
    ASSUME NEW v \in Seq(Int)
    PROVE  /\ Cardinality(Kept(v)) \in Nat
           /\ \A i, j \in Kept(v) : Rank(v, i) = Rank(v, j) => i = j
           /\ \A n \in 1..Cardinality(Kept(v)) : \E i \in Kept(v) : Rank(v, i) = n
<1> DEFINE K == Kept(v)
           Upto(i) == {j \in K : j <= i}
<1>1. K \subseteq 1..Len(v) /\ Len(v) \in Nat /\ K \subseteq Nat
  BY DEF Kept
<1>2. IsFiniteSet(K) /\ Cardinality(K) \in Nat
  <2>1. IsFiniteSet(1..Len(v)) /\ K \in SUBSET (1..Len(v))
    BY <1>1, FS_Interval
  <2>2. IsFiniteSet(K)
    BY Zenon, <2>1, FS_Subset
  <2>3. QED
    BY Zenon, <2>2, FS_CardinalityType
<1>3. ASSUME NEW i \in K
      PROVE  IsFiniteSet(Upto(i)) /\ Cardinality(Upto(i)) \in 1..Cardinality(K)
  <2>1. Upto(i) \in SUBSET K /\ i \in Upto(i)
    BY <1>1
  <2>2. IsFiniteSet(Upto(i)) /\ Cardinality(Upto(i)) <= Cardinality(K)
    BY Zenon, <1>2, <2>1, FS_Subset
  <2>3. Cardinality(Upto(i)) \in Nat /\ Cardinality(Upto(i)) # 0
    BY Zenon, <2>1, <2>2, FS_CardinalityType, FS_EmptySet
  <2>4. QED
    BY <1>2, <2>2, <2>3
<1>4. ASSUME NEW i \in K, NEW j \in K, i < j, Cardinality(Upto(i)) = Cardinality(Upto(j))
      PROVE  FALSE
  <2>1. Upto(i) \in SUBSET Upto(j)
    <3>1. \A h, k, l \in Nat : h <= k /\ k < l => h <= l
      OBVIOUS
    <3>2. QED
      BY Zenon, <1>1, <1>4, <3>1
  <2>2. Upto(i) = Upto(j)
    BY Zenon, <1>3, <1>4, <2>1, FS_Subset
  <2>3. j \in Upto(j) /\ j \notin Upto(i)
    BY <1>1, <1>4
  <2>4. QED
    BY Zenon, <2>2, <2>3
<1>5. ASSUME NEW i \in K, NEW j \in K, Rank(v, i) = Rank(v, j) PROVE i = j
  <2>1. i \in Nat /\ j \in Nat
    BY <1>1
  <2>2. ~(i < j) /\ ~(j < i)
    BY Zenon, <1>4, <1>5 DEF Rank
  <2>3. QED
    BY <2>1, <2>2
<1>6. \A i \in K : Rank(v, i) \in 1..Cardinality(K)
  BY Zenon, <1>3 DEF Rank
<1> DEFINE f == [i \in K |-> Rank(v, i)]
<1>7. f \in Injection(K, 1..Cardinality(K))
  <2>1. f \in [K -> 1..Cardinality(K)] /\ \A i \in K : f[i] = Rank(v, i)
    BY Zenon, <1>6
  <2>2. QED
    BY Zenon, <1>5, <2>1 DEF Injection, IsInjective
<1>8. f \in Surjection(K, 1..Cardinality(K))
  <2>1. IsFiniteSet(1..Cardinality(K)) /\ Cardinality(1..Cardinality(K)) = Cardinality(K)
    BY <1>2, FS_Interval
  <2>2. QED
    BY Zenon, <1>2, <1>7, <2>1, FS_Injection
<1>9. \A n \in 1..Cardinality(K) : \E i \in K : Rank(v, i) = n
  BY Zenon, <1>8 DEF Surjection
<1>10. QED
  BY Zenon, <1>2, <1>5, <1>9

\* Place finds the one place of a rank.
LEMMA PlaceFound ==
    ASSUME NEW v \in Seq(Int)
    PROVE  /\ \A n \in 1..Cardinality(Kept(v)) : Place(v, n) \in Kept(v)
           /\ \A i \in Kept(v) :
                 Rank(v, i) \in 1..Cardinality(Kept(v)) => Place(v, Rank(v, i)) = i
<1>1. ASSUME NEW n \in 1..Cardinality(Kept(v))
      PROVE  Place(v, n) \in Kept(v) /\ Rank(v, Place(v, n)) = n
  <2>1. \E i \in Kept(v) : Cardinality({j \in Kept(v) : j <= i}) = n
    BY Zenon, Ranks DEF Rank
  <2>2. QED
    BY Zenon, <2>1 DEF Place, Rank
<1>2. ASSUME NEW i \in Kept(v), Rank(v, i) \in 1..Cardinality(Kept(v))
      PROVE  Place(v, Rank(v, i)) = i
  BY Zenon, <1>1, <1>2, Ranks
<1>3. QED
  BY Zenon, <1>1, <1>2

\* Split, segment by segment.
LEMMA Halves ==
    ASSUME NEW name \in Seq(Int)
    PROVE  /\ Split(name) \in Seq(Int) /\ Len(Split(name)) = 2 * Len(name)
           /\ \A i \in 1..Len(name) : /\ Split(name)[2 * i - 1] = Pieces(name[i])[1]
                                      /\ Split(name)[2 * i] = Pieces(name[i])[2]
           /\ \A n \in 1..(2 * Len(name)) : \E i \in 1..Len(name) :
                 n = 2 * i - 1 \/ n = 2 * i
<1> DEFINE m == 2 * Len(name)
<1>1. Len(name) \in Nat /\ m \in Nat
  OBVIOUS
<1>2. ASSUME NEW n \in 1..m
      PROVE  /\ (n + 1) \div 2 \in 1..Len(name) /\ 2 - (n % 2) \in 1..2
             /\ n = 2 * ((n + 1) \div 2) - 1 \/ n = 2 * ((n + 1) \div 2)
  BY <1>1
<1>3. ASSUME NEW s \in Int, NEW j \in 1..2 PROVE Pieces(s)[j] \in Int
  BY DEF Pieces, Backslash, Unc, Empty
<1>4. ASSUME NEW n \in 1..m PROVE Pieces(name[(n + 1) \div 2])[2 - (n % 2)] \in Int
  <2>1. PICK i \in 1..Len(name), j \in 1..2 : i = (n + 1) \div 2 /\ j = 2 - (n % 2)
    BY Zenon, <1>2
  <2>2. name[i] \in Int
    OBVIOUS
  <2>3. QED
    BY Zenon, <1>3, <2>1, <2>2
<1>5. Split(name) = [n \in 1..m |-> Pieces(name[(n + 1) \div 2])[2 - (n % 2)]]
  BY Zenon DEF Split
<1> DEFINE f == [n \in 1..m |-> Pieces(name[(n + 1) \div 2])[2 - (n % 2)]]
<1>6. f \in Seq(Int) /\ Len(f) = m
  <2>1. f \in [1..m -> Int]
    BY Zenon, <1>4
  <2> HIDE DEF f, m
  <2>2. QED
    BY <1>1, <2>1
<1>7. ASSUME NEW i \in 1..Len(name)
      PROVE  f[2 * i - 1] = Pieces(name[i])[1] /\ f[2 * i] = Pieces(name[i])[2]
  <2>1. /\ 2 * i - 1 \in 1..m /\ ((2 * i - 1) + 1) \div 2 = i /\ 2 - ((2 * i - 1) % 2) = 1
        /\ 2 * i \in 1..m /\ (2 * i + 1) \div 2 = i /\ 2 - ((2 * i) % 2) = 2
    BY <1>1
  <2>2. QED
    BY Zenon, <2>1
<1>8. QED
  BY Zenon, <1>2, <1>5, <1>6, <1>7

\* The first n odd numbers.
LEMMA Odds ==
    ASSUME NEW n \in Nat
    PROVE  /\ IsFiniteSet({2 * k - 1 : k \in 1..n})
           /\ Cardinality({2 * k - 1 : k \in 1..n}) = n
<1> DEFINE T == 1..n
           U == {2 * k - 1 : k \in T}
           f == [k \in T |-> 2 * k - 1]
<1>1. IsFiniteSet(T) /\ Cardinality(T) = n
  <2>1. IsFiniteSet(1..n) /\ Cardinality(1..n) = IF 1 > n THEN 0 ELSE n - 1 + 1
    BY FS_Interval
  <2>2. QED
    BY <2>1
<1>2. f \in Injection(T, U)
  <2>1. f \in [T -> U] /\ \A k \in T : f[k] = 2 * k - 1
    BY Zenon
  <2>2. \A i, j \in T : 2 * i - 1 = 2 * j - 1 => i = j
    OBVIOUS
  <2>3. QED
    BY Zenon, <2>1, <2>2 DEF Injection, IsInjective
<1>3. f \in Surjection(T, U)
  BY Zenon DEF Surjection
<1>4. ExistsBijection(T, U)
  BY Zenon, <1>2, <1>3 DEF ExistsBijection, Bijection
<1> HIDE DEF T, U
<1>5. IsFiniteSet(U) /\ Cardinality(U) = n
  BY Zenon, <1>1, <1>4, FS_Bijection
<1>6. QED
  BY Zenon, <1>5 DEF T, U

\* The segments of an ordinary path have nothing to drop.
LEMMA NormalizedOrdinary ==
    ASSUME NEW p, Ordinary(p)
    PROVE  /\ normalized(Split(p)) = p
           /\ \A n \in 1..Len(Split(p)) : Split(p)[n] \notin {Control, DotDot}
<1> DEFINE v == Split(p)
           l == Len(p)
<1>1. p \in Seq(Int) /\ l \in Nat
  BY DEF Ordinary
<1>2. /\ v \in Seq(Int) /\ Len(v) = 2 * l
      /\ \A i \in 1..l : v[2 * i - 1] = p[i] /\ v[2 * i] = Empty
      /\ \A n \in 1..(2 * l) : \E i \in 1..l : n = 2 * i - 1 \/ n = 2 * i
  <2>1. \A i \in 1..l : Pieces(p[i])[1] = p[i] /\ Pieces(p[i])[2] = Empty
    <3>1. \A i \in 1..l : Pieces(p[i]) = <<p[i], Empty>>
      BY DEF Ordinary, Pieces
    <3>2. QED
      BY <3>1
  <2>2. /\ v \in Seq(Int) /\ Len(v) = 2 * l
        /\ \A i \in 1..l : v[2 * i - 1] = Pieces(p[i])[1] /\ v[2 * i] = Pieces(p[i])[2]
        /\ \A n \in 1..(2 * l) : \E i \in 1..l : n = 2 * i - 1 \/ n = 2 * i
    BY Zenon, <1>1, Halves
  <2>3. QED
    BY Zenon, <2>1, <2>2
<1> HIDE DEF v, l
<1>3. Kept(v) = {2 * i - 1 : i \in 1..l}
  <2>1. ASSUME NEW n \in Kept(v) PROVE n \in {2 * i - 1 : i \in 1..l}
    <3>1. n \in 1..(2 * l) /\ v[n] # Empty
      BY Zenon, <1>2 DEF Kept
    <3>2. QED
      BY Zenon, <1>2, <3>1
  <2>2. ASSUME NEW i \in 1..l PROVE 2 * i - 1 \in Kept(v)
    <3>1. v[2 * i - 1] \notin {Empty, Dot}
      BY ZenonT(60), <1>2 DEF Ordinary, l
    <3>2. 2 * i - 1 \in 1..Len(v)
      BY <1>1, <1>2
    <3>3. QED
      BY Zenon, <3>1, <3>2 DEF Kept
  <2>3. QED
    BY Zenon, <2>1, <2>2
<1>4. Cardinality(Kept(v)) = l
  BY Zenon, <1>1, <1>3, Odds
<1>5. ASSUME NEW n \in 1..l PROVE Place(v, n) = 2 * n - 1
  <2>1. {j \in Kept(v) : j <= 2 * n - 1} = {2 * k - 1 : k \in 1..n}
    <3>1. \A k \in 1..l : 2 * k - 1 <= 2 * n - 1 => k \in 1..n
      BY <1>1
    <3>2. \A k \in 1..n : k \in 1..l /\ 2 * k - 1 <= 2 * n - 1
      BY <1>1
    <3>3. QED
      BY Zenon, <1>3, <3>1, <3>2
  <2>2. Rank(v, 2 * n - 1) = n
    <3>1. n \in Nat
      BY <1>1
    <3>2. QED
      BY Zenon, <2>1, <3>1, Odds DEF Rank
  <2>3. 2 * n - 1 \in Kept(v)
    BY Zenon, <1>3
  <2>4. QED
    BY Zenon, <1>2, <1>4, <2>2, <2>3, PlaceFound
<1>6. normalized(v) = [n \in 1..l |-> p[n]]
  <2>1. \A n \in 1..l : v[Place(v, n)] = p[n]
    BY Zenon, <1>2, <1>5
  <2>2. QED
    BY Zenon, <1>4, <2>1 DEF normalized
<1>7. normalized(v) = p
  BY <1>1, <1>6 DEF l
<1>8. ASSUME NEW n \in 1..Len(v) PROVE v[n] \notin {Control, DotDot}
  <2>1. PICK i \in 1..l : n = 2 * i - 1 \/ n = 2 * i
    BY Zenon, <1>2
  <2>2. v[n] = p[i] \/ v[n] = Empty
    BY Zenon, <1>2, <2>1
  <2>3. p[i] \notin {Control, DotDot}
    BY Zenon DEF Ordinary, l
  <2>4. QED
    BY <2>2, <2>3 DEF Empty, Control, DotDot
<1>9. QED
  BY Zenon, <1>7, <1>8 DEF v

\* ParsePath leaves an ordinary path as it is.
LEMMA ParseOrdinary ==
    ASSUME NEW p, Ordinary(p)
    PROVE  ParsePath(p) = p
<1>1. p[1] # Unc /\ p[1] # Volume /\ p # <<>>
  <2>1. 1 \in 1..Len(p)
    BY DEF Ordinary
  <2>2. QED
    BY Zenon, <2>1 DEF Ordinary
<1>2. PICK v : /\ v = Split(p) /\ normalized(v) = p
               /\ \A n \in 1..Len(v) : v[n] \notin {Control, DotDot}
  BY Zenon, NormalizedOrdinary
<1>3. QED
  BY <1>1, <1>2 DEF ParsePath, hasWindowsVolume

\* No backslash is left in the pieces of a segment.
LEMMA NoBackslash ==
    \A s \in Int : \A j \in 1..2 : Pieces(s)[j] \notin {Backslash, Unc}
<1> SUFFICES ASSUME NEW s \in Int
             PROVE  \A j \in 1..2 : Pieces(s)[j] \notin {Backslash, Unc}
  OBVIOUS
<1>1. \/ Pieces(s) = <<1, 2>> \/ Pieces(s) = <<Empty, 1>>
      \/ Pieces(s) = <<s, Empty>> /\ s # Backslash /\ s # Unc
  BY DEF Pieces
<1>2. QED
  BY <1>1 DEF Backslash, Unc, Empty

\* What ParsePath returns is an ordinary path, or none.
LEMMA ParsedOrdinary ==
    ASSUME NEW name \in Seq(Int), ParsePath(name) # Invalid
    PROVE  Ordinary(ParsePath(name))
<1> DEFINE v == Split(name)
           q == normalized(v)
           c == Cardinality(Kept(v))
<1>1. /\ v \in Seq(Int)
      /\ \A i \in 1..Len(name) : /\ v[2 * i - 1] = Pieces(name[i])[1]
                                 /\ v[2 * i] = Pieces(name[i])[2]
      /\ \A n \in 1..Len(v) : \E i \in 1..Len(name) : n = 2 * i - 1 \/ n = 2 * i
  BY Zenon, Halves
<1>2. /\ ParsePath(name) = q /\ q # <<>> /\ q[1] # Volume
      /\ \A i \in 1..Len(v) : v[i] \notin {Control, DotDot}
  BY Zenon DEF ParsePath, hasWindowsVolume
<1>3. ASSUME NEW n \in 1..Len(v) PROVE v[n] \notin {Backslash, Unc}
  <2>1. PICK i \in 1..Len(name) : n = 2 * i - 1 \/ n = 2 * i
    BY Zenon, <1>1
  <2>2. v[n] = Pieces(name[i])[1] \/ v[n] = Pieces(name[i])[2]
    BY Zenon, <1>1, <2>1
  <2>3. \A s \in Int : \A j \in 1..2 : Pieces(s)[j] \notin {Backslash, Unc}
    BY Zenon, NoBackslash
  <2>4. name[i] \in Int /\ 1 \in 1..2 /\ 2 \in 1..2
    OBVIOUS
  <2>5. QED
    BY Zenon, <2>2, <2>3, <2>4
<1>4. c \in Nat /\ \A n \in 1..c : Place(v, n) \in Kept(v)
  BY Zenon, <1>1, Ranks, PlaceFound
<1>5. q = [n \in 1..c |-> v[Place(v, n)]]
  BY Zenon DEF normalized
<1>6. ASSUME NEW n \in 1..c
      PROVE  q[n] \in Int /\ q[n] \notin {Empty, Dot, DotDot, Backslash, Unc, Control}
  <2>1. PICK k \in 1..Len(v) : k = Place(v, n) /\ v[k] \notin {Empty, Dot}
    BY Zenon, <1>4 DEF Kept
  <2>2. q[n] = v[k]
    BY Zenon, <1>5, <2>1
  <2>3. v[k] \in Int
    BY <1>1
  <2>4. QED
    BY Zenon, <1>2, <1>3, <2>1, <2>2, <2>3
<1> HIDE DEF v, q, c
<1>7. q \in Seq(Int) /\ Len(q) = c
  <2>1. q \in [1..c -> Int]
    BY Zenon, <1>5, <1>6
  <2>2. QED
    BY <1>4, <2>1
<1>8. QED
  BY Zenon, <1>2, <1>6, <1>7 DEF Ordinary

\* The error of ParsePath is no path.
LEMMA InvalidIsNoPath == ~Ordinary(Invalid) /\ Invalid # Root
<1>1. 1 \in 1..Len(Invalid) /\ Invalid[1] = Empty
  BY DEF Invalid
<1>2. Invalid # Root
  BY DEF Invalid, Root
<1>3. QED
  BY Zenon, <1>1, <1>2 DEF Ordinary

\* What a store keeps is under paths that ParsePath leaves as they are.
LEMMA KeysAreOrdinary ==
    ASSUME NEW k \in Keys
    PROVE  Ordinary(k)
<1>1. k \in Seq(Int) /\ k # Invalid /\ ParsePath(k) = k
  BY Zenon, IOFSAssumption
<1>2. QED
  BY Zenon, <1>1, ParsedOrdinary

\* An io/fs name is the path it stands for.
LEMMA NameIsPath ==
    ASSUME NEW name \in Seq(Int), name # <<>>, ioFSPath(name) # Invalid
    PROVE  /\ ioFSPath(name) = IF name = <<Dot>> THEN Root ELSE name
           /\ name # <<Dot>> => Ordinary(name)
<1>1. CASE name = <<Dot>>
  BY Zenon, <1>1 DEF ioFSPath
<1>2. CASE name # <<Dot>>
  <2>1. /\ ioFSPath(name) = ParsePath(name) /\ ParsePath(name) # Invalid
        /\ \A i \in 1..Len(name) : name[i] \notin {Empty, Dot, DotDot, Backslash, Unc}
    BY Zenon, <1>2 DEF ioFSPath, ValidPath
  <2>2. /\ name[1] # Volume
        /\ \A i \in 1..Len(Split(name)) : Split(name)[i] # Control
    BY Zenon, <2>1 DEF ParsePath, hasWindowsVolume
  <2>3. ASSUME NEW i \in 1..Len(name) PROVE name[i] # Control
    <3>1. Split(name)[2 * i - 1] = Pieces(name[i])[1] /\ Len(Split(name)) = 2 * Len(name)
      BY Zenon, Halves
    <3>2. Pieces(name[i])[1] = name[i]
      <4>1. Pieces(name[i]) = <<name[i], Empty>>
        BY <2>1 DEF Pieces
      <4>2. QED
        BY <4>1
    <3>3. 2 * i - 1 \in 1..Len(Split(name))
      BY <3>1
    <3>4. QED
      BY Zenon, <2>2, <3>1, <3>2, <3>3
  <2>4. Ordinary(name)
    BY Zenon, <2>1, <2>2, <2>3 DEF Ordinary
  <2>5. QED
    BY Zenon, <1>2, <2>1, <2>4, ParseOrdinary
<1>3. QED
  BY Zenon, <1>1, <1>2

\* An ordinary path is the io/fs name of itself.
LEMMA PathIsName ==
    ASSUME NEW p, Ordinary(p)
    PROVE  ioFSPath(p) = p
<1>1. \A i \in 1..Len(p) : p[i] \notin {Empty, Dot, DotDot, Backslash, Unc}
  BY Zenon DEF Ordinary
<1>2. p # <<Dot>>
  <2>1. p[1] # Dot
    <3>1. 1 \in 1..Len(p)
      BY DEF Ordinary
    <3>2. QED
      BY Zenon, <1>1, <3>1
  <2>2. <<Dot>>[1] = Dot
    OBVIOUS
  <2>3. QED
    BY Zenon, <2>1, <2>2
<1>3. ValidPath(p)
  BY Zenon, <1>1 DEF ValidPath
<1>4. QED
  BY Zenon, <1>1, <1>2, <1>3, ParseOrdinary DEF ioFSPath

\* One ordinary path after another is one again.
LEMMA Concatenated ==
    ASSUME NEW k, Ordinary(k), NEW p, Ordinary(p)
    PROVE  Ordinary(k \o p)
<1>1. /\ k \in Seq(Int) /\ p \in Seq(Int) /\ Len(k) \in Nat \ {0} /\ Len(p) \in Nat
      /\ k \o p \in Seq(Int) /\ Len(k \o p) = Len(k) + Len(p)
      /\ \A i \in 1..Len(k) : (k \o p)[i] = k[i]
      /\ \A i \in (Len(k) + 1)..(Len(k) + Len(p)) : (k \o p)[i] = p[i - Len(k)]
  BY DEF Ordinary
<1>2. k \o p # <<>> /\ 1 \in 1..Len(k)
  BY <1>1
<1>3. ASSUME NEW i \in 1..Len(k \o p)
      PROVE  (k \o p)[i] \notin {Empty, Dot, DotDot, Backslash, Unc, Control}
  <2>1. i \in 1..Len(k) \/ (i \in (Len(k) + 1)..(Len(k) + Len(p)) /\ i - Len(k) \in 1..Len(p))
    BY <1>1
  <2>2. QED
    BY Zenon, <1>1, <2>1 DEF Ordinary
<1>4. QED
  BY Zenon, <1>1, <1>2, <1>3 DEF Ordinary

\* Join puts a parsed name beneath a key, and Dir leads back.
LEMMA Joined ==
    ASSUME NEW name \in Seq(Int), NEW p, p = ParsePath(name), p # Invalid,
           NEW k \in Keys \cup {Root}
    PROVE  Join(k, name) = k \o p /\ Dir(k \o <<Base(p)>>) = k
<1>1. Ordinary(p)
  BY Zenon, ParsedOrdinary
<1>2. Join(k, name) = k \o p
  <2>1. CASE k = Root
    <3>1. Root \o p = p
      BY <1>1 DEF Ordinary, Root
    <3>2. QED
      BY Zenon, <2>1, <3>1 DEF Join
  <2>2. CASE k # Root
    <3>1. Ordinary(k)
      BY Zenon, <2>2, KeysAreOrdinary
    <3>2. ParsePath(k \o p) = k \o p
      BY Zenon, <1>1, <3>1, Concatenated, ParseOrdinary
    <3>3. QED
      BY Zenon, <2>2, <3>2 DEF Join
  <2>3. QED
    BY Zenon, <2>1, <2>2
<1>3. Dir(k \o <<Base(p)>>) = k
  <2>1. k \in Seq(Int)
    <3>1. Root \in Seq(Int)
      BY DEF Root
    <3>2. QED
      BY Zenon, <3>1, KeysAreOrdinary DEF Ordinary
  <2>2. Base(p) \in Int
    BY <1>1 DEF Ordinary, Base
  <2>3. ASSUME NEW b \in Int
        PROVE  k \o <<b>> # <<>> /\ SubSeq(k \o <<b>>, 1, Len(k \o <<b>>) - 1) = k
    BY <2>1
  <2>4. QED
    BY Zenon, <2>2, <2>3 DEF Dir, Root
<1>4. QED
  BY Zenon, <1>2, <1>3

-----------------------------------------------------------------------------
(* Entries.                                                                *)

DirEntry == [path : Seq(Int), kind : {"file", "directory"}]

\* An entry of the directory p: a path with one segment more.
ChildOf(e, p) ==
    /\ Ordinary(e.path)
    /\ Len(e.path) = Len(p) + 1 /\ SubSeq(e.path, 1, Len(p)) = p

Distinct(s) == \A i, j \in 1..Len(s) : s[i] = s[j] => i = j

\* The name of a directory and that of an entry in it make up the entry's path.
LEMMA ChildName ==
    ASSUME NEW p, p = Root \/ Ordinary(p), NEW e, ChildOf(e, p)
    PROVE  e.path = ioFSPath(Append(p, Base(e.path)))
<1>1. PICK q : q = e.path
  BY Zenon
<1>2. Ordinary(q) /\ Len(q) = Len(p) + 1 /\ SubSeq(q, 1, Len(p)) = p
  BY Zenon, <1>1 DEF ChildOf
<1>3. q \in Seq(Int) /\ p \in Seq(Int)
  BY <1>2 DEF Ordinary, Root
<1>4. Append(p, Base(q)) = q
  <2>1. \A i \in 1..Len(p) : q[i] = p[i]
    BY <1>2, <1>3
  <2>2. Base(q) = q[Len(p) + 1]
    BY Zenon, <1>2 DEF Base
  <2>3. QED
    BY <1>2, <1>3, <2>1, <2>2
<1>5. QED
  BY Zenon, <1>1, <1>2, <1>4, PathIsName

\* Sequences.
LEMMA NoneAtAll ==
    /\ \A S : <<>> \in Seq(S)
    /\ Len(<<>>) = 0 /\ Range(<<>>) = {} /\ \A s : SubSeq(s, 1, 0) = <<>>
<1>1. \A S : <<>> \in Seq(S)
  OBVIOUS
<1>2. Len(<<>>) = 0 /\ Range(<<>>) = {}
  BY DEF Range
<1>3. \A s : SubSeq(s, 1, 0) = <<>>
  OBVIOUS
<1>4. QED
  BY Zenon, <1>1, <1>2, <1>3

\* Nothing appended changes nothing.
LEMMA WithNothing ==
    ASSUME NEW S, NEW s \in Seq(S)
    PROVE  <<>> \o s = s /\ s \o <<>> = s
  OBVIOUS

\* The first n of a sequence.
LEMMA Beginning ==
    ASSUME NEW S, NEW s \in Seq(S), NEW n \in 0..Len(s)
    PROVE  /\ SubSeq(s, 1, n) \in Seq(S) /\ Len(SubSeq(s, 1, n)) = n /\ n \in Nat
           /\ \A i \in 1..n : i \in 1..Len(s) /\ SubSeq(s, 1, n)[i] = s[i] /\ s[i] \in S
  OBVIOUS

\* A table is a sequence.
LEMMA TableIsSequence ==
    ASSUME NEW S, NEW n \in Nat, NEW s \in [1..n -> S]
    PROVE  s \in Seq(S) /\ Len(s) = n
  OBVIOUS

\* A sequence over a set is one over any larger set.
LEMMA WiderSequence ==
    ASSUME NEW S, NEW T, S \subseteq T, NEW s \in Seq(S)
    PROVE  s \in Seq(T)
  OBVIOUS

\* Two sequences of one length with the same places are the same.
LEMMA SameSequence ==
    ASSUME NEW S, NEW a \in Seq(S), NEW b \in Seq(S), Len(a) = Len(b),
           \A i \in 1..Len(b) : a[i] = b[i]
    PROVE  a = b
  OBVIOUS

\* What lies beneath a path is ordinary up to its child.
LEMMA BeneathChild ==
    ASSUME NEW p, p = Root \/ Ordinary(p), NEW k \in Beneath(p),
           NEW e, e.path = SubSeq(k, 1, Len(p) + 1)
    PROVE  e.path \in Seq(Int) /\ ChildOf(e, p)
<1>1. PICK q : q = e.path
  BY Zenon
<1>2. Ordinary(k) /\ Len(p) < Len(k) /\ SubSeq(k, 1, Len(p)) = p
  BY Zenon, KeysAreOrdinary DEF Beneath, Under
<1>3. k \in Seq(Int) /\ Len(k) \in Nat /\ p \in Seq(Int) /\ Len(p) \in Nat
  BY <1>2 DEF Ordinary, Root
<1>4. /\ q \in Seq(Int) /\ Len(q) = Len(p) + 1
      /\ \A i \in 1..(Len(p) + 1) : i \in 1..Len(k) /\ q[i] = k[i]
  BY <1>1, <1>2, <1>3
<1>5. Ordinary(q)
  <2>1. q # <<>> /\ 1 \in 1..(Len(p) + 1)
    BY <1>3, <1>4
  <2>2. QED
    BY Zenon, <1>2, <1>4, <2>1 DEF Ordinary
<1>6. SubSeq(q, 1, Len(p)) = p
  <2>1. \A i \in 1..Len(p) : p[i] = k[i]
    BY <1>2, <1>3
  <2>2. /\ SubSeq(q, 1, Len(p)) \in Seq(Int) /\ Len(SubSeq(q, 1, Len(p))) = Len(p)
        /\ \A i \in 1..Len(p) : SubSeq(q, 1, Len(p))[i] = p[i]
    <3>1. Len(p) \in 0..Len(q)
      BY <1>3, <1>4
    <3>2. \A i \in 1..Len(p) : q[i] = p[i]
      <4>1. \A i \in 1..Len(p) : i \in 1..(Len(p) + 1)
        BY <1>3
      <4>2. QED
        BY Zenon, <1>4, <2>1, <4>1
    <3>3. PICK n \in 0..Len(q) : n = Len(p)
      BY Zenon, <3>1
    <3>4. /\ SubSeq(q, 1, n) \in Seq(Int) /\ Len(SubSeq(q, 1, n)) = n /\ n \in Nat
          /\ \A i \in 1..n : i \in 1..Len(q) /\ SubSeq(q, 1, n)[i] = q[i] /\ q[i] \in Int
      <4>1. q \in Seq(Int)
        BY Zenon, <1>4
      <4>2. QED
        BY Zenon, <4>1, Beginning
    <3>5. QED
      BY Zenon, <3>2, <3>3, <3>4
  <2>3. QED
    BY Zenon, <1>3, <2>2, SameSequence
<1>7. QED
  BY Zenon, <1>1, <1>4, <1>5, <1>6 DEF ChildOf

\* A directory has finitely many children.
LEMMA FinitelyMany ==
    ASSUME NEW p
    PROVE  IsFiniteSet(Children(p))
<1> DEFINE B == Beneath(p)
           C == {SubSeq(k, 1, Len(p) + 1) : k \in B}
           K == {"file", "directory"}
           f == [k \in B |-> SubSeq(k, 1, Len(p) + 1)]
           g == [x \in C \X K |-> [path |-> x[1], kind |-> x[2]]]
<1>1. IsFiniteSet(B)
  <2>1. B \in SUBSET Keys
    BY Zenon DEF Beneath
  <2>2. QED
    BY Zenon, <2>1, IOFSAssumption, FS_Subset
<1>2. IsFiniteSet(C)
  <2>1. f \in Surjection(B, C)
    BY Zenon DEF Surjection
  <2>2. QED
    BY Zenon, <1>1, <2>1, FS_Surjection
<1>3. IsFiniteSet(K)
  <2>1. IsFiniteSet({"file"}) /\ IsFiniteSet({"directory"})
    BY Zenon, FS_Singleton
  <2>2. K = {"file"} \cup {"directory"}
    BY Zenon
  <2>3. QED
    BY ZenonT(60), <2>1, <2>2, FS_Union
<1> HIDE DEF C, K
<1>4. IsFiniteSet(C \X K)
  BY Zenon, <1>2, <1>3, FS_Product
<1>5. g \in Surjection(C \X K, Children(p))
  <2>1. Children(p) = [path : C, kind : K]
    BY Zenon DEF Children, C, K
  <2>2. ASSUME NEW x \in C \X K PROVE g[x] \in Children(p)
    BY <2>1
  <2>3. ASSUME NEW e \in Children(p) PROVE \E x \in C \X K : g[x] = e
    <3>1. e = [path |-> e.path, kind |-> e.kind] /\ e.path \in C /\ e.kind \in K
      BY <2>1
    <3>2. <<e.path, e.kind>> \in C \X K /\ g[<<e.path, e.kind>>] = e
      BY <3>1
    <3>3. QED
      BY Zenon, <3>2
  <2>4. g \in [C \X K -> Children(p)]
    BY Zenon, <2>2
  <2>5. QED
    BY Zenon, <2>3, <2>4 DEF Surjection
<1>6. QED
  BY Zenon, <1>4, <1>5, FS_Surjection

\* What an iterator gives: children, each once, and none only of what has none.
LEMMA Listing ==
    ASSUME NEW p, p = Root \/ Ordinary(p), NEW limit \in Nat \ {0}, NEW s \in Listings(p, limit)
    PROVE  /\ s \in Seq(DirEntry) /\ Distinct(s)
           /\ \A e \in Range(s) : ChildOf(e, p)
           /\ s = <<>> <=> Beneath(p) = {}
<1> DEFINE low(n) == IF n < limit THEN n ELSE limit
<1>0. PICK set \in SUBSET Children(p) :
         Shows(set, p) /\ \E t \in Bijection(1..Cardinality(set), set) :
                             s = SubSeq(t, 1, low(Len(t)))
  BY Zenon DEF Listings
<1>1. PICK t \in Bijection(1..Cardinality(set), set) :
         Shows(set, p) /\ s = SubSeq(t, 1, low(Len(t)))
  BY Zenon, <1>0
<1>2. Cardinality(set) \in Nat /\ IsFiniteSet(set)
  BY Zenon, <1>1, FinitelyMany, FS_Subset, FS_CardinalityType
<1>3. ASSUME NEW e \in set PROVE e \in DirEntry /\ ChildOf(e, p)
  <2>1. /\ e.path \in {SubSeq(k, 1, Len(p) + 1) : k \in Beneath(p)}
        /\ e.kind \in {"file", "directory"} /\ e = [path |-> e.path, kind |-> e.kind]
    BY Zenon DEF Children
  <2>2. PICK k \in Beneath(p) : e.path = SubSeq(k, 1, Len(p) + 1)
    BY Zenon, <2>1
  <2>3. e.path \in Seq(Int) /\ ChildOf(e, p)
    BY Zenon, <2>2, BeneathChild
  <2>4. e \in DirEntry
    BY Zenon, <2>1, <2>2, <2>3 DEF DirEntry
  <2>5. QED
    BY Zenon, <2>3, <2>4
<1>4. /\ t \in [1..Cardinality(set) -> set]
      /\ \A i, j \in 1..Cardinality(set) : t[i] = t[j] => i = j
  BY Zenon DEF Bijection, Injection, IsInjective
<1>5. t \in Seq(set) /\ Len(t) = Cardinality(set)
  BY Zenon, <1>2, <1>4, TableIsSequence
<1>6. PICK n \in 0..Len(t) : n = low(Len(t)) /\ (n = 0 <=> Len(t) = 0)
  BY <1>2, <1>5
<1>7. /\ s \in Seq(set) /\ Len(s) = n /\ n \in Nat
      /\ \A i \in 1..n : i \in 1..Len(t) /\ s[i] = t[i] /\ s[i] \in set
  <2>1. s = SubSeq(t, 1, n) /\ n \in 0..Len(t)
    BY Zenon, <1>1, <1>6
  <2>2. /\ SubSeq(t, 1, n) \in Seq(set) /\ Len(SubSeq(t, 1, n)) = n /\ n \in Nat
        /\ \A i \in 1..n : i \in 1..Len(t) /\ SubSeq(t, 1, n)[i] = t[i] /\ t[i] \in set
    BY Zenon, <1>5, <2>1, Beginning
  <2>3. QED
    BY Zenon, <2>1, <2>2
<1>8. s \in Seq(DirEntry)
  <2>1. set \subseteq DirEntry
    BY Zenon, <1>3
  <2>2. QED
    BY Zenon, <1>7, <2>1, WiderSequence
<1>9. Distinct(s)
  BY Zenon, <1>4, <1>5, <1>7 DEF Distinct
<1>10. ASSUME NEW e \in Range(s) PROVE ChildOf(e, p)
  <2>1. PICK i \in 1..n : e = s[i]
    BY <1>7 DEF Range
  <2>2. QED
    BY Zenon, <1>3, <1>7, <2>1
<1>11. s = <<>> <=> set = {}
  <2>1. s = <<>> <=> n = 0
    BY <1>7
  <2>2. Cardinality(set) = 0 <=> set = {}
    BY Zenon, <1>2, FS_EmptySet
  <2>3. QED
    BY Zenon, <1>5, <1>6, <2>1, <2>2
<1>12. set = {} <=> Beneath(p) = {}
  <2>1. ASSUME NEW e \in set PROVE Beneath(p) # {}
    BY Zenon DEF Children
  <2>2. ASSUME NEW k \in Beneath(p) PROVE set # {}
    <3>1. [path |-> SubSeq(k, 1, Len(p) + 1), kind |-> "file"] \in Children(p)
      BY Zenon DEF Children
    <3>2. QED
      BY Zenon, <1>1, <3>1 DEF Shows
  <2>3. QED
    BY Zenon, <2>1, <2>2
<1>13. QED
  BY Zenon, <1>8, <1>9, <1>10, <1>11, <1>12

\* Sorting only rearranges the entries, and leaves them in order.
LEMMA SortedEntries ==
    ASSUME NEW c \in Seq(DirEntry), NEW s \in Sorted(c)
    PROVE  /\ s \in Seq(DirEntry) /\ Len(s) = Len(c) /\ Range(s) = Range(c)
           /\ \A i \in 1..(Len(s) - 1) : Base(s[i].path) <= Base(s[i + 1].path)
<1> DEFINE places == 1..Len(c)
<1>1. PICK f \in Bijection(places, places) :
         /\ \A i, j \in places : i < j => Base(c[f[i]].path) <= Base(c[f[j]].path)
         /\ s = [i \in places |-> c[f[i]]]
  BY Zenon DEF Sorted
<1>2. f \in [places -> places] /\ \A k \in places : \E i \in places : f[i] = k
  BY Zenon DEF Bijection, Injection, Surjection
<1>3. Len(c) \in Nat /\ (\A i \in places : c[i] \in DirEntry) /\ DOMAIN c = places
  OBVIOUS
<1>4. (\A i \in places : s[i] = c[f[i]] /\ f[i] \in places) /\ DOMAIN s = places
  BY Zenon, <1>1, <1>2
<1>5. s \in [places -> DirEntry]
  BY Zenon, <1>1, <1>2, <1>3
<1>6. s \in Seq(DirEntry) /\ Len(s) = Len(c)
  BY Zenon, <1>3, <1>5, TableIsSequence
<1>7. Range(s) = Range(c)
  <2>1. ASSUME NEW x \in Range(s) PROVE x \in Range(c)
    <3>1. PICK i \in places : x = s[i]
      BY Zenon, <1>4 DEF Range
    <3>2. x = c[f[i]] /\ f[i] \in DOMAIN c
      BY Zenon, <1>3, <1>4, <3>1
    <3>3. QED
      BY Zenon, <3>2 DEF Range
  <2>2. ASSUME NEW x \in Range(c) PROVE x \in Range(s)
    <3>1. PICK k \in places : x = c[k]
      BY Zenon, <1>3 DEF Range
    <3>2. PICK i \in places : f[i] = k
      BY Zenon, <1>2
    <3>3. QED
      BY Zenon, <1>4, <3>1, <3>2 DEF Range
  <2>3. QED
    BY Zenon, <2>1, <2>2
<1>8. ASSUME NEW i \in 1..(Len(s) - 1) PROVE Base(s[i].path) <= Base(s[i + 1].path)
  <2>1. i \in places /\ i + 1 \in places /\ i < i + 1
    BY <1>3, <1>6
  <2>2. QED
    BY Zenon, <1>1, <1>4, <2>1
<1>9. QED
  BY Zenon, <1>6, <1>7, <1>8

\* A sequence without repetitions has as many members as places.
LEMMA CountEntries ==
    ASSUME NEW S, NEW s \in Seq(S), Distinct(s)
    PROVE  Cardinality(Range(s)) = Len(s)
<1>1. Len(s) \in Nat /\ DOMAIN s = 1..Len(s)
  OBVIOUS
<1>2. IsFiniteSet(1..Len(s)) /\ Cardinality(1..Len(s)) = Len(s)
  <2>1. /\ IsFiniteSet(1..Len(s))
        /\ Cardinality(1..Len(s)) = IF 1 > Len(s) THEN 0 ELSE Len(s) - 1 + 1
    BY SMTT(60), <1>1, FS_Interval
  <2>2. QED
    BY <1>1, <2>1
<1>3. s \in [1..Len(s) -> Range(s)]
  BY <1>1 DEF Range
<1>4. s \in Bijection(1..Len(s), Range(s))
  <2>1. s \in Injection(1..Len(s), Range(s))
    BY Zenon, <1>3 DEF Injection, IsInjective, Distinct
  <2>2. s \in Surjection(1..Len(s), Range(s))
    BY Zenon, <1>1, <1>3 DEF Surjection, Range
  <2>3. QED
    BY Zenon, <2>1, <2>2 DEF Bijection
<1>5. ExistsBijection(1..Len(s), Range(s))
  BY Zenon, <1>4 DEF ExistsBijection
<1>6. QED
  BY Zenon, <1>2, <1>5, FS_Bijection

\* The iterator's next entry goes from what is to come to what is collected.
LEMMA Shifts ==
    ASSUME NEW S, NEW c \in Seq(S), NEW r \in Seq(S), r # <<>>
    PROVE  /\ Append(c, Head(r)) \in Seq(S) /\ Tail(r) \in Seq(S)
           /\ Append(c, Head(r)) \o Tail(r) = c \o r
           /\ Range(Append(c, Head(r))) \subseteq Range(c) \cup Range(r)
           /\ Range(Tail(r)) \subseteq Range(r)
           /\ Append(c, Head(r)) # <<>>
<1>1. Append(c, Head(r)) \in Seq(S) /\ Tail(r) \in Seq(S) /\ Append(c, Head(r)) # <<>>
  OBVIOUS
<1>2. Append(c, Head(r)) \o Tail(r) = c \o r
  BY SMTT(60)
<1>3. ASSUME NEW x \in Range(Append(c, Head(r))) PROVE x \in Range(c) \cup Range(r)
  <2>1. PICK i \in 1..(Len(c) + 1) : x = Append(c, Head(r))[i]
    BY <1>3 DEF Range
  <2>2. (i \in DOMAIN c /\ x = c[i]) \/ (1 \in DOMAIN r /\ x = r[1])
    BY <2>1
  <2>3. QED
    BY Zenon, <2>2 DEF Range
<1>4. ASSUME NEW x \in Range(Tail(r)) PROVE x \in Range(r)
  <2>1. PICK i \in 1..(Len(r) - 1) : x = Tail(r)[i]
    BY <1>4 DEF Range
  <2>2. i + 1 \in DOMAIN r /\ x = r[i + 1]
    BY <2>1
  <2>3. QED
    BY Zenon, <2>2 DEF Range
<1>5. QED
  BY Zenon, <1>1, <1>2, <1>3, <1>4

\* Two adjacent pieces of a sequence make one.
LEMMA Adjacent ==
    ASSUME NEW S, NEW c \in Seq(S), NEW o \in 0..Len(c), NEW m \in 0..Len(c), o <= m
    PROVE  SubSeq(c, 1, o) \o SubSeq(c, o + 1, m) = SubSeq(c, 1, m)
  OBVIOUS

-----------------------------------------------------------------------------
(* The inductive invariant.                                                *)

\* Whatever has been collected or is to come is an entry of the directory.
Collected ==
    /\ entries \in Seq(DirEntry)
    /\ iterator \in [rest : Seq(DirEntry), failed : BOOLEAN, open : BOOLEAN]
    /\ \A e \in Range(entries) : ChildOf(e, path)
    /\ \A e \in Range(iterator.rest) : ChildOf(e, path)

\* What is collected and what is to come are the listing.
Account(c, r, l) == Distinct(c \o r) /\ Range(c \o r) = l

\* Each step of a call has what belongs to it.
Steps ==
    /\ ~iterator.open => iterator = NoIterator
    /\ request.pc \in {"probing", "probed", "listing", "listed"} => iterator.open
    /\ request.pc \in {"start", "stat", "probe", "probing", "list", "reader"} => entries = <<>>
    /\ request.pc \in {"list", "listing", "listed"} => kind = "directory" /\ request.op # "stat"
    /\ request.pc = "reader" => kind = "file"
    /\ request.pc \in {"start", "stat", "probe", "probing", "probed"} => kind = "none"
    /\ outcome = "ok" => kind # "none"
    /\ ~Opened => offset = 0 /\ given = NothingGiven
    /\ request.pc \in {"listing", "listed"} => Account(entries, iterator.rest, listed)
    /\ request.pc = "listed" /\ ~iterator.failed => iterator.rest = <<>>
    /\ request.pc = "probed" /\ ~iterator.failed /\ entries = <<>> => iterator.rest = <<>>

Was(k) == \E v \in seen : v.kind = k

WasAbove == \E v \in seen : v.beneath

\* What the call has found out, at this step, was so at some time.
Grounded(step, k, o, found) ==
    /\ step \in {"probe", "probing", "probed"} => Was("none")
    /\ step \in {"probing", "probed"} => \E v \in seen : v.beneath <=> found
    /\ k = "file" => Was("file")
    /\ k = "directory" => path = Root \/ Was("directory") \/ (Was("none") /\ WasAbove)
    /\ o = "notdir" => Was("file")
    /\ o = "notexist" /\ Undisturbed =>
          Was("none") /\ \E v \in seen : v.kind = "file" \/ ~v.beneath

\* The iterator has had something to give.
Found == entries # <<>> \/ iterator.rest # <<>>

\* Nothing turns from a file into a directory without being nothing in between.
Witnessed ==
    /\ seen \subseteq [kind : Kinds, beneath : BOOLEAN]
    /\ request.pc # "start" => Now \in seen
    /\ \A v, w \in seen : v.kind = w.kind \/ Was("none")
    /\ Grounded(request.pc, kind, outcome, Found)

Ways == HandleInvariant /\ Collected /\ Steps

FSInv == Ways /\ Witnessed

\* A path that is no error is the root or an ordinary one.
LEMMA PathType ==
    ASSUME FSTypeOK
    PROVE  /\ request.name \in Seq(Int) /\ request.name # <<>>
           /\ path # Invalid => /\ path = Root \/ Ordinary(path)
                                /\ path = IF request.name = <<Dot>> THEN Root ELSE request.name
           /\ request.pc \notin {"start", "done"} => path # Invalid
<1>1. request.name \in Seq(Int) /\ request.name # <<>>
  <2>1. request.name \in Names
    BY Zenon DEF FSTypeOK
  <2>2. QED
    BY Zenon, <2>1, IOFSAssumption
<1>2. path # Invalid => /\ path = Root \/ Ordinary(path)
                        /\ path = IF request.name = <<Dot>> THEN Root ELSE request.name
  BY Zenon, <1>1, NameIsPath DEF path
<1>3. request.pc \notin {"start", "done"} => path # Invalid
  BY Zenon DEF FSTypeOK
<1>4. QED
  BY Zenon, <1>1, <1>2, <1>3

\* The names are right because what is collected is.
LEMMA NamesFollow ==
    ASSUME FSTypeOK, Collected
    PROVE  NamesDenote
<1>1. path # Invalid => path = IF request.name = <<Dot>> THEN Root ELSE request.name
  BY Zenon, PathType
<1>2. ASSUME NEW p, p = ParsePath(request.name), p # Invalid
      PROVE  /\ ParsePath(p) = p
             /\ \A k \in Keys \cup {Root} :
                   Join(k, request.name) = k \o p /\ Dir(k \o <<Base(p)>>) = k
  <2>1. ParsePath(p) = p
    BY Zenon, <1>2, PathType, ParsedOrdinary, ParseOrdinary
  <2>2. QED
    BY ZenonT(60), <1>2, <2>1, PathType, Joined
<1>3. ASSUME outcome = "ok", NEW e \in Range(entries)
      PROVE  e.path = ioFSPath(IF path = Root THEN <<Base(e.path)>>
                               ELSE Append(request.name, Base(e.path)))
  <2>1. path # Invalid
    <3>1. "ok" # "pending" /\ "ok" # "invalid" /\ "start" # "done"
      BY Zenon
    <3>2. QED
      BY Zenon, <1>3, <3>1 DEF FSTypeOK
  <2>2. e.path = ioFSPath(Append(path, Base(e.path)))
    BY Zenon, <2>1, PathType, ChildName DEF Collected
  <2>3. CASE path = Root
    <3>1. \A b : Append(Root, b) = <<b>>
      BY DEF Root
    <3>2. QED
      BY Zenon, <2>2, <2>3, <3>1
  <2>4. CASE path # Root
    <3>1. path = request.name
      BY Zenon, <1>1, <2>1, <2>4
    <3>2. QED
      BY Zenon, <2>2, <2>4, <3>1
  <2>5. QED
    BY Zenon, <2>3, <2>4
<1>4. QED
  BY Zenon, <1>1, <1>2, <1>3 DEF NamesDenote

\* The reports are right because what was found out is.
LEMMA ReportsFollow ==
    ASSUME FSInv
    PROVE  ReportsWhatWas
<1>1. /\ kind \in Kinds
      /\ outcome = "ok" => kind # "none"
      /\ seen \subseteq [kind : Kinds, beneath : BOOLEAN]
  BY Zenon DEF FSInv, Ways, HandleInvariant, FSTypeOK, Steps, Witnessed
<1>2. outcome = "ok" => IF kind = "file" THEN \E v \in seen : v.kind = "file"
                        ELSE path = Root \/ \E v \in seen : v.kind = "directory" \/ v.beneath
  <2>1. outcome = "ok" => kind = "file" \/ kind = "directory"
    BY <1>1 DEF Kinds
  <2>2. "file" # "directory"
    OBVIOUS
  <2>3. QED
    BY Zenon, <2>1, <2>2 DEF FSInv, Witnessed, Grounded, Was, WasAbove
<1>3. /\ outcome = "notdir" => \E v \in seen : v.kind = "file"
      /\ outcome = "notexist" /\ Undisturbed =>
            /\ \E v \in seen : v.kind = "none"
            /\ \E v \in seen : v.kind = "file" \/ ~v.beneath
  BY Zenon DEF FSInv, Witnessed, Grounded, Was
<1>4. ASSUME NEW v \in seen, seen = {v}, outcome \in {"ok", "notexist", "notdir"}, path # Root
      PROVE  /\ v.kind = "none" /\ ~v.beneath => outcome = "notexist"
             /\ outcome = "notexist" /\ Undisturbed => v.kind = "none" /\ ~v.beneath
             /\ outcome = "ok" => kind = IF v.kind = "none" THEN "directory" ELSE v.kind
  <2>1. \A w \in seen : w = v
    BY Zenon, <1>4
  <2>2. v.kind \in Kinds /\ v.beneath \in BOOLEAN
    BY <1>1
  <2>3. \A k : Was(k) <=> v.kind = k
    BY Zenon, <2>1 DEF Was
  <2>4. WasAbove <=> v.beneath
    BY Zenon, <2>1 DEF WasAbove
  <2>5. CASE outcome = "ok"
    <3>1. kind = "file" \/ kind = "directory"
      BY Zenon, <1>1, <2>5 DEF Kinds
    <3>2. kind = "file" => v.kind = "file"
      BY Zenon, <2>3 DEF FSInv, Witnessed, Grounded
    <3>3. kind = "directory" => v.kind = "directory" \/ (v.kind = "none" /\ v.beneath)
      BY Zenon, <1>4, <2>3, <2>4 DEF FSInv, Witnessed, Grounded
    <3>4. QED
      BY <2>5, <3>1, <3>2, <3>3
  <2>6. CASE outcome = "notexist"
    <3>1. Undisturbed => v.kind = "none" /\ (v.kind = "file" \/ ~v.beneath)
      BY Zenon, <1>3, <2>1, <2>6
    <3>2. QED
      BY Zenon, <2>6, <3>1
  <2>7. CASE outcome = "notdir"
    <3>1. v.kind = "file"
      BY Zenon, <1>3, <2>1, <2>7
    <3>2. QED
      BY Zenon, <2>7, <3>1
  <2>8. QED
    BY Zenon, <1>4, <2>5, <2>6, <2>7
<1>5. QED
  BY Zenon, <1>2, <1>3, <1>4 DEF ReportsWhatWas

-----------------------------------------------------------------------------
(* What the steps of a call have in common.                                *)

Iterators == [rest : Seq(DirEntry), failed : BOOLEAN, open : BOOLEAN]

\* Before List, and after Close, there is nothing to iterate over.
LEMMA NoIteratorIs ==
    /\ NoIterator \in Iterators /\ NoIterator.rest = <<>> /\ Range(NoIterator.rest) = {}
    /\ ~NoIterator.open /\ ~NoIterator.failed
<1>1. NoIterator.rest = <<>> /\ NoIterator.open = FALSE /\ NoIterator.failed = FALSE
  BY Zenon DEF NoIterator
<1>2. NoIterator \in Iterators
  BY Zenon, NoneAtAll DEF NoIterator, Iterators
<1>3. QED
  BY Zenon, <1>1, <1>2, NoneAtAll

\* A call that goes on keeps what it was asked and the path it works on.
LEMMA Proceeds ==
    ASSUME NEW step, FSTypeOK, Proceed(step)
    PROVE  /\ request'.op = request.op /\ request'.name = request.name /\ request'.pc = step
           /\ path' = path
           /\ step \in {"stat", "probe", "probing", "probed", "list", "listing", "listed",
                        "reader", "done"} =>
                 request' \in [op : {"open", "stat", "readdir"}, name : Names,
                               pc : {"start", "stat", "probe", "probing", "probed", "list",
                                     "listing", "listed", "reader", "done"}]
<1>1. /\ request'.op = request.op /\ request'.name = request.name /\ request'.pc = step
      /\ step \in {"stat", "probe", "probing", "probed", "list", "listing", "listed",
                   "reader", "done"} =>
            request' \in [op : {"open", "stat", "readdir"}, name : Names,
                          pc : {"start", "stat", "probe", "probing", "probed", "list",
                                "listing", "listed", "reader", "done"}]
  BY SMTT(30) DEF FSTypeOK, Proceed
<1>2. QED
  BY Zenon, <1>1 DEF path

\* As long as a call runs, and when it returns no directory to read, it leaves
\* the cursor alone and the caller has nothing.
LEMMA CallKeeps ==
    ASSUME Ways, request.pc # "done", NEW step, Proceed(step),
           step \in {"stat", "probe", "probing", "probed", "list", "listing", "listed",
                     "reader", "done"},
           outcome' \in {"pending", "ok", "invalid", "notexist", "notdir", "error"},
           outcome' = "pending" <=> step # "done",
           path = Invalid => outcome' = "invalid",
           outcome' = "ok" => kind' = "file" \/ (kind' = "directory" /\ request.op = "stat"),
           kind' \in Kinds,
           entries' \in Seq(DirEntry), \A e \in Range(entries') : ChildOf(e, path),
           iterator' \in Iterators, \A e \in Range(iterator'.rest) : ChildOf(e, path),
           iterator'.open => step \in {"probing", "probed", "listing", "listed"},
           UNCHANGED handleVars, UNCHANGED <<flat, objects, changes>>
    PROVE  /\ HandleInvariant' /\ Collected'
           /\ offset' = 0 /\ given' = NothingGiven
           /\ outcome' = "ok" => kind' # "none"
<1>1. /\ request'.op = request.op /\ request'.pc = step /\ path' = path
      /\ request' \in [op : {"open", "stat", "readdir"}, name : Names,
                       pc : {"start", "stat", "probe", "probing", "probed", "list",
                             "listing", "listed", "reader", "done"}]
  BY Zenon, Proceeds DEF Ways, HandleInvariant
<1>2. offset' = 0 /\ given' = NothingGiven
  <2>1. outcome = "pending"
    BY Zenon DEF Ways, HandleInvariant, FSTypeOK
  <2>2. ~Opened
    <3>1. "pending" # "ok"
      BY Zenon
    <3>2. QED
      BY Zenon, <2>1, <3>1 DEF Opened
  <2>3. offset = 0 /\ given = NothingGiven
    BY Zenon, <2>2 DEF Ways, Steps
  <2>4. offset' = offset /\ given' = given
    BY Zenon DEF handleVars
  <2>5. QED
    BY Zenon, <2>3, <2>4
<1>3. FSTypeOK'
  <2>1. /\ flat' \in BOOLEAN /\ objects' \in [Keys -> Kinds] /\ Legal'
        /\ dirClosed' \in BOOLEAN /\ changes' \in 0..Changes
    <3>1. flat' = flat /\ objects' = objects /\ changes' = changes /\ dirClosed' = dirClosed
      BY Zenon DEF handleVars
    <3>2. Legal'
      <4>1. Legal
        BY Zenon DEF Ways, HandleInvariant, FSTypeOK
      <4>2. QED
        BY <3>1, <4>1 DEF Legal
    <3>3. QED
      BY Zenon, <3>1, <3>2 DEF Ways, HandleInvariant, FSTypeOK
  <2>2. iterator'.failed \in BOOLEAN /\ iterator'.open \in BOOLEAN
    BY Zenon DEF Iterators
  <2>3. offset' \in 0..Len(entries')
    BY <1>2
  <2>4. outcome' = "pending" <=> request'.pc # "done"
    BY Zenon, <1>1
  <2>5. QED
    BY Zenon, <1>1, <2>1, <2>2, <2>3, <2>4 DEF FSTypeOK
<1>4. IteratorsClosed'
  BY Zenon, <1>1 DEF IteratorsClosed
<1>5. WholeDirectory'
  <2>1. "file" # "directory"
    BY Zenon
  <2>2. QED
    BY Zenon, <1>1, <2>1 DEF WholeDirectory
<1>6. CursorExact'
  <2>1. SubSeq(entries', 1, 0) = <<>>
    BY Zenon, NoneAtAll
  <2>2. given'.entries = <<>> /\ given'.eof = FALSE /\ given'.panic = FALSE
    BY Zenon, <1>2 DEF NothingGiven
  <2>3. QED
    BY Zenon, <1>2, <2>1, <2>2 DEF CursorExact
<1>7. Collected'
  BY Zenon, <1>1 DEF Collected, Iterators
<1>8. outcome' = "ok" => kind' # "none"
  BY Zenon
<1>9. QED
  BY Zenon, <1>2, <1>3, <1>4, <1>5, <1>6, <1>7, <1>8 DEF HandleInvariant

\* A step that has no iterator afterwards.
LEMMA PlainKeeps ==
    ASSUME Ways, request.pc # "done", NEW step, Proceed(step),
           step \in {"stat", "probe", "list", "reader", "done"},
           outcome' \in {"pending", "ok", "invalid", "notexist", "notdir", "error"},
           outcome' = "pending" <=> step # "done",
           path = Invalid => outcome' = "invalid",
           outcome' = "ok" => kind' = "file" \/ (kind' = "directory" /\ request.op = "stat"),
           kind' \in Kinds,
           entries' = <<>> \/ (entries' = entries /\ step = "done"),
           iterator' = NoIterator,
           step = "list" => kind' = "directory" /\ request.op # "stat",
           step = "reader" => kind' = "file",
           step \in {"stat", "probe"} => kind' = "none",
           UNCHANGED handleVars, UNCHANGED <<flat, objects, changes>>
    PROVE  Ways'
<1>1. /\ request'.op = request.op /\ request'.pc = step /\ path' = path
  BY Zenon, Proceeds DEF Ways, HandleInvariant
<1>2. entries' \in Seq(DirEntry) /\ \A e \in Range(entries') : ChildOf(e, path)
  <2>1. <<>> \in Seq(DirEntry) /\ Range(<<>>) = {}
    BY DEF Range
  <2>2. QED
    BY Zenon, <2>1 DEF Ways, Collected
<1>3. /\ HandleInvariant' /\ Collected'
      /\ offset' = 0 /\ given' = NothingGiven
      /\ outcome' = "ok" => kind' # "none"
  <2>1. step \in {"stat", "probe", "probing", "probed", "list", "listing", "listed",
                  "reader", "done"}
    BY Zenon
  <2>2. QED
    BY Zenon, <1>2, <2>1, CallKeeps, NoIteratorIs
<1>4. Steps'
  <2>1. /\ request'.pc \notin {"start", "probing", "listing", "listed", "probed"}
        /\ request'.pc \in {"stat", "probe", "list", "reader"} => request'.pc # "done"
    BY Zenon, <1>1
  <2>2. /\ request'.pc = "list" \/ ~(request'.pc \in {"list", "listing", "listed"})
        /\ request'.pc \in {"stat", "probe", "list", "reader"}
           \/ ~(request'.pc \in {"start", "stat", "probe", "probing", "list", "reader"})
        /\ request'.pc \in {"stat", "probe"}
           \/ ~(request'.pc \in {"start", "stat", "probe", "probing", "probed"})
        /\ ~(request'.pc \in {"listing", "listed"})
        /\ ~(request'.pc \in {"probing", "probed", "listing", "listed"})
        /\ request'.pc # "listed" /\ request'.pc # "probed"
    BY Zenon, <2>1
  <2>3. QED
    BY Zenon, <1>1, <1>3, <2>1, <2>2 DEF Steps
<1>5. QED
  BY Zenon, <1>3, <1>4 DEF Ways

\* While nothing else happens, what has been seen stays what it is.
LEMMA WitnessKeeps ==
    ASSUME FSTypeOK, Witnessed, request.pc # "start", NEW step, Proceed(step), UNCHANGED storeVars,
           Grounded(step, kind', outcome', Found')
    PROVE  Witnessed'
<1>1. /\ request'.pc = step /\ path' = path /\ objects' = objects /\ seen' = seen
      /\ flat' = flat /\ vanished' = vanished
  BY Zenon, Proceeds DEF storeVars
<1>2. Now' = Now
  BY Zenon, <1>1 DEF Now, At, Beneath
<1>3. QED
  BY Zenon, <1>1, <1>2 DEF Witnessed, Grounded, Was, WasAbove, Undisturbed

\* What follows from the answer of metadata.
LEMMA KnownIs ==
    ASSUME NEW k \in {"file", "directory"}, Known(k), request.pc # "done",
           outcome = "pending"
    PROVE  /\ kind' = k /\ entries' = <<>>
           /\ \/ request.op = "stat" /\ Proceed("done") /\ outcome' = "ok"
              \/ k = "file" /\ Proceed("done") /\ outcome' = "notdir"
              \/ k = "directory" /\ request.op # "stat" /\ Proceed("list") /\ outcome' = "pending"
              \/ k = "file" /\ request.op # "stat" /\ Proceed("reader") /\ outcome' = "pending"
BY Zenon DEF Known, Answer

-----------------------------------------------------------------------------
(* The steps.                                                              *)

\* Between its listings a call has no iterator and no answer.
LEMMA Idle ==
    ASSUME FSInv, request.pc \in {"start", "stat", "probe", "list", "reader"}
    PROVE  /\ iterator = NoIterator /\ entries = <<>> /\ outcome = "pending"
           /\ request.pc # "done"
           /\ kind \in Kinds
<1>1. request.pc \notin {"probing", "probed", "listing", "listed"} /\ request.pc # "done"
  BY Zenon
<1>2. request.pc \in {"start", "stat", "probe", "probing", "list", "reader"}
  OBVIOUS
<1>3. QED
  BY Zenon, <1>1, <1>2 DEF FSInv, Ways, HandleInvariant, IteratorsClosed, FSTypeOK, Steps

\* A call that fails has no directory, and leaves no iterator.
LEMMA FailureKeeps ==
    ASSUME Ways, request.pc # "done", NEW o \in {"invalid", "notexist", "notdir", "error"},
           Answer(o), path = Invalid => o = "invalid", iterator' = NoIterator,
           kind' = kind, entries' = entries \/ entries' = <<>>,
           UNCHANGED handleVars, UNCHANGED <<flat, objects, changes>>
    PROVE  Ways'
<1>1. /\ outcome' = o /\ Proceed("done") /\ kind' \in Kinds
  BY Zenon DEF Answer, Ways, HandleInvariant, FSTypeOK
<1>2. /\ o \in {"pending", "ok", "invalid", "notexist", "notdir", "error"}
      /\ o # "pending" /\ o # "ok"
      /\ "done" # "list" /\ "done" # "reader" /\ "done" \notin {"stat", "probe"}
      /\ "done" \in {"stat", "probe", "list", "reader", "done"}
  BY Zenon
<1>3. QED
  BY Zenon, <1>1, <1>2, PlainKeeps

\* The answer of metadata is a file, or a directory.
LEMMA KnownKeeps ==
    ASSUME Ways, request.pc # "done", path # Invalid,
           NEW k \in {"file", "directory"}, Known(k), iterator' = NoIterator,
           UNCHANGED handleVars, UNCHANGED <<flat, objects, changes>>
    PROVE  Ways'
<1>1. outcome = "pending"
  BY Zenon DEF Ways, HandleInvariant, FSTypeOK
<1>2. /\ kind' = k /\ entries' = <<>>
      /\ \/ request.op = "stat" /\ Proceed("done") /\ outcome' = "ok"
         \/ k = "file" /\ Proceed("done") /\ outcome' = "notdir"
         \/ k = "directory" /\ request.op # "stat" /\ Proceed("list") /\ outcome' = "pending"
         \/ k = "file" /\ request.op # "stat" /\ Proceed("reader") /\ outcome' = "pending"
  BY Zenon, <1>1, KnownIs
<1>3. /\ k \in Kinds
      /\ \A o \in {"pending", "ok", "notdir"} :
            o \in {"pending", "ok", "invalid", "notexist", "notdir", "error"}
      /\ \A p \in {"list", "reader", "done"} :
            /\ p \in {"stat", "probe", "list", "reader", "done"}
            /\ p \notin {"stat", "probe"}
      /\ "done" # "list" /\ "done" # "reader" /\ "list" # "reader"
      /\ "pending" # "ok" /\ "notdir" # "ok" /\ "notdir" # "pending"
  BY Zenon DEF Kinds
<1>4. CASE request.op = "stat" /\ Proceed("done") /\ outcome' = "ok"
  BY Zenon, <1>2, <1>3, <1>4, PlainKeeps
<1>5. CASE k = "file" /\ Proceed("done") /\ outcome' = "notdir"
  BY Zenon, <1>2, <1>3, <1>5, PlainKeeps
<1>6. CASE k = "directory" /\ request.op # "stat" /\ Proceed("list") /\ outcome' = "pending"
  BY Zenon, <1>2, <1>3, <1>6, PlainKeeps
<1>7. CASE k = "file" /\ request.op # "stat" /\ Proceed("reader") /\ outcome' = "pending"
  BY Zenon, <1>2, <1>3, <1>7, PlainKeeps
<1>8. QED
  BY Zenon, <1>2, <1>4, <1>5, <1>6, <1>7

\* It is so at the time, or a file or a directory has been there.
LEMMA KnownGrounded ==
    ASSUME NEW k \in {"file", "directory"}, Known(k), request.pc # "done", outcome = "pending",
           k = "file" => Was("file"),
           k = "directory" => path = Root \/ Was("directory") \/ (Was("none") /\ WasAbove)
    PROVE  \E step \in {"list", "reader", "done"} :
              Proceed(step) /\ Grounded(step, kind', outcome', Found')
<1>1. /\ kind' = k
      /\ \/ Proceed("done") /\ outcome' = "ok"
         \/ k = "file" /\ Proceed("done") /\ outcome' = "notdir"
         \/ Proceed("list") /\ outcome' = "pending"
         \/ Proceed("reader") /\ outcome' = "pending"
  BY Zenon, KnownIs
<1>2. ASSUME NEW step \in {"list", "reader", "done"}, NEW o \in {"ok", "notdir", "pending"},
             NEW f, o = "notdir" => Was("file")
      PROVE  Grounded(step, k, o, f)
  <2>1. /\ step \notin {"probe", "probing", "probed"} /\ step \notin {"probing", "probed"}
        /\ o # "notexist"
    BY Zenon, <1>2
  <2>2. QED
    BY Zenon, <1>2, <2>1 DEF Grounded
<1>3. "pending" # "notdir" /\ "ok" # "notdir"
  BY Zenon
<1>4. CASE Proceed("done") /\ outcome' = "ok"
  BY Zenon, <1>1, <1>2, <1>3, <1>4
<1>5. CASE k = "file" /\ Proceed("done") /\ outcome' = "notdir"
  BY Zenon, <1>1, <1>2, <1>3, <1>5
<1>6. CASE Proceed("list") /\ outcome' = "pending"
  BY Zenon, <1>1, <1>2, <1>3, <1>6
<1>7. CASE Proceed("reader") /\ outcome' = "pending"
  BY Zenon, <1>1, <1>2, <1>3, <1>7
<1>8. QED
  BY Zenon, <1>1, <1>4, <1>5, <1>6, <1>7

\* An error says nothing of the path.
LEMMA ErrorGrounded ==
    ASSUME Witnessed, NEW f
    PROVE  /\ Grounded("done", kind, "error", f)
           /\ Grounded("done", kind, "ok", f)
           /\ Was("none") /\ (\E v \in seen : v.kind = "file" \/ ~v.beneath) =>
                 Grounded("done", kind, "notexist", f)
           /\ ~Undisturbed => Grounded("done", kind, "notexist", f)
<1>1. /\ "done" \notin {"probe", "probing", "probed"} /\ "done" \notin {"probing", "probed"}
      /\ \A o \in {"error", "ok", "notexist"} : o # "notdir"
      /\ "error" # "notexist" /\ "ok" # "notexist"
  BY Zenon
<1>2. QED
  BY Zenon, <1>1 DEF Witnessed, Grounded

\* From its first look on, a call has seen what the store holds now.
LEMMA NowIs ==
    ASSUME FSInv, request.pc # "start"
    PROVE  /\ Now \in seen /\ Now.kind = At(path) /\ Now.beneath = (Beneath(path) # {})
           /\ At(path) \in Kinds /\ Was(At(path))
<1>1. Now.kind = At(path) /\ Now.beneath = (Beneath(path) # {})
  BY Zenon DEF Now
<1>2. Now \in seen
  BY Zenon DEF FSInv, Witnessed
<1>3. At(path) \in Kinds
  <2>1. \A k \in Keys : objects[k] \in Kinds
    BY Zenon DEF FSInv, Ways, HandleInvariant, FSTypeOK
  <2>2. "none" \in Kinds
    BY DEF Kinds
  <2>3. QED
    BY Zenon, <2>1, <2>2 DEF At
<1>4. QED
  BY Zenon, <1>1, <1>2, <1>3 DEF Was

\* The call reads its name: an error, the root, or a path to ask the statter for.
LEMMA StartKeeps ==
    ASSUME FSInv, Start
    PROVE  FSInv'
<1>1. /\ request.pc = "start" /\ seen' = {Now}
      /\ UNCHANGED handleVars /\ UNCHANGED <<flat, objects, changes>> /\ iterator' = iterator
  BY Zenon DEF Start
<1>2. /\ iterator = NoIterator /\ entries = <<>> /\ outcome = "pending" /\ request.pc # "done"
      /\ kind = "none" /\ kind \in Kinds /\ FSTypeOK /\ Ways
  <2>1. request.pc \in {"start", "stat", "probe", "list", "reader"}
    BY Zenon, <1>1
  <2>2. request.pc \in {"start", "stat", "probe", "probing", "probed"}
    BY Zenon, <1>1
  <2>3. QED
    BY Zenon, <2>1, <2>2, Idle DEF FSInv, Ways, HandleInvariant, Steps
<1>3. Now.kind \in Kinds /\ Now.beneath \in BOOLEAN /\ Now \in [kind : Kinds, beneath : BOOLEAN]
  <2>1. At(path) \in Kinds
    <3>1. \A k \in Keys : objects[k] \in Kinds
      BY Zenon, <1>2 DEF FSTypeOK
    <3>2. "none" \in Kinds
      BY DEF Kinds
    <3>3. QED
      BY Zenon, <3>1, <3>2 DEF At
  <2>2. QED
    BY Zenon, <2>1 DEF Now
<1>4. ASSUME NEW step \in {"stat", "list", "reader", "done"}, Proceed(step),
             kind' = "none" \/ (kind' = "directory" /\ path = Root),
             outcome' \in {"pending", "invalid", "ok"}
      PROVE  Witnessed'
  <2>1. request'.pc = step /\ path' = path /\ objects' = objects
    BY Zenon, <1>1, <1>2, <1>4, Proceeds
  <2>2. Now' = Now
    BY Zenon, <2>1 DEF Now, At, Beneath
  <2>3. /\ request'.pc \notin {"probe", "probing", "probed"}
        /\ request'.pc \notin {"probing", "probed"}
        /\ outcome' # "notdir" /\ outcome' # "notexist"
        /\ kind' # "file"
    BY Zenon, <1>4, <2>1
  <2>4. Grounded(request.pc, kind, outcome, Found)'
    <3>1. "none" # "directory"
      BY Zenon
    <3>2. QED
      BY Zenon, <1>4, <2>1, <2>3, <3>1 DEF Grounded
  <2>5. seen' \subseteq [kind : Kinds, beneath : BOOLEAN]
    BY Zenon, <1>1, <1>3
  <2>6. QED
    BY Zenon, <1>1, <2>2, <2>4, <2>5 DEF Witnessed
<1>5. CASE path = Invalid
  <2>1. Answer("invalid") /\ kind' = kind /\ entries' = entries
    BY Zenon, <1>5 DEF Start
  <2>2. Ways'
    <3>1. "invalid" \in {"invalid", "notexist", "notdir", "error"}
      BY Zenon
    <3>2. QED
      BY Zenon, <1>1, <1>2, <2>1, <3>1, FailureKeeps
  <2>3. "done" \in {"stat", "list", "reader", "done"} /\ "invalid" \in {"pending", "invalid", "ok"}
    OBVIOUS
  <2>4. QED
    BY Zenon, <1>2, <1>4, <2>1, <2>2, <2>3 DEF FSInv, Answer
<1>6. CASE path = Root
  <2>1. path # Invalid
    BY Zenon, <1>6, InvalidIsNoPath
  <2>2. Known("directory")
    BY Zenon, <1>6, <2>1 DEF Start
  <2>3. "directory" \in {"file", "directory"}
    BY Zenon
  <2>4. Ways'
    BY Zenon, <1>1, <1>2, <2>1, <2>2, <2>3, KnownKeeps
  <2>5. \E step \in {"stat", "list", "reader", "done"}, o \in {"pending", "invalid", "ok"} :
           Proceed(step) /\ kind' = "directory" /\ outcome' = o
    BY Zenon, <1>2, <2>2 DEF Known, Answer
  <2>6. QED
    BY Zenon, <1>4, <1>6, <2>4, <2>5 DEF FSInv
<1>7. CASE path # Invalid /\ path # Root
  <2>1. Proceed("stat") /\ kind' = kind /\ entries' = entries /\ outcome' = outcome
    BY Zenon, <1>7 DEF Start
  <2>2. /\ "stat" \in {"stat", "probe", "list", "reader", "done"}
        /\ "stat" \in {"stat", "list", "reader", "done"}
        /\ "pending" \in {"pending", "ok", "invalid", "notexist", "notdir", "error"}
        /\ "pending" \in {"pending", "invalid", "ok"} /\ "pending" # "ok"
        /\ "stat" # "list" /\ "stat" # "reader" /\ "stat" # "done"
    BY Zenon
  <2>3. Ways'
    BY Zenon, <1>1, <1>2, <1>7, <2>1, <2>2, PlainKeeps
  <2>4. QED
    BY Zenon, <1>2, <1>4, <2>1, <2>2, <2>3 DEF FSInv
<1>8. QED
  BY Zenon, <1>5, <1>6, <1>7

\* metadata asks the statter.
LEMMA StatKeeps ==
    ASSUME FSInv, Stat
    PROVE  FSInv'
<1>1. /\ request.pc = "stat" /\ request.pc # "start" /\ request.pc # "done"
      /\ UNCHANGED handleVars /\ UNCHANGED <<flat, objects, changes>> /\ UNCHANGED storeVars
      /\ iterator' = iterator
  BY Zenon DEF Stat, storeVars
<1>2. /\ iterator = NoIterator /\ entries = <<>> /\ outcome = "pending"
      /\ kind = "none" /\ kind \in Kinds /\ FSTypeOK /\ Ways /\ Witnessed /\ path # Invalid
  <2>1. request.pc \in {"start", "stat", "probe", "list", "reader"}
    BY Zenon, <1>1
  <2>2. request.pc \in {"start", "stat", "probe", "probing", "probed"}
    BY Zenon, <1>1
  <2>3. request.pc \notin {"start", "done"}
    BY Zenon, <1>1
  <2>4. QED
    BY Zenon, <2>1, <2>2, <2>3, Idle, PathType DEF FSInv, Ways, HandleInvariant, Steps
<1>3. At(path) \in Kinds /\ Was(At(path))
  BY Zenon, <1>1, NowIs
<1>4. CASE At(path) # "none" /\ Known(At(path))
  <2>1. PICK k \in {"file", "directory"} : k = At(path)
    BY Zenon, <1>3, <1>4 DEF Kinds
  <2>2. Ways'
    BY Zenon, <1>1, <1>2, <1>4, <2>1, KnownKeeps
  <2>3. PICK step \in {"list", "reader", "done"} :
           Proceed(step) /\ Grounded(step, kind', outcome', Found')
    BY Zenon, <1>1, <1>2, <1>3, <1>4, <2>1, KnownGrounded
  <2>4. QED
    BY Zenon, <1>1, <1>2, <2>2, <2>3, WitnessKeeps DEF FSInv
<1>5. CASE At(path) = "none" /\ Proceed("probe") /\ kind' = kind /\ entries' = entries
           /\ outcome' = outcome
  <2>1. /\ "probe" \in {"stat", "probe", "list", "reader", "done"}
        /\ "pending" \in {"pending", "ok", "invalid", "notexist", "notdir", "error"}
        /\ "pending" # "ok" /\ "pending" # "notdir" /\ "pending" # "notexist"
        /\ "probe" # "list" /\ "probe" # "reader" /\ "probe" # "done"
        /\ "probe" \notin {"probing", "probed"}
        /\ "none" # "file" /\ "none" # "directory"
    BY Zenon
  <2>2. Ways'
    BY Zenon, <1>1, <1>2, <1>5, <2>1, PlainKeeps
  <2>3. Grounded("probe", kind', outcome', Found')
    BY Zenon, <1>2, <1>3, <1>5, <2>1 DEF Grounded
  <2>4. QED
    BY Zenon, <1>1, <1>2, <1>5, <2>2, <2>3, WitnessKeeps DEF FSInv
<1>6. CASE Answer("error") /\ kind' = kind /\ entries' = entries
  <2>1. "error" \in {"invalid", "notexist", "notdir", "error"}
    BY Zenon
  <2>2. Ways'
    BY Zenon, <1>1, <1>2, <1>6, <2>1, FailureKeeps
  <2>3. QED
    BY Zenon, <1>1, <1>2, <1>6, <2>2, ErrorGrounded, WitnessKeeps DEF FSInv, Answer
<1>7. QED
  BY Zenon, <1>4, <1>5, <1>6 DEF Stat

\* A listing has begun, for metadata or for the directory.
LEMMA ListBegins ==
    ASSUME FSInv, NEW limit \in Nat \ {0}, NEW next,
           \/ request.pc = "probe" /\ next = "probing"
           \/ request.pc = "list" /\ next = "listing",
           NEW s \in Listings(path, limit),
           iterator' = [rest |-> s, failed |-> FALSE, open |-> TRUE], listed' = Range(s),
           Proceed(next), outcome' = outcome, kind' = kind, entries' = entries,
           UNCHANGED handleVars, UNCHANGED storeVars
    PROVE  FSInv'
<1>1. /\ request.pc # "start" /\ request.pc # "done" /\ request.pc \notin {"start", "done"}
      /\ request.pc \in {"start", "stat", "probe", "list", "reader"}
      /\ next \in {"stat", "probe", "probing", "probed", "list", "listing", "listed",
                   "reader", "done"}
      /\ next \in {"probing", "probed", "listing", "listed"} /\ next # "done"
      /\ "pending" \in {"pending", "ok", "invalid", "notexist", "notdir", "error"}
      /\ "pending" # "ok" /\ "pending" # "notdir" /\ "pending" # "notexist"
  BY Zenon
<1>2. UNCHANGED <<flat, objects, changes>>
  BY Zenon DEF storeVars
<1>3. /\ entries = <<>> /\ outcome = "pending" /\ kind \in Kinds
      /\ FSTypeOK /\ Ways /\ Witnessed /\ path # Invalid /\ (path = Root \/ Ordinary(path))
  BY Zenon, <1>1, Idle, PathType DEF FSInv, Ways, HandleInvariant
<1>4. /\ s \in Seq(DirEntry) /\ Distinct(s)
      /\ \A e \in Range(s) : ChildOf(e, path)
      /\ s = <<>> <=> Beneath(path) = {}
  BY Zenon, <1>3, Listing
<1>5. /\ iterator' \in Iterators /\ iterator'.rest = s /\ iterator'.open /\ ~iterator'.failed
      /\ entries' \in Seq(DirEntry) /\ Range(entries') = {}
      /\ entries' \o iterator'.rest = s
  <2>1. /\ iterator' \in Iterators /\ iterator'.rest = s /\ iterator'.open /\ ~iterator'.failed
    BY Zenon, <1>4 DEF Iterators
  <2>2. entries' = <<>>
    BY Zenon, <1>3
  <2>3. entries' \in Seq(DirEntry) /\ Range(entries') = {}
    BY Zenon, <2>2, NoneAtAll
  <2>4. <<>> \o s = s
    BY Zenon, <1>4, WithNothing
  <2>5. QED
    BY Zenon, <2>1, <2>2, <2>3, <2>4
<1>6. /\ HandleInvariant' /\ Collected'
      /\ offset' = 0 /\ given' = NothingGiven
  BY Zenon, <1>1, <1>2, <1>3, <1>4, <1>5, CallKeeps
<1>7. request'.op = request.op /\ request'.pc = next
  BY Zenon, <1>3, Proceeds
<1>8. Account(entries', iterator'.rest, listed')
  BY Zenon, <1>4, <1>5 DEF Account
<1>9. Steps'
  <2>1. /\ next = "probing" => kind = "none"
        /\ next = "listing" => kind = "directory" /\ request.op # "stat"
    <3>1. /\ next = "probing" => request.pc \in {"start", "stat", "probe", "probing", "probed"}
          /\ next = "listing" => request.pc \in {"list", "listing", "listed"}
      BY Zenon
    <3>2. QED
      BY Zenon, <1>3, <3>1 DEF Ways, Steps
  <2>2. /\ next \in {"list", "listing", "listed"} => next = "listing"
        /\ next \in {"start", "stat", "probe", "probing", "probed"} => next = "probing"
        /\ next # "reader" /\ next # "listed" /\ next # "probed"
    BY Zenon
  <2>3. QED
    BY Zenon, <1>1, <1>3, <1>5, <1>6, <1>7, <1>8, <2>1, <2>2 DEF Steps
<1>10. Witnessed'
  <2>1. /\ next = "probing" => request.pc \in {"probe", "probing", "probed"}
        /\ next \in {"probe", "probing", "probed"} => next = "probing"
    BY Zenon
  <2>2. Now \in seen /\ Now.beneath = (Beneath(path) # {})
    BY Zenon, <1>1, NowIs
  <2>3. Found' <=> s # <<>>
    BY Zenon, <1>3, <1>5 DEF Found
  <2>4. \E v \in seen : v.beneath <=> Found'
    BY Zenon, <1>4, <2>2, <2>3
  <2>5. Grounded(next, kind', outcome', Found')
    BY Zenon, <1>1, <1>3, <2>1, <2>4 DEF Grounded, Witnessed
  <2>6. QED
    BY Zenon, <1>1, <1>3, <2>5, WitnessKeeps
<1>11. QED
  BY Zenon, <1>6, <1>9, <1>10 DEF FSInv, Ways

\* List, for the probe of a directory and for its entries.
LEMMA ListKeeps ==
    ASSUME FSInv, NEW limit \in Nat \ {0}, NEW next,
           \/ request.pc = "probe" /\ next = "probing"
           \/ request.pc = "list" /\ next = "listing",
           List(limit, next), kind' = kind, entries' = entries,
           UNCHANGED handleVars, UNCHANGED storeVars
    PROVE  FSInv'
<1>1. /\ request.pc # "start" /\ request.pc # "done" /\ request.pc \notin {"start", "done"}
      /\ request.pc \in {"start", "stat", "probe", "list", "reader"}
  BY Zenon
<1>2. /\ iterator = NoIterator /\ entries = <<>> /\ outcome = "pending" /\ kind \in Kinds
      /\ FSTypeOK /\ Ways /\ Witnessed /\ path # Invalid
  BY Zenon, <1>1, Idle, PathType DEF FSInv, Ways, HandleInvariant
<1>3. UNCHANGED <<flat, objects, changes>>
  BY Zenon DEF storeVars
<1>4. /\ "notexist" \in {"invalid", "notexist", "notdir", "error"}
      /\ "error" \in {"invalid", "notexist", "notdir", "error"}
  OBVIOUS
<1>5. CASE /\ \E s \in Listings(path, limit) :
                 /\ iterator' = [rest |-> s, failed |-> FALSE, open |-> TRUE]
                 /\ listed' = Range(s)
           /\ Proceed(next)
           /\ outcome' = outcome
  BY Zenon, <1>5, ListBegins
<1>6. CASE ~IsDirectory(path) /\ Answer("notexist") /\ iterator' = iterator
  <2>1. Ways'
    BY Zenon, <1>1, <1>2, <1>3, <1>4, <1>6, FailureKeeps
  <2>2. path # Root /\ Beneath(path) = {} /\ At(path) # "directory"
    <3>1. "none" # "directory"
      BY Zenon
    <3>2. QED
      BY Zenon, <1>6, <3>1 DEF IsDirectory, At
  <2>3. /\ Now \in seen /\ Now.kind = At(path) /\ Now.beneath = (Beneath(path) # {})
        /\ Was(At(path))
    BY Zenon, <1>1, NowIs
  <2>4. Was("none")
    <3>1. CASE request.pc = "probe"
      <4>1. request.pc \in {"probe", "probing", "probed"}
        BY Zenon, <3>1
      <4>2. QED
        BY Zenon, <1>2, <4>1 DEF Witnessed, Grounded
    <3>2. CASE request.pc = "list"
      <4>1. kind = "directory"
        <5>1. request.pc \in {"list", "listing", "listed"}
          BY Zenon, <3>2
        <5>2. QED
          BY Zenon, <1>2, <5>1 DEF Ways, Steps
      <4>2. Was("directory") \/ Was("none")
        BY Zenon, <1>2, <2>2, <4>1 DEF Witnessed, Grounded
      <4>3. Was("directory") => Was("none")
        BY Zenon, <1>2, <2>2, <2>3 DEF Witnessed, Was
      <4>4. QED
        BY Zenon, <4>2, <4>3
    <3>3. QED
      BY Zenon, <3>1, <3>2
  <2>5. Grounded("done", kind', outcome', Found')
    BY Zenon, <1>2, <1>6, <2>2, <2>3, <2>4, ErrorGrounded DEF Answer
  <2>6. QED
    BY Zenon, <1>1, <1>2, <1>6, <2>1, <2>5, WitnessKeeps DEF FSInv, Answer
<1>7. CASE Answer("error") /\ iterator' = iterator
  <2>1. Ways'
    BY Zenon, <1>1, <1>2, <1>3, <1>4, <1>7, FailureKeeps
  <2>2. QED
    BY Zenon, <1>1, <1>2, <1>7, <2>1, ErrorGrounded, WitnessKeeps DEF FSInv, Answer
<1>8. CASE WalkFails /\ Answer("notexist") /\ iterator' = iterator
  <2>1. Ways'
    BY Zenon, <1>1, <1>2, <1>3, <1>4, <1>8, FailureKeeps
  <2>2. ~Undisturbed
    BY Zenon, <1>8 DEF WalkFails, Undisturbed
  <2>3. Grounded("done", kind', outcome', Found')
    BY Zenon, <1>2, <1>8, <2>2, ErrorGrounded DEF Answer
  <2>4. QED
    BY Zenon, <1>1, <1>2, <1>8, <2>1, <2>3, WitnessKeeps DEF FSInv, Answer
<1>9. QED
  BY Zenon, <1>5, <1>6, <1>7, <1>8 DEF List

\* What holds while an iterator is read.
LEMMA Reading ==
    ASSUME FSInv, request.pc \in {"probing", "listing"}, UNCHANGED storeVars
    PROVE  /\ request.pc # "start" /\ request.pc # "done" /\ outcome = "pending" /\ kind \in Kinds
           /\ FSTypeOK /\ Ways /\ Witnessed /\ path # Invalid
           /\ entries \in Seq(DirEntry) /\ iterator \in Iterators
           /\ iterator.rest \in Seq(DirEntry)
           /\ UNCHANGED <<flat, objects, changes>>
           /\ request.pc = "probing" =>
                 Was("none") /\ \E v \in seen : v.beneath <=> Found
<1>1. request.pc # "start" /\ request.pc # "done" /\ request.pc \notin {"start", "done"}
  BY Zenon
<1>2. /\ outcome = "pending" /\ kind \in Kinds /\ FSTypeOK /\ Ways /\ Witnessed /\ path # Invalid
      /\ entries \in Seq(DirEntry) /\ iterator \in Iterators
  BY Zenon, <1>1, PathType DEF FSInv, Ways, HandleInvariant, FSTypeOK, Collected, Iterators
<1>3. iterator.rest \in Seq(DirEntry)
  BY Zenon, <1>2 DEF Iterators
<1>4. request.pc = "probing" =>
         request.pc \in {"probe", "probing", "probed"} /\ request.pc \in {"probing", "probed"}
  OBVIOUS
<1>5. UNCHANGED <<flat, objects, changes>>
  BY DEF storeVars
<1>6. QED
  BY Zenon, <1>1, <1>2, <1>3, <1>4, <1>5 DEF Witnessed, Grounded

\* One entry from the iterator.
LEMMA NextKeeps ==
    ASSUME FSInv, IteratorNext
    PROVE  FSInv'
<1>1. /\ request.pc \in {"probing", "listing"} /\ iterator.rest # <<>>
      /\ iterator' = [iterator EXCEPT !.rest = Tail(@)]
      /\ entries' = Append(entries, Head(iterator.rest))
      /\ kind' = kind /\ outcome' = outcome /\ listed' = listed
      /\ UNCHANGED handleVars /\ UNCHANGED storeVars
  BY Zenon DEF IteratorNext
<1>2. PICK step : /\ Proceed(step)
                  /\ step = IF request.pc = "probing" THEN "probed" ELSE "listing"
  BY Zenon DEF IteratorNext
<1>3. /\ request.pc # "start" /\ request.pc # "done" /\ outcome = "pending" /\ kind \in Kinds
      /\ FSTypeOK /\ Ways /\ Witnessed /\ path # Invalid
      /\ entries \in Seq(DirEntry) /\ iterator \in Iterators
      /\ iterator.rest \in Seq(DirEntry)
      /\ UNCHANGED <<flat, objects, changes>>
      /\ request.pc = "probing" => Was("none") /\ \E v \in seen : v.beneath <=> Found
  BY Zenon, <1>1, Reading
<1>4. /\ iterator'.rest = Tail(iterator.rest) /\ iterator'.open = iterator.open
      /\ iterator'.failed = iterator.failed
      /\ Tail(iterator.rest) \in Seq(DirEntry) => iterator' \in Iterators
  BY Zenon, <1>1, <1>3 DEF Iterators
<1>5. /\ entries' \in Seq(DirEntry) /\ iterator'.rest \in Seq(DirEntry)
      /\ entries' \o iterator'.rest = entries \o iterator.rest
      /\ Range(entries') \subseteq Range(entries) \cup Range(iterator.rest)
      /\ Range(iterator'.rest) \subseteq Range(iterator.rest)
      /\ entries' # <<>>
  <2>1. PICK c \in Seq(DirEntry), r \in Seq(DirEntry) : c = entries /\ r = iterator.rest
    BY Zenon, <1>3
  <2>2. r # <<>> /\ entries' = Append(c, Head(r)) /\ iterator'.rest = Tail(r)
    BY Zenon, <1>1, <1>4, <2>1
  <2>3. /\ Append(c, Head(r)) \in Seq(DirEntry) /\ Tail(r) \in Seq(DirEntry)
        /\ Append(c, Head(r)) \o Tail(r) = c \o r
        /\ Range(Append(c, Head(r))) \subseteq Range(c) \cup Range(r)
        /\ Range(Tail(r)) \subseteq Range(r)
        /\ Append(c, Head(r)) # <<>>
    BY Zenon, <2>2, Shifts
  <2>4. QED
    BY Zenon, <2>1, <2>2, <2>3
<1>6. /\ \A e \in Range(entries') : ChildOf(e, path)
      /\ \A e \in Range(iterator'.rest) : ChildOf(e, path)
  BY Zenon, <1>3, <1>5 DEF Ways, Collected
<1>7. /\ step \in {"stat", "probe", "probing", "probed", "list", "listing", "listed",
                   "reader", "done"}
      /\ step \in {"probing", "probed", "listing", "listed"} /\ step # "done"
      /\ "pending" \in {"pending", "ok", "invalid", "notexist", "notdir", "error"}
      /\ "pending" # "ok" /\ "pending" # "notdir" /\ "pending" # "notexist"
  BY Zenon, <1>2
<1>8. /\ HandleInvariant' /\ Collected'
      /\ offset' = 0 /\ given' = NothingGiven
  BY Zenon, <1>1, <1>2, <1>3, <1>4, <1>5, <1>6, <1>7, CallKeeps
<1>9. request'.op = request.op /\ request'.pc = step
  BY Zenon, <1>2, <1>3, Proceeds
<1>10. Steps'
  <2>1. iterator.open
    <3>1. request.pc \in {"probing", "probed", "listing", "listed"}
      BY Zenon, <1>1
    <3>2. QED
      BY Zenon, <1>3, <3>1 DEF Ways, Steps
  <2>2. /\ step = "probed" => kind = "none"
        /\ step = "listing" => /\ kind = "directory" /\ request.op # "stat"
                               /\ Account(entries, iterator.rest, listed)
    <3>1. /\ step = "probed" => request.pc \in {"start", "stat", "probe", "probing", "probed"}
          /\ step = "listing" => request.pc \in {"list", "listing", "listed"}
          /\ step = "listing" => request.pc \in {"listing", "listed"}
      BY Zenon, <1>1, <1>2
    <3>2. QED
      BY Zenon, <1>3, <3>1 DEF Ways, Steps
  <2>3. /\ step \in {"list", "listing", "listed"} => step = "listing"
        /\ step \in {"listing", "listed"} => step = "listing"
        /\ step \in {"start", "stat", "probe", "probing", "probed"} => step = "probed"
        /\ step \notin {"start", "stat", "probe", "probing", "list", "reader"}
        /\ step # "reader" /\ step # "listed"
    BY Zenon, <1>2
  <2>4. step = "listing" => Account(entries', iterator'.rest, listed')
    BY Zenon, <1>1, <1>5, <2>2 DEF Account
  <2>5. QED
    BY Zenon, <1>1, <1>3, <1>4, <1>5, <1>7, <1>8, <1>9, <2>1, <2>2, <2>3, <2>4 DEF Steps
<1>11. Witnessed'
  <2>1. Found /\ Found'
    BY Zenon, <1>1, <1>5 DEF Found
  <2>2. step \in {"probe", "probing", "probed"} => request.pc = "probing"
    BY Zenon, <1>1, <1>2
  <2>3. step \in {"probing", "probed"} => request.pc = "probing"
    BY Zenon, <1>1, <1>2
  <2>4. Grounded(step, kind', outcome', Found')
    BY Zenon, <1>1, <1>3, <1>7, <2>1, <2>2, <2>3 DEF Grounded, Witnessed
  <2>5. QED
    BY Zenon, <1>1, <1>2, <1>3, <2>4, WitnessKeeps
<1>12. QED
  BY Zenon, <1>8, <1>10, <1>11 DEF FSInv, Ways

\* The iterator ends, or fails.
LEMMA EndsKeeps ==
    ASSUME FSInv, IteratorEnds
    PROVE  FSInv'
<1>1. /\ request.pc \in {"probing", "listing"}
      /\ entries' = entries /\ kind' = kind /\ outcome' = outcome /\ listed' = listed
      /\ UNCHANGED handleVars /\ UNCHANGED storeVars
  BY Zenon DEF IteratorEnds
<1>2. PICK step : /\ Proceed(step)
                  /\ step = IF request.pc = "probing" THEN "probed" ELSE "listed"
  BY Zenon DEF IteratorEnds
<1>3. /\ request.pc # "start" /\ request.pc # "done" /\ outcome = "pending" /\ kind \in Kinds
      /\ FSTypeOK /\ Ways /\ Witnessed /\ path # Invalid
      /\ entries \in Seq(DirEntry) /\ iterator \in Iterators
      /\ iterator.rest \in Seq(DirEntry)
      /\ UNCHANGED <<flat, objects, changes>>
      /\ request.pc = "probing" => Was("none") /\ \E v \in seen : v.beneath <=> Found
  BY Zenon, <1>1, Reading
<1>4. /\ iterator'.rest = iterator.rest /\ iterator'.open = iterator.open
      /\ iterator' \in Iterators
      /\ ~iterator'.failed => iterator'.rest = <<>>
      /\ iterator' = iterator \/ iterator'.failed
  <2>1. CASE iterator.rest = <<>> /\ iterator' = iterator
    BY Zenon, <1>3, <2>1
  <2>2. CASE iterator' = [iterator EXCEPT !.failed = TRUE]
    BY Zenon, <1>3, <2>2 DEF Iterators
  <2>3. QED
    BY Zenon, <2>1, <2>2 DEF IteratorEnds
<1>5. /\ \A e \in Range(entries') : ChildOf(e, path)
      /\ \A e \in Range(iterator'.rest) : ChildOf(e, path)
  BY Zenon, <1>1, <1>3, <1>4 DEF Ways, Collected
<1>6. /\ step \in {"stat", "probe", "probing", "probed", "list", "listing", "listed",
                   "reader", "done"}
      /\ step \in {"probing", "probed", "listing", "listed"} /\ step # "done"
      /\ "pending" \in {"pending", "ok", "invalid", "notexist", "notdir", "error"}
      /\ "pending" # "ok" /\ "pending" # "notdir" /\ "pending" # "notexist"
  BY Zenon, <1>2
<1>7. /\ HandleInvariant' /\ Collected'
      /\ offset' = 0 /\ given' = NothingGiven
  BY Zenon, <1>1, <1>2, <1>3, <1>4, <1>5, <1>6, CallKeeps
<1>8. request'.op = request.op /\ request'.pc = step
  BY Zenon, <1>2, <1>3, Proceeds
<1>9. Steps'
  <2>1. /\ request.pc = "listing" \/ request.pc = "probing"
        /\ step = "probed" => request.pc \in {"start", "stat", "probe", "probing", "probed"}
        /\ step = "listed" => request.pc \in {"list", "listing", "listed"}
        /\ step = "listed" => request.pc \in {"listing", "listed"}
    BY Zenon, <1>1, <1>2
  <2>2. /\ step = "probed" => kind = "none"
        /\ step = "listed" => /\ kind = "directory" /\ request.op # "stat"
                              /\ Account(entries, iterator.rest, listed)
    BY Zenon, <1>3, <2>1 DEF Ways, Steps
  <2>3. /\ step \in {"list", "listing", "listed"} => step = "listed"
        /\ step \in {"listing", "listed"} => step = "listed"
        /\ step \in {"start", "stat", "probe", "probing", "probed"} => step = "probed"
        /\ step \notin {"start", "stat", "probe", "probing", "list", "reader"}
        /\ step # "reader"
    BY Zenon, <1>2
  <2>4. iterator'.open
    <3>1. request.pc \in {"probing", "probed", "listing", "listed"}
      BY Zenon, <2>1
    <3>2. QED
      BY Zenon, <1>3, <1>4, <3>1 DEF Ways, Steps
  <2>5. QED
    BY Zenon, <1>1, <1>3, <1>4, <1>6, <1>7, <1>8, <2>2, <2>3, <2>4 DEF Steps
<1>10. Witnessed'
  <2>1. Found' <=> Found
    BY Zenon, <1>1, <1>4 DEF Found
  <2>2. step \in {"probe", "probing", "probed"} => request.pc = "probing"
    BY Zenon, <1>1, <1>2
  <2>3. step \in {"probing", "probed"} => request.pc = "probing"
    BY Zenon, <1>1, <1>2
  <2>4. Grounded(step, kind', outcome', Found')
    BY Zenon, <1>1, <1>3, <1>6, <2>1, <2>2, <2>3 DEF Grounded, Witnessed
  <2>5. QED
    BY Zenon, <1>1, <1>2, <1>3, <2>4, WitnessKeeps
<1>11. QED
  BY Zenon, <1>7, <1>9, <1>10 DEF FSInv, Ways

\* The probe closes its iterator and tells a directory from nothing.
LEMMA CloseProbeKeeps ==
    ASSUME FSInv, CloseProbe
    PROVE  FSInv'
<1>1. /\ request.pc = "probed" /\ request.pc # "start" /\ request.pc # "done"
      /\ UNCHANGED handleVars /\ UNCHANGED <<flat, objects, changes>> /\ UNCHANGED storeVars
      /\ iterator' = NoIterator
  BY Zenon DEF CloseProbe, storeVars
<1>2. /\ outcome = "pending" /\ FSTypeOK /\ Ways /\ Witnessed /\ path # Invalid
      /\ Was("none") /\ \E v \in seen : v.beneath <=> Found
      /\ ~iterator.failed /\ entries = <<>> => iterator.rest = <<>>
  <2>1. /\ request.pc \notin {"start", "done"}
        /\ request.pc \in {"probe", "probing", "probed"} /\ request.pc \in {"probing", "probed"}
    BY Zenon, <1>1
  <2>2. QED
    BY Zenon, <1>1, <2>1, PathType
    DEF FSInv, Ways, HandleInvariant, FSTypeOK, Steps, Witnessed, Grounded
<1>3. /\ "notexist" \in {"invalid", "notexist", "notdir", "error"}
      /\ "error" \in {"invalid", "notexist", "notdir", "error"}
      /\ "directory" \in {"file", "directory"} /\ "directory" # "file"
  OBVIOUS
<1>4. CASE Answer("error") /\ kind' = kind /\ entries' = entries
  <2>1. Ways'
    BY Zenon, <1>1, <1>2, <1>3, <1>4, FailureKeeps
  <2>2. QED
    BY Zenon, <1>1, <1>2, <1>4, <2>1, ErrorGrounded, WitnessKeeps DEF FSInv, Answer
<1>5. CASE ~iterator.failed /\ entries # <<>> /\ Known("directory")
  <2>1. Ways'
    BY Zenon, <1>1, <1>2, <1>3, <1>5, KnownKeeps
  <2>2. WasAbove
    BY Zenon, <1>2, <1>5 DEF Found, WasAbove
  <2>3. PICK step \in {"list", "reader", "done"} :
           Proceed(step) /\ Grounded(step, kind', outcome', Found')
    BY Zenon, <1>1, <1>2, <1>3, <1>5, <2>2, KnownGrounded
  <2>4. QED
    BY Zenon, <1>1, <1>2, <2>1, <2>3, WitnessKeeps DEF FSInv
<1>6. CASE ~iterator.failed /\ entries = <<>> /\ Answer("notexist") /\ kind' = kind
           /\ entries' = entries
  <2>1. Ways'
    BY Zenon, <1>1, <1>2, <1>3, <1>6, FailureKeeps
  <2>2. \E v \in seen : v.kind = "file" \/ ~v.beneath
    BY Zenon, <1>2, <1>6 DEF Found
  <2>3. Grounded("done", kind', outcome', Found')
    BY Zenon, <1>2, <1>6, <2>2, ErrorGrounded DEF Answer
  <2>4. QED
    BY Zenon, <1>1, <1>2, <1>6, <2>1, <2>3, WitnessKeeps DEF FSInv, Answer
<1>7. QED
  BY Zenon, <1>4, <1>5, <1>6 DEF CloseProbe

\* The directory is complete, and sorted.
LEMMA ListingEnds ==
    ASSUME FSInv, request.pc = "listed", iterator' = NoIterator, ~iterator.failed, Answer("ok"),
           entries' \in Sorted(entries), kind' = kind, listed' = listed,
           UNCHANGED handleVars, UNCHANGED storeVars
    PROVE  FSInv'
<1>1. /\ request.pc # "start" /\ request.pc # "done" /\ request.pc \notin {"start", "done"}
      /\ request.pc \in {"list", "listing", "listed"} /\ request.pc \in {"listing", "listed"}
      /\ UNCHANGED <<flat, objects, changes>>
  BY Zenon DEF storeVars
<1>2. /\ outcome = "pending" /\ FSTypeOK /\ Ways /\ Witnessed /\ path # Invalid
      /\ kind = "directory" /\ request.op # "stat" /\ iterator.rest = <<>>
      /\ Account(entries, iterator.rest, listed)
      /\ entries \in Seq(DirEntry) /\ \A e \in Range(entries) : ChildOf(e, path)
  BY Zenon, <1>1, PathType DEF FSInv, Ways, HandleInvariant, FSTypeOK, Collected, Steps
<1>3. Distinct(entries) /\ Range(entries) = listed
  <2>1. entries \o <<>> = entries
    BY Zenon, <1>2, WithNothing
  <2>2. QED
    BY Zenon, <1>2, <2>1 DEF Account
<1>4. /\ entries' \in Seq(DirEntry) /\ Len(entries') = Len(entries)
      /\ Range(entries') = Range(entries)
      /\ \A i \in 1..(Len(entries') - 1) : Base(entries'[i].path) <= Base(entries'[i + 1].path)
  BY Zenon, <1>2, SortedEntries
<1>5. Len(entries') = Cardinality(listed')
  BY Zenon, <1>2, <1>3, <1>4, CountEntries
<1>6. /\ request'.op = request.op /\ request'.pc = "done" /\ path' = path /\ outcome' = "ok"
      /\ request' \in [op : {"open", "stat", "readdir"}, name : Names,
                       pc : {"start", "stat", "probe", "probing", "probed", "list",
                             "listing", "listed", "reader", "done"}]
  <2>1. Proceed("done") /\ outcome' = "ok"
    BY Zenon DEF Answer
  <2>2. "done" \in {"stat", "probe", "probing", "probed", "list", "listing", "listed",
                    "reader", "done"}
    BY Zenon
  <2>3. QED
    BY Zenon, <1>2, <2>1, <2>2, Proceeds
<1>7. /\ offset' = 0 /\ given' = NothingGiven /\ dirClosed' = dirClosed
  <2>1. "pending" # "ok"
    BY Zenon
  <2>2. offset' = offset /\ given' = given /\ dirClosed' = dirClosed
    BY DEF handleVars
  <2>3. QED
    BY Zenon, <1>2, <2>1, <2>2 DEF Ways, Steps, Opened
<1>8. FSTypeOK'
  <2>1. /\ flat' \in BOOLEAN /\ objects' \in [Keys -> Kinds] /\ Legal'
        /\ dirClosed' \in BOOLEAN /\ changes' \in 0..Changes /\ kind' \in Kinds
    <3>1. flat' = flat /\ objects' = objects /\ changes' = changes
      BY Zenon, <1>1
    <3>2. Legal /\ kind \in Kinds
      BY Zenon, <1>2 DEF FSTypeOK
    <3>3. Legal'
      BY Zenon, <3>1, <3>2 DEF Legal
    <3>4. QED
      BY Zenon, <1>2, <1>7, <3>1, <3>2, <3>3 DEF FSTypeOK
  <2>2. iterator'.failed \in BOOLEAN /\ iterator'.open \in BOOLEAN
    BY Zenon DEF NoIterator
  <2>3. offset' \in 0..Len(entries')
    BY <1>4, <1>7
  <2>4. /\ outcome' = "pending" <=> request'.pc # "done"
        /\ outcome' \in {"pending", "ok", "invalid", "notexist", "notdir", "error"}
    BY Zenon, <1>6
  <2>5. QED
    BY Zenon, <1>2, <1>6, <2>1, <2>2, <2>3, <2>4 DEF FSTypeOK
<1>9. IteratorsClosed' /\ WholeDirectory' /\ CursorExact'
  <2>1. ~iterator'.open
    BY Zenon, NoIteratorIs
  <2>2. WholeDirectory'
    BY Zenon, <1>3, <1>4, <1>5 DEF WholeDirectory
  <2>3. CursorExact'
    <3>1. SubSeq(entries', 1, 0) = <<>>
      BY Zenon, NoneAtAll
    <3>2. given'.entries = <<>> /\ given'.eof = FALSE /\ given'.panic = FALSE
      BY Zenon, <1>7 DEF NothingGiven
    <3>3. QED
      BY Zenon, <1>7, <3>1, <3>2 DEF CursorExact
  <2>4. QED
    BY Zenon, <2>1, <2>2, <2>3 DEF IteratorsClosed
<1>10. Collected'
  BY Zenon, <1>2, <1>4, <1>6, NoIteratorIs DEF Collected, Iterators
<1>11. Steps'
  <2>1. /\ "done" \notin {"start", "stat", "probe", "probing", "list", "reader"}
        /\ "done" \notin {"list", "listing", "listed"} /\ "done" \notin {"listing", "listed"}
        /\ "done" \notin {"start", "stat", "probe", "probing", "probed"}
        /\ "done" \notin {"probing", "probed", "listing", "listed"}
        /\ "done" # "reader" /\ "done" # "listed" /\ "done" # "probed"
        /\ "directory" # "none"
    BY Zenon
  <2>2. QED
    BY Zenon, <1>2, <1>6, <1>7, <2>1 DEF Steps
<1>12. Witnessed'
  BY Zenon, <1>1, <1>2, ErrorGrounded, WitnessKeeps DEF Answer
<1>13. QED
  BY Zenon, <1>8, <1>9, <1>10, <1>11, <1>12 DEF FSInv, Ways, HandleInvariant

\* The listing closes its iterator, and sorts what it gathered.
LEMMA CloseListKeeps ==
    ASSUME FSInv, CloseList
    PROVE  FSInv'
<1>1. /\ request.pc = "listed" /\ request.pc # "start" /\ request.pc # "done"
      /\ kind' = kind /\ listed' = listed
      /\ UNCHANGED handleVars /\ UNCHANGED <<flat, objects, changes>> /\ UNCHANGED storeVars
      /\ iterator' = NoIterator
  BY Zenon DEF CloseList, storeVars
<1>2. FSTypeOK /\ Ways /\ Witnessed /\ path # Invalid
  <2>1. request.pc \notin {"start", "done"}
    BY Zenon, <1>1
  <2>2. QED
    BY Zenon, <2>1, PathType DEF FSInv, Ways, HandleInvariant
<1>3. CASE Answer("error") /\ entries' = <<>>
  <2>1. "error" \in {"invalid", "notexist", "notdir", "error"}
    BY Zenon
  <2>2. Ways'
    BY Zenon, <1>1, <1>2, <1>3, <2>1, FailureKeeps
  <2>3. QED
    BY Zenon, <1>1, <1>2, <1>3, <2>2, ErrorGrounded, WitnessKeeps DEF FSInv, Answer
<1>4. CASE ~iterator.failed /\ Answer("ok") /\ entries' \in Sorted(entries)
  BY Zenon, <1>1, <1>4, ListingEnds
<1>5. QED
  BY Zenon, <1>3, <1>4 DEF CloseList

\* Open of a file.
LEMMA ReaderKeeps ==
    ASSUME FSInv, Reader
    PROVE  FSInv'
<1>1. /\ request.pc = "reader" /\ request.pc # "start" /\ request.pc # "done"
      /\ UNCHANGED handleVars /\ UNCHANGED <<flat, objects, changes>> /\ UNCHANGED storeVars
      /\ kind' = kind /\ entries' = entries /\ iterator' = iterator
  BY Zenon DEF Reader, storeVars
<1>2. /\ FSTypeOK /\ Ways /\ Witnessed /\ path # Invalid
      /\ kind = "file" /\ Was("file") /\ iterator = NoIterator /\ kind \in Kinds
      /\ entries = <<>>
  <2>1. /\ request.pc \notin {"start", "done"}
        /\ request.pc \in {"start", "stat", "probe", "list", "reader"}
    BY Zenon, <1>1
  <2>2. QED
    BY Zenon, <1>1, <2>1, Idle, PathType
    DEF FSInv, Ways, HandleInvariant, Steps, Witnessed, Grounded
<1>3. /\ "notexist" \in {"invalid", "notexist", "notdir", "error"}
      /\ "error" \in {"invalid", "notexist", "notdir", "error"}
      /\ "done" \in {"stat", "probe", "list", "reader", "done"}
      /\ "ok" \in {"pending", "ok", "invalid", "notexist", "notdir", "error"}
      /\ "ok" # "pending" /\ "done" # "list" /\ "done" # "reader"
      /\ "done" \notin {"stat", "probe"}
  OBVIOUS
<1>4. CASE Answer("ok")
  <2>1. Ways'
    BY Zenon, <1>1, <1>2, <1>3, <1>4, PlainKeeps DEF Answer
  <2>2. QED
    BY Zenon, <1>1, <1>2, <1>4, <2>1, ErrorGrounded, WitnessKeeps DEF FSInv, Answer
<1>5. CASE At(path) = "none" /\ Answer("notexist")
  <2>1. Ways'
    BY Zenon, <1>1, <1>2, <1>3, <1>5, FailureKeeps
  <2>2. Was("none") /\ \E v \in seen : v.kind = "file" \/ ~v.beneath
    BY Zenon, <1>1, <1>2, <1>5, NowIs DEF Was
  <2>3. QED
    BY Zenon, <1>1, <1>2, <1>5, <2>1, <2>2, ErrorGrounded, WitnessKeeps DEF FSInv, Answer
<1>6. CASE Answer("error")
  <2>1. Ways'
    BY Zenon, <1>1, <1>2, <1>3, <1>6, FailureKeeps
  <2>2. QED
    BY Zenon, <1>1, <1>2, <1>6, <2>1, ErrorGrounded, WitnessKeeps DEF FSInv, Answer
<1>7. QED
  BY Zenon, <1>4, <1>5, <1>6 DEF Reader

\* Others change the store: what has been seen has been seen.
LEMMA ChangeKeeps ==
    ASSUME FSInv, Change
    PROVE  FSInv'
<1>1. /\ request.pc # "start" /\ request.pc # "done" /\ changes < Changes
      /\ flat' = flat /\ Legal' /\ seen' = seen \cup {Now'} /\ changes' = changes + 1
      /\ request' = request /\ kind' = kind /\ iterator' = iterator /\ entries' = entries
      /\ outcome' = outcome /\ listed' = listed
      /\ offset' = offset /\ dirClosed' = dirClosed /\ given' = given
  BY Zenon DEF Change, callVars, handleVars
<1>2. PICK k \in Keys, new \in Kinds :
         /\ (objects[k] = "none") # (new = "none")
         /\ objects' = [objects EXCEPT ![k] = new]
         /\ vanished \subseteq vanished'
  BY Zenon DEF Change
<1>3. path' = path
  BY Zenon, <1>1 DEF path
<1>4. objects \in [Keys -> Kinds] /\ objects' \in [Keys -> Kinds] /\ changes' \in 0..Changes
  <2>1. objects \in [Keys -> Kinds] /\ changes \in 0..Changes
    BY Zenon DEF FSInv, Ways, HandleInvariant, FSTypeOK
  <2>2. objects' \in [Keys -> Kinds]
    BY Zenon, <1>2, <2>1
  <2>3. changes' \in 0..Changes
    BY <1>1, <2>1, IOFSAssumption
  <2>4. QED
    BY Zenon, <2>1, <2>2, <2>3
<1>5. FSTypeOK'
  BY ZenonT(60), <1>1, <1>3, <1>4 DEF FSInv, Ways, HandleInvariant, FSTypeOK
<1>6. IteratorsClosed' /\ WholeDirectory' /\ CursorExact'
  BY Zenon, <1>1 DEF FSInv, Ways, HandleInvariant, IteratorsClosed, WholeDirectory, CursorExact
<1>7. Collected'
  BY Zenon, <1>1, <1>3 DEF FSInv, Ways, Collected
<1>8. Steps'
  <2>1. Opened' <=> Opened
    BY Zenon, <1>1 DEF Opened
  <2>2. Steps
    BY Zenon DEF FSInv, Ways
  <2>3. QED
    BY Zenon, <1>1, <2>1, <2>2 DEF Steps, Account
<1>9. /\ At(path) \in Kinds /\ At(path)' \in Kinds
      /\ At(path)' = At(path) \/ At(path) = "none" \/ At(path)' = "none"
  <2>1. At(path)' = IF path \in Keys THEN objects'[path] ELSE "none"
    BY Zenon, <1>3 DEF At
  <2>2. CASE path \in Keys
    <3>1. At(path) = objects[path] /\ At(path)' = objects'[path]
      BY Zenon, <2>1, <2>2 DEF At
    <3>2. path # k => objects'[path] = objects[path]
      BY Zenon, <1>2, <1>4, <2>2
    <3>3. path = k => objects'[path] = new
      BY Zenon, <1>2, <1>4, <2>2
    <3>4. objects[path] \in Kinds /\ objects'[path] \in Kinds
      BY Zenon, <1>4, <2>2
    <3>5. QED
      BY Zenon, <1>2, <3>1, <3>2, <3>3, <3>4
  <2>3. CASE path \notin Keys
    <3>1. "none" \in Kinds
      BY Zenon DEF Kinds
    <3>2. QED
      BY Zenon, <2>1, <2>3, <3>1 DEF At
  <2>4. QED
    BY Zenon, <2>2, <2>3
<1>10. Witnessed'
  <2>1. PICK now : now = Now' /\ now.kind = At(path)' /\ now \in [kind : Kinds, beneath : BOOLEAN]
    <3>1. Now'.kind = At(path)'
      BY Zenon DEF Now
    <3>2. /\ (Beneath(path)' # {}) \in BOOLEAN
          /\ Now' = [kind |-> At(path)', beneath |-> Beneath(path)' # {}]
      BY Zenon DEF Now
    <3>3. Now' \in [kind : Kinds, beneath : BOOLEAN]
      BY Zenon, <1>9, <3>2
    <3>4. QED
      BY Zenon, <3>1, <3>3
  <2>2. Now \in seen /\ Now.kind = At(path)
    BY Zenon, <1>1, NowIs
  <2>3. seen' = seen \cup {now} /\ now \in seen' /\ \A v \in seen : v \in seen'
    BY Zenon, <1>1, <2>1
  <2>4. (\A a : Was(a) => Was(a)') /\ (WasAbove => WasAbove')
    BY Zenon, <2>3 DEF Was, WasAbove
  <2>5. Found' <=> Found
    BY Zenon, <1>1 DEF Found
  <2>6. Grounded(request.pc, kind, outcome, Found)'
    <3>1. Grounded(request.pc, kind, outcome, Found)
      BY Zenon DEF FSInv, Witnessed
    <3>2. Undisturbed' => Undisturbed
      BY Zenon, <1>1, <1>2 DEF Undisturbed
    <3>3. QED
      BY Zenon, <1>1, <1>3, <2>3, <2>4, <2>5, <3>1, <3>2 DEF Grounded
  <2>7. ASSUME NEW v \in seen PROVE v.kind = now.kind \/ Was("none")'
    <3>1. CASE Was("none")
      BY Zenon, <2>4, <3>1
    <3>2. CASE ~Was("none")
      <4>1. v.kind = Now.kind
        BY Zenon, <2>2, <3>2 DEF FSInv, Witnessed
      <4>2. At(path) # "none"
        BY Zenon, <2>2, <3>2 DEF Was
      <4>3. At(path)' = "none" => Was("none")'
        BY Zenon, <2>1, <2>3 DEF Was
      <4>4. QED
        BY Zenon, <1>9, <2>1, <2>2, <4>1, <4>2, <4>3
    <3>3. QED
      BY Zenon, <3>1, <3>2
  <2>8. \A v, w \in seen' : v.kind = w.kind \/ Was("none")'
    <3>1. \A v, w \in seen : v.kind = w.kind \/ Was("none")
      BY Zenon DEF FSInv, Witnessed
    <3>2. QED
      BY Zenon, <2>3, <2>4, <2>7, <3>1
  <2>9. seen' \subseteq [kind : Kinds, beneath : BOOLEAN]
    BY Zenon, <2>1, <2>3 DEF FSInv, Witnessed
  <2>10. QED
    BY Zenon, <2>1, <2>3, <2>6, <2>8, <2>9 DEF Witnessed
<1>11. QED
  BY Zenon, <1>5, <1>6, <1>7, <1>8, <1>10 DEF FSInv, Ways, HandleInvariant

-----------------------------------------------------------------------------
(* The directory that Open has returned.                                   *)

\* Reading a directory and closing it leave the call and the store alone.
LEMMA HandleKeeps ==
    ASSUME FSInv, Opened, UNCHANGED callVars, UNCHANGED storeVars,
           offset' \in 0..Len(entries), dirClosed' \in BOOLEAN, CursorExact'
    PROVE  FSInv'
<1>1. /\ request' = request /\ kind' = kind /\ iterator' = iterator /\ entries' = entries
      /\ outcome' = outcome /\ listed' = listed
      /\ flat' = flat /\ objects' = objects /\ seen' = seen /\ changes' = changes
      /\ vanished' = vanished
  BY Zenon DEF callVars, storeVars
<1>2. path' = path
  BY Zenon, <1>1 DEF path
<1>3. FSTypeOK'
  <2>1. FSTypeOK
    BY Zenon DEF FSInv, Ways, HandleInvariant
  <2>2. Legal'
    BY Zenon, <1>1, <2>1 DEF FSTypeOK, Legal
  <2>3. QED
    BY ZenonT(60), <1>1, <1>2, <2>1, <2>2 DEF FSTypeOK
<1>4. IteratorsClosed' /\ WholeDirectory'
  BY Zenon, <1>1 DEF FSInv, Ways, HandleInvariant, IteratorsClosed, WholeDirectory
<1>5. Collected'
  BY Zenon, <1>1, <1>2 DEF FSInv, Ways, Collected
<1>6. Steps'
  <2>1. Opened'
    BY Zenon, <1>1 DEF Opened
  <2>2. QED
    BY Zenon, <1>1, <2>1 DEF FSInv, Ways, Steps, Account
<1>7. Witnessed'
  <2>1. Now' = Now
    BY Zenon, <1>1, <1>2 DEF Now, At, Beneath
  <2>2. QED
    BY Zenon, <1>1, <1>2, <2>1
       DEF FSInv, Witnessed, Grounded, Was, WasAbove, Found, Undisturbed
<1>8. QED
  BY Zenon, <1>3, <1>4, <1>5, <1>6, <1>7 DEF FSInv, Ways, HandleInvariant

\* ReadDir of the open directory, for any count.
LEMMA ReadDirKeeps ==
    ASSUME FSInv, ReadDir
    PROVE  FSInv'
<1>1. Opened /\ dirClosed' = dirClosed /\ UNCHANGED callVars /\ UNCHANGED storeVars
  BY Zenon DEF ReadDir
<1>2. PICK count \in Counts :
         /\ given' = [entries |-> given.entries \o SubSeq(entries, offset + 1, End(count)),
                      eof |-> count > 0 /\ offset >= Len(entries),
                      panic |-> offset < Len(entries) /\ End(count) < offset]
         /\ offset' = IF End(count) < offset THEN offset ELSE End(count)
  BY Zenon DEF ReadDir, Advance
<1>3. /\ entries \in Seq(DirEntry) /\ offset \in 0..Len(entries) /\ dirClosed \in BOOLEAN
      /\ given.entries = SubSeq(entries, 1, offset)
  BY Zenon DEF FSInv, Ways, HandleInvariant, FSTypeOK, Collected, CursorExact
<1>4. count \in Int /\ count < Half /\ Half \in Nat
  BY IOFSAssumption
<1>5. /\ End(count) \in Int /\ End(count) <= Len(entries)
      /\ End(count) < offset => offset > 0
  BY <1>3, <1>4 DEF End, Sum
<1>6. /\ offset' \in 0..Len(entries)
      /\ SubSeq(entries, 1, offset) \o SubSeq(entries, offset + 1, End(count))
         = SubSeq(entries, 1, offset')
  <2>1. CASE End(count) < offset
    <3>1. /\ offset' = offset
          /\ SubSeq(entries, offset + 1, End(count)) = <<>>
      BY <1>2, <1>3, <1>5, <2>1
    <3>2. SubSeq(entries, 1, offset) \o <<>> = SubSeq(entries, 1, offset)
      BY <1>3
    <3>3. QED
      BY Zenon, <1>3, <3>1, <3>2
  <2>2. CASE ~(End(count) < offset)
    <3>1. PICK o \in 0..Len(entries), m \in 0..Len(entries) :
             o = offset /\ m = End(count) /\ o <= m
      BY <1>3, <1>5, <2>2
    <3>2. SubSeq(entries, 1, o) \o SubSeq(entries, o + 1, m) = SubSeq(entries, 1, m)
      BY Zenon, <1>3, <3>1, Adjacent
    <3>3. offset' = m
      BY Zenon, <1>2, <2>2, <3>1
    <3>4. QED
      BY Zenon, <3>1, <3>2, <3>3
  <2>3. QED
    BY Zenon, <2>1, <2>2
<1>7. /\ given'.entries = given.entries \o SubSeq(entries, offset + 1, End(count))
      /\ given'.eof => offset >= Len(entries)
      /\ given'.panic => End(count) < offset
  BY Zenon, <1>2
<1>8. offset >= Len(entries) => offset' = Len(entries)
  BY <1>2, <1>3, <1>5
<1>9. given'.panic => offset' > 0
  BY Zenon, <1>2, <1>5, <1>7
<1>10. CursorExact'
  <2>1. entries' = entries
    BY Zenon, <1>1 DEF callVars
  <2>2. QED
    BY Zenon, <1>3, <1>6, <1>7, <1>8, <1>9, <2>1 DEF CursorExact
<1>11. QED
  BY Zenon, <1>1, <1>3, <1>6, <1>10, HandleKeeps

\* Close of the open directory.
LEMMA CloseKeeps ==
    ASSUME FSInv, Close
    PROVE  FSInv'
<1>1. /\ Opened /\ dirClosed' = TRUE /\ offset' = offset /\ given' = given
      /\ entries' = entries /\ UNCHANGED callVars /\ UNCHANGED storeVars
  BY Zenon DEF Close, callVars
<1>2. offset' \in 0..Len(entries) /\ dirClosed' \in BOOLEAN
  BY Zenon, <1>1 DEF FSInv, Ways, HandleInvariant, FSTypeOK
<1>3. CursorExact'
  BY Zenon, <1>1 DEF FSInv, Ways, HandleInvariant, CursorExact
<1>4. QED
  BY Zenon, <1>1, <1>2, <1>3, HandleKeeps

-----------------------------------------------------------------------------
(* The theorems.                                                           *)

\* The invariant holds at first.
LEMMA FSStarts == FSInit => FSInv
<1> SUFFICES ASSUME FSInit PROVE FSInv
  BY Zenon
<1>1. /\ kind = "none" /\ iterator = NoIterator /\ entries = <<>> /\ outcome = "pending"
      /\ offset = 0 /\ dirClosed = FALSE /\ given = NothingGiven
      /\ seen = {} /\ changes = 0
      /\ flat \in BOOLEAN /\ objects \in [Keys -> Kinds] /\ Legal
  BY Zenon DEF FSInit
<1>2. /\ request.pc = "start"
      /\ request \in [op : {"open", "stat", "readdir"}, name : Names,
                      pc : {"start", "stat", "probe", "probing", "probed", "list", "listing",
                            "listed", "reader", "done"}]
  BY Zenon DEF FSInit
<1>3. /\ iterator \in Iterators /\ iterator.rest = <<>> /\ Range(iterator.rest) = {}
      /\ ~iterator.open /\ ~iterator.failed
  BY Zenon, <1>1, NoIteratorIs
<1>4. /\ entries \in Seq(DirEntry) /\ Range(entries) = {} /\ Len(entries) = 0
      /\ given.entries = <<>> /\ given.eof = FALSE /\ given.panic = FALSE
      /\ SubSeq(entries, 1, 0) = <<>>
  BY Zenon, <1>1, NoneAtAll DEF NothingGiven
<1>5. FSTypeOK
  <2>1. /\ kind \in Kinds /\ offset \in 0..Len(entries) /\ changes \in 0..Changes
        /\ dirClosed \in BOOLEAN
    <3>1. Changes \in Nat
      BY Zenon, IOFSAssumption
    <3>2. 0 \in 0..0 /\ \A n \in Nat : 0 \in 0..n
      OBVIOUS
    <3>3. kind \in Kinds
      BY Zenon, <1>1 DEF Kinds
    <3>4. QED
      BY Zenon, <1>1, <1>4, <3>1, <3>2, <3>3
  <2>2. iterator.failed \in BOOLEAN /\ iterator.open \in BOOLEAN
    BY Zenon, <1>1 DEF NoIterator
  <2>3. /\ outcome \in {"pending", "ok", "invalid", "notexist", "notdir", "error"}
        /\ outcome = "pending" <=> request.pc # "done"
    BY Zenon, <1>1, <1>2
  <2>4. QED
    BY Zenon, <1>1, <1>2, <2>1, <2>2, <2>3 DEF FSTypeOK
<1>6. /\ "pending" # "ok" /\ "pending" # "notdir" /\ "pending" # "notexist"
      /\ "none" # "file" /\ "none" # "directory"
      /\ "start" \notin {"list", "listing", "listed"} /\ "start" \notin {"listing", "listed"}
      /\ "start" \notin {"probing", "probed", "listing", "listed"}
      /\ "start" \notin {"probe", "probing", "probed"} /\ "start" \notin {"probing", "probed"}
      /\ "start" # "reader" /\ "start" # "listed" /\ "start" # "probed"
  BY Zenon
<1>7. IteratorsClosed /\ WholeDirectory /\ CursorExact
  BY Zenon, <1>1, <1>3, <1>4, <1>6 DEF IteratorsClosed, WholeDirectory, CursorExact
<1>8. Collected
  BY Zenon, <1>3, <1>4 DEF Collected, Iterators
<1>9. Steps
  BY Zenon, <1>1, <1>2, <1>6 DEF Steps
<1>10. Witnessed
  BY Zenon, <1>1, <1>2, <1>6 DEF Witnessed, Grounded
<1>11. QED
  BY Zenon, <1>5, <1>7, <1>8, <1>9, <1>10 DEF FSInv, Ways, HandleInvariant

\* Every step of the call, of the store and of the handle keeps the invariant.
LEMMA FSStep == FSInv /\ [FSNext]_fsVars => FSInv'
<1> SUFFICES ASSUME FSInv, [FSNext]_fsVars PROVE FSInv'
  BY Zenon
<1>1. CASE Start
  BY Zenon, <1>1, StartKeeps
<1>2. CASE Stat
  BY Zenon, <1>2, StatKeeps
<1>3. CASE Probe
  <2>1. /\ request.pc = "probe" /\ List(1, "probing") /\ kind' = kind /\ entries' = entries
        /\ UNCHANGED handleVars /\ UNCHANGED storeVars
    BY Zenon, <1>3 DEF Probe
  <2>2. 1 \in Nat \ {0}
    OBVIOUS
  <2>3. QED
    BY Zenon, <2>1, <2>2, ListKeeps
<1>4. CASE ListDirectory
  <2>1. /\ request.pc = "list" /\ List(MaxList, "listing") /\ kind' = kind /\ entries' = entries
        /\ UNCHANGED handleVars /\ UNCHANGED storeVars
    BY Zenon, <1>4 DEF ListDirectory
  <2>2. MaxList \in Nat \ {0}
    BY IOFSAssumption
  <2>3. QED
    BY Zenon, <2>1, <2>2, ListKeeps
<1>5. CASE Reader
  BY Zenon, <1>5, ReaderKeeps
<1>6. CASE IteratorNext
  BY Zenon, <1>6, NextKeeps
<1>7. CASE IteratorEnds
  BY Zenon, <1>7, EndsKeeps
<1>8. CASE CloseProbe
  BY Zenon, <1>8, CloseProbeKeeps
<1>9. CASE CloseList
  BY Zenon, <1>9, CloseListKeeps
<1>10. CASE ReadDir
  BY Zenon, <1>10, ReadDirKeeps
<1>11. CASE Close
  BY Zenon, <1>11, CloseKeeps
<1>12. CASE Change
  BY Zenon, <1>12, ChangeKeeps
<1>13. CASE UNCHANGED fsVars
  <2>1. /\ request' = request /\ kind' = kind /\ iterator' = iterator /\ entries' = entries
        /\ outcome' = outcome /\ listed' = listed
        /\ flat' = flat /\ objects' = objects /\ seen' = seen /\ changes' = changes
        /\ offset' = offset /\ dirClosed' = dirClosed /\ given' = given
        /\ vanished' = vanished
    BY Zenon, <1>13 DEF fsVars
  <2>2. path' = path
    BY Zenon, <2>1 DEF path
  <2>3. FSTypeOK'
    <3>1. FSTypeOK
      BY Zenon DEF FSInv, Ways, HandleInvariant
    <3>2. Legal'
      BY Zenon, <2>1, <3>1 DEF FSTypeOK, Legal
    <3>3. QED
      BY ZenonT(60), <2>1, <2>2, <3>1, <3>2 DEF FSTypeOK
  <2>4. IteratorsClosed' /\ WholeDirectory' /\ CursorExact'
    BY Zenon, <2>1
       DEF FSInv, Ways, HandleInvariant, IteratorsClosed, WholeDirectory, CursorExact
  <2>5. Collected' /\ Steps'
    BY Zenon, <2>1, <2>2 DEF FSInv, Ways, Collected, Steps, Account, Opened
  <2>6. Now' = Now
    BY Zenon, <2>1, <2>2 DEF Now, At, Beneath
  <2>7. Witnessed'
    BY ZenonT(60), <2>1, <2>2, <2>6
       DEF FSInv, Witnessed, Grounded, Was, WasAbove, Found, Undisturbed
  <2>8. QED
    BY Zenon, <2>3, <2>4, <2>5, <2>7 DEF FSInv, Ways, HandleInvariant
<1>14. QED
  BY Zenon, <1>1, <1>2, <1>3, <1>4, <1>5, <1>6, <1>7, <1>8, <1>9, <1>10, <1>11, <1>12, <1>13
  DEF FSNext

\* Whatever fails and whatever others do meanwhile, no iterator of IOFS stays
\* open, a directory that Open or ReadDir returns is all that the lister had to
\* show, sorted by name, and ioFSDirectory.ReadDir gives each entry once, in
\* order, and says io.EOF after the last.  It may panic when the count and the
\* offset add up to more than an int, and then leaves the cursor where it is.
THEOREM DirectoriesAreWhole == FSSpec => []HandleInvariant
<1>1. FSInv => HandleInvariant
  BY Zenon DEF FSInv, Ways
<1>2. QED
  BY <1>1, FSStarts, FSStep, PTL DEF FSSpec

\* Names of io/fs and logical paths correspond (ioFSPath, ParsePath, Join, Dir,
\* Base), and a directory's name and an entry's make up that entry's path.
THEOREM NamesDenotePaths == FSSpec => []NamesDenote
<1>1. FSInv => NamesDenote
  BY Zenon, NamesFollow DEF FSInv, Ways, HandleInvariant
<1>2. QED
  BY <1>1, FSStarts, FSStep, PTL DEF FSSpec

\* IOFS has no snapshot, yet what Open, Stat and ReadDir report of a path (that
\* it is a file or a directory, not a directory, or does not exist) was so at
\* some time during the call, and is exactly so when the path does not change.
\* Not so is that a tree's directory does not exist when one of its entries was
\* removed while it was being listed.
THEOREM ReportsAreTrue == FSSpec => []ReportsWhatWas
<1>1. FSInv => ReportsWhatWas
  BY Zenon, ReportsFollow
<1>2. QED
  BY <1>1, FSStarts, FSStep, PTL DEF FSSpec
=============================================================================
