--------------------------- MODULE SftpSessionProofs ---------------------------
(***************************************************************************)
(* Proofs about SftpSession, for any number of clients, paths, contents    *)
(* and sessions: what stays on the server, that no call closes a session   *)
(* that works, and that the adapter implements the contract through        *)
(* reconnects, lost replies and Adapter.Close.                             *)
(***************************************************************************)
EXTENDS SftpSession, TLAPS

\* Where a call is, or goes with the session it waits for.
At(c) == IF pc(c) = "session" THEN call[c].goal ELSE pc(c)

\* The control states of a call that works on a session.
Working == {"stat", "open", "check", "fill", "finish", "publish", "cleanup", "unlink",
            "confirm", "remove", "move", "lost"}

\* What a Write uploads.
Source(c) == IF request[c].op = "copy" THEN answer[c] ELSE request[c].content

\* The answer, the temporary file and the stream of a call, by where it is.
CallOK(c) ==
    /\ (request[c] = None) <=> (pc(c) = "idle")
    /\ request[c] # None => request[c] \in Calls
    /\ pc(c) \in Working => call[c].using \in Sessions
    /\ pc(c) = "session" =>
          call[c].goal \in {"stat", "open", "check", "confirm", "remove", "move"}
    /\ At(c) \in {"idle", "stream", "closing", "waiting"} => ~InEffect(c)
    /\ At(c) \in {"stat", "open", "remove", "move"} => outcome[c] = "pending"
    /\ At(c) = "stat" => request[c].op = "stat"
    /\ At(c) = "open" => request[c].op \in {"read", "copy"}
    /\ At(c) = "remove" => request[c].op = "delete"
    /\ At(c) = "move" => request[c].op = "move" /\ atomicRename
    /\ At(c) \in {"check", "fill", "finish", "publish"} =>
          IF request[c].op = "copy" THEN outcome[c] = "loaded"
          ELSE outcome[c] = "pending" /\ request[c].op = "write"
    /\ At(c) = "cleanup" => outcome[c] = "error"
    /\ At(c) = "unlink" => outcome[c] \in {"ok", "gone", "error"}
    /\ At(c) \in {"confirm", "lost"} => outcome[c] = "ok"
    /\ pc(c) \in {"fill", "finish", "publish", "cleanup"} => temp[c] \in Temp
    /\ pc(c) \in {"finish", "publish"} => temp[c].content = Source(c)
    /\ pc(c) \in {"stream", "closing", "waiting"} => stream[c] \in Stream

Calling == \A c \in Clients : CallOK(c)

Kept == TypeOK /\ NoSessionLeak /\ UploadsOwned

Inv == Kept /\ Calling

\* What a client has, well typed.
Typed(c) ==
    /\ call[c] \in Call
    /\ temp[c] \in Temp \cup {None}
    /\ stream[c] \in Stream \cup {None}
    /\ request[c] \in Requests \cup {None}
    /\ outcome[c] \in {"idle", "pending", "loaded", "ok", "notfound", "gone", "error"}
    /\ answer[c] \in Contents \cup {None}

CleanedUp(c) ==
    temp[c] # None => pc(c) \in {"fill", "finish", "publish", "cleanup", "unlink"}

\* The session, the connections and what does not belong to a client.
SessionsOK ==
    /\ session \in Sessions \cup {None}
    /\ closed \in BOOLEAN
    /\ link \in [Sessions -> {"none", "up", "down", "closed"}]
    /\ NoSessionLeak

\* A step that changes at most what c has.
Own(c) ==
    /\ call' = [call EXCEPT ![c] = call'[c]]
    /\ temp' = [temp EXCEPT ![c] = temp'[c]]
    /\ stream' = [stream EXCEPT ![c] = stream'[c]]
    /\ request' = [request EXCEPT ![c] = request'[c]]
    /\ outcome' = [outcome EXCEPT ![c] = outcome'[c]]
    /\ answer' = [answer EXCEPT ![c] = answer'[c]]
    /\ UNCHANGED <<atomicRename, workload>> /\ stray' \in BOOLEAN

-----------------------------------------------------------------------------
(* The invariant, client by client.                                        *)

\* The invariant, taken apart for one client.
LEMMA Parts ==
    ASSUME Inv, NEW c \in Clients
    PROVE  Typed(c) /\ CallOK(c) /\ CleanedUp(c) /\ SessionsOK
BY DEF Inv, Kept, TypeOK, UploadsOwned, Calling, Typed, CleanedUp, SessionsOK

\* A client whose state does not change keeps what is true of it.
LEMMA SameCall ==
    ASSUME NEW d \in Clients, CallOK(d), atomicRename' = atomicRename,
           call'[d] = call[d], temp'[d] = temp[d], stream'[d] = stream[d],
           request'[d] = request[d], outcome'[d] = outcome[d], answer'[d] = answer[d]
    PROVE  CallOK(d)'
<1>1. pc(d)' = pc(d) /\ Source(d)' = Source(d) /\ (InEffect(d)' <=> InEffect(d))
  BY Zenon DEF pc, Source, InEffect
<1>2. At(d)' = At(d)
  BY Zenon, <1>1 DEF At
<1>3. QED
  BY ZenonT(60), <1>1, <1>2 DEF CallOK

\* A step that leaves other clients alone keeps what is true of them.
LEMMA Assemble ==
    ASSUME Inv, NEW c \in Clients, Own(c),
           Typed(c)', CallOK(c)', CleanedUp(c)', SessionsOK',
           objects' \in [Paths -> Contents \cup {None}]
    PROVE  Inv'
<1>1. ASSUME NEW d \in Clients, d # c
      PROVE  /\ call'[d] = call[d] /\ temp'[d] = temp[d] /\ stream'[d] = stream[d]
             /\ request'[d] = request[d] /\ outcome'[d] = outcome[d]
             /\ answer'[d] = answer[d]
  BY <1>1 DEF Own, Inv, Kept, TypeOK
<1>2. ASSUME NEW d \in Clients PROVE Typed(d)' /\ CallOK(d)' /\ CleanedUp(d)'
  <2>1. CASE d = c
    BY <2>1
  <2>2. CASE d # c
    <3>1. Typed(d) /\ CallOK(d) /\ CleanedUp(d)
      BY Parts
    <3>2. Typed(d)'
      BY <1>1, <2>2, <3>1 DEF Typed
    <3>3. CleanedUp(d)'
      BY <1>1, <2>2, <3>1 DEF CleanedUp, pc
    <3>4. atomicRename' = atomicRename
      BY DEF Own
    <3>5. CallOK(d)'
      BY Zenon, <1>1, <2>2, <3>1, <3>4, SameCall
    <3>6. QED
      BY <3>2, <3>3, <3>5
  <2>3. QED
    BY <2>1, <2>2
<1>3. Calling' /\ UploadsOwned'
  BY <1>2 DEF Calling, UploadsOwned, CleanedUp
<1>4. TypeOK'
  <2>1. /\ call' \in [Clients -> Call] /\ temp' \in [Clients -> Temp \cup {None}]
        /\ stream' \in [Clients -> Stream \cup {None}]
    BY DEF Own, Typed, Inv, Kept, TypeOK
  <2>2. /\ request' \in [Clients -> Requests \cup {None}]
        /\ outcome' \in [Clients -> {"idle", "pending", "loaded", "ok", "notfound", "gone", "error"}]
        /\ answer' \in [Clients -> Contents \cup {None}]
    BY DEF Own, Typed, Inv, Kept, TypeOK
  <2>3. atomicRename' \in BOOLEAN /\ workload' \in Workloads /\ stray' \in BOOLEAN
    BY DEF Own, Inv, Kept, TypeOK
  <2>4. QED
    BY <2>1, <2>2, <2>3 DEF TypeOK, SessionsOK
<1>5. QED
  BY <1>3, <1>4 DEF Inv, Kept, SessionsOK

\* A call in progress.
LEMMA InProgress ==
    ASSUME Inv, NEW c \in Clients, pc(c) # "idle"
    PROVE  /\ request[c] # None /\ request[c] \in Requests /\ request[c] \in Calls
           /\ request[c].path \in Paths /\ request[c].to \in Paths
           /\ request[c].content \in Contents \cup {None}
BY Parts DEF CallOK, Calls, Requests

\* Functions on clients that a step leaves alone.
LEMMA Same ==
    ASSUME Inv, NEW c \in Clients
    PROVE  /\ call' = call => call' = [call EXCEPT ![c] = call'[c]]
           /\ temp' = temp => temp' = [temp EXCEPT ![c] = temp'[c]]
           /\ stream' = stream => stream' = [stream EXCEPT ![c] = stream'[c]]
           /\ request' = request => request' = [request EXCEPT ![c] = request'[c]]
           /\ outcome' = outcome => outcome' = [outcome EXCEPT ![c] = outcome'[c]]
           /\ answer' = answer => answer' = [answer EXCEPT ![c] = answer'[c]]
BY DEF Inv, Kept, TypeOK

\* What a returning call leaves behind.
LEMMA Returned ==
    ASSUME Inv, NEW c \in Clients, Return(c), pc(c) # "idle"
    PROVE  /\ call' = [call EXCEPT ![c] = call'[c]]
           /\ request' = [request EXCEPT ![c] = request'[c]]
           /\ call'[c] \in Call
           /\ \/ call'[c].pc = "idle" /\ request'[c] = None
              \/ call'[c].pc = "closing" /\ request'[c] = request[c] /\ stream[c] \in Stream
<1>1. call \in [Clients -> Call] /\ request \in [Clients -> Requests \cup {None}]
  BY DEF Inv, Kept, TypeOK
<1>2. CASE stream[c] = None
  <2>1. call' = [call EXCEPT ![c] = NoCall] /\ request' = [request EXCEPT ![c] = None]
    BY <1>2 DEF Return
  <2>2. NoCall \in Call /\ NoCall.pc = "idle"
    BY DEF NoCall, Call
  <2>3. call'[c] = NoCall /\ request'[c] = None
    BY <1>1, <2>1
  <2>4. call' = [call EXCEPT ![c] = call'[c]] /\ request' = [request EXCEPT ![c] = request'[c]]
    BY Zenon, <2>1, <2>3
  <2>5. call'[c] \in Call /\ call'[c].pc = "idle"
    BY <2>2, <2>3, Zenon
  <2>6. QED
    BY <2>3, <2>4, <2>5
<1>3. CASE stream[c] # None
  <2>1. call' = [call EXCEPT ![c].pc = "closing", ![c].using = None] /\ request' = request
    BY <1>3 DEF Return
  <2>2. stream[c] \in Stream
    BY <1>3 DEF Inv, Kept, TypeOK
  <2>3. call[c] \in Call
    BY <1>1
  <2>4. call'[c] = [call[c] EXCEPT !.pc = "closing", !.using = None]
    BY <1>1, <2>1
  <2>5. call'[c] \in Call /\ call'[c].pc = "closing"
    BY Zenon, <2>3, <2>4 DEF Call
  <2>6. QED
    BY Zenon, <1>1, <2>1, <2>2, <2>5
<1>4. QED
  BY <1>2, <1>3

\* A call that returns with an answer.
LEMMA ReturnKeeps ==
    ASSUME Inv, NEW c \in Clients, Return(c), pc(c) # "idle",
           NEW o \in {"ok", "notfound", "gone", "error"}, outcome' = [outcome EXCEPT ![c] = o],
           stream' = stream, answer' = answer,
           UNCHANGED <<atomicRename, workload>>, stray' \in BOOLEAN,
           temp' = [temp EXCEPT ![c] = temp'[c]], temp'[c] = None,
           objects' \in [Paths -> Contents \cup {None}], SessionsOK'
    PROVE  Inv'
<1>1. Typed(c) /\ CallOK(c)
  BY Parts
<1>2. outcome'[c] = o
  BY DEF Inv, Kept, TypeOK
<1>3. Own(c)
  BY Zenon, <1>2, Same, Returned DEF Own
<1>4. Typed(c)'
  BY <1>1, <1>2, Returned DEF Typed
<1>5. CleanedUp(c)'
  BY DEF CleanedUp
<1>6. request[c] # None /\ request[c] \in Calls
  BY InProgress
<1>7. CallOK(c)'
  BY <1>2, <1>6, Returned DEF CallOK, pc, At, InEffect, Working
<1>8. QED
  BY <1>3, <1>4, <1>5, <1>7, Assemble

\* A call that goes on elsewhere: its control state, and its temporary file.
LEMMA GoesOn ==
    ASSUME Inv, NEW c \in Clients, call' = [call EXCEPT ![c] = call'[c]], call'[c] \in Call,
           UNCHANGED <<atomicRename, workload, stream, request, answer>>, stray' \in BOOLEAN,
           outcome' = [outcome EXCEPT ![c] = outcome'[c]],
           outcome'[c] \in {"idle", "pending", "loaded", "ok", "notfound", "gone", "error"},
           temp' = [temp EXCEPT ![c] = temp'[c]], temp'[c] \in Temp \cup {None},
           objects' \in [Paths -> Contents \cup {None}], SessionsOK',
           CallOK(c)', CleanedUp(c)'
    PROVE  Inv'
<1>1. Typed(c)
  BY Parts
<1>2. Own(c)
  BY Same DEF Own
<1>3. Typed(c)'
  BY <1>1 DEF Typed
<1>4. QED
  BY <1>2, <1>3, Assemble

\* Nothing happens to the sessions.
LEMMA SameSessions ==
    ASSUME SessionsOK, UNCHANGED sessionVars
    PROVE  SessionsOK'
BY DEF SessionsOK, NoSessionLeak, sessionVars

\* A protocol call whose reply is lost takes the connection down.
LEMMA LinkDown ==
    ASSUME SessionsOK, NEW c \in Clients, Up(c), UNCHANGED <<session, closed>>,
           link' = [link EXCEPT ![call[c].using] = "down"]
    PROVE  SessionsOK'
BY Zenon DEF SessionsOK, NoSessionLeak, Up

\* invalidate closes what it forgets.
LEMMA Invalidated ==
    ASSUME SessionsOK, NEW s \in Sessions, invalidate(s), UNCHANGED closed
    PROVE  SessionsOK'
BY DEF SessionsOK, NoSessionLeak, invalidate

\* currentSession dials when no session is there.
LEMMA Dialled ==
    ASSUME SessionsOK, NEW c \in Clients, NEW s \in Sessions, currentSession(c, s), UNCHANGED closed
    PROVE  SessionsOK'
BY SftpAssumption DEF SessionsOK, NoSessionLeak, currentSession

-----------------------------------------------------------------------------
(* Every action keeps the invariant.                                       *)

\* Calls that end without having changed an object.
LEMMA EndsKeep ==
    ASSUME Inv, NEW c \in Clients, UNCHANGED workload, stray' \in BOOLEAN,
           Refuse(c) \/ Lost(c) \/ Stat(c) \/ Unlink(c) \/ Confirm(c)
    PROVE  Inv'
<1>1. Typed(c) /\ CallOK(c) /\ CleanedUp(c) /\ SessionsOK
  BY Parts
<1>2. /\ UNCHANGED <<sessionVars, atomicRename, objects, stream, answer>>
      /\ Return(c) /\ pc(c) \notin {"idle", "session"}
  BY DEF Refuse, Lost, Stat, Unlink, Confirm, Fail
<1>3. SessionsOK' /\ objects' \in [Paths -> Contents \cup {None}]
  BY <1>1, <1>2, SameSessions DEF Inv, Kept, TypeOK
<1>4. temp' = [temp EXCEPT ![c] = temp'[c]] /\ temp'[c] = None
  <2>1. CASE Unlink(c)
    BY <2>1 DEF Unlink, Inv, Kept, TypeOK
  <2>2. CASE ~Unlink(c)
    <3>1. temp' = temp /\ pc(c) \notin {"fill", "finish", "publish", "cleanup", "unlink"}
      BY <2>2 DEF Refuse, Lost, Stat, Confirm
    <3>2. temp[c] = None
      BY <1>1, <3>1 DEF CleanedUp
    <3>3. QED
      BY <3>1, <3>2, Same
  <2>3. QED
    BY <2>1, <2>2
<1>5. PICK o \in {"ok", "notfound", "gone", "error"} : outcome' = [outcome EXCEPT ![c] = o]
  <2>1. CASE Confirm(c) /\ outcome' = outcome
    <3>1. outcome[c] = "ok"
      BY Zenon, <1>1, <2>1 DEF Confirm, CallOK, At
    <3>2. outcome' = [outcome EXCEPT ![c] = "ok"]
      BY <2>1, <3>1, Same
    <3>3. QED
      BY <3>2
  <2>2. CASE Unlink(c)
    <3>1. outcome[c] \in {"ok", "gone", "error"}
      BY Zenon, <1>1, <2>2 DEF Unlink, CallOK, At
    <3>2. PICK o \in {"gone", "error"} : o = IF outcome[c] = "ok" THEN "error" ELSE outcome[c]
      BY <3>1
    <3>3. outcome' = [outcome EXCEPT ![c] = o]
      BY Zenon, <2>2, <3>2 DEF Unlink
    <3>4. QED
      BY <3>3
  <2>3. CASE ~(Confirm(c) /\ outcome' = outcome) /\ ~Unlink(c)
    BY <2>3 DEF Refuse, Lost, Stat, Confirm, Fail, Answer
  <2>4. QED
    BY <2>1, <2>2, <2>3
<1>6. QED
  BY Zenon, <1>2, <1>3, <1>4, <1>5, ReturnKeeps

\* A Write's steps up to its publication, and what follows a failed one.
LEMMA UploadKeeps ==
    ASSUME Inv, NEW c \in Clients, UNCHANGED workload, stray' \in BOOLEAN,
           Check(c) \/ Fill(c) \/ Finish(c) \/ UploadFails(c) \/ Cleanup(c)
    PROVE  Inv'
<1>1. Typed(c) /\ CallOK(c) /\ CleanedUp(c) /\ SessionsOK
  BY Parts
<1>2. UNCHANGED <<sessionVars, atomicRename, objects, stream, request, answer>>
  BY DEF Check, Fill, Finish, UploadFails, Cleanup, callVars
<1>3. SessionsOK' /\ objects' \in [Paths -> Contents \cup {None}]
  BY <1>1, <1>2, SameSessions DEF Inv, Kept, TypeOK
<1>4. PICK x \in {"fill", "finish", "publish", "cleanup", "unlink"} :
         /\ call' = [call EXCEPT ![c].pc = x]
         /\ pc(c) \in {"check", "fill", "finish", "publish", "cleanup"}
         /\ x = "fill" => Check(c)
         /\ x = "finish" => Fill(c)
         /\ x = "publish" => Finish(c)
         /\ x = "cleanup" => UploadFails(c) /\ pc(c) \in {"fill", "finish"}
  BY DEF Check, Fill, Finish, UploadFails, Cleanup, Goto
<1>5. /\ call' = [call EXCEPT ![c] = call'[c]] /\ call'[c] = [call[c] EXCEPT !.pc = x]
  BY <1>4 DEF Inv, Kept, TypeOK
<1>6. call'[c] \in Call /\ call'[c].pc = x /\ call'[c].using = call[c].using
  BY <1>1, <1>5 DEF Typed, Call
<1>7. CleanedUp(c)'
  BY <1>6 DEF CleanedUp, pc
<1>8. /\ temp' = [temp EXCEPT ![c] = temp'[c]] /\ temp'[c] \in Temp
      /\ x \in {"finish", "publish"} => temp'[c].content = Source(c)
  <2>1. temp \in [Clients -> Temp \cup {None}]
    BY DEF Inv, Kept, TypeOK
  <2>2. CASE Check(c)
    <3>1. temp' = [temp EXCEPT ![c] = [content |-> None, open |-> TRUE]]
      BY <2>2 DEF Check
    <3>2. [content |-> None, open |-> TRUE] \in Temp
      BY DEF Temp
    <3>3. x = "fill"
      BY <1>5, <1>6, <2>2 DEF Check, Goto, Inv, Kept, TypeOK, Call
    <3>4. QED
      BY <2>1, <3>1, <3>2, <3>3
  <2>3. CASE ~Check(c)
    <3>1. temp[c] \in Temp
      BY <1>1, <2>3 DEF CallOK, Fill, Finish, UploadFails, Cleanup
    <3>2. CASE Fill(c)
      <4>1. Source(c) \in Contents \cup {None}
        BY <1>1, <3>2, InProgress DEF Source, Typed, Fill
      <4>2. temp' = [temp EXCEPT ![c].content = Source(c)]
        BY <3>2 DEF Fill, Source
      <4>3. temp'[c] = [temp[c] EXCEPT !.content = Source(c)]
        BY <2>1, <4>2
      <4>4. temp'[c] \in Temp /\ temp'[c].content = Source(c)
        BY <3>1, <4>1, <4>3 DEF Temp
      <4>5. QED
        BY <2>1, <4>2, <4>4
    <3>3. CASE Finish(c) \/ Cleanup(c)
      <4>1. temp' = [temp EXCEPT ![c].open = FALSE]
        BY <3>3 DEF Finish, Cleanup
      <4>2. temp'[c] = [temp[c] EXCEPT !.open = FALSE]
        BY <2>1, <4>1
      <4>3. temp'[c] \in Temp /\ temp'[c].content = temp[c].content
        BY Zenon, <3>1, <4>2 DEF Temp
      <4>4. x \in {"finish", "publish"} => pc(c) = "finish"
        BY <1>4, <3>3 DEF Finish, Cleanup, Fill
      <4>5. x \in {"finish", "publish"} => temp[c].content = Source(c)
        BY <1>1, <4>4 DEF CallOK
      <4>6. QED
        BY <2>1, <4>1, <4>3, <4>5
    <3>4. CASE UploadFails(c)
      <4>1. temp' = temp /\ call'[c].pc \in {"cleanup", "unlink"}
        BY <3>4 DEF UploadFails, Goto, Inv, Kept, TypeOK, Call
      <4>2. QED
        BY <1>6, <2>1, <3>1, <4>1, Same
    <3>5. QED
      BY <2>3, <3>2, <3>3, <3>4
  <2>4. QED
    BY <2>2, <2>3
<1>9. /\ outcome' = [outcome EXCEPT ![c] = outcome'[c]]
      /\ x \in {"fill", "finish", "publish"} =>
            outcome' = outcome /\ pc(c) \in {"check", "fill", "finish"}
      /\ x = "cleanup" => outcome'[c] = "error"
      /\ x = "unlink" => outcome'[c] \in {"gone", "error"}
  <2>1. CASE UploadFails(c)
    <3>1. PICK o \in {"gone", "error"} :
             /\ outcome' = [outcome EXCEPT ![c] = o]
             /\ (Goto(c, "cleanup") /\ o = "error") \/ Goto(c, "unlink")
      BY Zenon, <2>1 DEF UploadFails, Answer
    <3>2. outcome' = [outcome EXCEPT ![c] = outcome'[c]] /\ outcome'[c] = o
      BY Zenon, <3>1 DEF Inv, Kept, TypeOK
    <3>3. (x = "cleanup" /\ o = "error") \/ x = "unlink"
      BY <1>6, <3>1 DEF Goto, Inv, Kept, TypeOK, Call
    <3>4. QED
      BY <3>2, <3>3
  <2>2. CASE Check(c) \/ Fill(c) \/ Finish(c)
    <3>1. outcome' = outcome /\ pc(c) \in {"check", "fill", "finish"}
      BY <2>2 DEF Check, Fill, Finish, callVars
    <3>2. x \in {"fill", "finish", "publish"}
      BY <1>6, <2>2 DEF Check, Fill, Finish, Goto, Inv, Kept, TypeOK, Call
    <3>3. QED
      BY <3>1, <3>2, Same
  <2>3. CASE Cleanup(c)
    <3>1. outcome' = outcome /\ outcome[c] = "error"
      BY Zenon, <1>1, <2>3 DEF Cleanup, callVars, CallOK, At
    <3>2. x = "unlink"
      BY <1>6, <2>3 DEF Cleanup, Goto, Inv, Kept, TypeOK, Call
    <3>3. QED
      BY <3>1, <3>2, Same
  <2>4. QED
    BY <2>1, <2>2, <2>3
<1>10. CallOK(c)'
  <2>1. Source(c)' = Source(c)
    BY <1>2 DEF Source
  <2>2. request[c] # None /\ request[c] \in Calls /\ call[c].using \in Sessions
    BY <1>1, <1>4 DEF CallOK, Working
  <2>3. x \in {"fill", "finish", "publish"} =>
           IF request'[c].op = "copy" THEN outcome'[c] = "loaded"
           ELSE outcome'[c] = "pending" /\ request'[c].op = "write"
    BY Zenon, <1>1, <1>2, <1>9 DEF CallOK, At
  <2>4. At(c)' = x /\ pc(c)' = x
    BY <1>4, <1>6 DEF At, pc
  <2>5. QED
    BY ZenonT(60), <1>2, <1>4, <1>6, <1>8, <1>9, <2>1, <2>2, <2>3, <2>4 DEF CallOK
<1>11. outcome'[c] \in {"idle", "pending", "loaded", "ok", "notfound", "gone", "error"}
  BY <1>1, <1>4, <1>9 DEF Typed
<1>12. QED
  BY Zenon, <1>2, <1>3, <1>5, <1>6, <1>7, <1>8, <1>9, <1>10, <1>11, GoesOn

\* A command that takes effect and is answered, or whose reply is lost.
LEMMA CommandsKeep ==
    ASSUME Inv, NEW c \in Clients, UNCHANGED workload, stray' \in BOOLEAN, Delete(c) \/ Move(c)
    PROVE  Inv'
<1>1. Typed(c) /\ CallOK(c) /\ CleanedUp(c) /\ SessionsOK
  BY Parts
<1>2. /\ UNCHANGED <<session, closed, atomicRename, temp, stream, answer>>
      /\ pc(c) \in {"remove", "move"} /\ Up(c)
  BY DEF Delete, Move
<1>3. objects \in [Paths -> Contents \cup {None}] /\ request[c].path \in Paths
  BY <1>2, InProgress DEF Inv, Kept, TypeOK
<1>4. objects' \in [Paths -> Contents \cup {None}]
  BY <1>3 DEF Delete, Move
<1>5. temp' = [temp EXCEPT ![c] = temp'[c]] /\ temp'[c] = None
  BY <1>1, <1>2, Same DEF CleanedUp
<1>6. PICK o \in {"ok", "notfound"} :
         /\ outcome' = [outcome EXCEPT ![c] = o]
         /\ \/ Return(c) /\ UNCHANGED link
            \/ /\ o = "ok" /\ link' = [link EXCEPT ![call[c].using] = "down"]
               /\ Goto(c, "lost") /\ UNCHANGED request
  BY DEF Delete, Move, Answer
<1>7. CASE Return(c) /\ UNCHANGED link
  <2>1. SessionsOK'
    BY <1>1, <1>2, <1>7, SameSessions DEF sessionVars
  <2>2. QED
    BY Zenon, <1>2, <1>4, <1>5, <1>6, <1>7, <2>1, ReturnKeeps
<1>8. CASE /\ o = "ok" /\ link' = [link EXCEPT ![call[c].using] = "down"]
           /\ Goto(c, "lost") /\ UNCHANGED request
  <2>1. SessionsOK'
    BY Zenon, <1>1, <1>2, <1>8, LinkDown
  <2>2. call' = [call EXCEPT ![c] = call'[c]] /\ call'[c] = [call[c] EXCEPT !.pc = "lost"]
    BY <1>8 DEF Goto, Inv, Kept, TypeOK
  <2>3. call'[c] \in Call /\ call'[c].pc = "lost" /\ call'[c].using = call[c].using
    BY <1>1, <2>2 DEF Typed, Call
  <2>4. outcome' = [outcome EXCEPT ![c] = outcome'[c]] /\ outcome'[c] = "ok"
    BY <1>6, <1>8 DEF Inv, Kept, TypeOK
  <2>5. CallOK(c)'
    BY Zenon, <1>1, <1>2, <1>8, <2>3, <2>4 DEF CallOK, pc, At, Working
  <2>6. CleanedUp(c)'
    BY <1>5 DEF CleanedUp
  <2>7. QED
    BY <1>2, <1>4, <1>5, <1>8, <2>1, <2>2, <2>3, <2>4, <2>5, <2>6, GoesOn
<1>9. QED
  BY <1>6, <1>7, <1>8

\* The rename that publishes an upload, answered or not.
LEMMA PublishKeeps ==
    ASSUME Inv, NEW c \in Clients, UNCHANGED workload, stray' \in BOOLEAN, Publish(c)
    PROVE  Inv'
<1>1. Typed(c) /\ CallOK(c) /\ CleanedUp(c) /\ SessionsOK
  BY Parts
<1>2. /\ UNCHANGED <<session, closed, atomicRename, stream, request, answer>>
      /\ pc(c) = "publish" /\ Up(c) /\ outcome' = [outcome EXCEPT ![c] = "ok"]
  BY DEF Publish, Answer
<1>3. outcome' = [outcome EXCEPT ![c] = outcome'[c]] /\ outcome'[c] = "ok"
  BY <1>2 DEF Inv, Kept, TypeOK
<1>4. objects' \in [Paths -> Contents \cup {None}]
  <2>1. temp[c].content \in Contents \cup {None}
    BY Zenon, <1>1, <1>2 DEF CallOK, Temp
  <2>2. QED
    BY Zenon, <2>1 DEF Publish, Inv, Kept, TypeOK
<1>5. request[c] # None /\ request[c] \in Calls
  BY <1>2, InProgress
<1>6. CASE /\ temp' = [temp EXCEPT ![c] = None] /\ UNCHANGED link
           /\ call' = [call EXCEPT ![c].pc = "session", ![c].goal = "confirm",
                                   ![c].using = None, ![c].attempt = 1]
  <2>1. SessionsOK'
    BY <1>1, <1>2, <1>6, SameSessions DEF sessionVars
  <2>2. /\ call' = [call EXCEPT ![c] = call'[c]]
        /\ call'[c] = [call[c] EXCEPT !.pc = "session", !.goal = "confirm",
                                      !.using = None, !.attempt = 1]
    BY Zenon, <1>6 DEF Inv, Kept, TypeOK
  <2>3. call'[c] \in Call /\ call'[c].pc = "session" /\ call'[c].goal = "confirm"
    <3>1. call[c] \in Call
      BY <1>1 DEF Typed
    <3>2. call'[c] = [pc |-> "session", goal |-> "confirm", using |-> None, attempt |-> 1,
                      ctx |-> call[c].ctx]
      BY Zenon, <3>1, <2>2 DEF Call
    <3>3. call[c].ctx \in {"live", "cancelled"}
      BY <3>1 DEF Call
    <3>4. QED
      BY <3>2, <3>3 DEF Call
  <2>4. temp' = [temp EXCEPT ![c] = temp'[c]] /\ temp'[c] = None
    BY <1>6 DEF Inv, Kept, TypeOK
  <2>5. CleanedUp(c)'
    BY <2>4 DEF CleanedUp
  <2>6. CallOK(c)'
    BY <1>2, <1>3, <1>5, <2>3 DEF CallOK, pc, At, Working
  <2>7. QED
    BY Zenon, <1>2, <1>3, <1>4, <2>1, <2>2, <2>3, <2>4, <2>5, <2>6, GoesOn
<1>7. CASE /\ link' = [link EXCEPT ![call[c].using] = "down"]
           /\ Goto(c, "unlink") /\ UNCHANGED temp
  <2>1. SessionsOK'
    BY Zenon, <1>1, <1>2, <1>7, LinkDown
  <2>2. call' = [call EXCEPT ![c] = call'[c]] /\ call'[c] = [call[c] EXCEPT !.pc = "unlink"]
    BY <1>7 DEF Goto, Inv, Kept, TypeOK
  <2>3. call'[c] \in Call /\ call'[c].pc = "unlink" /\ call'[c].using = call[c].using
    BY <1>1, <2>2 DEF Typed, Call
  <2>4. temp' = [temp EXCEPT ![c] = temp'[c]] /\ temp'[c] \in Temp \cup {None}
    BY <1>1, <1>7, Same DEF Typed
  <2>5. CleanedUp(c)'
    BY <2>3 DEF CleanedUp, pc
  <2>6. CallOK(c)'
    BY Zenon, <1>1, <1>2, <1>3, <1>5, <2>3 DEF CallOK, pc, At, Working
  <2>7. QED
    BY Zenon, <1>2, <1>3, <1>4, <2>1, <2>2, <2>3, <2>4, <2>5, <2>6, GoesOn
<1>8. QED
  BY <1>6, <1>7 DEF Publish

\* A call gets a session, or learns that it gets none, or asks for another.
LEMMA SessionKeeps ==
    ASSUME Inv, NEW c \in Clients, UNCHANGED workload, stray' \in BOOLEAN, Session(c) \/ Reconnect(c)
    PROVE  Inv'
<1>1. Typed(c) /\ CallOK(c) /\ CleanedUp(c) /\ SessionsOK
  BY Parts
<1>2. /\ UNCHANGED <<closed, atomicRename, objects, temp, stream>>
      /\ pc(c) \in {"session", "stat", "open", "confirm"}
  BY DEF Session, Reconnect
<1>3. objects' \in [Paths -> Contents \cup {None}]
  BY <1>2 DEF Inv, Kept, TypeOK
<1>4. temp' = [temp EXCEPT ![c] = temp'[c]] /\ temp'[c] = None
  BY <1>1, <1>2, Same DEF CleanedUp
<1>5. CleanedUp(c)'
  BY <1>4 DEF CleanedUp
<1>6. request[c] # None /\ request[c] \in Calls
  BY <1>2, InProgress
<1>7. ASSUME NEW s \in Sessions, pc(c) = "session", currentSession(c, s), UNCHANGED callVars,
             call' = [call EXCEPT ![c].pc = call[c].goal, ![c].goal = None, ![c].using = s]
      PROVE  Inv'
  <2>1. SessionsOK'
    BY <1>1, <1>2, <1>7, Dialled
  <2>2. PICK g \in {"stat", "open", "check", "confirm", "remove", "move"} : g = call[c].goal
    BY <1>1, <1>7 DEF CallOK
  <2>3. /\ call' = [call EXCEPT ![c] = call'[c]]
        /\ call'[c] = [call[c] EXCEPT !.pc = g, !.goal = None, !.using = s]
    BY Zenon, <1>7, <2>2 DEF Inv, Kept, TypeOK
  <2>4. call'[c] \in Call /\ call'[c].pc = g /\ call'[c].using = s
    BY ZenonT(60), <1>1, <2>3 DEF Typed, Call
  <2>5. UNCHANGED <<request, outcome, answer>> /\ outcome' = [outcome EXCEPT ![c] = outcome'[c]]
    BY Zenon, <1>7, Same DEF callVars
  <2>6. At(c)' = At(c) /\ At(c) = g
    BY <1>7, <2>2, <2>4 DEF At, pc
  <2>7. CallOK(c)'
    BY ZenonT(60), <1>1, <1>2, <1>6, <2>4, <2>5, <2>6 DEF CallOK, pc, InEffect
  <2>8. QED
    BY <1>1, <1>2, <1>3, <1>4, <1>5, <2>1, <2>3, <2>4, <2>5, <2>7, GoesOn DEF Typed
<1>8. CASE Fail(c) /\ UNCHANGED <<session, link, answer>>
  <2>1. SessionsOK' /\ Return(c) /\ outcome' = [outcome EXCEPT ![c] = "error"]
    BY <1>1, <1>2, <1>8, SameSessions DEF Fail, Answer, sessionVars
  <2>2. QED
    BY Zenon, <1>2, <1>3, <1>4, <1>8, <2>1, ReturnKeeps
<1>9. CASE Reconnect(c)
  <2>1. call[c].using \in Sessions
    BY <1>1, <1>9 DEF Reconnect, CallOK, Working
  <2>2. SessionsOK'
    BY <1>1, <1>2, <1>9, <2>1, Invalidated DEF Reconnect
  <2>3. PICK g \in {"stat", "open", "confirm"} : g = pc(c)
    BY <1>9 DEF Reconnect
  <2>4. /\ call' = [call EXCEPT ![c] = call'[c]]
        /\ call'[c] = [call[c] EXCEPT !.pc = "session", !.goal = g, !.using = None, !.attempt = 2]
    BY Zenon, <1>9, <2>3 DEF Reconnect, Inv, Kept, TypeOK
  <2>5. call'[c] \in Call /\ call'[c].pc = "session" /\ call'[c].goal = g
    <3>1. call[c] \in Call
      BY <1>1 DEF Typed
    <3>2. call'[c] = [pc |-> "session", goal |-> g, using |-> None, attempt |-> 2,
                      ctx |-> call[c].ctx]
      BY Zenon, <3>1, <2>4 DEF Call
    <3>3. call[c].ctx \in {"live", "cancelled"}
      BY <3>1 DEF Call
    <3>4. QED
      BY <3>2, <3>3 DEF Call
  <2>6. UNCHANGED <<request, outcome, answer>> /\ outcome' = [outcome EXCEPT ![c] = outcome'[c]]
    BY Zenon, <1>9, Same DEF Reconnect, callVars
  <2>7. At(c)' = At(c) /\ At(c) = g
    BY <2>3, <2>5 DEF At, pc
  <2>8. CallOK(c)'
    BY ZenonT(60), <1>1, <1>2, <1>6, <2>5, <2>6, <2>7 DEF CallOK, pc, InEffect, Working
  <2>9. QED
    BY <1>1, <1>2, <1>3, <1>4, <1>5, <2>2, <2>4, <2>5, <2>6, <2>8, GoesOn DEF Typed
<1>10. QED
  BY <1>7, <1>8, <1>9 DEF Session

\* Open finds nothing, or an object and starts a stream of it.
LEMMA OpenKeeps ==
    ASSUME Inv, NEW c \in Clients, UNCHANGED workload, stray' \in BOOLEAN, Open(c)
    PROVE  Inv'
<1>1. Typed(c) /\ CallOK(c) /\ CleanedUp(c) /\ SessionsOK
  BY Parts
<1>2. /\ UNCHANGED <<sessionVars, atomicRename, objects, temp>>
      /\ pc(c) = "open"
  BY DEF Open
<1>3. SessionsOK' /\ objects' \in [Paths -> Contents \cup {None}]
  BY <1>1, <1>2, SameSessions DEF Inv, Kept, TypeOK
<1>4. temp' = [temp EXCEPT ![c] = temp'[c]] /\ temp'[c] = None
  BY <1>1, <1>2, Same DEF CleanedUp
<1>5. /\ request[c] # None /\ request[c] \in Calls /\ request[c].path \in Paths
      /\ request[c].op \in {"read", "copy"} /\ call[c].using \in Sessions /\ call[c] \in Call
  BY Zenon, <1>1, <1>2, InProgress DEF CallOK, At, Working, Typed
<1>6. CASE objects[request[c].path] = None
  <2>1. /\ outcome' = [outcome EXCEPT ![c] = "notfound"] /\ Return(c)
        /\ stream' = stream /\ answer' = answer
    BY <1>6 DEF Open, Answer
  <2>2. QED
    BY Zenon, <1>2, <1>3, <1>4, <2>1, ReturnKeeps
<1>7. CASE objects[request[c].path] # None
  <2>1. PICK st : st = [on |-> call[c].using, once |-> "new", watcher |-> "watch"]
    BY Zenon
  <2>2. st \in Stream
    BY <1>5, <2>1 DEF Stream
  <2>3. PICK x \in {"session", "stream"} :
           x = IF request[c].op = "copy" THEN "session" ELSE "stream"
    OBVIOUS
  <2>4. PICK g \in {None, "check"} : g = IF request[c].op = "copy" THEN "check" ELSE None
    OBVIOUS
  <2>5. PICK o \in {"loaded", "ok"} : o = IF request[c].op = "copy" THEN "loaded" ELSE "ok"
    OBVIOUS
  <2>6. /\ stream' = [stream EXCEPT ![c] = st] /\ request' = request
        /\ answer' = [answer EXCEPT ![c] = objects[request[c].path]]
        /\ outcome' = [outcome EXCEPT ![c] = o]
        /\ call' = [call EXCEPT ![c].using = None, ![c].attempt = 1, ![c].pc = x, ![c].goal = g]
    BY <1>7, <2>1, <2>3, <2>4, <2>5 DEF Open, Answer
  <2>7. /\ call' = [call EXCEPT ![c] = call'[c]]
        /\ call'[c] = [call[c] EXCEPT !.using = None, !.attempt = 1, !.pc = x, !.goal = g]
    BY Zenon, <2>6 DEF Inv, Kept, TypeOK
  <2>8. call'[c] \in Call /\ call'[c].pc = x /\ call'[c].goal = g
    <3>1. call'[c] = [pc |-> x, goal |-> g, using |-> None, attempt |-> 1,
                      ctx |-> call[c].ctx]
      BY Zenon, <1>5, <2>7 DEF Call
    <3>2. call[c].ctx \in {"live", "cancelled"}
      BY <1>5 DEF Call
    <3>3. QED
      BY <3>1, <3>2 DEF Call
  <2>9. /\ stream' = [stream EXCEPT ![c] = stream'[c]] /\ stream'[c] = st
        /\ outcome' = [outcome EXCEPT ![c] = outcome'[c]] /\ outcome'[c] = o
    BY <2>6 DEF Inv, Kept, TypeOK
  <2>10. /\ answer' = [answer EXCEPT ![c] = answer'[c]] /\ answer'[c] \in Contents \cup {None}
    BY <1>5, <2>6 DEF Inv, Kept, TypeOK
  <2>11. Own(c)
    BY Zenon, <1>2, <1>4, <2>6, <2>7, <2>9, <2>10, Same DEF Own
  <2>12. Typed(c)'
    BY <1>1, <1>4, <2>2, <2>6, <2>8, <2>9, <2>10 DEF Typed
  <2>13. CleanedUp(c)'
    BY <1>4 DEF CleanedUp
  <2>14. CallOK(c)'
    <3>1. CASE request[c].op = "copy"
      <4>1. x = "session" /\ g = "check" /\ o = "loaded"
        BY <2>3, <2>4, <2>5, <3>1
      <4>2. QED
        BY <1>5, <2>6, <2>8, <2>9, <3>1, <4>1 DEF CallOK, pc, At, Working
    <3>2. CASE request[c].op = "read"
      <4>1. x = "stream" /\ o = "ok"
        BY <2>3, <2>5, <3>2
      <4>2. QED
        BY Zenon, <1>5, <2>2, <2>6, <2>8, <2>9, <4>1 DEF CallOK, pc, At, Working, InEffect
    <3>3. QED
      BY <1>5, <3>1, <3>2
  <2>15. QED
    BY <1>3, <2>11, <2>12, <2>13, <2>14, Assemble
<1>8. QED
  BY <1>6, <1>7

\* Calls begin and are cancelled, and readers are closed.
LEMMA CallersKeep ==
    ASSUME Inv, NEW c \in Clients, UNCHANGED workload, stray' \in BOOLEAN,
           Invoke(c) \/ Cancel(c) \/ CloseReader(c)
    PROVE  Inv'
<1>1. Typed(c) /\ CallOK(c) /\ CleanedUp(c) /\ SessionsOK
  BY Parts
<1>2. UNCHANGED <<sessionVars, atomicRename, objects, temp, stream>>
  BY DEF Invoke, Cancel, CloseReader
<1>3. SessionsOK' /\ objects' \in [Paths -> Contents \cup {None}]
  BY <1>1, <1>2, SameSessions DEF Inv, Kept, TypeOK
<1>4. temp' = [temp EXCEPT ![c] = temp'[c]] /\ temp'[c] \in Temp \cup {None}
  BY <1>1, <1>2, Same DEF Typed
<1>5. CASE Invoke(c)
  <2>1. PICK r \in Calls :
           /\ r.op = "move" => atomicRename
           /\ request' = [request EXCEPT ![c] = r]
           /\ call' = [call EXCEPT ![c].pc = "session", ![c].goal = Goal(r.op)]
    BY Zenon, <1>5 DEF Invoke
  <2>2. r.op \in Operations /\ r \in Requests
    BY DEF Calls, Requests
  <2>3. PICK g : g = Goal(r.op)
    OBVIOUS
  <2>4. /\ g \in {"stat", "open", "check", "remove", "move"}
        /\ g = "stat" => r.op = "stat"
        /\ g = "open" => r.op \in {"read", "copy"}
        /\ g = "remove" => r.op = "delete"
        /\ g = "move" => r.op = "move"
        /\ g = "check" => r.op = "write"
    BY <2>2, <2>3 DEF Goal, Operations
  <2>5. /\ call' = [call EXCEPT ![c] = call'[c]]
        /\ call'[c] = [call[c] EXCEPT !.pc = "session", !.goal = g]
        /\ request' = [request EXCEPT ![c] = request'[c]] /\ request'[c] = r
    BY Zenon, <2>1, <2>3 DEF Inv, Kept, TypeOK
  <2>6. call'[c] \in Call /\ call'[c].pc = "session" /\ call'[c].goal = g
    BY ZenonT(60), <1>1, <2>4, <2>5 DEF Typed, Call
  <2>7. /\ outcome' = [outcome EXCEPT ![c] = outcome'[c]] /\ outcome'[c] = "pending"
        /\ answer' = [answer EXCEPT ![c] = answer'[c]] /\ answer'[c] = None
    BY Zenon, <1>5 DEF Invoke, Answer, Inv, Kept, TypeOK
  <2>8. Own(c)
    BY <1>2, <1>4, <2>5, <2>7, Same DEF Own
  <2>9. Typed(c)'
    BY <1>1, <1>2, <1>4, <2>2, <2>5, <2>6, <2>7 DEF Typed
  <2>10. CleanedUp(c)'
    BY <1>1, <1>2, <1>5 DEF CleanedUp, Invoke
  <2>11. r # None
    BY <2>2, SftpAssumption
  <2>12. CallOK(c)'
    BY <1>2, <2>1, <2>4, <2>5, <2>6, <2>7, <2>11 DEF CallOK, pc, At, Working
  <2>13. QED
    BY <1>3, <2>8, <2>9, <2>10, <2>12, Assemble
<1>6. CASE Cancel(c)
  <2>1. /\ call' = [call EXCEPT ![c] = call'[c]]
        /\ call'[c] = [call[c] EXCEPT !.ctx = "cancelled"]
    BY <1>6 DEF Cancel, Inv, Kept, TypeOK
  <2>2. /\ call'[c] \in Call /\ call'[c].pc = call[c].pc /\ call'[c].goal = call[c].goal
        /\ call'[c].using = call[c].using
    BY <1>1, <2>1 DEF Typed, Call
  <2>3. UNCHANGED <<request, outcome, answer>> /\ outcome' = [outcome EXCEPT ![c] = outcome'[c]]
    BY <1>6, Same DEF Cancel, callVars
  <2>4. CleanedUp(c)'
    BY <1>1, <1>2, <2>2 DEF CleanedUp, pc
  <2>5. At(c)' = At(c)
    BY <2>2 DEF At, pc
  <2>6. CallOK(c)'
    <3>1. pc(c)' = pc(c) /\ Source(c)' = Source(c) /\ (InEffect(c)' <=> InEffect(c))
      BY Zenon, <2>2, <2>3 DEF pc, Source, InEffect
    <3>2. /\ request'[c] = request[c] /\ outcome'[c] = outcome[c] /\ answer'[c] = answer[c]
          /\ UNCHANGED <<temp, stream, atomicRename>>
      BY Zenon, <1>2, <1>6, <2>3 DEF Cancel
    <3>3. QED
      BY ZenonT(60), <1>1, <2>2, <2>5, <3>1, <3>2 DEF CallOK
  <2>7. QED
    BY <1>1, <1>2, <1>3, <1>4, <2>1, <2>2, <2>3, <2>4, <2>6, GoesOn DEF Typed
<1>7. CASE CloseReader(c)
  <2>1. /\ call' = [call EXCEPT ![c] = call'[c]]
        /\ call'[c] = [call[c] EXCEPT !.pc = "closing"] /\ pc(c) = "stream"
    BY <1>7 DEF CloseReader, Goto, Inv, Kept, TypeOK
  <2>2. call'[c] \in Call /\ call'[c].pc = "closing"
    BY <1>1, <2>1 DEF Typed, Call
  <2>3. UNCHANGED <<request, outcome, answer>> /\ outcome' = [outcome EXCEPT ![c] = outcome'[c]]
    BY <1>7, Same DEF CloseReader, callVars
  <2>4. CleanedUp(c)'
    BY <1>1, <1>2, <2>1 DEF CleanedUp
  <2>5. CallOK(c)'
    BY <1>1, <1>2, <2>1, <2>2, <2>3 DEF CallOK, pc, At, InEffect, Working
  <2>6. QED
    BY <1>1, <1>2, <1>3, <1>4, <2>1, <2>2, <2>3, <2>4, <2>5, GoesOn DEF Typed
<1>8. QED
  BY <1>5, <1>6, <1>7

\* The values a stream takes.
LEMMA StreamTypes ==
    ASSUME NEW r \in Stream
    PROVE  /\ [r EXCEPT !.once = "caller"] \in Stream
           /\ [r EXCEPT !.once = "done"] \in Stream
           /\ [r EXCEPT !.watcher = "ended"] \in Stream
           /\ [r EXCEPT !.once = "done", !.watcher = "ended"] \in Stream
           /\ \A v \in {"new", "caller", "watcher", "done"} :
                 [r EXCEPT !.watcher = "closing", !.once = v] \in Stream
BY Zenon DEF Stream

\* The watcher closes its stream, or ends.
LEMMA WatcherKeeps ==
    ASSUME Inv, NEW c \in Clients, UNCHANGED workload, stray' \in BOOLEAN, Watcher(c)
    PROVE  Inv'
<1>1. Typed(c) /\ CallOK(c) /\ CleanedUp(c) /\ SessionsOK
  BY Parts
<1>2. UNCHANGED <<sessionVars, atomicRename, objects, call, temp, request, outcome, answer>>
  BY DEF Watcher, Watch, WatcherEnds, callVars
<1>3. SessionsOK' /\ objects' \in [Paths -> Contents \cup {None}]
  BY <1>1, <1>2, SameSessions DEF Inv, Kept, TypeOK
<1>4. stream[c] \in Stream /\ stream \in [Clients -> Stream \cup {None}]
  BY DEF Watcher, Watch, WatcherEnds, Inv, Kept, TypeOK
<1>5. /\ stream' = [stream EXCEPT ![c] = stream'[c]]
      /\ stream'[c] \in Stream \/ (stream'[c] = None /\ pc(c) = "idle")
  <2>1. CASE Watch(c)
    <3>1. PICK v \in {"new", "caller", "watcher", "done"} :
             v = IF stream[c].once = "new" THEN "watcher" ELSE stream[c].once
      BY <1>4 DEF Stream
    <3>2. \/ stream' = [stream EXCEPT ![c] = [stream[c] EXCEPT !.watcher = "closing", !.once = v]]
          \/ stream' = [stream EXCEPT ![c] =
                 IF pc(c) = "idle" THEN None ELSE [stream[c] EXCEPT !.watcher = "ended"]]
      BY Zenon, <1>4, <2>1, <3>1 DEF Watch, Stream
    <3>3. QED
      BY ZenonT(60), <1>4, <3>2, StreamTypes
  <2>2. CASE WatcherEnds(c)
    BY Zenon, <1>4, <2>2, StreamTypes DEF WatcherEnds
  <2>3. QED
    BY <2>1, <2>2 DEF Watcher
<1>6. Own(c)
  BY <1>2, <1>5, Same DEF Own
<1>7. Typed(c)' /\ CleanedUp(c)'
  BY <1>1, <1>2, <1>5 DEF Typed, CleanedUp, pc
<1>8. At(c)' = At(c) /\ Source(c)' = Source(c)
  BY <1>2 DEF At, pc, Source
<1>9. CallOK(c)'
  BY ZenonT(60), <1>1, <1>2, <1>5, <1>8 DEF CallOK, pc, InEffect
<1>10. QED
  BY <1>3, <1>6, <1>7, <1>9, Assemble

\* A caller closes its stream, and returns.
LEMMA CloseKeeps ==
    ASSUME Inv, NEW c \in Clients, UNCHANGED workload, stray' \in BOOLEAN, CallerCloses(c) \/ CallerReturns(c)
    PROVE  Inv'
<1>1. Typed(c) /\ CallOK(c) /\ CleanedUp(c) /\ SessionsOK
  BY Parts
<1>2. /\ UNCHANGED <<sessionVars, atomicRename, objects, temp, outcome, answer>>
      /\ pc(c) \in {"closing", "waiting"}
  BY DEF CallerCloses, CallerReturns, callVars
<1>3. SessionsOK' /\ objects' \in [Paths -> Contents \cup {None}]
  BY <1>1, <1>2, SameSessions DEF Inv, Kept, TypeOK
<1>4. stream[c] \in Stream /\ stream \in [Clients -> Stream \cup {None}]
  BY Zenon, <1>1, <1>2 DEF CallOK, Inv, Kept, TypeOK
<1>5. temp'[c] = None
  BY <1>1, <1>2 DEF CleanedUp
<1>6. CleanedUp(c)'
  BY <1>5 DEF CleanedUp
<1>7. ~InEffect(c) /\ ~InEffect(c)' /\ request[c] # None /\ request[c] \in Calls
  BY Zenon, <1>1, <1>2, InProgress DEF CallOK, At, InEffect
<1>8. CASE CallerCloses(c)
  <2>1. stream' = [stream EXCEPT ![c] = stream'[c]] /\ stream'[c] \in Stream
    BY ZenonT(60), <1>4, <1>8, StreamTypes, Same DEF CallerCloses
  <2>2. /\ call' = [call EXCEPT ![c] = call'[c]] /\ request' = request
        /\ call'[c] = [call[c] EXCEPT !.pc = "waiting"]
    BY <1>8 DEF CallerCloses, Goto, callVars, Inv, Kept, TypeOK
  <2>3. call'[c] \in Call /\ call'[c].pc = "waiting"
    BY <1>1, <2>2 DEF Typed, Call
  <2>4. Own(c)
    BY <1>2, <2>1, <2>2, Same DEF Own
  <2>5. Typed(c)'
    BY <1>1, <1>2, <2>1, <2>2, <2>3 DEF Typed
  <2>6. CallOK(c)'
    BY <1>7, <2>1, <2>2, <2>3 DEF CallOK, pc, At, Working
  <2>7. QED
    BY <1>3, <1>6, <2>4, <2>5, <2>6, Assemble
<1>9. CASE CallerReturns(c)
  <2>1. stream' = [stream EXCEPT ![c] = stream'[c]] /\ stream'[c] \in Stream \cup {None}
    BY Zenon, <1>4, <1>9, StreamTypes DEF CallerReturns
  <2>2. /\ call' = [call EXCEPT ![c] = call'[c]] /\ call'[c] = NoCall
        /\ request' = [request EXCEPT ![c] = request'[c]] /\ request'[c] = None
    BY <1>9 DEF CallerReturns, Inv, Kept, TypeOK
  <2>3. NoCall \in Call /\ NoCall.pc = "idle"
    BY DEF NoCall, Call
  <2>4. call'[c] \in Call /\ call'[c].pc = "idle"
    BY <2>2, <2>3, Zenon
  <2>5. Own(c)
    BY <1>2, <2>1, <2>2, Same DEF Own
  <2>6. Typed(c)'
    BY Zenon, <1>1, <1>2, <2>1, <2>2, <2>4 DEF Typed
  <2>7. CallOK(c)'
    BY Zenon, <1>7, <2>2, <2>4 DEF CallOK, pc, At, Working
  <2>8. QED
    BY <1>3, <1>6, <2>5, <2>6, <2>7, Assemble
<1>10. QED
  BY <1>8, <1>9

\* The connection drops, the adapter is closed.
LEMMA ConnectionsKeep ==
    ASSUME Inv, UNCHANGED workload, stray' \in BOOLEAN, Close \/ \E s \in Sessions : Drop(s)
    PROVE  Inv'
<1>1. UNCHANGED <<atomicRename, objects, call, temp, stream, request, outcome, answer>>
  BY DEF Close, Drop, callVars
<1>2. SessionsOK
  BY DEF Inv, Kept, TypeOK, SessionsOK
<1>3. SessionsOK'
  <2>1. CASE Close
    BY <1>2, <2>1 DEF Close, SessionsOK, NoSessionLeak
  <2>2. ASSUME NEW s \in Sessions, Drop(s) PROVE SessionsOK'
    BY <1>2, <2>2 DEF Drop, SessionsOK, NoSessionLeak
  <2>3. QED
    BY <2>1, <2>2
<1>4. TypeOK' /\ NoSessionLeak'
  BY <1>1, <1>3 DEF Inv, Kept, TypeOK, SessionsOK
<1>5. UploadsOwned'
  BY <1>1 DEF Inv, Kept, UploadsOwned, pc
<1>6. Calling'
  BY Zenon, <1>1, SameCall DEF Inv, Calling
<1>7. QED
  BY <1>4, <1>5, <1>6 DEF Inv, Kept

\* A file is left behind, or not.
LEMMA StrayTyped ==
    ASSUME Inv, Next
    PROVE  stray' \in BOOLEAN
<1>0. stray \in BOOLEAN
  BY DEF Inv, Kept, TypeOK
<1>1. ASSUME NEW c \in Clients, Unlink(c) PROVE stray' \in BOOLEAN
  BY <1>0, <1>1 DEF Unlink
<1>2. ASSUME NEW c \in Clients, Step(c), ~Unlink(c) PROVE stray' = stray
  BY Zenon, <1>2 DEF Step, Session, Reconnect, Refuse, Lost, Stat, Open, Delete, Move, Check,
     Fill, Finish, Publish, UploadFails, Cleanup, Confirm, CallerCloses, CallerReturns
<1>3. ASSUME NEW c \in Clients, Invoke(c) \/ Cancel(c) \/ CloseReader(c) \/ Watcher(c)
      PROVE  stray' = stray
  BY Zenon, <1>3 DEF Invoke, Cancel, CloseReader, Watcher, Watch, WatcherEnds
<1>4. CASE Close \/ \E s \in Sessions : Drop(s)
  BY Zenon, <1>0, <1>4 DEF Close, Drop
<1>5. QED
  BY <1>0, <1>1, <1>2, <1>3, <1>4 DEF Next

-----------------------------------------------------------------------------
\* newAdapter establishes the invariant and every step keeps it.
LEMMA InvHolds == Spec => []Inv
<1>1. Init => Inv
  <2> SUFFICES ASSUME Init PROVE Inv
    OBVIOUS
  <2>1. NoCall \in Call /\ NoCall.pc = "idle"
    BY DEF NoCall, Call
  <2>2. \A c \in Clients : call[c] = NoCall /\ pc(c) = "idle"
    BY Zenon, <2>1 DEF Init, pc
  <2>3. TypeOK
    BY Zenon, <2>1 DEF Init, TypeOK
  <2>4. NoSessionLeak
    BY DEF Init, NoSessionLeak
  <2>5. UploadsOwned
    BY DEF Init, UploadsOwned
  <2>6. Calling
    BY ZenonT(60), <2>2 DEF Init, Calling, CallOK, At, InEffect, Working
  <2>7. QED
    BY <2>3, <2>4, <2>5, <2>6 DEF Inv, Kept
<1>2. Inv /\ [Next]_vars => Inv'
  <2> SUFFICES ASSUME Inv, [Next]_vars PROVE Inv'
    OBVIOUS
  <2>1. CASE UNCHANGED vars
    <3>1. TypeOK' /\ NoSessionLeak' /\ UploadsOwned'
      BY <2>1 DEF vars, Inv, Kept, TypeOK, NoSessionLeak, UploadsOwned, pc
    <3>2. Calling'
      BY Zenon, <2>1, SameCall DEF vars, Inv, Calling
    <3>3. QED
      BY <3>1, <3>2 DEF Inv, Kept
  <2>0. ASSUME Next PROVE stray' \in BOOLEAN
    BY <2>0, StrayTyped
  <2>2. ASSUME NEW c \in Clients, Step(c), UNCHANGED workload, stray' \in BOOLEAN PROVE Inv'
    BY <2>2, EndsKeep, UploadKeeps, CommandsKeep, PublishKeeps, SessionKeeps, OpenKeeps,
       CloseKeeps DEF Step
  <2>3. QED
    BY <2>0, <2>1, <2>2, CallersKeep, WatcherKeeps, ConnectionsKeep DEF Next
<1>3. QED
  BY <1>1, <1>2, PTL DEF Spec

-----------------------------------------------------------------------------
(* Files that are left on the server.                                      *)

\* A call works on a session that was dialled; no connection is lost unless the
\* workload says so or the adapter is closed, and no file is left behind.
Calm ==
    /\ \A c \in Clients : pc(c) \in Working => link[call[c].using] # "none"
    /\ session # None => link[session] # "none"
    /\ "drop" \in workload.failures \/ closed \/ \A s \in Sessions : link[s] \in {"none", "up"}
    /\ stray => closed \/ workload.failures # {}

\* A step at which no call begins to work on a session, or changes it.
Onward ==
    \A d \in Clients :
        pc(d)' \in Working => pc(d) \in Working /\ call'[d].using = call[d].using

\* Steps that leave the sessions alone and no file behind.
Quiet(c) ==
    \/ Refuse(c) \/ Lost(c) \/ Stat(c) \/ Open(c) \/ Check(c) \/ Fill(c) \/ Finish(c)
    \/ UploadFails(c) \/ Cleanup(c) \/ Confirm(c) \/ CallerCloses(c) \/ CallerReturns(c)
    \/ Invoke(c) \/ Cancel(c) \/ CloseReader(c) \/ Watcher(c)

\* Calls that go on, end, or are not touched.
LEMMA CallsGoOn ==
    ASSUME Inv, NEW c \in Clients,
           \/ Quiet(c) \/ Delete(c) \/ Move(c) \/ Publish(c) \/ Unlink(c) \/ Reconnect(c)
           \/ (Session(c) /\ Fail(c))
    PROVE  Onward
<1>0. call \in [Clients -> Call]
  BY DEF Inv, Kept, TypeOK
<1>1. CASE Return(c) /\ pc(c) # "idle"
  <2>1. /\ call' = [call EXCEPT ![c] = call'[c]]
        /\ call'[c].pc \in {"idle", "closing"}
    BY <1>1, Returned
  <2>2. \A d \in Clients : d # c => call'[d] = call[d]
    BY <1>0, <2>1
  <2>3. QED
    BY Zenon, <2>1, <2>2 DEF Onward, pc, Working
<1>2. ASSUME NEW x, call' = [call EXCEPT ![c].pc = x], x \in Working => pc(c) \in Working
      PROVE  Onward
  <2>1. /\ call'[c].pc = x /\ call'[c].using = call[c].using
        /\ \A d \in Clients : d # c => call'[d] = call[d]
    BY <1>0, <1>2 DEF Call
  <2>2. QED
    BY Zenon, <1>2, <2>1 DEF Onward, pc
<1>3. ASSUME NEW x \in {"session", "stream", "idle"}, call'[c].pc = x,
             \A d \in Clients : d # c => call'[d] = call[d]
      PROVE  Onward
  BY Zenon, <1>3 DEF Onward, pc, Working
<1>4. CASE call' = call
  BY Zenon, <1>4 DEF Onward, pc
<1>5. CASE Refuse(c) \/ Lost(c) \/ Stat(c) \/ Unlink(c) \/ Confirm(c) \/ (Session(c) /\ Fail(c))
  <2>1. Return(c) /\ pc(c) # "idle"
    BY <1>5 DEF Refuse, Lost, Stat, Unlink, Confirm, Session, Fail
  <2>2. QED
    BY <1>1, <2>1
<1>6. CASE Check(c) \/ Fill(c) \/ Finish(c) \/ UploadFails(c) \/ Cleanup(c)
  <2>1. PICK x : call' = [call EXCEPT ![c].pc = x] /\ pc(c) \in Working
    BY Zenon, <1>6 DEF Check, Fill, Finish, UploadFails, Cleanup, Goto, Working
  <2>2. QED
    BY <1>2, <2>1
<1>7. CASE Delete(c) \/ Move(c)
  <2>1. pc(c) \in Working /\ pc(c) # "idle" /\ (Return(c) \/ Goto(c, "lost"))
    BY <1>7 DEF Delete, Move, Working
  <2>2. QED
    BY Zenon, <1>1, <1>2, <2>1 DEF Goto
<1>8. CASE Publish(c)
  <2>1. CASE Goto(c, "unlink")
    BY Zenon, <1>2, <1>8, <2>1 DEF Goto, Publish, Working
  <2>2. CASE call' = [call EXCEPT ![c].pc = "session", ![c].goal = "confirm",
                                  ![c].using = None, ![c].attempt = 1]
    <3>1. call'[c].pc = "session"
      BY <1>0, <2>2 DEF Call
    <3>2. \A d \in Clients : d # c => call'[d] = call[d]
      BY Zenon, <1>0, <2>2
    <3>3. QED
      BY Zenon, <1>3, <3>1, <3>2
  <2>3. QED
    BY <1>8, <2>1, <2>2 DEF Publish
<1>9. CASE Open(c)
  <2>1. CASE Return(c)
    BY <1>1, <1>9, <2>1 DEF Open
  <2>2. CASE ~Return(c)
    <3>1. call' = [call EXCEPT ![c].using = None, ![c].attempt = 1,
                           ![c].pc = IF request[c].op = "copy" THEN "session" ELSE "stream",
                           ![c].goal = IF request[c].op = "copy" THEN "check" ELSE None]
      BY Zenon, <1>9, <2>2 DEF Open
    <3>2. call'[c].pc \in {"session", "stream"}
      BY <1>0, <3>1 DEF Call
    <3>3. \A d \in Clients : d # c => call'[d] = call[d]
      BY Zenon, <1>0, <3>1
    <3>4. QED
      BY Zenon, <1>3, <3>2, <3>3
  <2>3. QED
    BY <2>1, <2>2
<1>10. CASE Reconnect(c) \/ Invoke(c)
  <2>1. call'[c].pc = "session"
    BY <1>0, <1>10 DEF Reconnect, Invoke, Call
  <2>2. \A d \in Clients : d # c => call'[d] = call[d]
    BY <1>0, <1>10 DEF Reconnect, Invoke
  <2>3. QED
    BY Zenon, <1>3, <2>1, <2>2
<1>11. CASE CallerCloses(c) \/ CloseReader(c)
  BY Zenon, <1>2, <1>11 DEF CallerCloses, CloseReader, Goto, Working
<1>12. CASE CallerReturns(c)
  <2>1. call' = [call EXCEPT ![c] = NoCall] /\ NoCall.pc = "idle"
    BY <1>12 DEF CallerReturns, NoCall
  <2>2. call'[c].pc = "idle" /\ \A d \in Clients : d # c => call'[d] = call[d]
    BY Zenon, <1>0, <2>1
  <2>3. QED
    BY Zenon, <1>3, <2>2
<1>13. CASE Cancel(c)
  <2>1. /\ call'[c].pc = call[c].pc /\ call'[c].using = call[c].using
        /\ \A d \in Clients : d # c => call'[d] = call[d]
    BY <1>0, <1>13 DEF Cancel, Call
  <2>2. QED
    BY Zenon, <2>1 DEF Onward, pc
<1>14. CASE Watcher(c)
  BY Zenon, <1>4, <1>14 DEF Watcher, Watch, WatcherEnds
<1>15. CASE Quiet(c)
  BY <1>5, <1>6, <1>9, <1>10, <1>11, <1>12, <1>13, <1>14, <1>15 DEF Quiet
<1>16. QED
  BY <1>5, <1>7, <1>8, <1>10, <1>15

\* Connections are lost only where the workload has it, and nothing else leaves a
\* file: the Remove of a Write finds its session up.
LEMMA CalmKept ==
    ASSUME Inv, Calm, Next
    PROVE  Calm'
<1>0. /\ UNCHANGED workload /\ link \in [Sessions -> {"none", "up", "down", "closed"}]
      /\ call \in [Clients -> Call] /\ closed \in BOOLEAN
      /\ session \in Sessions \cup {None} /\ None \notin Sessions
      /\ \A d \in Clients : pc(d) \in Working => call[d].using \in Sessions
  BY SftpAssumption DEF Next, Inv, Kept, TypeOK, Calling, CallOK
<1>1. ASSUME Onward, \A s \in Sessions : link[s] # "none" => link'[s] # "none"
      PROVE  \A d \in Clients : pc(d)' \in Working => link'[call'[d].using] # "none"
  BY Zenon, <1>0, <1>1 DEF Onward, Calm
<1>2. ASSUME NEW c \in Clients, Unlink(c) PROVE Calm'
  <2>0. Onward
    BY Zenon, <1>2, CallsGoOn
  <2>1. Onward /\ UNCHANGED <<session, link, closed>> /\ pc(c) \in Working
    BY Zenon, <1>2, <2>0 DEF Unlink, sessionVars, Working
  <2>2. stray' => stray \/ ~Up(c) \/ workload.failures # {}
    BY <1>2 DEF Unlink
  <2>3. link[call[c].using] # "none" /\ call[c].using \in Sessions
    BY Zenon, <1>0, <2>1 DEF Calm
  <2>4. ~Up(c) => closed \/ workload.failures # {}
    BY <2>3 DEF Calm, Up
  <2>5. \A d \in Clients : pc(d)' \in Working => link'[call'[d].using] # "none"
    BY <1>1, <2>1
  <2>6. QED
    BY <1>0, <2>1, <2>2, <2>4, <2>5 DEF Calm
<1>3. ASSUME Onward, UNCHANGED <<session, link, closed, stray>> PROVE Calm'
  <2>1. \A d \in Clients : pc(d)' \in Working => link'[call'[d].using] # "none"
    BY <1>1, <1>3
  <2>2. QED
    BY <1>0, <1>3, <2>1 DEF Calm
<1>4. ASSUME NEW c \in Clients, Quiet(c) PROVE Calm'
  <2>1. UNCHANGED <<sessionVars, stray>>
    BY Zenon, <1>4 DEF Quiet, Refuse, Lost, Stat, Open, Check, Fill, Finish, UploadFails, Cleanup,
       Confirm, CallerCloses, CallerReturns, Invoke, Cancel, CloseReader, Watcher, Watch,
       WatcherEnds
  <2>2. Onward
    BY Zenon, <1>4, CallsGoOn
  <2>3. QED
    BY <1>3, <2>1, <2>2 DEF sessionVars
<1>5. ASSUME NEW s \in Sessions, Onward, "drop" \in workload.failures,
             UNCHANGED <<session, closed, stray>>, link' = [link EXCEPT ![s] = "down"]
      PROVE  Calm'
  <2>1. \A t \in Sessions : link[t] # "none" => link'[t] # "none"
    BY <1>0, <1>5
  <2>2. \A d \in Clients : pc(d)' \in Working => link'[call'[d].using] # "none"
    BY <1>1, <1>5, <2>1
  <2>3. session' # None => link'[session'] # "none"
    BY <1>0, <1>5, <2>1 DEF Calm
  <2>4. QED
    BY <1>0, <1>5, <2>2, <2>3 DEF Calm
<1>6. ASSUME NEW c \in Clients, Delete(c) \/ Move(c) \/ Publish(c) PROVE Calm'
  <2>1. Onward
    BY Zenon, <1>6, CallsGoOn
  <2>2. /\ UNCHANGED <<session, closed, stray>> /\ call[c].using \in Sessions
        /\ \/ UNCHANGED link
           \/ "drop" \in workload.failures /\ link' = [link EXCEPT ![call[c].using] = "down"]
    BY <1>0, <1>6 DEF Delete, Move, Publish, Working
  <2>3. QED
    BY <1>3, <1>5, <2>1, <2>2
<1>7. ASSUME NEW s \in Sessions, Drop(s) PROVE Calm'
  <2>1. Onward
    BY Zenon, <1>7 DEF Drop, Onward, pc
  <2>2. QED
    BY <1>5, <1>7, <2>1 DEF Drop
<1>8. CASE Close
  <2>1. Onward
    BY Zenon, <1>8 DEF Close, Onward, pc
  <2>2. \A t \in Sessions : link[t] # "none" => link'[t] # "none"
    BY <1>0, <1>8 DEF Close
  <2>3. \A d \in Clients : pc(d)' \in Working => link'[call'[d].using] # "none"
    BY <1>1, <2>1, <2>2
  <2>4. QED
    BY <1>8, <2>3 DEF Close, Calm
<1>9. ASSUME NEW c \in Clients, Reconnect(c) PROVE Calm'
  <2>1. Onward
    BY Zenon, <1>9, CallsGoOn
  <2>2. call[c].using \in Sessions /\ link[call[c].using] \in {"down", "closed"}
    BY <1>0, <1>9 DEF Reconnect, ConnectionError, Working
  <2>3. /\ \A t \in Sessions : link[t] # "none" => link'[t] # "none"
        /\ session' # None => link'[session'] # "none"
    BY <1>0, <1>9, <2>2 DEF Reconnect, invalidate, Calm
  <2>4. \A d \in Clients : pc(d)' \in Working => link'[call'[d].using] # "none"
    BY <1>1, <2>1, <2>3
  <2>5. "drop" \in workload.failures \/ closed
    BY <2>2 DEF Calm
  <2>6. UNCHANGED <<closed, stray>>
    BY Zenon, <1>9 DEF Reconnect
  <2>7. QED
    BY <1>0, <2>3, <2>4, <2>5, <2>6 DEF Calm
<1>10. ASSUME NEW c \in Clients, Session(c) PROVE Calm'
  <2>1. CASE Fail(c) /\ UNCHANGED <<session, link>>
    BY <1>3, <1>10, <2>1, CallsGoOn DEF Session
  <2>2. ASSUME NEW s \in Sessions, currentSession(c, s), call' = [call EXCEPT
                   ![c].pc = call[c].goal, ![c].goal = None, ![c].using = s]
        PROVE  Calm'
    <3>1. /\ \A t \in Sessions : link[t] # "none" => link'[t] # "none"
          /\ session' = s /\ link'[s] # "none"
          /\ \A t \in Sessions : link[t] \in {"none", "up"} => link'[t] \in {"none", "up"}
      BY <1>0, <2>2 DEF currentSession, Calm
    <3>2. call'[c].using = s /\ \A d \in Clients : d # c => call'[d] = call[d]
      BY <1>0, <2>2 DEF Call
    <3>3. \A d \in Clients : pc(d)' \in Working => link'[call'[d].using] # "none"
      BY Zenon, <1>0, <3>1, <3>2 DEF Calm, pc
    <3>4. UNCHANGED <<closed, stray>>
      BY Zenon, <1>10 DEF Session
    <3>5. QED
      BY <1>0, <3>1, <3>3, <3>4 DEF Calm
  <2>3. QED
    BY Zenon, <1>10, <2>1, <2>2 DEF Session
<1>11. QED
  BY Zenon, <1>2, <1>4, <1>6, <1>7, <1>8, <1>9, <1>10 DEF Next, Step, Quiet

\* SessionInvariant: whatever is lost and whoever reconnects, only the adapter's
\* current session has an open connection, none after Adapter.Close; every way
\* out of Write after the exclusive create has renamed the temporary file or asked
\* for its removal; and that Remove leaves no file behind unless a connection may
\* be lost, the server may refuse it, or the adapter is closed (sftp.go:
\* currentSession, invalidate, Close, Write).
THEOREM ConnectionsAndUploadsAccounted == Spec => []SessionInvariant
<1>1. Init => Calm
  <2> SUFFICES ASSUME Init PROVE Calm
    OBVIOUS
  <2>1. \A c \in Clients : pc(c) \notin Working
    BY Zenon DEF Init, NoCall, pc, Working
  <2>2. session # None => link[session] # "none"
    BY DEF Init
  <2>3. \A s \in Sessions : link[s] \in {"none", "up"}
    BY DEF Init
  <2>4. ~stray
    BY DEF Init
  <2>5. QED
    BY Zenon, <2>1, <2>2, <2>3, <2>4 DEF Calm
<1>2. Inv /\ Calm /\ [Next]_vars => Calm'
  <2>1. ASSUME UNCHANGED vars, Calm PROVE Calm'
    BY <2>1 DEF vars, Calm, pc
  <2>2. QED
    BY <2>1, CalmKept
<1>3. Inv /\ Calm => SessionInvariant
  BY DEF Inv, Kept, Calm, SessionInvariant, StraysHaveCause
<1>4. QED
  BY <1>1, <1>2, <1>3, InvHolds, PTL DEF Spec

\* HealthySessionKept: invalidate compares before it closes, so a call that was
\* slow to see its connection lost does not close the session another call has
\* dialled since; only Adapter.Close closes a session that is up.
THEOREM HealthySessionsAreKept == Spec => HealthySessionKept
<1>1. ASSUME Inv, [Next]_vars
      PROVE  [\A s \in Sessions : link[s] = "up" /\ link'[s] = "closed" => closed']_vars
  <2> SUFFICES ASSUME NEW s \in Sessions, link[s] = "up", link'[s] = "closed", Next
               PROVE  closed'
    BY <1>1 DEF vars
  <2>0. link \in [Sessions -> {"none", "up", "down", "closed"}]
    BY <1>1 DEF Inv, Kept, TypeOK
  <2>1. Close \/ \E c \in Clients : Step(c)
    BY Zenon, <2>0
       DEF Next, Invoke, Cancel, CloseReader, Watcher, Watch, WatcherEnds, Drop, sessionVars
  <2>2. CASE Close
    BY <2>2 DEF Close
  <2>3. ASSUME NEW c \in Clients, Step(c) PROVE closed'
    <3>1. CASE Reconnect(c)
      BY <2>0, <3>1 DEF Reconnect, invalidate, ConnectionError
    <3>2. CASE Session(c)
      BY <2>0, <3>2 DEF Session, currentSession
    <3>3. CASE Delete(c) \/ Move(c) \/ Publish(c)
      BY <2>0, <3>3 DEF Delete, Move, Publish
    <3>4. CASE Refuse(c) \/ Lost(c) \/ Stat(c) \/ Open(c) \/ Check(c) \/ Fill(c) \/ Finish(c)
      BY <2>0, <3>4 DEF Refuse, Lost, Stat, Open, Check, Fill, Finish, sessionVars
    <3>5. CASE UploadFails(c) \/ Cleanup(c) \/ Unlink(c) \/ Confirm(c) \/ CallerCloses(c)
               \/ CallerReturns(c)
      BY <2>0, <3>5 DEF UploadFails, Cleanup, Unlink, Confirm, CallerCloses, CallerReturns,
         sessionVars
    <3>6. QED
      BY Zenon, <2>3, <3>1, <3>2, <3>3, <3>4, <3>5 DEF Step
  <2>4. QED
    BY <2>1, <2>2, <2>3
<1>2. QED
  BY <1>1, InvHolds, PTL DEF Spec, HealthySessionKept

-----------------------------------------------------------------------------
(* Refinement of the contract.                                             *)

\* The mapping of Contract.
Requested == [c \in Clients |-> IF InEffect(c) THEN Replaceable(request[c]) ELSE None]
Told == [c \in Clients |-> IF outcome[c] = "gone" THEN "error" ELSE outcome[c]]

\* The mapped requests are a function on the clients.
LEMMA OnClients ==
    /\ Requested = [c \in Clients |-> Requested[c]]
    /\ Requested' = [c \in Clients |-> Requested'[c]]
BY Zenon DEF Requested

\* The contract is told every answer but which error it is.
LEMMA Tells ==
    ASSUME NEW c \in Clients, outcome[c] # "gone"
    PROVE  Told[c] = outcome[c]
BY Zenon DEF Told

\* An answer of the adapter is an answer of the contract.
LEMMA ToldOf ==
    ASSUME Inv, NEW c \in Clients, NEW o, NEW t, t = IF o = "gone" THEN "error" ELSE o,
           outcome' = [outcome EXCEPT ![c] = o]
    PROVE  Told' = [Told EXCEPT ![c] = t]
<1>1. outcome'[c] = o /\ \A d \in Clients : d # c => outcome'[d] = outcome[d]
  BY DEF Inv, Kept, TypeOK
<1>2. Told'[c] = t /\ \A d \in Clients : d # c => Told'[d] = Told[d]
  BY <1>1 DEF Told
<1>3. Told = [d \in Clients |-> Told[d]] /\ Told' = [d \in Clients |-> Told'[d]]
  BY DEF Told
<1>4. QED
  BY <1>2, <1>3

\* A call in progress, as the contract sees it.
LEMMA Pends ==
    ASSUME Inv, NEW c \in Clients, InEffect(c)
    PROVE  /\ Requested[c] = Replaceable(request[c])
           /\ Requested[c].op = request[c].op /\ Requested[c].path = request[c].path
           /\ Requested[c].to = request[c].to /\ Requested[c].content = request[c].content
           /\ Requested[c].replace = atomicRename
           /\ request[c].path \in Paths /\ request[c].to \in Paths
           /\ Told[c] = outcome[c]
<1>0. Told[c] = outcome[c]
  BY Zenon, Tells DEF InEffect
<1>1. pc(c) # "idle"
  BY Zenon, Parts DEF CallOK, At
<1>2. Requested[c] = Replaceable(request[c])
  BY DEF Requested
<1>3. ASSUME NEW r
      PROVE  /\ Replaceable(r).op = r.op /\ Replaceable(r).path = r.path
             /\ Replaceable(r).to = r.to /\ Replaceable(r).content = r.content
             /\ Replaceable(r).replace = atomicRename
  BY DEF Replaceable
<1>4. request[c].path \in Paths /\ request[c].to \in Paths
  BY Zenon, <1>1, InProgress
<1>5. QED
  BY Zenon, <1>0, <1>2, <1>3, <1>4

\* A call that has its answer has it in the contract.
LEMMA Answered ==
    ASSUME Inv, NEW c \in Clients, NEW o \in {"ok", "notfound", "gone", "error"},
           NEW t, t = IF o = "gone" THEN "error" ELSE o,
           outcome' = [outcome EXCEPT ![c] = o], UNCHANGED atomicRename,
           \A d \in Clients : d # c => request'[d] = request[d]
    PROVE  Contract!Answer(c, t)
<1>1. outcome'[c] = o /\ \A d \in Clients : d # c => outcome'[d] = outcome[d]
  BY DEF Inv, Kept, TypeOK
<1>2. Requested'[c] = None /\ \A d \in Clients : d # c => Requested'[d] = Requested[d]
  BY Zenon, <1>1 DEF Requested, InEffect, Replaceable
<1>3. Requested' = [Requested EXCEPT ![c] = None]
  BY SMTT(60), <1>2, OnClients
<1>4. Told' = [Told EXCEPT ![c] = t]
  BY Zenon, ToldOf
<1>5. QED
  BY Zenon, <1>3, <1>4 DEF Contract!Answer, Requested, Told

\* Steps that the contract does not see.
LEMMA Unseen ==
    ASSUME NEW c \in Clients, UNCHANGED <<objects, outcome, answer, atomicRename>>,
           \A d \in Clients : d # c \/ InEffect(c) => request'[d] = request[d]
    PROVE  UNCHANGED Contract!vars
<1>1. \A d \in Clients : Requested'[d] = Requested[d]
  BY Zenon DEF Requested, InEffect, Replaceable
<1>2. Requested' = Requested
  BY <1>1, OnClients
<1>3. Told' = Told
  BY Zenon DEF Told
<1>4. QED
  BY Zenon, <1>2, <1>3 DEF Contract!vars, Requested, Told

\* What Return does to requests.
LEMMA Returns ==
    ASSUME Inv, NEW c \in Clients, Return(c)
    PROVE  \A d \in Clients : d # c => request'[d] = request[d]
BY DEF Return, Inv, Kept, TypeOK

\* A call that fails, whether or not it has taken effect.
LEMMA FailsRefine ==
    ASSUME Inv, NEW c \in Clients, UNCHANGED <<objects, answer, atomicRename>>,
           NEW o \in {"error", "gone"}, outcome' = [outcome EXCEPT ![c] = o],
           \A d \in Clients : d # c => request'[d] = request[d],
           outcome[c] \in {"pending", "loaded", "ok"}
    PROVE  Contract!Next
<1>0. Told[c] = outcome[c]
  BY Zenon, Tells
<1>1. Contract!Answer(c, "error")
  BY Zenon, Answered
<1>2. Contract!Fail(c)
  BY Zenon, <1>0, <1>1 DEF Contract!Fail, Told
<1>3. QED
  BY <1>2 DEF Contract!Next

\* A call that finds no object.
LEMMA AbsentRefines ==
    ASSUME Inv, NEW c \in Clients, UNCHANGED <<objects, answer, atomicRename>>, Return(c),
           outcome[c] = "pending", request[c].op \notin {"write", "list"},
           objects[request[c].path] = None, outcome' = [outcome EXCEPT ![c] = "notfound"]
    PROVE  Contract!Next
<1>1. Contract!Answer(c, "notfound") /\ InEffect(c)
  BY Zenon, Answered, Returns DEF InEffect
<1>2. /\ Requested[c].op = request[c].op /\ Requested[c].path = request[c].path
      /\ Told[c] = outcome[c]
  BY Zenon, <1>1, Pends
<1>3. Contract!NotFound(c)
  BY Zenon, <1>1, <1>2 DEF Contract!NotFound, Requested, Told
<1>4. QED
  BY Zenon, <1>3 DEF Contract!Next

\* Stat and Open take effect when the server answers.
LEMMA ReadsRefine ==
    ASSUME Inv, NEW c \in Clients, Stat(c) \/ Open(c)
    PROVE  Contract!Next
<1>1. /\ outcome[c] = "pending" /\ InEffect(c) /\ UNCHANGED <<objects, atomicRename>>
      /\ Stat(c) => request[c].op = "stat"
      /\ Open(c) => request[c].op \in {"read", "copy"}
  BY Zenon, Parts DEF Stat, Open, CallOK, At, InEffect
<1>2. /\ Requested[c].op = request[c].op /\ Requested[c].path = request[c].path
      /\ request[c].path \in Paths /\ Told[c] = outcome[c]
  BY Zenon, <1>1, Pends
<1>3. CASE objects[request[c].path] = None
  BY <1>1, <1>3, AbsentRefines DEF Stat, Open, Answer
<1>4. CASE Stat(c) /\ objects[request[c].path] # None
  <2>1. outcome' = [outcome EXCEPT ![c] = "ok"] /\ Return(c) /\ answer' = answer
    BY Zenon, <1>4 DEF Stat, Answer
  <2>2. Contract!Answer(c, "ok")
    BY ZenonT(60), <1>1, <2>1, Answered, Returns
  <2>3. Contract!Stat(c)
    BY Zenon, <1>1, <1>2, <1>4, <2>1, <2>2 DEF Contract!Stat, Contract!Pending, Requested, Told
  <2>4. QED
    BY <2>3 DEF Contract!Next
<1>5. CASE Open(c) /\ objects[request[c].path] # None
  <2>1. /\ answer' = [answer EXCEPT ![c] = objects[request[c].path]] /\ request' = request
        /\ request[c].op = "copy" => outcome' = [outcome EXCEPT ![c] = "loaded"]
        /\ request[c].op = "read" => outcome' = [outcome EXCEPT ![c] = "ok"]
    BY <1>5 DEF Open, Answer
  <2>2. CASE request[c].op = "read"
    <3>1. Contract!Answer(c, "ok")
      BY <1>1, <2>1, <2>2, Answered
    <3>2. Contract!Read(c)
      BY Zenon, <1>1, <1>2, <1>5, <2>1, <2>2, <3>1
         DEF Contract!Read, Contract!Pending, Requested, Told
    <3>3. QED
      BY <3>2 DEF Contract!Next
  <2>3. CASE request[c].op = "copy"
    <3>1. outcome'[c] = "loaded" /\ \A d \in Clients : d # c => outcome'[d] = outcome[d]
      BY SMTT(60), <2>1, <2>3 DEF Inv, Kept, TypeOK
    <3>2. \A d \in Clients : Requested'[d] = Requested[d]
      BY Zenon, <1>1, <2>1, <3>1 DEF Requested, InEffect, Replaceable
    <3>3. Requested' = Requested
      BY <3>2, OnClients
    <3>0. Told' = [Told EXCEPT ![c] = "loaded"]
      <4>1. outcome' = [outcome EXCEPT ![c] = "loaded"]
        BY <2>1, <2>3
      <4>2. "loaded" = IF "loaded" = "gone" THEN "error" ELSE "loaded"
        OBVIOUS
      <4>3. QED
        BY Zenon, <4>1, <4>2, ToldOf
    <3>4. Contract!CopyLoad(c)
      BY ZenonT(60), <1>1, <1>2, <1>5, <2>1, <2>3, <3>0, <3>3
         DEF Contract!CopyLoad, Contract!Pending, Requested, Told
    <3>5. QED
      BY <3>4 DEF Contract!Next
  <2>4. QED
    BY Zenon, <1>1, <1>5, <2>2, <2>3
<1>6. QED
  BY Zenon, <1>3, <1>4, <1>5

\* Remove and PosixRename take effect once, whether or not their reply arrives.
LEMMA CommandsRefine ==
    ASSUME Inv, NEW c \in Clients, Delete(c) \/ Move(c)
    PROVE  Contract!Next
<1>1. /\ outcome[c] = "pending" /\ InEffect(c) /\ UNCHANGED <<answer, atomicRename>>
      /\ Delete(c) => request[c].op = "delete"
      /\ Move(c) => request[c].op = "move" /\ atomicRename
  BY Zenon, Parts DEF Delete, Move, CallOK, At, InEffect
<1>2. /\ Requested[c].op = request[c].op /\ Requested[c].path = request[c].path
      /\ Requested[c].to = request[c].to /\ Requested[c].replace = atomicRename
      /\ request[c].path \in Paths /\ request[c].to \in Paths /\ Told[c] = outcome[c]
  BY Zenon, <1>1, Pends
<1>3. CASE objects[request[c].path] = None
  <2>1. Return(c) /\ outcome' = [outcome EXCEPT ![c] = "notfound"]
    BY Zenon, <1>3 DEF Delete, Move, Answer
  <2>2. objects' = objects
    BY Zenon, <1>2, <1>3 DEF Delete, Move, Inv, Kept, TypeOK
  <2>3. QED
    BY ZenonT(60), <1>1, <1>3, <2>1, <2>2, AbsentRefines
<1>4. CASE objects[request[c].path] # None
  <2>1. outcome' = [outcome EXCEPT ![c] = "ok"] /\ (Return(c) \/ request' = request)
    BY Zenon, <1>4 DEF Delete, Move, Answer
  <2>2. \A d \in Clients : d # c => request'[d] = request[d]
    BY <2>1, Returns
  <2>3. Contract!Answer(c, "ok")
    BY Zenon, <1>1, <2>1, <2>2, Answered
  <2>4. CASE Delete(c)
    <3>1. Contract!Delete(c)
      BY Zenon, <1>1, <1>2, <2>3, <2>4
         DEF Delete, Contract!Delete, Contract!Pending, Requested, Told
    <3>2. QED
      BY <3>1 DEF Contract!Next
  <2>5. CASE Move(c)
    <3>1. Contract!Move(c)
      BY Zenon, <1>1, <1>2, <1>4, <2>3, <2>5
         DEF Move, Contract!Move, Contract!Pending, Requested, Told
    <3>2. QED
      BY <3>1 DEF Contract!Next
  <2>6. QED
    BY SMTT(60), <2>4, <2>5
<1>5. QED
  BY Zenon, <1>3, <1>4

\* The rename publishes what the call asked for, or what its Copy has read.
LEMMA PublishRefines ==
    ASSUME Inv, NEW c \in Clients, Publish(c)
    PROVE  Contract!Next
<1>1. CallOK(c) /\ pc(c) = "publish"
  BY Parts DEF Publish
<1>2. /\ InEffect(c) /\ temp[c].content = Source(c)
      /\ IF request[c].op = "copy" THEN outcome[c] = "loaded"
         ELSE outcome[c] = "pending" /\ request[c].op = "write"
  BY Zenon, <1>1 DEF CallOK, At, InEffect
<1>3. /\ UNCHANGED <<answer, atomicRename, request>> /\ outcome' = [outcome EXCEPT ![c] = "ok"]
      /\ atomicRename \/ objects[request[c].to] = None
      /\ objects' = [objects EXCEPT ![request[c].to] = Source(c)]
  BY <1>2 DEF Publish, Answer
<1>4. /\ Requested[c].op = request[c].op /\ Requested[c].to = request[c].to
      /\ Requested[c].content = request[c].content /\ Requested[c].replace = atomicRename
      /\ Told[c] = outcome[c]
  BY Zenon, <1>2, Pends
<1>5. Contract!Answer(c, "ok")
  BY Zenon, <1>3, Answered
<1>6. CASE request[c].op = "copy"
  <2>1. outcome[c] = "loaded" /\ objects' = [objects EXCEPT ![request[c].to] = answer[c]]
    BY Zenon, <1>2, <1>3, <1>6 DEF Source
  <2>2. Contract!CopyStore(c)
    BY Zenon, <1>3, <1>4, <1>5, <2>1 DEF Contract!CopyStore, Contract!Put, Requested, Told
  <2>3. QED
    BY <2>2 DEF Contract!Next
<1>7. CASE request[c].op # "copy"
  <2>1. /\ outcome[c] = "pending" /\ request[c].op = "write"
        /\ objects' = [objects EXCEPT ![request[c].to] = request[c].content]
    BY Zenon, <1>2, <1>3, <1>7 DEF Source
  <2>2. Contract!Write(c)
    BY Zenon, <1>3, <1>4, <1>5, <2>1
       DEF Contract!Write, Contract!Put, Contract!Pending, Requested, Told
  <2>3. QED
    BY <2>2 DEF Contract!Next
<1>8. QED
  BY <1>6, <1>7

\* A call begins in the contract as well.
LEMMA InvokeRefines ==
    ASSUME Inv, NEW c \in Clients, Invoke(c)
    PROVE  Contract!Next
<1>1. PICK r \in Calls : request' = [request EXCEPT ![c] = r]
  BY Zenon DEF Invoke
<1>2. /\ pc(c) = "idle" /\ outcome' = [outcome EXCEPT ![c] = "pending"]
      /\ answer' = [answer EXCEPT ![c] = None] /\ UNCHANGED <<objects, atomicRename>>
  BY DEF Invoke, Answer
<1>3. outcome[c] \notin {"pending", "loaded"}
  BY ZenonT(60), <1>2, Parts DEF CallOK, At, InEffect
<1>4. /\ request'[c] = r /\ outcome'[c] = "pending"
      /\ \A d \in Clients : d # c => request'[d] = request[d] /\ outcome'[d] = outcome[d]
  BY SMTT(60), <1>1, <1>2 DEF Inv, Kept, TypeOK
<1>5. /\ Requested'[c] = Replaceable(r)
      /\ \A d \in Clients : d # c => Requested'[d] = Requested[d]
  BY Zenon, <1>2, <1>4 DEF Requested, InEffect, Replaceable
<1>6. Requested' = [Requested EXCEPT ![c] = Requested'[c]]
  BY <1>5, OnClients
<1>7. Requested'[c] \in Contract!Requests
  <2>1. atomicRename \in BOOLEAN
    BY DEF Inv, Kept, TypeOK
  <2>2. QED
    <3>1. /\ Requested'[c] = [op |-> r.op, path |-> r.path, to |-> r.to, content |-> r.content,
                              replace |-> atomicRename]
          /\ r \in Requests
      BY Zenon, <1>5 DEF Replaceable, Calls
    <3>2. /\ r.op \in Contract!Methods /\ r.path \in Paths /\ r.to \in Paths
          /\ r.content \in Contents \cup {None}
      BY Zenon, <3>1 DEF Requests, Operations, Contract!Methods
    <3>3. \A o \in Contract!Methods, p, t \in Paths, x \in Contents \cup {None}, b \in BOOLEAN :
             [op |-> o, path |-> p, to |-> t, content |-> x, replace |-> b] \in Contract!Requests
      BY DEF Contract!Requests
    <3>4. QED
      BY <2>1, <3>1, <3>2, <3>3
<1>0. Told' = [Told EXCEPT ![c] = "pending"] /\ Told[c] \notin {"pending", "loaded"}
  <2>1. Told' = [Told EXCEPT ![c] = "pending"]
    BY Zenon, <1>2, ToldOf
  <2>2. Told[c] \notin {"pending", "loaded"}
    BY <1>3 DEF Told
  <2>3. QED
    BY Zenon, <2>1, <2>2
<1>8. Contract!Invoke(c)
  BY Zenon, <1>0, <1>2, <1>6, <1>7 DEF Contract!Invoke, Contract!Returned, Requested, Told
<1>9. QED
  BY <1>8 DEF Contract!Next

\* Failures of every kind, the end of a failed Write, and the Stat that follows
\* one that has published.
LEMMA FailuresRefine ==
    ASSUME Inv, NEW c \in Clients,
           Session(c) \/ Refuse(c) \/ Lost(c) \/ UploadFails(c) \/ Unlink(c) \/ Confirm(c)
    PROVE  Contract!Next \/ UNCHANGED Contract!vars
<1>1. CallOK(c) /\ UNCHANGED <<objects, answer, atomicRename>>
  BY Parts DEF Session, Refuse, Lost, UploadFails, Unlink, Confirm, callVars
<1>2. CASE UNCHANGED callVars
  BY <1>1, <1>2, Unseen DEF callVars
<1>3. CASE ~InEffect(c) /\ Return(c) /\ outcome' = outcome
  BY Zenon, <1>1, <1>3, Unseen, Returns
<1>4. CASE /\ outcome[c] \in {"pending", "loaded", "ok"}
           /\ Return(c) \/ request' = request
           /\ \E o \in {"error", "gone"} : outcome' = [outcome EXCEPT ![c] = o]
  <2>1. \A d \in Clients : d # c => request'[d] = request[d]
    BY <1>4, Returns
  <2>2. QED
    BY Zenon, <1>1, <1>4, <2>1, FailsRefine
<1>5. CASE Unlink(c)
  <2>1. outcome[c] \in {"ok", "gone", "error"} /\ Return(c)
    BY Zenon, <1>1, <1>5 DEF Unlink, CallOK, At
  <2>2. CASE outcome[c] = "ok"
    <3>1. outcome' = [outcome EXCEPT ![c] = "error"]
      BY Zenon, <1>5, <2>2 DEF Unlink
    <3>2. QED
      BY <1>4, <2>1, <2>2, <3>1
  <2>3. CASE outcome[c] # "ok"
    <3>1. outcome' = outcome
      BY <1>5, <2>3 DEF Unlink, Inv, Kept, TypeOK
    <3>2. QED
      BY <1>3, <2>1, <2>3, <3>1 DEF InEffect
  <2>4. QED
    BY <2>2, <2>3
<1>6. CASE Confirm(c)
  <2>1. outcome[c] = "ok" /\ Return(c)
    BY Zenon, <1>1, <1>6 DEF Confirm, CallOK, At
  <2>2. outcome' = outcome \/ outcome' = [outcome EXCEPT ![c] = "gone"]
    BY Zenon, <1>6 DEF Confirm, Answer
  <2>3. QED
    BY <1>3, <1>4, <2>1, <2>2 DEF InEffect
<1>7. CASE Session(c) \/ Refuse(c) \/ Lost(c) \/ UploadFails(c)
  <2>1. outcome[c] \in {"pending", "loaded", "ok"}
    BY <1>1, <1>7 DEF Session, Refuse, Lost, UploadFails, CallOK, At
  <2>2. \/ UNCHANGED callVars
        \/ /\ Return(c) \/ request' = request
           /\ \E o \in {"error", "gone"} : outcome' = [outcome EXCEPT ![c] = o]
    BY Zenon, <1>7 DEF Session, Refuse, Lost, UploadFails, Fail, Answer
  <2>3. QED
    BY <1>2, <1>4, <2>1, <2>2
<1>8. QED
  BY Zenon, <1>5, <1>6, <1>7

-----------------------------------------------------------------------------
\* Linearizable: every call takes effect at one protocol request, whatever is
\* lost around it.  What a Write publishes is what it was given, or what its
\* Copy has read, whole; a command whose reply was lost is not sent again; and
\* without the POSIX rename extension nothing is replaced, though the check and
\* the rename are two requests (sftp.go: every operation).  ErrNotFound proves the
\* object's absence, except from the Stat after a publication or when a directory
\* of the destination is what is missing.
THEOREM SftpImplementsContract == Spec => Linearizable
<1>1. Init => Contract!Init
  <2> SUFFICES ASSUME Init PROVE Contract!Init
    OBVIOUS
  <2>1. Requested = [c \in Clients |-> None] /\ Told = [c \in Clients |-> "idle"]
    BY DEF Init, Requested, Told, InEffect
  <2>2. QED
    BY SMTT(60), <2>1 DEF Init, Contract!Init, Requested, Told
<1>2. Inv /\ [Next]_vars => [Contract!Next]_(Contract!vars)
  <2> SUFFICES ASSUME Inv, [Next]_vars
               PROVE  Contract!Next \/ UNCHANGED Contract!vars
    OBVIOUS
  <2>1. ASSUME UNCHANGED <<objects, request, outcome, answer, atomicRename>>
        PROVE  UNCHANGED Contract!vars
    <3>1. Requested' = Requested /\ Told' = Told
      BY Zenon, <2>1 DEF Requested, Told, InEffect, Replaceable
    <3>2. QED
      BY Zenon, <2>1, <3>1 DEF Contract!vars, Requested, Told
  <2>2. CASE UNCHANGED vars \/ Close \/ \E s \in Sessions : Drop(s)
    BY Zenon, <2>1, <2>2 DEF vars, Close, Drop, callVars
  <2>3. ASSUME NEW c \in Clients, Cancel(c) \/ CloseReader(c) \/ Watcher(c) \/ CallerCloses(c)
        PROVE  UNCHANGED Contract!vars
    BY SMTT(60), <2>1, <2>3
       DEF Cancel, CloseReader, Watcher, Watch, WatcherEnds, CallerCloses, callVars
  <2>4. ASSUME NEW c \in Clients, Reconnect(c) \/ Check(c) \/ Fill(c) \/ Finish(c)
                                    \/ Cleanup(c)
        PROVE  UNCHANGED Contract!vars
    BY <2>1, <2>4 DEF Reconnect, Check, Fill, Finish, Cleanup, callVars
  <2>5. ASSUME NEW c \in Clients, CallerReturns(c) PROVE UNCHANGED Contract!vars
    <3>1. ~InEffect(c)
      BY <2>5, Parts DEF CallerReturns, CallOK, At
    <3>2. /\ UNCHANGED <<objects, outcome, answer, atomicRename>>
          /\ \A d \in Clients : d # c => request'[d] = request[d]
      BY <2>5 DEF CallerReturns, Inv, Kept, TypeOK
    <3>3. QED
      BY <3>1, <3>2, Unseen
  <2>6. ASSUME NEW c \in Clients, Step(c)
        PROVE  Contract!Next \/ UNCHANGED Contract!vars
    BY <2>3, <2>4, <2>5, <2>6, ReadsRefine, CommandsRefine, PublishRefines, FailuresRefine
       DEF Step
  <2>7. QED
    BY <2>2, <2>3, <2>6, InvokeRefines DEF Next
<1>3. QED
  BY <1>1, <1>2, InvHolds, PTL DEF Spec, Contract!Spec, Linearizable
=============================================================================
