------------------------------ MODULE StreamWriter ------------------------------
(***************************************************************************)
(* internal/streamwriter: the writer every adapter's OpenWriter returns.   *)
(* Four parties share one io.Pipe:                                         *)
(*                                                                         *)
(*   - the producer, which calls Writer.Write;                             *)
(*   - any number of goroutines that call Writer.Close;                    *)
(*   - the consumer goroutine New starts, which runs the adapter's Write   *)
(*     on the read side and publishes one object;                          *)
(*   - the context.AfterFunc goroutine, which closes the write side when   *)
(*     the upload context is cancelled.                                    *)
(*                                                                         *)
(* Content is counted, not spelled: `received` bytes have crossed the      *)
(* pipe.  The consumer is modelled after memory.Adapter.Write, the         *)
(* shortest of the adapters' Write methods: poll the context before every  *)
(* read, stop at EOF, poll it once more, publish.                          *)
(***************************************************************************)
EXTENDS Naturals

CONSTANTS
    Closers,    \* goroutines that call Writer.Close
    MaxBytes,   \* bound: bytes the producer offers over the writer's life
    MaxWrite    \* bound: bytes of one Write

ASSUME BoundsAssumption == MaxBytes \in Nat /\ MaxWrite \in Nat \ {0}

VARIABLES
    ctx,        \* the upload context
    afterFunc,  \* the cancellation callback New registers
    werr, rerr, \* what the write and the read side of the pipe were closed with
    blocked,    \* bytes of the Write in progress not yet taken by the consumer
    taken,      \* bytes of the Write in progress the consumer has taken
    reported,   \* bytes that returned Writes told the producer were accepted
    consumer,   \* control state of the consumer goroutine
    received,   \* bytes the consumer has read
    result,     \* what consume returned
    published,  \* size of the published object, or Unpublished
    done,       \* the done channel: "empty" or the error in it
    once,       \* Writer.once
    err,        \* Writer.err
    closer      \* control state of each Close call

vars == <<ctx, afterFunc, werr, rerr, blocked, taken, reported, consumer,
          received, result, published, done, once, err, closer>>

pipeVars == <<werr, rerr>>
producerVars == <<blocked, taken, reported>>
consumerVars == <<consumer, received, result, published, done>>
closeVars == <<once, err, closer>>

Unpublished == MaxBytes + 1

Errors == {"nil", "failed"}

TypeOK ==
    /\ ctx \in {"live", "cancelled"}
    /\ afterFunc \in {"armed", "running", "ran", "stopped"}
    /\ werr \in {"open", "EOF", "cancelled"}
    /\ rerr \in {"open", "closed", "failed"}
    /\ blocked \in 0..MaxWrite /\ taken \in 0..MaxWrite
    /\ reported \in 0..MaxBytes /\ received \in 0..MaxBytes
    /\ consumer \in {"poll", "read", "verify", "publish", "close", "send",
                     "stop", "finished"}
    /\ result \in Errors \cup {"none"}
    /\ published \in 0..Unpublished
    /\ done \in Errors \cup {"empty"}
    /\ once \in {"new", "running", "done"}
    /\ err \in Errors \cup {"none"}
    /\ closer \in [Closers -> {"idle", "join", "wait", "nil", "failed"}]

\* New: the pipe is open, the callback registered and the consumer started.
Init ==
    /\ ctx = "live" /\ afterFunc = "armed"
    /\ werr = "open" /\ rerr = "open"
    /\ blocked = 0 /\ taken = 0 /\ reported = 0
    /\ consumer = "poll" /\ received = 0 /\ result = "none"
    /\ published = Unpublished /\ done = "empty"
    /\ once = "new" /\ err = "none"
    /\ closer = [k \in Closers |-> "idle"]

-----------------------------------------------------------------------------
(* io.Pipe: each side keeps the first error it is closed with, and closing *)
(* either side releases both.                                              *)

PipeClosed == werr # "open" \/ rerr # "open"

CloseWrite(e) == werr' = IF werr = "open" THEN e ELSE werr

CloseRead(e) == rerr' = IF rerr = "open" THEN e ELSE rerr

\* What a Read of a closed pipe returns: the write side's error, unless the
\* read side itself was closed.
ReadCloseError == IF rerr = "open" THEN werr ELSE "closed"

-----------------------------------------------------------------------------
(* The upload context.                                                     *)

Cancel ==
    /\ ctx = "live"
    /\ ctx' = "cancelled"
    /\ afterFunc' = IF afterFunc = "armed" THEN "running" ELSE afterFunc
    /\ UNCHANGED <<pipeVars, producerVars, consumerVars, closeVars>>

AfterFuncForgetsPipe ==
    /\ afterFunc = "running"
    /\ afterFunc' = "ran"
    /\ UNCHANGED <<ctx, pipeVars, producerVars, consumerVars, closeVars>>

\* The callback closes the write side with the context's error.
AfterFunc ==
    /\ afterFunc = "running"
    /\ afterFunc' = "ran"
    /\ CloseWrite("cancelled")
    /\ UNCHANGED <<ctx, rerr, producerVars, consumerVars, closeVars>>

-----------------------------------------------------------------------------
(* Writer.Write.  On a closed pipe it returns at once and changes nothing. *)

WriteBegin(n) ==
    /\ blocked = 0
    /\ ~PipeClosed
    /\ received + n <= MaxBytes
    /\ blocked' = n
    /\ taken' = 0
    /\ UNCHANGED <<ctx, afterFunc, pipeVars, reported, consumerVars, closeVars>>

WriteReleasedForgetsCount ==
    /\ blocked > 0
    /\ PipeClosed
    /\ blocked' = 0
    /\ UNCHANGED <<ctx, afterFunc, pipeVars, taken, reported, consumerVars, closeVars>>

\* A blocked Write whose pipe was closed returns the bytes already taken; the
\* context's error replaces the pipe's, the count does not change.
WriteReleased ==
    /\ blocked > 0
    /\ PipeClosed
    /\ blocked' = 0
    /\ reported' = reported + taken
    /\ UNCHANGED <<ctx, afterFunc, pipeVars, taken, consumerVars, closeVars>>

-----------------------------------------------------------------------------
(* The consumer goroutine.                                                 *)

Fail ==
    /\ consumer' = "close"
    /\ result' = "failed"

\* contextReader.Read: the context is looked at before every read.
PollContext ==
    /\ consumer = "poll"
    /\ IF ctx = "live" THEN consumer' = "read" /\ UNCHANGED result ELSE Fail
    /\ UNCHANGED <<ctx, afterFunc, pipeVars, producerVars, received, published,
                   done, closeVars>>

\* One read meets the blocked Write and takes some of its bytes.  The Write
\* returns when none are left.  A reader already waiting may still win the
\* race against a concurrent close, so the pipe need not be open.
Transfer(n) ==
    /\ consumer = "read"
    /\ n <= blocked
    /\ received' = received + n
    /\ blocked' = blocked - n
    /\ taken' = taken + n
    /\ reported' = IF blocked = n THEN reported + taken + n ELSE reported
    /\ consumer' = "poll"
    /\ UNCHANGED <<ctx, afterFunc, pipeVars, result, published, done, closeVars>>

\* Mutant: an EOF is read again.
ReadClosedRetries ==
    /\ consumer = "read"
    /\ PipeClosed
    /\ IF ReadCloseError = "EOF" THEN consumer' = "poll" /\ UNCHANGED result ELSE Fail
    /\ UNCHANGED <<ctx, afterFunc, pipeVars, producerVars, received, published,
                   done, closeVars>>

\* The read finds the pipe closed: EOF ends the content, anything else fails.
ReadClosed ==
    /\ consumer = "read"
    /\ PipeClosed
    /\ IF ReadCloseError = "EOF"
       THEN consumer' = "verify" /\ UNCHANGED result
       ELSE Fail
    /\ UNCHANGED <<ctx, afterFunc, pipeVars, producerVars, received, published,
                   done, closeVars>>

\* The adapter polls the context once more after the copy.
Verify ==
    /\ consumer = "verify"
    /\ IF ctx = "live" THEN consumer' = "publish" /\ UNCHANGED result ELSE Fail
    /\ UNCHANGED <<ctx, afterFunc, pipeVars, producerVars, received, published,
                   done, closeVars>>

\* Publication; what follows it (a Stat of the new object) may still fail.
Publish ==
    /\ consumer = "publish"
    /\ published' = received
    /\ result' \in Errors
    /\ consumer' = "close"
    /\ UNCHANGED <<ctx, afterFunc, pipeVars, producerVars, received, done, closeVars>>

\* The adapter's Write fails for a reason of its own, before publishing.
BackendFails ==
    /\ consumer \in {"poll", "verify", "publish"}
    /\ Fail
    /\ UNCHANGED <<ctx, afterFunc, pipeVars, producerVars, received, published,
                   done, closeVars>>

CloseReader ==
    /\ consumer = "close"
    /\ CloseRead(IF result = "nil" THEN "closed" ELSE "failed")
    /\ consumer' = "send"
    /\ UNCHANGED <<ctx, afterFunc, werr, producerVars, received, result, published,
                   done, closeVars>>

SendResult ==
    /\ consumer = "send"
    /\ done' = result
    /\ consumer' = "stop"
    /\ UNCHANGED <<ctx, afterFunc, pipeVars, producerVars, received, result, published,
                   closeVars>>

\* The deferred stopCancellation: a callback not yet started never runs.
StopCancellation ==
    /\ consumer = "stop"
    /\ afterFunc' = IF afterFunc = "armed" THEN "stopped" ELSE afterFunc
    /\ consumer' = "finished"
    /\ UNCHANGED <<ctx, pipeVars, producerVars, received, result, published, done,
                   closeVars>>

-----------------------------------------------------------------------------
(* Writer.Close.                                                           *)

\* The first call runs the Once body: close the pipe, then wait for the
\* consumer.  A call that meets the body running waits for it to end.
CloseBegin(k) ==
    /\ closer[k] = "idle"
    /\ once # "done"
    /\ once' = "running"
    /\ IF once = "new"
       THEN CloseWrite("EOF") /\ closer' = [closer EXCEPT ![k] = "join"]
       ELSE UNCHANGED werr /\ closer' = [closer EXCEPT ![k] = "wait"]
    /\ UNCHANGED <<ctx, afterFunc, rerr, producerVars, consumerVars, err>>

CloseJoinForgetsResult(k) ==
    /\ closer[k] = "join"
    /\ err' = "nil"
    /\ once' = "done"
    /\ closer' = [closer EXCEPT ![k] = err']
    /\ UNCHANGED <<ctx, afterFunc, pipeVars, producerVars, consumerVars>>

CloseJoin(k) ==
    /\ closer[k] = "join"
    /\ done # "empty"
    /\ err' = done
    /\ once' = "done"
    /\ closer' = [closer EXCEPT ![k] = err']
    /\ UNCHANGED <<ctx, afterFunc, pipeVars, producerVars, consumerVars>>

\* Every other call returns the stored result.
CloseRepeat(k) ==
    /\ closer[k] \in {"idle", "wait"}
    /\ once = "done"
    /\ closer' = [closer EXCEPT ![k] = err]
    /\ UNCHANGED <<ctx, afterFunc, pipeVars, producerVars, consumerVars, once, err>>

-----------------------------------------------------------------------------
Producer == WriteReleased \/ \E n \in 1..MaxWrite : WriteBegin(n)

Consumer ==
    \/ PollContext \/ ReadClosed \/ Verify \/ Publish \/ BackendFails
    \/ CloseReader \/ SendResult \/ StopCancellation
    \/ \E n \in 1..MaxWrite : Transfer(n)

Close(k) == CloseBegin(k) \/ CloseJoin(k) \/ CloseRepeat(k)

\* Every party is done; only here may the system stop.
Terminated ==
    /\ ctx = "cancelled" /\ afterFunc # "running"
    /\ consumer = "finished" /\ blocked = 0
    /\ \A k \in Closers : closer[k] \in Errors
    /\ UNCHANGED vars

Next ==
    \/ Cancel
    \/ AfterFunc
    \/ Producer
    \/ Consumer
    \/ \E k \in Closers : Close(k)
    \/ Terminated

Spec == Init /\ [][Next]_vars

\* Goroutines that are ready run, and a call in progress goes on.  Nothing
\* makes a caller write, cancel or close.
Fairness ==
    /\ WF_vars(AfterFunc)
    /\ WF_vars(WriteReleased)
    /\ WF_vars(Consumer)
    /\ \A k \in Closers : WF_vars(CloseJoin(k)) /\ WF_vars(closer[k] = "wait" /\ CloseRepeat(k))

FairSpec == Spec /\ Fairness

-----------------------------------------------------------------------------
(* Properties.                                                             *)

\* An object is published only after some caller called Close: neither
\* dropping the writer nor cancelling it publishes (docs/capabilities.md).  Once
\* the producer is out of Write it has exactly the bytes that returned Writes
\* counted as accepted, those of a Write that a concurrent Close or
\* cancellation cut short included.
PublishedIsReported ==
    published # Unpublished =>
        /\ once # "new"
        /\ blocked = 0 => published = reported

\* Every Close returns what the consumer returned, none returns before the
\* consumer has, and a nil means the object is published.
CloseReportsPublication ==
    \A k \in Closers : closer[k] \in Errors =>
        /\ closer[k] = result
        /\ closer[k] = "nil" => published # Unpublished

\* Cancelling the context ends the consumer goroutine and any blocked Write,
\* even when nobody calls Close.
CancelReleasesAll ==
    ctx = "cancelled" ~> (consumer = "finished" /\ blocked = 0)

\* A Close that has begun returns.
CloseReturns ==
    \A k \in Closers : closer[k] \in {"join", "wait"} ~> closer[k] \in Errors
=============================================================================
