------------------------ MODULE StreamAndTreeProofs -------------------------
(***************************************************************************)
(* Proofs about what goes through a stream and what a walk collects:       *)
(* StreamWriter, for any number of Close callers, bytes and sizes of a     *)
(* Write; the ranges of OpenRange in ByteRanges, for every width of the    *)
(* integers, int64 among them; and the listings of TreeListing, for every  *)
(* finite tree, directory, limit and number of changes.                    *)
(***************************************************************************)
EXTENDS StreamWriter, ByteRanges, TreeListing, FiniteSetTheorems, TLAPS

-----------------------------------------------------------------------------
(* The streaming writer.                                                   *)

\* The control states after consume has returned.
Returned == {"close", "send", "stop", "finished"}

\* Bytes are conserved: what the consumer has received was reported to the
\* producer, or belongs to the Write in progress.
Counted ==
    /\ received = reported + (IF blocked > 0 THEN taken ELSE 0)
    /\ received + blocked <= MaxBytes
    /\ taken + blocked <= MaxWrite

\* Only Close ends the content, and nothing is received after publication.
Ended ==
    /\ werr = "EOF" \/ consumer \in {"verify", "publish"} => once # "new"
    /\ published # Unpublished =>
          published = received /\ once # "new" /\ consumer \in Returned

\* The way of a result: consume, the channel, Writer.err, the Close calls.
Handed ==
    /\ result # "none" <=> consumer \in Returned
    /\ result = "nil" => published # Unpublished
    /\ done # "empty" => done = result /\ consumer \in {"stop", "finished"}
    /\ once = "done" => err = done /\ done # "empty"
    /\ \A k \in Closers : closer[k] \in Errors => once = "done" /\ closer[k] = err

Inv == TypeOK /\ Counted /\ Ended /\ Handed

-----------------------------------------------------------------------------
\* New establishes the invariant.
LEMMA InitInv == Init => Inv
<1> SUFFICES ASSUME Init PROVE Inv
  OBVIOUS
<1>1. MaxBytes \in Nat /\ MaxWrite \in Nat /\ Unpublished = MaxBytes + 1
  BY BoundsAssumption DEF Unpublished
<1>2. TypeOK
  BY <1>1 DEF Init, TypeOK, Errors
<1>3. Counted
  BY <1>1 DEF Init, Counted
<1>4. Ended /\ Handed
  BY DEF Init, Ended, Handed, Returned, Errors
<1>5. QED
  BY <1>2, <1>3, <1>4 DEF Inv

\* The context and its callback touch neither bytes nor results.
LEMMA ContextInv ==
    ASSUME Inv, Cancel \/ AfterFunc
    PROVE  Inv'
<1>1. CASE Cancel
  BY <1>1 DEF Cancel, pipeVars, producerVars, consumerVars, closeVars,
              Inv, TypeOK, Counted, Ended, Handed, Errors, Returned
<1>2. CASE AfterFunc
  BY <1>2 DEF AfterFunc, CloseWrite, producerVars, consumerVars, closeVars,
              Inv, TypeOK, Counted, Ended, Handed, Errors, Returned
<1>3. QED
  BY <1>1, <1>2

\* A Write begins, or is released by a close of the pipe: its bytes are counted.
LEMMA ProducerInv ==
    ASSUME Inv, Producer
    PROVE  Inv'
<1> USE BoundsAssumption DEF Inv, TypeOK, Counted
<1>1. ASSUME NEW n \in 1..MaxWrite, WriteBegin(n)
      PROVE  Inv'
  <2>1. TypeOK' /\ Counted'
    BY <1>1 DEF WriteBegin, pipeVars, consumerVars, closeVars
  <2>2. Ended' /\ Handed'
    BY <1>1 DEF WriteBegin, pipeVars, consumerVars, closeVars, Ended, Handed
  <2>3. QED
    BY Zenon, <2>1, <2>2
<1>2. CASE WriteReleased
  <2>1. TypeOK' /\ Counted'
    BY <1>2 DEF WriteReleased, pipeVars, consumerVars, closeVars
  <2>2. Ended' /\ Handed'
    BY <1>2 DEF WriteReleased, pipeVars, consumerVars, closeVars, Ended, Handed
  <2>3. QED
    BY Zenon, <2>1, <2>2
<1>3. QED
  BY <1>1, <1>2 DEF Producer

\* A read takes bytes of the blocked Write, before anything is published.
LEMMA TransferInv ==
    ASSUME Inv, NEW n \in 1..MaxWrite, Transfer(n)
    PROVE  Inv'
<1> USE BoundsAssumption DEF Inv
<1>1. TypeOK' /\ Counted'
  BY DEF Transfer, pipeVars, closeVars, TypeOK, Counted
<1>2. Ended' /\ Handed'
  BY DEF Transfer, pipeVars, closeVars, TypeOK, Ended, Handed, Returned
<1>3. QED
  BY <1>1, <1>2

\* The consumer publishes only what ended with Close, and returns one result.
LEMMA ConsumerInv ==
    ASSUME Inv, Consumer
    PROVE  Inv'
<1> USE BoundsAssumption DEF Inv, TypeOK, Ended, Handed, Returned, Errors, Unpublished,
        pipeVars, producerVars, closeVars, Fail
<1>1. CASE PollContext
  BY <1>1 DEF PollContext, Counted
<1>2. CASE ReadClosed
  <2>1. once # "new" \/ Fail
    BY <1>2 DEF ReadClosed, ReadCloseError
  <2>2. QED
    BY <1>2, <2>1 DEF ReadClosed, Counted
<1>3. CASE Verify
  BY <1>3 DEF Verify, Counted
<1>4. CASE Publish
  <2>1. Counted' /\ TypeOK'
    BY <1>4 DEF Publish, Counted
  <2>2. received < Unpublished
    BY DEF Counted
  <2>3. Ended' /\ Handed'
    BY <1>4, <2>2 DEF Publish
  <2>4. QED
    BY <2>1, <2>3
<1>5. CASE BackendFails
  BY <1>5 DEF BackendFails, Counted
<1>6. CASE CloseReader
  BY <1>6 DEF CloseReader, CloseRead, Counted
<1>7. CASE SendResult
  BY <1>7 DEF SendResult, Counted
<1>8. CASE StopCancellation
  BY <1>8 DEF StopCancellation, Counted
<1>9. QED
  BY Zenon, <1>1, <1>2, <1>3, <1>4, <1>5, <1>6, <1>7, <1>8, TransferInv DEF Consumer

\* Each Close returns the one result that the first of them took.
LEMMA CloseInv ==
    ASSUME Inv, NEW k \in Closers, Close(k)
    PROVE  Inv'
<1> USE DEF Inv, Counted, pipeVars, producerVars, consumerVars
<1>1. CASE CloseBegin(k)
  <2>1. TypeOK' /\ Counted'
    BY <1>1 DEF CloseBegin, CloseWrite, TypeOK, Errors
  <2>2. once # "done" /\ once' = "running" /\ \A j \in Closers : closer'[j] \notin Errors
    BY <1>1 DEF CloseBegin, TypeOK, Handed, Errors
  <2>3. Ended' /\ Handed'
    BY <1>1, <2>2 DEF CloseBegin, Ended, Handed
  <2>4. QED
    BY <2>1, <2>3
<1>2. CASE CloseJoin(k)
  <2>1. TypeOK' /\ Counted'
    BY <1>2 DEF CloseJoin, TypeOK, Errors
  <2>2. Ended' /\ Handed'
    BY <1>2 DEF CloseJoin, TypeOK, Ended, Handed, Errors
  <2>3. QED
    BY <2>1, <2>2
<1>3. CASE CloseRepeat(k)
  <2>1. err \in Errors
    BY <1>3 DEF CloseRepeat, TypeOK, Handed, Errors
  <2>2. TypeOK' /\ Counted'
    BY <1>3, <2>1 DEF CloseRepeat, TypeOK, Errors
  <2>3. Ended' /\ Handed'
    BY <1>3 DEF CloseRepeat, TypeOK, Ended, Handed
  <2>4. QED
    BY <2>2, <2>3
<1>4. QED
  BY <1>1, <1>2, <1>3 DEF Close

\* Every step of the four parties keeps the invariant.
LEMMA StepInv == Inv /\ [Next]_vars => Inv'
<1> SUFFICES ASSUME Inv, [Next]_vars PROVE Inv'
  OBVIOUS
<1>1. CASE UNCHANGED vars
  BY <1>1 DEF vars, Inv, TypeOK, Counted, Ended, Handed
<1>2. QED
  BY <1>1, ContextInv, ProducerInv, ConsumerInv, CloseInv DEF Next, Terminated

\* The invariant holds from New on.
LEMMA Invariance == Spec => []Inv
  BY InitInv, StepInv, PTL DEF Spec

-----------------------------------------------------------------------------
\* However many goroutines call Close, and however cancellation, a failing
\* backend and the producer interleave: nothing is published before a Close,
\* and what is published is what Writes reported (New, Write and Close).
THEOREM PublishesWhatWasReported == Spec => []PublishedIsReported
<1>1. Inv => PublishedIsReported
  BY BoundsAssumption DEF Inv, TypeOK, Counted, Ended, PublishedIsReported
<1>2. QED
  BY <1>1, Invariance, PTL

\* Every Close returns the consumer's result, and none returns nil for an object
\* that is not published (Close and its Once).
THEOREM ClosesReport == Spec => []CloseReportsPublication
<1>1. Inv => CloseReportsPublication
  BY DEF Inv, TypeOK, Handed, CloseReportsPublication, Errors
<1>2. QED
  BY <1>1, Invariance, PTL

-----------------------------------------------------------------------------
(* Byte ranges.                                                            *)

\* The arithmetic of OpenRange never leaves the integers: where the code
\* computes an end, the end is the mathematical one.
LEMMA EndsAreExact ==
    ASSUME offset \in Int64, length \in Int64, size \in 0..Maximum, ~Malformed
    PROVE  /\ offset < size => sliceEnd = Low(offset + length, size)
           /\ validByteRange <=> offset + length - 1 <= Maximum
           /\ validByteRange => inclusiveRangeEnd = offset + length - 1
<1> USE HalfAssumption DEF Maximum, Int64, Malformed, Wrap, Low
<1>1. offset < size => sliceEnd = Low(offset + length, size)
  BY DEF sliceEnd
<1>2. validByteRange <=> offset + length - 1 <= Maximum
  BY DEF validByteRange
<1>3. validByteRange => inclusiveRangeEnd = offset + length - 1
  BY <1>2 DEF inclusiveRangeEnd
<1>4. QED
  BY <1>1, <1>2, <1>3

\* What is true of a stream while it is read: it has given the bytes from the
\* offset to its position, and what it may still give ends where the range
\* ends, or with the object if that ends first.
Streaming ==
    /\ 0 <= offset /\ offset <= position
    /\ 0 < length
    /\ position <= size \/ position = offset
    /\ \/ position + left = offset + length
       \/ position + left = size /\ size <= offset + length

\* The inductive invariant.
Exact ==
    /\ RangeTypeOK
    /\ stage \in {"open", "eof"} => Streaming
    /\ stage = "eof" => left = 0 \/ position >= size

\* An open stream begins with the whole range before it.
LEMMA Opened ==
    ASSUME Exact, OpenMemory \/ OpenLocal \/ OpenSftp \/ OpenS3
    PROVE  Exact'
<1>1. RangeTypeOK /\ stage = "asked"
  BY DEF Exact, OpenMemory, OpenLocal, OpenSftp, OpenS3
<1>2. CASE Refuse
  BY <1>1, <1>2, HalfAssumption DEF Refuse, Answers, Exact, RangeTypeOK, Int64, Maximum
<1>3. CASE OpenMemory /\ ~Refuse
  <2>1. ~Malformed /\ offset < size /\ Answers("open", offset, sliceEnd - offset)
    BY <1>1, <1>3 DEF OpenMemory, RangeTypeOK, Int64, Maximum
  <2>2. sliceEnd = Low(offset + length, size)
    BY <1>1, <2>1, EndsAreExact DEF RangeTypeOK
  <2>3. QED
    BY <1>1, <2>1, <2>2, HalfAssumption
       DEF Answers, Exact, Streaming, RangeTypeOK, Malformed, Low, Int64, Maximum
<1>4. CASE OpenLocal /\ ~Refuse
  BY <1>1, <1>4, HalfAssumption
     DEF OpenLocal, Answers, Exact, Streaming, RangeTypeOK, Malformed, Int64, Maximum
<1>5. CASE OpenSftp /\ ~Refuse
  BY <1>1, <1>5, HalfAssumption
     DEF OpenSftp, Answers, Exact, Streaming, RangeTypeOK, validByteRange, Malformed, Int64, Maximum
<1>6. CASE OpenS3 /\ ~Refuse
  <2>1. /\ ~Malformed /\ validByteRange /\ offset < size
        /\ Answers("open", offset, Low(inclusiveRangeEnd + 1 - offset, size - offset))
    BY <1>1, <1>6 DEF OpenS3, validByteRange, RangeTypeOK, Int64, Maximum
  <2>2. inclusiveRangeEnd = offset + length - 1
    BY <1>1, <2>1, EndsAreExact DEF RangeTypeOK
  <2>3. QED
    BY <1>1, <2>1, <2>2, HalfAssumption
       DEF Answers, Exact, Streaming, RangeTypeOK, Malformed, Low, Int64, Maximum
<1>7. QED
  BY <1>2, <1>3, <1>4, <1>5, <1>6

\* Opening, reading and ending preserve the invariant.
LEMMA ExactIsInductive == Exact /\ [RangeNext]_rangeVars => Exact'
<1> SUFFICES ASSUME Exact, [RangeNext]_rangeVars PROVE Exact'
  OBVIOUS
<1>1. CASE OpenMemory \/ OpenLocal \/ OpenSftp \/ OpenS3
  BY <1>1, Opened
<1>2. CASE Read
  BY <1>2, HalfAssumption
     DEF Read, Answers, Exact, Streaming, RangeTypeOK, Int64, Maximum
<1>3. CASE End
  BY <1>3, HalfAssumption
     DEF End, Answers, Exact, Streaming, RangeTypeOK, Int64, Maximum
<1>4. CASE UNCHANGED rangeVars
  BY <1>4 DEF rangeVars, Exact, Streaming, RangeTypeOK
<1>5. QED
  BY <1>1, <1>2, <1>3, <1>4 DEF RangeNext

\* The invariant holds from the start.
LEMMA ExactAtFirst == RangeInit => Exact
  BY HalfAssumption DEF RangeInit, Exact, RangeTypeOK, Int64, Maximum

\* At every width, a stream that OpenRange returns gives exactly the bytes of
\* its range that the object has, whichever the adapter.
THEOREM RangesAreExact == RangeSpec => []ExactBytes
<1>1. Exact => ExactBytes
  BY HalfAssumption DEF Exact, ExactBytes, Streaming, RangeTypeOK, Int64, Maximum
<1>2. QED
  BY <1>1, ExactAtFirst, ExactIsInductive, PTL DEF RangeSpec

\* At every width, OpenRange refuses no range that it could serve.
THEOREM RefusalsHaveAReason == RangeSpec => []RefusedForAReason
<1>1. RangeInit => RefusedForAReason
  BY DEF RangeInit, RefusedForAReason
<1>2. ASSUME Exact, RefusedForAReason, [RangeNext]_rangeVars
      PROVE  RefusedForAReason'
  <2> USE DEF RefusedForAReason, Malformed
  <2>1. CASE OpenMemory \/ OpenLocal
    BY <1>2, <2>1 DEF OpenMemory, OpenLocal, Refuse, Answers, Exact, RangeTypeOK, Int64, Maximum
  <2>2. CASE OpenSftp \/ OpenS3
    <3>1. Malformed \/ (validByteRange <=> offset + length - 1 <= Maximum)
      BY <1>2, EndsAreExact DEF Exact, RangeTypeOK
    <3>2. QED
      BY <1>2, <2>2, <3>1, HalfAssumption
         DEF OpenSftp, OpenS3, Refuse, Answers, Exact, RangeTypeOK, Int64, Maximum
  <2>3. CASE Read \/ End
    BY <2>3 DEF Read, End, Answers
  <2>4. CASE UNCHANGED rangeVars
    BY <1>2, <2>4 DEF rangeVars
  <2>5. QED
    BY <1>2, <2>1, <2>2, <2>3, <2>4 DEF RangeNext
<1>3. QED
  BY <1>1, <1>2, ExactAtFirst, ExactIsInductive, PTL DEF RangeSpec

-----------------------------------------------------------------------------
(* Listings of trees: sequences.                                           *)

\* The empty sequence.
LEMMA Nothing ==
    /\ \A S : <<>> \in Seq(S)
    /\ Len(<<>>) = 0 /\ Range(<<>>) = {} /\ 1..0 = {} /\ 0 \in Nat
<1>1. \A S : <<>> \in Seq(S)
  OBVIOUS
<1>2. Len(<<>>) = 0 /\ Range(<<>>) = {} /\ 1..0 = {} /\ 0 \in Nat
  BY DEF Range
<1>3. QED
  BY Zenon, <1>1, <1>2

\* Counting up to n.
LEMMA Counting ==
    /\ \A n \in Nat : 0 \in 0..n
    /\ \A n \in Nat : \A k \in 0..n : k < n => k + 1 \in 0..n
  OBVIOUS

\* The places of a sequence, and the first of them.
LEMMA PlacesOf ==
    ASSUME NEW S, NEW s \in Seq(S)
    PROVE  /\ Len(s) \in Nat /\ DOMAIN s = 1..Len(s) /\ \A i \in 1..Len(s) : s[i] \in S
           /\ <<>> \o s = s
  OBVIOUS

\* The first n places of a sequence are places of it.
LEMMA FirstPlaces ==
    ASSUME NEW S, NEW s \in Seq(S), NEW n \in 0..Len(s)
    PROVE  /\ n \in Nat /\ \A i \in 1..n : i \in 1..Len(s)
           /\ ~(n < Len(s)) => n = Len(s)
  OBVIOUS

\* The first Len(s) of s are s.
LEMMA AllOfIt ==
    ASSUME NEW S, NEW s \in Seq(S)
    PROVE  SubSeq(s, 1, Len(s)) = s
  OBVIOUS

\* A table is a sequence.
LEMMA TableIsSequence ==
    ASSUME NEW S, NEW n \in Nat, NEW s \in [1..n -> S]
    PROVE  s \in Seq(S) /\ Len(s) = n /\ DOMAIN s = 1..n
  OBVIOUS

\* A sequence of elements of a smaller set.
LEMMA WiderSequence ==
    ASSUME NEW S, NEW T, \A x \in S : x \in T, NEW s \in Seq(S)
    PROVE  s \in Seq(T)
  OBVIOUS

\* What two sequences hold together.
LEMMA RangeConcat ==
    ASSUME NEW S, NEW s \in Seq(S), NEW t \in Seq(S)
    PROVE  /\ s \o t \in Seq(S) /\ Len(s \o t) = Len(s) + Len(t)
           /\ \A i \in 1..Len(s) : (s \o t)[i] = s[i]
           /\ \A i \in 1..Len(t) : (s \o t)[Len(s) + i] = t[i]
           /\ Range(s \o t) = Range(s) \cup Range(t)
<1>1. /\ s \o t \in Seq(S) /\ Len(s \o t) = Len(s) + Len(t)
      /\ \A i \in 1..Len(s) : (s \o t)[i] = s[i]
  OBVIOUS
<1>2. \A i \in 1..Len(t) : (s \o t)[Len(s) + i] = t[i]
  OBVIOUS
<1>3. \A i \in 1..Len(s \o t) : i \in 1..Len(s) \/ i - Len(s) \in 1..Len(t)
  BY <1>1
<1>4. \A i \in 1..Len(s) : i \in 1..Len(s \o t)
  BY <1>1
<1>5. \A i \in 1..Len(t) : Len(s) + i \in 1..Len(s \o t)
  BY <1>1
<1>6. \A x : x \in Range(s \o t) => x \in Range(s) \cup Range(t)
  BY <1>1, <1>2, <1>3 DEF Range
<1>7. ASSUME NEW x \in Range(s) PROVE x \in Range(s \o t)
  <2>1. PICK i \in 1..Len(s) : x = s[i]
    BY <1>7 DEF Range
  <2>2. QED
    BY SMTT(60), <1>1, <1>4, <2>1 DEF Range
<1>8. ASSUME NEW x \in Range(t) PROVE x \in Range(s \o t)
  <2>1. PICK i \in 1..Len(t) : x = t[i]
    BY <1>8 DEF Range
  <2>2. (s \o t)[Len(s) + i] = x /\ Len(s) + i \in DOMAIN (s \o t)
    BY <1>1, <1>2, <1>5, <2>1
  <2>3. QED
    BY Zenon, <2>2 DEF Range
<1>9. Range(s \o t) = Range(s) \cup Range(t)
  BY Zenon, <1>6, <1>7, <1>8
<1>10. QED
  BY <1>1, <1>2, <1>9

\* A place in two sequences is a place in one of them.
LEMMA Halves ==
    ASSUME NEW S, NEW s \in Seq(S), NEW t \in Seq(S), NEW k \in 1..Len(s \o t)
    PROVE  \/ k \in 1..Len(s) /\ (s \o t)[k] = s[k]
           \/ k - Len(s) \in 1..Len(t) /\ (s \o t)[k] = t[k - Len(s)]
<1>1. Len(s) \in Nat /\ Len(t) \in Nat /\ Len(s \o t) = Len(s) + Len(t)
  OBVIOUS
<1>2. CASE k <= Len(s)
  BY <1>1, <1>2, RangeConcat
<1>3. CASE k > Len(s)
  <2>1. k - Len(s) \in 1..Len(t) /\ Len(s) + (k - Len(s)) = k
    BY <1>1, <1>3
  <2>2. (s \o t)[Len(s) + (k - Len(s))] = t[k - Len(s)]
    BY <2>1, RangeConcat
  <2>3. QED
    BY <2>1, <2>2
<1>4. QED
  BY <1>1, <1>2, <1>3

\* The first of a sequence, and the others.
LEMMA HeadAndTail ==
    ASSUME NEW S, NEW s \in Seq(S), s # <<>>
    PROVE  /\ Head(s) \in S /\ Tail(s) \in Seq(S) /\ Len(s) > 0
           /\ Head(s) = s[1] /\ Len(Tail(s)) = Len(s) - 1
           /\ \A i \in 1..Len(Tail(s)) : Tail(s)[i] = s[i + 1]
           /\ Head(s) \in Range(s) /\ Range(Tail(s)) \subseteq Range(s)
           /\ Range(s) = {Head(s)} \cup Range(Tail(s))
<1>1. /\ Head(s) \in S /\ Tail(s) \in Seq(S) /\ Len(s) > 0
      /\ Head(s) = s[1] /\ Len(Tail(s)) = Len(s) - 1
      /\ \A i \in 1..Len(Tail(s)) : Tail(s)[i] = s[i + 1]
  OBVIOUS
<1>2. Head(s) \in Range(s)
  BY <1>1 DEF Range
<1>3. ASSUME NEW x \in Range(Tail(s)) PROVE x \in Range(s)
  <2>1. PICK i \in 1..Len(Tail(s)) : x = Tail(s)[i]
    BY <1>1 DEF Range
  <2>2. i + 1 \in DOMAIN s /\ x = s[i + 1]
    BY <1>1, <2>1
  <2>3. QED
    BY Zenon, <2>2 DEF Range
<1>4. ASSUME NEW x \in Range(s) PROVE x = Head(s) \/ x \in Range(Tail(s))
  <2>1. PICK i \in 1..Len(s) : x = s[i]
    BY DEF Range
  <2>2. CASE i = 1
    BY <1>1, <2>1, <2>2
  <2>3. CASE i # 1
    <3>1. i - 1 \in 1..Len(Tail(s)) /\ Tail(s)[i - 1] = s[i]
      BY <1>1, <2>3
    <3>2. i - 1 \in DOMAIN Tail(s)
      BY <1>1, <3>1
    <3>3. QED
      BY Zenon, <2>1, <3>1, <3>2 DEF Range
  <2>4. QED
    BY <2>2, <2>3
<1>5. QED
  BY Zenon, <1>1, <1>2, <1>3, <1>4

-----------------------------------------------------------------------------
(* Paths.                                                                  *)

Root == <<>>

Places == Paths \cup {Root}

\* Paths are sequences, and so are the directories they are in.
LEMMA PathsAreSequences ==
    /\ Places \subseteq Seq(Nat) /\ Directories \subseteq Places
    /\ \A p \in Places : p \in Paths <=> Len(p) > 0
    /\ \A p \in Paths : \A n \in 1..Len(p) : SubSeq(p, 1, n) \in Paths
    /\ \A p \in Places : \A n \in 0..Len(p) : SubSeq(p, 1, n) \in Places
<1>a. /\ \A p \in Paths : p \in Seq(Nat) /\ p # <<>>
      /\ \A p \in Paths : \A n \in 1..Len(p) : SubSeq(p, 1, n) \in Paths
      /\ Directories \subseteq Paths \cup {<<>>}
  BY Zenon, TreeAssumption
<1> USE DEF Places, Root
<1>1. Places \subseteq Seq(Nat) /\ Directories \subseteq Places
  <2>1. <<>> \in Seq(Nat)
    OBVIOUS
  <2>2. QED
    BY Zenon, <1>a, <2>1
<1>2. \A p \in Places : p \in Paths <=> Len(p) > 0
  <2>1. \A p \in Seq(Nat) : Len(p) > 0 <=> p # <<>>
    OBVIOUS
  <2>2. QED
    BY Zenon, <1>1, <1>a, <2>1
<1>3. \A p \in Paths : \A n \in 1..Len(p) : SubSeq(p, 1, n) \in Paths
  BY <1>a
<1>4. ASSUME NEW p \in Places, NEW n \in 0..Len(p) PROVE SubSeq(p, 1, n) \in Places
  <2>1. CASE n = 0
    BY <1>1, <2>1
  <2>2. CASE n > 0
    <3>1. n \in 1..Len(p) /\ Len(p) > 0
      BY <1>1, <2>2
    <3>2. QED
      BY Zenon, <1>2, <1>3, <3>1
  <2>3. QED
    BY <1>1, <2>1, <2>2
<1>5. QED
  BY <1>1, <1>2, <1>3, <1>4

\* A beginning of a beginning is a beginning.
LEMMA Beginnings ==
    ASSUME NEW p \in Seq(Nat), NEW m \in Nat, NEW n \in Nat, m <= n, n <= Len(p)
    PROVE  /\ SubSeq(p, 1, n) \in Seq(Nat) /\ Len(SubSeq(p, 1, n)) = n
           /\ SubSeq(SubSeq(p, 1, n), 1, m) = SubSeq(p, 1, m)
           /\ SubSeq(p, 1, Len(p)) = p
  OBVIOUS

\* To be beneath is a strict order.
LEMMA UnderOrder ==
    ASSUME NEW p \in Seq(Nat), NEW q \in Seq(Nat), NEW r \in Seq(Nat)
    PROVE  /\ ~Under(p, p)
           /\ Under(p, q) /\ Under(q, r) => Under(p, r)
           /\ Under(p, q) /\ Under(p, r) /\ Len(q) = Len(r) => q = r
           /\ Under(p, q) /\ Under(p, r) /\ Len(q) < Len(r) => Under(r, q)
<1>1. ~Under(p, p)
  BY DEF Under
<1>2. Under(p, q) /\ Under(q, r) => Under(p, r)
  <2> SUFFICES ASSUME Under(p, q), Under(q, r) PROVE Under(p, r)
    OBVIOUS
  <2>1. Len(r) \in Nat /\ Len(q) \in Nat /\ Len(p) \in Nat /\ Len(r) < Len(q) /\ Len(q) < Len(p)
    BY DEF Under
  <2>a. Len(r) <= Len(q) /\ Len(q) <= Len(p)
    BY <2>1
  <2>2. SubSeq(SubSeq(p, 1, Len(q)), 1, Len(r)) = SubSeq(p, 1, Len(r))
    BY Zenon, <2>1, <2>a, Beginnings
  <2>3. QED
    BY SMTT(60), <2>1, <2>2 DEF Under
<1>3. Under(p, q) /\ Under(p, r) /\ Len(q) = Len(r) => q = r
  BY Zenon DEF Under
<1>4. Under(p, q) /\ Under(p, r) /\ Len(q) < Len(r) => Under(r, q)
  <2> SUFFICES ASSUME Under(p, q), Under(p, r), Len(q) < Len(r) PROVE Under(r, q)
    OBVIOUS
  <2>1. Len(r) \in Nat /\ Len(q) \in Nat /\ Len(p) \in Nat /\ Len(r) < Len(p)
    BY DEF Under
  <2>a. Len(q) <= Len(r) /\ Len(r) <= Len(p)
    BY <2>1
  <2>2. SubSeq(SubSeq(p, 1, Len(r)), 1, Len(q)) = SubSeq(p, 1, Len(q))
    BY Zenon, <2>1, <2>a, Beginnings
  <2>3. QED
    BY Zenon, <2>1, <2>2 DEF Under
<1>5. QED
  BY <1>1, <1>2, <1>3, <1>4

\* A child is beneath its parent, and nothing is between the two.
LEMMA ParentUnder ==
    ASSUME NEW c \in Seq(Nat), Len(c) > 0
    PROVE  /\ Parent(c) \in Seq(Nat) /\ Len(Parent(c)) = Len(c) - 1 /\ Under(c, Parent(c))
           /\ \A q \in Seq(Nat) : Under(c, q) /\ Len(c) = Len(q) + 1 => Parent(c) = q
<1>1. Len(c) \in Nat /\ Len(c) - 1 \in Nat /\ Len(c) - 1 <= Len(c) - 1 /\ Len(c) - 1 <= Len(c)
  OBVIOUS
<1>2. Parent(c) \in Seq(Nat) /\ Len(Parent(c)) = Len(c) - 1
  BY Zenon, <1>1, Beginnings DEF Parent
<1>3. Under(c, Parent(c))
  BY <1>1, <1>2 DEF Under, Parent
<1>4. ASSUME NEW q \in Seq(Nat), Under(c, q), Len(c) = Len(q) + 1 PROVE Parent(c) = q
  <2>1. Len(c) - 1 = Len(q)
    BY <1>4
  <2>2. QED
    BY <1>4, <2>1 DEF Under, Parent
<1>5. QED
  BY <1>2, <1>3, <1>4

\* The child of q on the way to p.
Toward(p, q) == SubSeq(p, 1, Len(q) + 1)

\* The child of q on the way to p.
LEMMA OnTheWay ==
    ASSUME NEW p \in Paths, NEW q \in Seq(Nat), Under(p, q)
    PROVE  /\ Toward(p, q) \in Paths /\ Len(Toward(p, q)) = Len(q) + 1
           /\ Parent(Toward(p, q)) = q /\ Under(Toward(p, q), q)
           /\ p = Toward(p, q) \/ Under(p, Toward(p, q))
           /\ Parent(p) = q => p = Toward(p, q)
<1> DEFINE c == Toward(p, q)
<1>1. p \in Seq(Nat) /\ Len(p) \in Nat /\ Len(q) \in Nat /\ Len(q) + 1 \in 1..Len(p)
  BY PathsAreSequences DEF Under, Places
<1>2. c \in Paths
  BY Zenon, <1>1, PathsAreSequences DEF Toward
<1>3. /\ c \in Seq(Nat) /\ Len(c) = Len(q) + 1
      /\ SubSeq(c, 1, Len(q)) = SubSeq(p, 1, Len(q))
  <2>1. Len(q) <= Len(q) + 1 /\ Len(q) + 1 <= Len(p) /\ Len(q) + 1 \in Nat
    BY <1>1
  <2>2. QED
    BY ZenonT(60), <1>1, <2>1, Beginnings DEF Toward
<1> HIDE DEF c
<1>4. Under(c, q)
  BY SMTT(60), <1>1, <1>3 DEF Under
<1>5. Parent(c) = q
  <2>1. Len(c) > 0
    BY <1>1, <1>3
  <2>2. QED
    BY Zenon, <1>3, <1>4, <2>1, ParentUnder
<1>6. p = c \/ Under(p, c)
  <2>1. CASE Len(p) = Len(q) + 1
    <3>1. SubSeq(p, 1, Len(p)) = p
      BY <1>1
    <3>2. QED
      BY <2>1, <3>1 DEF c, Toward
  <2>2. CASE Len(p) > Len(q) + 1
    <3>1. SubSeq(p, 1, Len(c)) = c
      BY Zenon, <1>3 DEF c, Toward
    <3>2. QED
      BY <1>1, <1>3, <2>2, <3>1 DEF Under
  <2>3. QED
    BY <1>1, <2>1, <2>2
<1>7. ASSUME Parent(p) = q PROVE p = c
  <2>1. Len(p) > 0
    BY <1>1
  <2>a. Len(q) = Len(p) - 1
    BY Zenon, <1>1, <1>7, <2>1, ParentUnder
  <2>2. ~Under(p, c)
    BY <1>1, <1>3, <2>a DEF Under
  <2>3. QED
    BY <1>6, <2>2
<1>8. QED
  BY <1>2, <1>3, <1>4, <1>5, <1>6, <1>7 DEF c

-----------------------------------------------------------------------------
(* The order of paths.                                                     *)

\* A set of numbers has a least one: the one with a single number up to it.
LEMMA Least ==
    ASSUME NEW n \in Nat, NEW T \in SUBSET (1..n), T # {}
    PROVE  \E m \in T : \A k \in T : m <= k
<1> DEFINE Upto(i) == {j \in T : j <= i}
           f == [i \in T |-> Cardinality(Upto(i))]
<1>1. T \subseteq Nat
  OBVIOUS
<1>2. IsFiniteSet(T) /\ Cardinality(T) \in Nat /\ Cardinality(T) # 0
  <2>1. IsFiniteSet(1..n)
    BY FS_Interval
  <2>2. IsFiniteSet(T)
    BY Zenon, <2>1, FS_Subset
  <2>3. QED
    BY Zenon, <2>2, FS_CardinalityType, FS_EmptySet
<1>3. ASSUME NEW i \in T
      PROVE  IsFiniteSet(Upto(i)) /\ Cardinality(Upto(i)) \in 1..Cardinality(T)
  <2>1. Upto(i) \in SUBSET T /\ i \in Upto(i)
    BY <1>1
  <2>2. IsFiniteSet(Upto(i)) /\ Cardinality(Upto(i)) <= Cardinality(T)
    BY <1>2, <2>1, FS_Subset
  <2>3. Cardinality(Upto(i)) \in Nat /\ Cardinality(Upto(i)) # 0
    BY Zenon, <2>1, <2>2, FS_CardinalityType, FS_EmptySet
  <2>4. QED
    BY <1>2, <2>2, <2>3
<1>4. ASSUME NEW i \in T, NEW j \in T, i < j, Cardinality(Upto(i)) = Cardinality(Upto(j))
      PROVE  FALSE
  <2>1. Upto(i) \in SUBSET Upto(j)
    <3>1. \A h, k, l \in Nat : h <= k /\ k < l => h <= l
      OBVIOUS
    <3>2. QED
      BY Zenon, <1>1, <1>4, <3>1
  <2>2. Upto(i) = Upto(j)
    BY Zenon, <1>3, <1>4, <2>1, FS_Subset
  <2>3. j \in Upto(j) /\ j \notin Upto(i)
    BY <1>1, <1>4
  <2>4. QED
    BY <2>2, <2>3
<1>5. f \in Injection(T, 1..Cardinality(T))
  <2>1. f \in [T -> 1..Cardinality(T)]
    BY <1>3
  <2>2. ASSUME NEW i \in T, NEW j \in T, f[i] = f[j] PROVE i = j
    BY <1>1, <1>4, <2>2
  <2>3. QED
    BY Zenon, <2>1, <2>2 DEF Injection, IsInjective
<1>6. f \in Surjection(T, 1..Cardinality(T))
  <2>1. IsFiniteSet(1..Cardinality(T)) /\ Cardinality(1..Cardinality(T)) = Cardinality(T)
    BY <1>2, FS_Interval
  <2>2. QED
    BY <1>2, <1>5, <2>1, FS_Injection
<1>7. PICK m \in T : Cardinality(Upto(m)) = 1
  <2>1. 1 \in 1..Cardinality(T)
    BY <1>2
  <2>2. PICK m \in T : f[m] = 1
    BY Zenon, <1>6, <2>1 DEF Surjection
  <2>3. QED
    BY <2>2
<1>8. ASSUME NEW k \in T PROVE m <= k
  <2>1. CASE k < m
    <3>1. Upto(k) \in SUBSET Upto(m)
      <4>1. \A h, i, l \in Nat : h <= i /\ i < l => h <= l
        OBVIOUS
      <4>2. QED
        BY Zenon, <1>1, <2>1, <4>1
    <3>2. Cardinality(Upto(k)) <= 1 /\ Cardinality(Upto(k)) \in 1..Cardinality(T)
      BY <1>3, <1>7, <3>1, FS_Subset
    <3>3. Cardinality(Upto(k)) = Cardinality(Upto(m))
      BY <1>2, <1>7, <3>2
    <3>4. QED
      BY <1>4, <2>1, <3>3
  <2>2. QED
    BY <1>1, <2>1
<1>9. QED
  BY <1>8

\* The byte order tells any two paths apart.
LEMMA BeforeTotal ==
    ASSUME NEW s \in Seq(Nat), NEW t \in Seq(Nat), s # t
    PROVE  Before(s, t) \/ Before(t, s)
<1> DEFINE T == {i \in (1..Len(s)) \cap (1..Len(t)) : s[i] # t[i]}
<1>1. Len(s) \in Nat /\ Len(t) \in Nat
  OBVIOUS
<1>2. ASSUME NEW n \in Nat, n <= Len(s), n <= Len(t), \A j \in 1..n : s[j] = t[j]
      PROVE  SubSeq(s, 1, n) = SubSeq(t, 1, n)
  BY SMTT(60), <1>2
<1>3. CASE T = {}
  <2>1. \A j \in 1..Len(s) : j \in 1..Len(t) => s[j] = t[j]
    BY Zenon, <1>3
  <2>2. Len(s) <= Len(t) => \A j \in 1..Len(s) : s[j] = t[j]
    <3>1. Len(s) <= Len(t) => \A j \in 1..Len(s) : j \in 1..Len(t)
      BY <1>1
    <3>2. QED
      BY Zenon, <2>1, <3>1
  <2>3. Len(t) <= Len(s) => \A j \in 1..Len(t) : s[j] = t[j]
    <3>1. Len(t) <= Len(s) => \A j \in 1..Len(t) : j \in 1..Len(s)
      BY <1>1
    <3>2. QED
      BY Zenon, <2>1, <3>1
  <2>4. SubSeq(s, 1, Len(s)) = s /\ SubSeq(t, 1, Len(t)) = t
    OBVIOUS
  <2> HIDE DEF T
  <2>5. Len(s) <= Len(s) /\ Len(t) <= Len(t)
    BY <1>1
  <2>6. Len(s) <= Len(t) => SubSeq(t, 1, Len(s)) = s
    BY Zenon, <1>1, <1>2, <2>2, <2>4, <2>5
  <2>9. Len(t) <= Len(s) => SubSeq(s, 1, Len(t)) = t
    BY Zenon, <1>1, <1>2, <2>3, <2>4, <2>5
  <2>10. Len(s) # Len(t)
    BY Zenon, <2>4, <2>5, <2>6
  <2>7. Under(t, s) \/ Under(s, t)
    BY SMTT(60), <1>1, <2>6, <2>9, <2>10 DEF Under
  <2>8. QED
    BY Zenon, <2>7 DEF Before
<1>4. CASE T # {}
  <2>1. T \in SUBSET (1..Len(s))
    OBVIOUS
  <2>2. PICK i \in T : \A k \in T : i <= k
    BY Zenon, <1>1, <1>4, <2>1, Least
  <2>3. i \in 1..Len(s) /\ i \in 1..Len(t) /\ s[i] # t[i]
    OBVIOUS
  <2>4. \A j \in 1..(i - 1) : s[j] = t[j]
    <3>1. ASSUME NEW j \in 1..(i - 1), s[j] # t[j] PROVE FALSE
      <4>1. j \in T /\ ~(i <= j)
        BY SMTT(60), <1>1, <2>3, <3>1
      <4>2. QED
        BY <2>2, <4>1
    <3>2. QED
      BY <3>1
  <2>5. SubSeq(s, 1, i - 1) = SubSeq(t, 1, i - 1)
    <3>1. i - 1 \in Nat /\ i - 1 <= Len(s) /\ i - 1 <= Len(t)
      BY <1>1, <2>3
    <3>2. QED
      BY Zenon, <1>2, <2>4, <3>1
  <2>6. s[i] \in Nat /\ t[i] \in Nat
    BY SMTT(60), <2>3
  <2> DEFINE A(a, b, x, y) == CASE <<x, y>> \in Extends -> Len(a) = i
                                [] <<y, x>> \in Extends -> Len(b) > i
                                [] OTHER -> x < y
  <2>7. ~(<<s[i], t[i]>> \in Extends /\ <<t[i], s[i]>> \in Extends)
    <3>1. \A x, y \in Nat : <<x, y>> \in Extends => x < y
      BY TreeAssumption
    <3>2. QED
      BY SMTT(60), <2>6, <3>1
  <2>8. A(s, t, s[i], t[i]) \/ A(t, s, t[i], s[i])
    BY SMTT(60), <1>1, <2>3, <2>6, <2>7
  <2>9. i \in (1..Len(s)) \cap (1..Len(t)) /\ i \in (1..Len(t)) \cap (1..Len(s))
    BY <2>3
  <2>10. QED
    BY Zenon, <2>3, <2>5, <2>8, <2>9 DEF Before
<1>5. QED
  BY <1>3, <1>4

-----------------------------------------------------------------------------
(* Sorting.                                                                *)

Shape == [path : Paths, kind : {"file", "directory"}]

\* No two members of a sequence have the same path.
Single(c) == \A i, j \in 1..Len(c) : c[i].path = c[j].path => i = j

\* A set of items in the order of their names.
LEMMA Enumeration ==
    ASSUME NEW items, IsFiniteSet(items), NEW s \in ByName(items)
    PROVE  /\ s \in Seq(items) /\ Range(s) = items
           /\ \A i, j \in 1..Len(s) : s[i] = s[j] => i = j
<1>1. Cardinality(items) \in Nat
  BY FS_CardinalityType
<1>2. s \in Bijection(1..Cardinality(items), items)
  BY Zenon DEF ByName
<1>3. s \in [1..Cardinality(items) -> items]
  BY <1>2 DEF Bijection, Injection
<1>4. s \in Seq(items) /\ Len(s) = Cardinality(items)
  BY <1>1, <1>3
<1>5. Range(s) = items
  BY <1>2, <1>3 DEF Bijection, Surjection, Range
<1>6. \A i, j \in 1..Len(s) : s[i] = s[j] => i = j
  BY <1>2, <1>3, <1>4 DEF Bijection, Injection, IsInjective
<1>7. QED
  BY <1>4, <1>5, <1>6

\* sortEntries only rearranges the entries, and leaves them in order.
LEMMA Sorted ==
    ASSUME NEW c \in Seq(Shape), Single(c), NEW s \in sortEntries(c)
    PROVE  /\ s \in Seq(Shape) /\ Len(s) = Len(c)
           /\ Range(s) = Range(c)
           /\ Single(s)
           /\ \A i \in 1..Len(s) : \A j \in 1..(i - 1) : Before(s[j].path, s[i].path)
<1> DEFINE places == 1..Len(c)
<1>1. PICK f \in Bijection(places, places) :
         /\ \A i, j \in places : i < j => ~Before(c[f[j]].path, c[f[i]].path)
         /\ s = [i \in places |-> c[f[i]]]
  BY Zenon DEF sortEntries
<1>2. /\ f \in [places -> places]
      /\ \A i, j \in places : f[i] = f[j] => i = j
      /\ \A k \in places : \E i \in places : f[i] = k
  BY DEF Bijection, Injection, Surjection, IsInjective
<1>3. Len(c) \in Nat /\ \A i \in places : c[i] \in Shape
  BY Zenon, PlacesOf
<1>4. s \in Seq(Shape) /\ Len(s) = Len(c) /\ \A i \in places : s[i] = c[f[i]]
  <2>1. s \in [1..Len(c) -> Shape] /\ \A i \in places : s[i] = c[f[i]]
    BY Zenon, <1>1, <1>2, <1>3
  <2>2. QED
    BY Zenon, <1>3, <2>1, TableIsSequence
<1>5. Range(s) = Range(c)
  <2>0. DOMAIN s = places /\ DOMAIN c = places
    <3>1. \A x \in Seq(Shape) : DOMAIN x = 1..Len(x)
      OBVIOUS
    <3>2. QED
      BY Zenon, <1>4, <3>1
  <2>1. ASSUME NEW x \in Range(s) PROVE x \in Range(c)
    <3>1. PICK i \in places : x = s[i]
      BY Zenon, <2>0 DEF Range
    <3>2. x = c[f[i]] /\ f[i] \in DOMAIN c
      BY Zenon, <1>2, <1>4, <2>0, <3>1
    <3>3. QED
      BY Zenon, <3>2 DEF Range
  <2>2. ASSUME NEW x \in Range(c) PROVE x \in Range(s)
    <3>1. PICK k \in places : x = c[k]
      BY Zenon, <2>0 DEF Range
    <3>2. PICK i \in places : f[i] = k
      BY Zenon, <1>2
    <3>3. x = s[i] /\ i \in DOMAIN s
      BY Zenon, <1>4, <2>0, <3>1, <3>2
    <3>4. QED
      BY Zenon, <3>3 DEF Range
  <2>3. QED
    BY Zenon, <2>1, <2>2
<1>6. ASSUME NEW i \in 1..Len(s), NEW j \in 1..Len(s), s[i].path = s[j].path
      PROVE  i = j
  <2>1. i \in places /\ j \in places /\ f[i] \in places /\ f[j] \in places
    BY Zenon, <1>2, <1>4
  <2>2. f[i] = f[j]
    BY ZenonT(60), <1>4, <1>6, <2>1 DEF Single
  <2>3. QED
    BY Zenon, <1>2, <2>1, <2>2
<1>7. ASSUME NEW i \in 1..Len(s), NEW j \in 1..(i - 1)
      PROVE  Before(s[j].path, s[i].path)
  <2>0. \A n \in Nat : \A a \in 1..n : \A b \in 1..(a - 1) : b \in 1..n /\ b < a /\ a # b
    OBVIOUS
  <2>1. i \in places /\ j \in places /\ j < i /\ i # j
    BY Zenon, <1>3, <1>4, <2>0
  <2>2. ~Before(s[i].path, s[j].path)
    BY Zenon, <1>1, <1>4, <2>1
  <2>3. s[j].path # s[i].path
    BY Zenon, <1>4, <1>6, <2>1
  <2>4. s[j].path \in Seq(Nat) /\ s[i].path \in Seq(Nat)
    <3>1. s[j] \in Shape /\ s[i] \in Shape
      BY SMTT(60), <1>4, <2>1
    <3>2. \A e \in Shape : e.path \in Paths
      BY DEF Shape
    <3>3. QED
      BY Zenon, <3>1, <3>2, PathsAreSequences DEF Places
  <2>5. QED
    BY Zenon, <2>2, <2>3, <2>4, BeforeTotal
<1>8. QED
  BY ZenonT(60), <1>4, <1>5, <1>6, <1>7 DEF Single

\* The first entries of a sequence.
LEMMA Cut ==
    ASSUME NEW c \in Seq(Shape), NEW n \in 0..Len(c)
    PROVE  /\ SubSeq(c, 1, n) \in Seq(Shape) /\ Len(SubSeq(c, 1, n)) = n
           /\ Range(SubSeq(c, 1, n)) \subseteq Range(c)
           /\ Single(c) => Single(SubSeq(c, 1, n))
<1>1. /\ SubSeq(c, 1, n) \in Seq(Shape) /\ Len(SubSeq(c, 1, n)) = n
      /\ \A i \in 1..n : SubSeq(c, 1, n)[i] = c[i]
  OBVIOUS
<1>2. ASSUME NEW x \in Range(SubSeq(c, 1, n)) PROVE x \in Range(c)
  <2>1. PICK i \in 1..n : x = c[i]
    BY SMTT(60), <1>1, <1>2 DEF Range
  <2>2. i \in DOMAIN c
    OBVIOUS
  <2>3. QED
    BY ZenonT(60), <2>1, <2>2 DEF Range
<1>3. Single(c) => Single(SubSeq(c, 1, n))
  <2>1. \A i \in 1..n : i \in 1..Len(c)
    OBVIOUS
  <2>2. QED
    BY Zenon, <1>1, <2>1 DEF Single
<1>4. QED
  BY <1>1, <1>2, <1>3

-----------------------------------------------------------------------------
(* The invariant of a listing.                                             *)

Dir == options.directory

\* A piece of work leads to what is beneath its path; an entry that is yet to
\* be visited leads to itself too.
Covers(w, p) == Under(p, w.path) \/ (w.act = "visit" /\ p = w.path)

\* The records of the tree are true: what exists has been seen, and what is
\* steady has never been anything else, nor have the directories it is in.
Books ==
    /\ Rooted(tree)
    /\ phase # "idle" =>
          /\ <<<<>>, "directory">> \in seen
          /\ \A p \in Paths : Exists(p) => <<p, tree[p]>> \in seen
          /\ \A p \in steady : /\ Exists(p)
                               /\ \A n \in 1..Len(p) : SubSeq(p, 1, n) \in steady
                               /\ \A kind \in Kinds : <<p, kind>> \in seen => kind = tree[p]

\* Each phase of the call has what belongs to it.
Progress ==
    /\ phase \in {"idle", "check"} => entries = <<>>
    /\ phase # "walk" => work = <<>>
    /\ phase = "walk" => ~Full(entries)

\* Work is within the directory listed, and comes from what was seen there.
Todo(w) ==
    /\ w.path = Dir \/ Under(w.path, Dir)
    /\ w.act = "stat" => Local /\ w.path = Dir
    /\ w.act = "visit" => /\ Local /\ w.path # Dir
                          /\ w.kind # "none" /\ <<w.path, w.kind>> \in seen
    /\ w.act = "read" => /\ w.path # Dir \/ Local => <<w.path, "directory">> \in seen
                         /\ Local \/ options.recursive \/ w.path = Dir

Leads == \A w \in Range(work) : Todo(w)

\* No two pieces of work lead to one path.
Alone(todo) ==
    \A i, j \in 1..Len(todo) : \A p \in Paths :
        Covers(todo[i], p) /\ Covers(todo[j], p) => i = j

\* Nothing that is collected is still to come.
Clear(collected, todo) == \A e \in Range(collected), w \in Range(todo) : ~Covers(w, e.path)

Apart == Single(entries) /\ Alone(work) /\ Clear(entries, work)

\* A path is collected, or to come.
Accounted(p, collected, todo) ==
    \/ \E e \in Range(collected) : e.path = p
    \/ \E w \in Range(todo) : Covers(w, p)

Complete == phase = "walk" => \A p \in steady : InScope(p) => Accounted(p, entries, work)

\* What ShowsWhatWas says of one entry.
Shown(e) ==
    /\ InScope(e.path)
    /\ \/ <<e.path, e.kind>> \in seen
       \/ ~Deny /\ e.kind = "file" /\ <<e.path, "link">> \in seen

TreeInv ==
    /\ ListShape /\ ShowsWhatStayed /\ ShowsWhatWas /\ NotFoundHasCause
    /\ Books /\ Progress /\ Leads /\ Apart /\ Complete

-----------------------------------------------------------------------------
(* Steps of the walk.                                                      *)

\* Two sequences of entries with no path in common.
LEMMA SingleConcat ==
    ASSUME NEW s \in Seq(Shape), NEW t \in Seq(Shape), Single(s), Single(t),
           \A d \in Range(s), e \in Range(t) : d.path # e.path
    PROVE  Single(s \o t)
<1> DEFINE c == s \o t
<1>1. Len(s) \in Nat /\ Len(t) \in Nat /\ DOMAIN s = 1..Len(s) /\ DOMAIN t = 1..Len(t)
  OBVIOUS
<1>2. \A i \in 1..Len(s), j \in 1..Len(t) : s[i].path # t[j].path
  BY Zenon, <1>1 DEF Range
<1>3. \A k \in 1..Len(c) : \/ k \in 1..Len(s) /\ c[k] = s[k]
                           \/ k - Len(s) \in 1..Len(t) /\ c[k] = t[k - Len(s)]
  BY Zenon, Halves
<1> HIDE DEF c
<1>4. ASSUME NEW i \in 1..Len(c), NEW j \in 1..Len(c), c[i].path = c[j].path
      PROVE  i = j
  <2>1. CASE /\ i \in 1..Len(s) /\ c[i] = s[i]
             /\ j \in 1..Len(s) /\ c[j] = s[j]
    BY Zenon, <1>4, <2>1 DEF Single
  <2>2. CASE /\ i \in 1..Len(s) /\ c[i] = s[i]
             /\ j - Len(s) \in 1..Len(t) /\ c[j] = t[j - Len(s)]
    BY Zenon, <1>2, <1>4, <2>2
  <2>3. CASE /\ i - Len(s) \in 1..Len(t) /\ c[i] = t[i - Len(s)]
             /\ j \in 1..Len(s) /\ c[j] = s[j]
    BY Zenon, <1>2, <1>4, <2>3
  <2>4. CASE /\ i - Len(s) \in 1..Len(t) /\ c[i] = t[i - Len(s)]
             /\ j - Len(s) \in 1..Len(t) /\ c[j] = t[j - Len(s)]
    <3>1. i - Len(s) = j - Len(s)
      BY Zenon, <1>4, <2>4 DEF Single
    <3>2. QED
      BY <1>1, <3>1
  <2>5. QED
    BY Zenon, <1>3, <2>1, <2>2, <2>3, <2>4
<1>5. QED
  BY Zenon, <1>4 DEF Single, c

\* Two sequences of work that lead to no path in common.
LEMMA AloneConcat ==
    ASSUME NEW s \in Seq(Work), NEW t \in Seq(Work), Alone(s), Alone(t),
           \A v \in Range(s), w \in Range(t) : \A p \in Paths : ~(Covers(v, p) /\ Covers(w, p))
    PROVE  Alone(s \o t)
<1> DEFINE c == s \o t
<1>1. Len(s) \in Nat /\ Len(t) \in Nat /\ DOMAIN s = 1..Len(s) /\ DOMAIN t = 1..Len(t)
  OBVIOUS
<1>2. \A i \in 1..Len(s), j \in 1..Len(t) : \A p \in Paths : ~(Covers(s[i], p) /\ Covers(t[j], p))
  BY Zenon, <1>1 DEF Range
<1>3. \A k \in 1..Len(c) : \/ k \in 1..Len(s) /\ c[k] = s[k]
                           \/ k - Len(s) \in 1..Len(t) /\ c[k] = t[k - Len(s)]
  BY Zenon, Halves
<1> HIDE DEF c
<1>4. ASSUME NEW i \in 1..Len(c), NEW j \in 1..Len(c), NEW p \in Paths,
             Covers(c[i], p), Covers(c[j], p)
      PROVE  i = j
  <2>1. CASE /\ i \in 1..Len(s) /\ c[i] = s[i]
             /\ j \in 1..Len(s) /\ c[j] = s[j]
    BY Zenon, <1>4, <2>1 DEF Alone
  <2>2. CASE /\ i \in 1..Len(s) /\ c[i] = s[i]
             /\ j - Len(s) \in 1..Len(t) /\ c[j] = t[j - Len(s)]
    BY Zenon, <1>2, <1>4, <2>2
  <2>3. CASE /\ i - Len(s) \in 1..Len(t) /\ c[i] = t[i - Len(s)]
             /\ j \in 1..Len(s) /\ c[j] = s[j]
    BY Zenon, <1>2, <1>4, <2>3
  <2>4. CASE /\ i - Len(s) \in 1..Len(t) /\ c[i] = t[i - Len(s)]
             /\ j - Len(s) \in 1..Len(t) /\ c[j] = t[j - Len(s)]
    <3>1. i - Len(s) = j - Len(s)
      BY Zenon, <1>4, <2>4 DEF Alone
    <3>2. QED
      BY <1>1, <3>1
  <2>5. QED
    BY Zenon, <1>3, <2>1, <2>2, <2>3, <2>4
<1>5. QED
  BY Zenon, <1>4 DEF Alone, c

\* The first piece of work leads elsewhere than the others, and these than one
\* another.
LEMMA TailAlone ==
    ASSUME NEW todo \in Seq(Work), todo # <<>>, Alone(todo)
    PROVE  /\ Alone(Tail(todo))
           /\ \A w \in Range(Tail(todo)) : \A p \in Paths : ~(Covers(Head(todo), p) /\ Covers(w, p))
<1>1. /\ Tail(todo) \in Seq(Work) /\ Head(todo) = todo[1] /\ Len(Tail(todo)) \in Nat
      /\ \A i \in 1..Len(Tail(todo)) : Tail(todo)[i] = todo[i + 1]
      /\ \A i \in 1..Len(Tail(todo)) : i + 1 \in 1..Len(todo) /\ i + 1 # 1
      /\ 1 \in 1..Len(todo)
  BY SMTT(60), HeadAndTail
<1>2. ASSUME NEW i \in 1..Len(Tail(todo)), NEW j \in 1..Len(Tail(todo)), NEW p \in Paths,
             Covers(Tail(todo)[i], p), Covers(Tail(todo)[j], p)
      PROVE  i = j
  <2>1. i + 1 = j + 1
    BY ZenonT(60), <1>1, <1>2 DEF Alone
  <2>2. QED
    BY <1>1, <2>1
<1>3. ASSUME NEW w \in Range(Tail(todo)), NEW p \in Paths, Covers(Head(todo), p), Covers(w, p)
      PROVE  FALSE
  <2>1. PICK i \in 1..Len(Tail(todo)) : w = Tail(todo)[i]
    BY SMTT(60), <1>1 DEF Range
  <2>2. i + 1 = 1
    BY ZenonT(60), <1>1, <1>3, <2>1 DEF Alone
  <2>3. QED
    BY Zenon, <1>1, <2>2
<1>4. QED
  BY Zenon, <1>2, <1>3 DEF Alone

\* The state in which a walk has something to do.
LEMMA Walking ==
    ASSUME TreeInv, phase = "walk", work # <<>>
    PROVE  /\ work \in Seq(Work) /\ Head(work) \in Work /\ Tail(work) \in Seq(Work)
           /\ Todo(Head(work))
           /\ Range(work) = {Head(work)} \cup Range(Tail(work))
           /\ entries \in Seq(Shape) /\ \A e \in Range(entries) : e \in Shape /\ Shown(e)
           /\ outcome = "pending"
<1>1. /\ work \in Seq(Work) /\ entries \in Seq(Shape)
      /\ outcome # "pending" <=> phase \in {"idle", "done"}
  BY Zenon DEF TreeInv, ListShape, TreeTypeOK, Shape
<1>2. /\ Head(work) \in Work /\ Tail(work) \in Seq(Work) /\ Head(work) \in Range(work)
      /\ Range(work) = {Head(work)} \cup Range(Tail(work))
  BY Zenon, <1>1, HeadAndTail
<1>3. Todo(Head(work))
  BY Zenon, <1>2 DEF TreeInv, Leads
<1>4. DOMAIN entries = 1..Len(entries) /\ \A i \in 1..Len(entries) : entries[i] \in Shape
  BY <1>1
<1>5. \A e \in Range(entries) : e \in Shape /\ Shown(e)
  BY Zenon, <1>4 DEF TreeInv, ShowsWhatWas, Shown, Range
<1>6. QED
  BY Zenon, <1>1, <1>2, <1>3, <1>5

\* Entries that the first piece of work leads to are added to the others.
LEMMA Collects ==
    ASSUME TreeInv, phase = "walk", work # <<>>, NEW added \in Seq(Shape), Single(added),
           \A e \in Range(added) : Shown(e) /\ Covers(Head(work), e.path)
    PROVE  /\ entries \o added \in Seq(Shape) /\ Single(entries \o added)
           /\ Range(entries \o added) = Range(entries) \cup Range(added)
           /\ \A e \in Range(entries \o added) : Shown(e)
<1>1. entries \in Seq(Shape) /\ Head(work) \in Range(work) /\ \A e \in Range(entries) : Shown(e)
  BY Zenon, Walking
<1>2. /\ entries \o added \in Seq(Shape)
      /\ Range(entries \o added) = Range(entries) \cup Range(added)
  BY SMTT(60), <1>1, RangeConcat
<1>3. \A d \in Range(entries), e \in Range(added) : d.path # e.path
  BY Zenon, <1>1 DEF TreeInv, Apart, Clear
<1>4. Single(entries \o added)
  BY Zenon, <1>1, <1>3, SingleConcat DEF TreeInv, Apart
<1>5. QED
  BY Zenon, <1>1, <1>2, <1>4

\* The first piece of work is replaced by new work and entries.
Replaces(new, added) ==
    /\ Alone(new) /\ Single(added) /\ Clear(added, new)
    /\ \A w \in Range(new) : Todo(w) /\ \A p \in Paths : Covers(w, p) => Covers(Head(work), p)
    /\ \A e \in Range(added) : Shown(e) /\ Covers(Head(work), e.path)
    /\ \A p \in steady : InScope(p) /\ Covers(Head(work), p) => Accounted(p, added, new)

\* What then is to do and is collected is as it was before: without repetition
\* and without a gap.
LEMMA Advances ==
    ASSUME TreeInv, phase = "walk", work # <<>>,
           NEW new \in Seq(Work), NEW added \in Seq(Shape), Replaces(new, added),
           NEW todo, todo = new \o Tail(work) \/ todo = Tail(work) \o new
    PROVE  LET all == entries \o added IN
           /\ all \in Seq(Shape) /\ todo \in Seq(Work)
           /\ Single(all) /\ Alone(todo) /\ Clear(all, todo)
           /\ \A w \in Range(todo) : Todo(w)
           /\ \A e \in Range(all) : Shown(e)
           /\ \A p \in steady : InScope(p) => Accounted(p, all, todo)
<1> DEFINE all == entries \o added
<1>1. /\ all \in Seq(Shape) /\ Single(all) /\ Range(all) = Range(entries) \cup Range(added)
      /\ \A e \in Range(all) : Shown(e)
  BY Zenon, Collects DEF Replaces
<1>2. /\ work \in Seq(Work) /\ Tail(work) \in Seq(Work)
      /\ Range(work) = {Head(work)} \cup Range(Tail(work))
      /\ entries \in Seq(Shape) /\ \A e \in Range(entries) : e \in Shape
  BY Zenon, Walking
<1>3. todo \in Seq(Work) /\ Range(todo) = Range(new) \cup Range(Tail(work))
  <2>1. ASSUME NEW s \in Seq(Work), NEW t \in Seq(Work)
        PROVE  s \o t \in Seq(Work) /\ Range(s \o t) = Range(s) \cup Range(t)
    BY SMTT(60), RangeConcat
  <2>2. Range(Tail(work)) \cup Range(new) = Range(new) \cup Range(Tail(work))
    BY Zenon
  <2>3. CASE todo = new \o Tail(work)
    BY Zenon, <1>2, <2>1, <2>3
  <2>4. CASE todo = Tail(work) \o new
    BY Zenon, <1>2, <2>1, <2>2, <2>4
  <2>5. QED
    BY Zenon, <2>3, <2>4
<1>4. /\ Alone(Tail(work))
      /\ \A w \in Range(Tail(work)) : \A p \in Paths : ~(Covers(Head(work), p) /\ Covers(w, p))
  BY Zenon, <1>2, TailAlone DEF TreeInv, Apart
<1>5. Alone(todo)
  <2>1. /\ \A v \in Range(new), w \in Range(Tail(work)) : \A p \in Paths :
              ~(Covers(v, p) /\ Covers(w, p))
        /\ \A v \in Range(Tail(work)), w \in Range(new) : \A p \in Paths :
              ~(Covers(v, p) /\ Covers(w, p))
    BY Zenon, <1>4 DEF Replaces
  <2>2. Alone(new \o Tail(work)) /\ Alone(Tail(work) \o new)
    BY Zenon, <1>2, <1>4, <2>1, AloneConcat DEF Replaces
  <2>3. QED
    BY Zenon, <2>2
<1>6. Clear(all, todo)
  <2>1. \A e \in Range(entries) \cup Range(added) : e.path \in Paths
    <3>1. \A e \in Shape : e.path \in Paths
      BY Zenon DEF Shape
    <3>2. \A e \in Range(added) : e \in Shape
      BY DEF Range
    <3>3. QED
      BY Zenon, <1>2, <3>1, <3>2
  <2>2. \A e \in Range(entries) : ~Covers(Head(work), e.path)
    BY Zenon, <1>2 DEF TreeInv, Apart, Clear
  <2>3. \A e \in Range(entries) : \A w \in Range(Tail(work)) : ~Covers(w, e.path)
    BY Zenon, <1>2 DEF TreeInv, Apart, Clear
  <2>4. \A e \in Range(entries) : \A w \in Range(new) : ~Covers(w, e.path)
    BY Zenon, <2>1, <2>2 DEF Replaces
  <2>5. \A e \in Range(added) : \A w \in Range(Tail(work)) : ~Covers(w, e.path)
    BY Zenon, <1>4, <2>1 DEF Replaces
  <2>6. \A e \in Range(added) : \A w \in Range(new) : ~Covers(w, e.path)
    BY Zenon DEF Replaces, Clear
  <2>7. QED
    BY Zenon, <1>1, <1>3, <2>3, <2>4, <2>5, <2>6 DEF Clear
<1>7. \A w \in Range(todo) : Todo(w)
  BY Zenon, <1>2, <1>3 DEF Replaces, TreeInv, Leads
<1>8. ASSUME NEW p \in steady, InScope(p) PROVE Accounted(p, all, todo)
  <2>1. Accounted(p, entries, work)
    BY Zenon, <1>8 DEF TreeInv, Complete
  <2>2. CASE \E e \in Range(entries) : e.path = p
    BY Zenon, <1>1, <2>2 DEF Accounted
  <2>3. CASE \E w \in Range(Tail(work)) : Covers(w, p)
    BY Zenon, <1>3, <2>3 DEF Accounted
  <2>4. CASE Covers(Head(work), p)
    <3>1. Accounted(p, added, new)
      BY Zenon, <1>8, <2>4 DEF Replaces
    <3>2. QED
      BY Zenon, <1>1, <1>3, <3>1 DEF Accounted
  <2>5. QED
    BY Zenon, <1>2, <2>1, <2>2, <2>3, <2>4 DEF Accounted
<1>9. QED
  BY Zenon, <1>1, <1>3, <1>5, <1>6, <1>7, <1>8

-----------------------------------------------------------------------------
(* Going on and returning.                                                 *)

\* What is at a place of a sequence is in its range.
LEMMA PlacesInRange ==
    ASSUME NEW S, NEW s \in Seq(S)
    PROVE  \A i \in 1..Len(s) : s[i] \in Range(s)
  BY SMTT(60) DEF Range

\* The call goes on with what is in order.
LEMMA Continues ==
    ASSUME TreeInv, phase = "walk", NEW todo \in Seq(Work), NEW all \in Seq(Shape),
           Single(all), Alone(todo), Clear(all, todo),
           \A w \in Range(todo) : Todo(w), \A e \in Range(all) : Shown(e),
           \A p \in steady : InScope(p) => Accounted(p, all, todo),
           ~Full(all), Continue(todo, all)
    PROVE  TreeInv'
<1>1. /\ work' = todo /\ entries' = all
      /\ tree' = tree /\ phase' = phase /\ options' = options /\ checked' = checked
      /\ retried' = retried /\ outcome' = outcome /\ steady' = steady /\ seen' = seen
      /\ changes' = changes
  BY ZenonT(60) DEF Continue
<1>2. ListShape'
  <2>1. TreeTypeOK /\ options.limit \in Nat /\ outcome = "pending"
    BY Zenon DEF TreeInv, ListShape, TreeTypeOK
  <2>2. TreeTypeOK'
    BY Zenon, <1>1, <2>1 DEF TreeTypeOK, Shape, Local
  <2>3. Len(all) \in Nat
    OBVIOUS
  <2>4. WithinLimit'
    BY <1>1, <2>1, <2>3 DEF WithinLimit, Full
  <2>5. OrderedOnce'
    BY Zenon, <1>1 DEF OrderedOnce, Listed
  <2>6. QED
    BY <2>2, <2>4, <2>5 DEF ListShape
<1>3. ShowsWhatStayed'
  BY Zenon, <1>1 DEF ShowsWhatStayed, Listed
<1>4. ShowsWhatWas'
  <2>1. \A i \in 1..Len(all) : all[i] \in Range(all)
    BY Zenon, PlacesInRange
  <2>2. QED
    BY Zenon, <1>1, <2>1 DEF ShowsWhatWas, Shown, InScope, Deny
<1>5. NotFoundHasCause'
  BY Zenon, <1>1 DEF TreeInv, ListShape, TreeTypeOK, NotFoundHasCause
<1>6. Books'
  BY Zenon, <1>1 DEF TreeInv, Books, Rooted, Exists
<1>7. Progress'
  BY Zenon, <1>1 DEF Progress, Full
<1>8. Leads'
  <2>1. \A w : Todo(w)' <=> Todo(w)
    BY Zenon, <1>1 DEF Todo, Dir, Local
  <2>2. QED
    BY Zenon, <1>1, <2>1 DEF Leads
<1>9. Apart'
  BY Zenon, <1>1 DEF Apart, Single, Alone, Clear
<1>10. Complete'
  <2>1. \A p : InScope(p)' <=> InScope(p)
    BY Zenon, <1>1 DEF InScope
  <2>2. QED
    BY Zenon, <1>1, <2>1 DEF Complete, Accounted
<1>11. QED
  BY Zenon, <1>2, <1>3, <1>4, <1>5, <1>6, <1>7, <1>8, <1>9, <1>10 DEF TreeInv

\* What ErrNotFound has for a cause.
Cause ==
    \/ <<Dir, "directory">> \notin seen
    \/ \E p \in Paths : /\ p = Dir \/ Under(p, Dir)
                        /\ p \notin steady
                        /\ \E kind \in Kinds : <<p, kind>> \in seen

\* The call fails, for a cause when the error is ErrNotFound.
LEMMA ReturnsError ==
    ASSUME TreeInv, phase \in {"check", "walk"}, NEW o \in {"error", "notfound"},
           o = "notfound" => Cause, Return(o, <<>>)
    PROVE  TreeInv'
<1>1. /\ phase' = "done" /\ outcome' = o /\ entries' = <<>> /\ work' = <<>>
      /\ tree' = tree /\ options' = options /\ checked' = checked
      /\ retried' = retried /\ steady' = steady /\ seen' = seen /\ changes' = changes
  BY Zenon DEF Return
<1>2. Len(<<>>) = 0 /\ Range(<<>>) = {} /\ 1..0 = {}
  BY DEF Range
<1>3. ListShape'
  <2>1. TreeTypeOK /\ options.limit \in Nat
    BY Zenon DEF TreeInv, ListShape, TreeTypeOK
  <2>2. TreeTypeOK'
    BY SMTT(60), <1>1, <2>1 DEF TreeTypeOK, Local
  <2>3. WithinLimit' /\ OrderedOnce'
    BY <1>1, <1>2, <2>1 DEF WithinLimit, OrderedOnce, Listed
  <2>4. QED
    BY <2>2, <2>3 DEF ListShape
<1>4. ShowsWhatStayed'
  BY <1>1 DEF ShowsWhatStayed, Listed
<1>5. ShowsWhatWas'
  BY Zenon, <1>1, <1>2 DEF ShowsWhatWas
<1>6. NotFoundHasCause'
  BY Zenon, <1>1 DEF NotFoundHasCause, Cause, Dir
<1>7. Books'
  <2>1. phase # "idle"
    OBVIOUS
  <2>2. QED
    BY Zenon, <1>1, <2>1 DEF TreeInv, Books, Rooted, Exists
<1>8. Progress' /\ Complete'
  BY <1>1 DEF Progress, Complete
<1>9. Leads'
  BY Zenon, <1>1, <1>2 DEF Leads
<1>10. Apart'
  BY Zenon, <1>1, <1>2 DEF Apart, Single, Alone, Clear
<1>11. QED
  BY Zenon, <1>3, <1>4, <1>5, <1>6, <1>7, <1>8, <1>9, <1>10 DEF TreeInv

\* The call returns entries that are in order, all of them or as many as the
\* limit.
LEMMA ReturnsEntries ==
    ASSUME TreeInv, phase \in {"check", "walk"}, NEW all \in Seq(Shape), Single(all),
           \A e \in Range(all) : Shown(e),
           options.limit # Unlimited => Len(all) <= options.limit,
           \/ options.limit # Unlimited /\ Len(all) >= options.limit
           \/ \A p \in steady : InScope(p) => \E e \in Range(all) : e.path = p,
           Return("ok", all)
    PROVE  TreeInv'
<1>1. /\ phase' = "done" /\ outcome' = "ok" /\ entries' \in sortEntries(all) /\ work' = <<>>
      /\ tree' = tree /\ options' = options /\ checked' = checked
      /\ retried' = retried /\ steady' = steady /\ seen' = seen /\ changes' = changes
  BY Zenon DEF Return
<1>2. /\ entries' \in Seq(Shape) /\ Len(entries') = Len(all) /\ Range(entries') = Range(all)
      /\ Single(entries')
      /\ \A i \in 1..Len(entries') : \A j \in 1..(i - 1) :
            Before(entries'[j].path, entries'[i].path)
  BY ZenonT(60), <1>1, Sorted
<1>3. Len(<<>>) = 0 /\ Range(<<>>) = {} /\ 1..0 = {} /\ <<>> \in Seq(Work)
  BY DEF Range
<1>4. Len(all) \in Nat /\ options.limit \in Nat
  <2>1. TreeTypeOK
    BY Zenon DEF TreeInv, ListShape
  <2>2. QED
    BY <2>1 DEF TreeTypeOK
<1>5. ListShape'
  <2>1. TreeTypeOK
    BY DEF TreeInv, ListShape
  <2>2. TreeTypeOK'
    BY Zenon, <1>1, <1>2, <1>3, <2>1 DEF TreeTypeOK, Local, Shape
  <2>3. WithinLimit' /\ OrderedOnce'
    BY Zenon, <1>1, <1>2 DEF WithinLimit, OrderedOnce
  <2>4. QED
    BY <2>2, <2>3 DEF ListShape
<1>6. DOMAIN entries' = 1..Len(entries')
  BY <1>2
<1>7. ShowsWhatStayed'
  <2>1. ASSUME NEW p \in steady, InScope(p), \E e \in Range(all) : e.path = p
        PROVE  \E i \in 1..Len(entries') : entries'[i].path = p
    <3>1. PICK e \in Range(entries') : e.path = p
      BY Zenon, <1>2, <2>1
    <3>2. PICK i \in DOMAIN entries' : e = entries'[i]
      BY Zenon, <3>1 DEF Range
    <3>3. QED
      BY Zenon, <1>6, <3>1, <3>2
  <2>2. ~(options.limit # Unlimited /\ Len(all) >= options.limit) \/
        ~(options.limit = Unlimited \/ Len(all) < options.limit)
    BY <1>4
  <2>3. QED
    BY Zenon, <1>1, <1>2, <2>1, <2>2 DEF ShowsWhatStayed, InScope
<1>8. ShowsWhatWas'
  <2>1. \A i \in 1..Len(entries') : entries'[i] \in Range(all)
    BY Zenon, <1>2, <1>6 DEF Range
  <2>2. QED
    BY Zenon, <1>1, <2>1 DEF ShowsWhatWas, Shown, InScope, Deny
<1>9. NotFoundHasCause'
  BY Zenon, <1>1 DEF NotFoundHasCause
<1>10. Books'
  <2>1. phase # "idle"
    OBVIOUS
  <2>2. QED
    BY Zenon, <1>1, <2>1 DEF TreeInv, Books, Rooted, Exists
<1>11. Progress' /\ Complete'
  BY <1>1 DEF Progress, Complete
<1>12. Leads'
  BY Zenon, <1>1, <1>3 DEF Leads
<1>13. Apart'
  BY Zenon, <1>1, <1>2, <1>3 DEF Apart, Single, Alone, Clear
<1>14. QED
  BY Zenon, <1>5, <1>7, <1>8, <1>9, <1>10, <1>11, <1>12, <1>13 DEF TreeInv

-----------------------------------------------------------------------------
(* The tree.                                                               *)

\* What exists is beneath directories only.
LEMMA Standing ==
    ASSUME Rooted(tree), NEW p \in Paths, Exists(p), NEW q \in Places, Under(p, q)
    PROVE  tree[q] = "directory"
<1>1. p \in Seq(Nat) /\ q \in Seq(Nat)
  BY Zenon, PathsAreSequences DEF Places
<1>2. Len(q) \in 0..(Len(p) - 1) /\ SubSeq(p, 1, Len(q)) = q
  BY <1>1 DEF Under
<1>3. QED
  BY Zenon, <1>2 DEF Rooted, Exists

\* So is what is steady, and what it is beneath is steady too.
LEMMA SteadyUnder ==
    ASSUME TreeInv, phase # "idle", NEW p \in steady, NEW q \in Places, Under(p, q)
    PROVE  p \in Paths /\ tree[q] = "directory" /\ (q \in Paths => q \in steady)
<1>1. p \in Paths
  BY Zenon DEF TreeInv, ListShape, TreeTypeOK
<1>2. p \in Seq(Nat) /\ q \in Seq(Nat)
  BY Zenon, <1>1, PathsAreSequences DEF Places
<1>3. Exists(p) /\ Rooted(tree) /\ \A n \in 1..Len(p) : SubSeq(p, 1, n) \in steady
  BY Zenon DEF TreeInv, Books
<1>4. tree[q] = "directory"
  BY Zenon, <1>1, <1>3, Standing
<1>5. q \in Paths => q \in steady
  <2>1. q \in Paths => Len(q) > 0
    BY Zenon, PathsAreSequences
  <2>2. Len(q) > 0 => Len(q) \in 1..Len(p) /\ SubSeq(p, 1, Len(q)) = q
    BY <1>2 DEF Under
  <2>3. QED
    BY Zenon, <1>3, <2>1, <2>2
<1>6. QED
  BY <1>1, <1>4, <1>5

\* The directory listed, and what is beneath it.
LEMMA DirType ==
    ASSUME TreeInv
    PROVE  /\ Dir \in Places /\ Dir \in Seq(Nat) /\ Len(Dir) \in Nat
           /\ Local \in BOOLEAN /\ options.recursive \in BOOLEAN
           /\ options.limit \in Nat
<1>1. options \in [adapter : Adapters, directory : Directories, recursive : BOOLEAN, limit : Nat]
  BY Zenon DEF TreeInv, ListShape, TreeTypeOK
<1>2. /\ options.directory \in Directories /\ options.recursive \in BOOLEAN
      /\ options.limit \in Nat /\ options.adapter \in Adapters
  BY <1>1
<1>3. Dir \in Places /\ Dir \in Seq(Nat)
  BY Zenon, <1>2, PathsAreSequences DEF Dir
<1>4. Local \in BOOLEAN
  <2>1. \A a \in [local : BOOLEAN, deny : BOOLEAN] : a.local \in BOOLEAN
    OBVIOUS
  <2>2. QED
    BY Zenon, <1>2, <2>1, TreeAssumption DEF Local
<1>5. Len(Dir) \in Nat
  BY <1>3
<1>6. QED
  BY <1>2, <1>3, <1>4, <1>5

\* Something at or beneath the directory that was seen and is not steady is a
\* cause of ErrNotFound.
LEMMA Gone ==
    ASSUME TreeInv, phase # "idle", NEW q \in Places, q = Dir \/ Under(q, Dir),
           NEW kind \in Kinds, kind # tree[q],
           (q = Dir /\ kind = "directory") \/ <<q, kind>> \in seen,
           q \in Paths
    PROVE  Cause
<1>1. CASE <<q, kind>> \in seen
  <2>1. q \notin steady
    BY Zenon, <1>1 DEF TreeInv, Books
  <2>2. QED
    BY Zenon, <1>1, <2>1 DEF Cause
<1>2. QED
  BY Zenon, <1>1 DEF Cause

Node == [path : Paths, kind : Kinds]

\* What exists just beneath a directory, each once.
Offspring(children, q) ==
    /\ children \in Seq(Node)
    /\ \A i \in 1..Len(children) :
          /\ children[i] \in Node /\ children[i].path \in Paths
          /\ children[i].kind = tree[children[i].path] /\ Exists(children[i].path)
          /\ <<children[i].path, children[i].kind>> \in seen
          /\ Parent(children[i].path) = q /\ Under(children[i].path, q)
    /\ \A i, j \in 1..Len(children) : children[i].path = children[j].path => i = j
    /\ \A p \in Paths : Parent(p) = q /\ Exists(p) =>
          \E i \in 1..Len(children) : children[i].path = p

\* The children of a directory are all of that.
LEMMA ChildrenOf ==
    ASSUME TreeInv, phase = "walk", NEW q \in Places, NEW children \in Children(q)
    PROVE  Offspring(children, q)
<1> DEFINE below == {p \in Paths : Parent(p) = q /\ Exists(p)}
           S == {[path |-> p, kind |-> tree[p]] : p \in below}
<1>1. children \in ByName(S)
  BY Zenon DEF Children
<1>2. IsFiniteSet(S)
  <2>1. IsFiniteSet(Paths) /\ below \in SUBSET Paths
    BY Zenon, TreeAssumption
  <2>2. IsFiniteSet(below)
    BY Zenon, <2>1, FS_Subset
  <2> DEFINE f == [p \in below |-> [path |-> p, kind |-> tree[p]]]
  <2> HIDE DEF below
  <2>3. f \in Surjection(below, S)
    BY Zenon DEF Surjection
  <2>4. QED
    BY Zenon, <2>2, <2>3, FS_Surjection
<1> HIDE DEF S
<1>3. /\ children \in Seq(S) /\ Range(children) = S
      /\ \A i, j \in 1..Len(children) : children[i] = children[j] => i = j
  BY Zenon, <1>1, <1>2, Enumeration
<1>4. \A p \in Paths : tree[p] \in Kinds
  BY Zenon DEF TreeInv, ListShape, TreeTypeOK
<1>5. \A c \in S : /\ c \in Node /\ c.path \in Paths /\ c.kind = tree[c.path] /\ Exists(c.path)
                   /\ Parent(c.path) = q /\ c = [path |-> c.path, kind |-> tree[c.path]]
  BY <1>4 DEF S, Node
<1>6. DOMAIN children = 1..Len(children) /\ \A i \in 1..Len(children) : children[i] \in S
  BY <1>3
<1>7. children \in Seq(Node)
  <2>1. \A c \in S : c \in Node
    BY Zenon, <1>5
  <2>2. QED
    BY <1>3, <2>1
<1>8. ASSUME NEW p \in Paths, Parent(p) = q PROVE Under(p, q)
  <2>1. p \in Seq(Nat) /\ Len(p) > 0
    BY Zenon, PathsAreSequences DEF Places
  <2>2. QED
    BY Zenon, <1>8, <2>1, ParentUnder
<1>9. ASSUME NEW c \in S
      PROVE  /\ c \in Node /\ c.path \in Paths /\ c.kind = tree[c.path] /\ Exists(c.path)
             /\ <<c.path, c.kind>> \in seen /\ Parent(c.path) = q /\ Under(c.path, q)
  <2>1. /\ c \in Node /\ c.path \in Paths /\ c.kind = tree[c.path] /\ Exists(c.path)
        /\ Parent(c.path) = q
    BY Zenon, <1>5
  <2>2. phase # "idle"
    OBVIOUS
  <2>3. <<c.path, c.kind>> \in seen
    BY Zenon, <2>1, <2>2 DEF TreeInv, Books
  <2>4. QED
    BY Zenon, <1>8, <2>1, <2>3
<1>10. ASSUME NEW i \in 1..Len(children), NEW j \in 1..Len(children),
              children[i].path = children[j].path
       PROVE  i = j
  <2>1. /\ children[i] = [path |-> children[i].path, kind |-> tree[children[i].path]]
        /\ children[j] = [path |-> children[j].path, kind |-> tree[children[j].path]]
    BY Zenon, <1>5, <1>6
  <2>2. children[i] = children[j]
    BY Zenon, <1>10, <2>1
  <2>3. QED
    BY Zenon, <1>3, <2>2
<1>11. ASSUME NEW p \in Paths, Parent(p) = q, Exists(p)
       PROVE  \E i \in 1..Len(children) : children[i].path = p
  <2>1. [path |-> p, kind |-> tree[p]] \in S
    BY Zenon, <1>11 DEF S
  <2>2. PICK i \in 1..Len(children) : children[i] = [path |-> p, kind |-> tree[p]]
    BY Zenon, <1>3, <1>6, <2>1 DEF Range
  <2>3. QED
    BY <2>2
<1>12. QED
  BY Zenon, <1>6, <1>7, <1>9, <1>10, <1>11 DEF Offspring

-----------------------------------------------------------------------------
(* The actions of a listing.                                               *)

\* A call that fails returns nothing.
LEMMA FailsKeeps ==
    ASSUME TreeInv, Fails
    PROVE  TreeInv'
  BY Zenon, ReturnsError DEF Fails

\* When there is no work left, everything that is steady has been collected.
LEMMA FinishKeeps ==
    ASSUME TreeInv, Finish
    PROVE  TreeInv'
<1>1. phase = "walk" /\ work = <<>> /\ Return("ok", entries)
  BY Zenon DEF Finish
<1>2. entries \in Seq(Shape) /\ DOMAIN entries = 1..Len(entries) /\ Range(<<>>) = {}
  BY DEF TreeInv, ListShape, TreeTypeOK, Shape, Range
<1>3. Single(entries) /\ \A e \in Range(entries) : Shown(e)
  BY Zenon, <1>2 DEF TreeInv, Apart, ShowsWhatWas, Shown, Range
<1>4. options.limit # Unlimited => Len(entries) <= options.limit
  BY Zenon DEF TreeInv, ListShape, WithinLimit
<1>5. \A p \in steady : InScope(p) => \E e \in Range(entries) : e.path = p
  BY Zenon, <1>1, <1>2 DEF TreeInv, Complete, Accounted
<1>6. QED
  BY Zenon, <1>1, <1>2, <1>3, <1>4, <1>5, ReturnsEntries

\* The walk begins.
LEMMA BeginKeeps ==
    ASSUME TreeInv, phase = "check", Begin
    PROVE  TreeInv'
<1>a. PICK w : w = [act |-> IF Local THEN "stat" ELSE "read", path |-> Dir, kind |-> "directory"]
  BY Zenon
<1>1. /\ phase' = "walk" /\ work' = <<w>> /\ entries' = entries
      /\ tree' = tree /\ options' = options /\ checked' = checked /\ retried' = retried
      /\ outcome' = outcome /\ steady' = steady /\ seen' = seen /\ changes' = changes
  BY Zenon, <1>a DEF Begin, Dir
<1>2. /\ entries = <<>> /\ Len(entries) = 0 /\ Range(entries) = {} /\ 1..0 = {}
      /\ options.limit \in Nat
  BY DirType DEF TreeInv, Progress, Range
<1>3. w \in Work /\ w.path = Dir /\ (Local => w.act = "stat") /\ (~Local => w.act = "read")
  BY <1>a, DirType DEF Work, Places, Kinds, Root
<1>4. <<w>> \in Seq(Work) /\ Range(<<w>>) = {w} /\ \A i \in 1..Len(<<w>>) : i = 1
  BY <1>3 DEF Range
<1>5. ListShape'
  <2>1. TreeTypeOK /\ outcome = "pending"
    BY Zenon DEF TreeInv, ListShape, TreeTypeOK
  <2>2. TreeTypeOK'
    BY <1>1, <1>4, <2>1 DEF TreeTypeOK, Local
  <2>3. WithinLimit' /\ OrderedOnce'
    BY <1>1, <1>2 DEF WithinLimit, OrderedOnce, Listed
  <2>4. QED
    BY <2>2, <2>3 DEF ListShape
<1>6. ShowsWhatStayed' /\ ShowsWhatWas'
  BY Zenon, <1>1, <1>2 DEF ShowsWhatStayed, ShowsWhatWas, Listed
<1>7. NotFoundHasCause'
  BY Zenon, <1>1 DEF TreeInv, ListShape, TreeTypeOK, NotFoundHasCause
<1>8. Books'
  <2>1. phase # "idle"
    OBVIOUS
  <2>2. QED
    BY Zenon, <1>1, <2>1 DEF TreeInv, Books, Rooted, Exists
<1>9. Progress'
  BY <1>1, <1>2 DEF Progress, Full, Unlimited
<1>10. Leads'
  <2>1. Todo(w)'
    BY Zenon, <1>1, <1>3, DirType DEF Todo, Dir, Local
  <2>2. QED
    BY Zenon, <1>1, <1>4, <2>1 DEF Leads
<1>11. Apart'
  <2>1. Single(entries) /\ Alone(<<w>>) /\ Clear(entries, <<w>>)
    BY Zenon, <1>2, <1>4 DEF Single, Alone, Clear
  <2>2. QED
    BY Zenon, <1>1, <2>1 DEF Apart
<1>12. Complete'
  <2>1. ASSUME NEW p \in steady, InScope(p) PROVE Accounted(p, entries, <<w>>)
    BY Zenon, <1>3, <1>4, <2>1 DEF InScope, Accounted, Covers, Dir
  <2>2. QED
    BY Zenon, <1>1, <2>1 DEF Complete, InScope
<1>13. QED
  BY Zenon, <1>5, <1>6, <1>7, <1>8, <1>9, <1>10, <1>11, <1>12 DEF TreeInv

\* The segments are checked before anything is collected.
LEMMA CheckSegmentKeeps ==
    ASSUME TreeInv, CheckSegment
    PROVE  TreeInv'
<1>1. phase = "check"
  BY Zenon DEF CheckSegment
<1>2. CASE Begin
  BY Zenon, <1>1, <1>2, BeginKeeps
<1>3. CASE Return("error", <<>>)
  BY Zenon, <1>1, <1>3, ReturnsError
<1>4. CASE /\ checked # Len(options.directory) /\ checked' = checked + 1
           /\ UNCHANGED <<tree, phase, options, work, entries, retried, outcome,
                          steady, seen, changes>>
  <2>1. /\ tree' = tree /\ phase' = phase /\ options' = options /\ work' = work
        /\ entries' = entries /\ retried' = retried /\ outcome' = outcome
        /\ steady' = steady /\ seen' = seen /\ changes' = changes
    BY Zenon, <1>4
  <2>2. TreeTypeOK'
    <3>1. TreeTypeOK /\ Len(options.directory) \in Nat /\ checked \in 0..Len(options.directory)
      BY Zenon, DirType DEF TreeInv, ListShape, TreeTypeOK, Dir
    <3>2. checked' \in 0..Len(options.directory)
      BY <1>4, <3>1
    <3>3. QED
      BY Zenon, <2>1, <3>1, <3>2 DEF TreeTypeOK, Local
  <2>3. WithinLimit' /\ OrderedOnce'
    BY Zenon, <2>1 DEF TreeInv, ListShape, WithinLimit, OrderedOnce, Listed
  <2>4. ShowsWhatStayed' /\ NotFoundHasCause'
    BY Zenon, <2>1 DEF TreeInv, ShowsWhatStayed, NotFoundHasCause, Listed, InScope
  <2>5. ShowsWhatWas'
    BY Zenon, <2>1 DEF TreeInv, ShowsWhatWas, InScope, Deny
  <2>6. Books' /\ Progress'
    BY Zenon, <2>1 DEF TreeInv, Books, Rooted, Exists, Progress, Full
  <2>7. Leads'
    <3>1. \A w : Todo(w)' <=> Todo(w)
      BY ZenonT(60), <2>1 DEF Todo, Dir, Local
    <3>2. QED
      BY Zenon, <2>1, <3>1 DEF TreeInv, Leads
  <2>8. Apart' /\ Complete'
    BY Zenon, <2>1 DEF TreeInv, Apart, Complete, InScope
  <2>9. QED
    BY Zenon, <2>2, <2>3, <2>4, <2>5, <2>6, <2>7, <2>8 DEF TreeInv, ListShape
<1>5. QED
  BY Zenon, <1>2, <1>3, <1>4 DEF CheckSegment

\* The call begins, and its records are those of the tree.
LEMMA ListKeeps ==
    ASSUME TreeInv, List
    PROVE  TreeInv'
<1>1. PICK recursive \in BOOLEAN, limit \in Limits :
         /\ options' = [options EXCEPT !.recursive = recursive,
                        !.limit = IF limit < 0 THEN 1
                                  ELSE IF Local THEN limit
                                  ELSE effectiveListLimit(limit, MaxList)]
         /\ phase' = IF limit < 0 THEN "done" ELSE "check"
         /\ outcome' = IF limit < 0 THEN "error" ELSE "pending"
  BY Zenon DEF List
<1>2. /\ checked' = 0 /\ work' = <<>> /\ entries' = <<>> /\ retried' = FALSE /\ tree' = tree
      /\ steady' = {p \in Paths : Exists(p)} /\ seen' = Nodes \cup {<<<<>>, "directory">>}
      /\ changes' = 0
  BY Zenon DEF List
<1>3. /\ Len(<<>>) = 0 /\ Range(<<>>) = {} /\ 1..0 = {}
      /\ <<>> \in Seq(Work) /\ <<>> \in Seq(Shape)
  BY Zenon, Nothing
<1>4. /\ options \in [adapter : Adapters, directory : Directories, recursive : BOOLEAN, limit : Nat]
      /\ tree \in [Paths \cup {<<>>} -> Kinds]
  BY Zenon DEF TreeInv, ListShape, TreeTypeOK
<1>5. limit \in Int /\ MaxList \in Nat /\ MaxList > 0 /\ Changes \in Nat
  BY TreeAssumption
<1>6. /\ options' \in
            [adapter : Adapters, directory : Directories, recursive : BOOLEAN, limit : Nat]
      /\ options'.directory = options.directory /\ options'.adapter = options.adapter
      /\ ~Local => options'.limit <= MaxList
  <2> DEFINE l == IF limit < 0 THEN 1
                  ELSE IF Local THEN limit ELSE effectiveListLimit(limit, MaxList)
  <2>1. l \in Nat /\ (~Local => l <= MaxList)
    BY <1>5 DEF effectiveListLimit
  <2>2. options' = [options EXCEPT !.recursive = recursive, !.limit = l]
    BY Zenon, <1>1
  <2> HIDE DEF l
  <2>3. QED
    BY Zenon, <1>4, <2>1, <2>2
<1>7. ListShape'
  <2>1. Len(options.directory) \in Nat
    BY Zenon, DirType DEF Dir
  <2>2. TreeTypeOK'
    <3>1. checked' \in 0..Len(options'.directory) /\ changes' \in 0..Changes
      BY Zenon, <1>2, <1>5, <1>6, <2>1, Counting
    <3>2. Local' <=> Local
      BY Zenon, <1>6 DEF Local
    <3>3. /\ phase' \in {"idle", "check", "walk", "done"}
          /\ outcome' \in {"pending", "ok", "notfound", "error"}
          /\ outcome' # "pending" <=> phase' \in {"idle", "done"}
      BY <1>1
    <3>4. steady' \subseteq Paths /\ retried' \in BOOLEAN
      BY Zenon, <1>2
    <3>5. QED
      BY Zenon, <1>2, <1>3, <1>4, <1>6, <3>1, <3>2, <3>3, <3>4 DEF TreeTypeOK, Shape
  <2>3. WithinLimit' /\ OrderedOnce'
    BY <1>2, <1>3, <1>6 DEF WithinLimit, OrderedOnce
  <2>4. QED
    BY <2>2, <2>3 DEF ListShape
<1>8. ShowsWhatStayed' /\ NotFoundHasCause'
  BY <1>1 DEF ShowsWhatStayed, NotFoundHasCause, Listed
<1>9. ShowsWhatWas'
  BY Zenon, <1>2, <1>3 DEF ShowsWhatWas
<1>10. Books'
  <2>1. Rooted(tree)
    BY Zenon DEF TreeInv, Books
  <2>2. Rooted(tree)'
    BY Zenon, <1>2, <2>1 DEF Rooted
  <2>3. \A p \in Paths : Exists(p)' <=> Exists(p)
    BY Zenon, <1>2 DEF Exists
  <2>4. \A p \in Paths : Exists(p) => <<p, tree'[p]>> \in seen'
    BY Zenon, <1>2 DEF Nodes
  <2>5. ASSUME NEW p \in steady', NEW n \in 1..Len(p) PROVE SubSeq(p, 1, n) \in steady'
    <3>1. p \in Paths /\ Exists(p) /\ p \in Seq(Nat)
      BY Zenon, <1>2, PathsAreSequences DEF Places
    <3>2. SubSeq(p, 1, n) \in Paths
      BY Zenon, <3>1, PathsAreSequences
    <3>3. CASE n = Len(p)
      <4>1. SubSeq(p, 1, n) = p
        BY <3>1, <3>3
      <4>2. QED
        BY Zenon, <4>1
    <3>4. CASE n # Len(p)
      <4>1. n \in 0..(Len(p) - 1)
        BY <3>1, <3>4
      <4>2. tree[SubSeq(p, 1, n)] = "directory"
        BY Zenon, <2>1, <3>1, <4>1 DEF Rooted, Exists
      <4>3. Exists(SubSeq(p, 1, n))
        BY Zenon, <4>2 DEF Exists
      <4>4. QED
        BY Zenon, <1>2, <3>2, <4>3
    <3>5. QED
      BY Zenon, <3>3, <3>4
  <2>6. ASSUME NEW p \in steady', NEW kind \in Kinds, <<p, kind>> \in seen'
        PROVE  kind = tree'[p]
    <3>1. p \in Paths /\ p # <<>>
      BY Zenon, <1>2, TreeAssumption
    <3>2. <<p, kind>> \in Nodes
      BY Zenon, <1>2, <2>6, <3>1
    <3>3. QED
      BY Zenon, <1>2, <3>2 DEF Nodes
  <2>7. \A p \in steady' : p \in Paths /\ Exists(p)
    BY Zenon, <1>2
  <2>8. QED
    BY Zenon, <1>2, <2>2, <2>3, <2>4, <2>5, <2>6, <2>7 DEF Books
<1>11. Progress' /\ Complete'
  BY <1>1, <1>2 DEF Progress, Complete
<1>12. Leads' /\ Apart'
  BY Zenon, <1>2, <1>3 DEF Leads, Apart, Single, Alone, Clear
<1>13. QED
  BY Zenon, <1>7, <1>8, <1>9, <1>10, <1>11, <1>12 DEF TreeInv

\* list begins anew, and what it had collected is dropped.
LEMMA ConnectionLostKeeps ==
    ASSUME TreeInv, ConnectionLost
    PROVE  TreeInv'
<1>1. CASE retried
  BY Zenon, <1>1, ReturnsError DEF ConnectionLost
<1>2. CASE ~retried
  <2>1. /\ phase' = "check" /\ retried' = TRUE /\ checked' = 0 /\ work' = <<>> /\ entries' = <<>>
        /\ tree' = tree /\ options' = options /\ outcome' = outcome /\ steady' = steady
        /\ seen' = seen /\ changes' = changes /\ phase # "idle" /\ phase # "done"
    BY Zenon, <1>2 DEF ConnectionLost
  <2>2. Len(<<>>) = 0 /\ Range(<<>>) = {} /\ 1..0 = {}
    BY DEF Range
  <2>3. ListShape'
    <3>1. TreeTypeOK /\ options.limit \in Nat /\ Len(options.directory) \in Nat
      BY Zenon, DirType DEF TreeInv, ListShape, Dir
    <3>2. TreeTypeOK'
      BY <2>1, <3>1 DEF TreeTypeOK, Local
    <3>3. WithinLimit' /\ OrderedOnce'
      BY <2>1, <2>2, <3>1 DEF WithinLimit, OrderedOnce, Listed
    <3>4. QED
      BY <3>2, <3>3 DEF ListShape
  <2>4. ShowsWhatStayed' /\ ShowsWhatWas'
    BY Zenon, <2>1, <2>2 DEF ShowsWhatStayed, ShowsWhatWas, Listed
  <2>5. NotFoundHasCause'
    BY Zenon, <2>1 DEF TreeInv, ListShape, TreeTypeOK, NotFoundHasCause
  <2>6. Books'
    BY Zenon, <2>1 DEF TreeInv, Books, Rooted, Exists
  <2>7. Progress' /\ Complete'
    BY Zenon, <2>1 DEF Progress, Complete
  <2>8. Leads' /\ Apart'
    BY Zenon, <2>1, <2>2 DEF Leads, Apart, Single, Alone, Clear
  <2>9. QED
    BY Zenon, <2>3, <2>4, <2>5, <2>6, <2>7, <2>8 DEF TreeInv
<1>3. QED
  BY Zenon, <1>1, <1>2

\* Another program changes the tree: what it removes is no longer steady, and
\* nothing steady is beneath it.
LEMMA ChangeKeeps ==
    ASSUME TreeInv, Change
    PROVE  TreeInv'
<1>1. PICK q \in Paths, new \in Kinds :
         /\ Exists(q) <=> new = "none"
         /\ tree' = [tree EXCEPT ![q] = new] /\ Rooted(tree')
         /\ steady' = steady \ {q} /\ seen' = seen \cup {<<q, new>>}
  BY Zenon DEF Change
<1>2. /\ phase \in {"check", "walk"} /\ changes < Changes /\ changes' = changes + 1
      /\ phase' = phase /\ options' = options /\ checked' = checked /\ work' = work
      /\ entries' = entries /\ retried' = retried /\ outcome' = outcome
  BY Zenon DEF Change
<1>3. /\ tree \in [Paths \cup {<<>>} -> Kinds] /\ steady \subseteq Paths /\ outcome = "pending"
      /\ changes \in 0..Changes /\ Changes \in Nat /\ TreeTypeOK
  BY Zenon, <1>2, TreeAssumption DEF TreeInv, ListShape, TreeTypeOK
<1>4. /\ tree' \in [Paths \cup {<<>>} -> Kinds] /\ tree'[q] = new
      /\ \A p \in Paths : p # q => tree'[p] = tree[p]
  BY Zenon, <1>1, <1>3
<1>5. seen \subseteq seen' /\ steady' \subseteq steady /\ \A p \in steady' : p # q
  BY Zenon, <1>1
<1>6. ListShape'
  <2>1. TreeTypeOK'
    <3>1. changes' \in 0..Changes
      BY Zenon, <1>2, <1>3, Counting
    <3>2. steady' \subseteq Paths
      BY Zenon, <1>3, <1>5
    <3>3. QED
      BY Zenon, <1>2, <1>3, <1>4, <3>1, <3>2 DEF TreeTypeOK, Local
  <2>2. WithinLimit' /\ OrderedOnce'
    BY Zenon, <1>2 DEF TreeInv, ListShape, WithinLimit, OrderedOnce, Listed
  <2>3. QED
    BY <2>1, <2>2 DEF ListShape
<1>7. ShowsWhatStayed' /\ NotFoundHasCause'
  BY Zenon, <1>2, <1>3 DEF ShowsWhatStayed, NotFoundHasCause, Listed
<1>8. ShowsWhatWas'
  BY Zenon, <1>2, <1>5 DEF TreeInv, ShowsWhatWas, InScope, Deny
<1>9. Books'
  <2>1. /\ <<<<>>, "directory">> \in seen /\ Rooted(tree)
        /\ \A p \in Paths : Exists(p) => <<p, tree[p]>> \in seen
        /\ \A p \in steady : /\ Exists(p)
                             /\ \A n \in 1..Len(p) : SubSeq(p, 1, n) \in steady
                             /\ \A kind \in Kinds : <<p, kind>> \in seen => kind = tree[p]
    <3>1. phase # "idle"
      BY Zenon, <1>2
    <3>2. QED
      BY Zenon, <3>1 DEF TreeInv, Books
  <2>2. \A p \in Paths : tree'[p] # "none" => <<p, tree'[p]>> \in seen'
    <3>1. ASSUME NEW p \in Paths, tree'[p] # "none", p = q PROVE <<p, tree'[p]>> \in seen'
      BY Zenon, <1>1, <1>4, <3>1
    <3>2. ASSUME NEW p \in Paths, tree'[p] # "none", p # q PROVE <<p, tree'[p]>> \in seen'
      BY Zenon, <1>4, <1>5, <2>1, <3>2 DEF Exists
    <3>3. QED
      BY Zenon, <3>1, <3>2
  <2>3. ASSUME NEW p \in steady'
        PROVE  /\ p \in Paths /\ tree'[p] = tree[p] /\ tree[p] # "none"
               /\ \A kind \in Kinds : <<p, kind>> \in seen' => <<p, kind>> \in seen
    <3>1. p \in steady /\ p \in Paths /\ p # q
      BY Zenon, <1>3, <1>5
    <3>2. \A kind : <<p, kind>> # <<q, new>>
      BY Zenon, <3>1
    <3>3. QED
      BY Zenon, <1>1, <1>4, <2>1, <3>1, <3>2 DEF Exists
  <2>4. ASSUME NEW p \in steady', NEW n \in 1..Len(p) PROVE SubSeq(p, 1, n) \in steady'
    <3>1. p \in steady /\ p \in Paths /\ p # q /\ p \in Seq(Nat)
      BY Zenon, <1>3, <1>5, PathsAreSequences DEF Places
    <3>2. SubSeq(p, 1, n) \in steady
      BY Zenon, <2>1, <3>1
    <3>3. ASSUME SubSeq(p, 1, n) = q PROVE FALSE
      <4>1. n # Len(p)
        BY Zenon, <3>1, <3>3, AllOfIt
      <4>2. n \in 0..(Len(p) - 1)
        BY <3>1, <4>1
      <4>3. tree[p] # "none" /\ tree'[p] # "none"
        BY Zenon, <2>3
      <4>4. tree[q] = "directory"
        BY Zenon, <2>1, <3>1, <3>3, <4>2, <4>3 DEF Rooted
      <4>5. tree'[q] = "directory"
        BY Zenon, <1>1, <3>1, <3>3, <4>2, <4>3 DEF Rooted
      <4>6. QED
        BY Zenon, <1>1, <1>4, <4>4, <4>5 DEF Exists
    <3>4. QED
      BY Zenon, <1>1, <3>2, <3>3
  <2>5. <<<<>>, "directory">> \in seen'
    BY Zenon, <1>5, <2>1
  <2>6. Rooted(tree)'
    BY Zenon, <1>1 DEF Rooted
  <2>7. QED
    BY Zenon, <1>5, <2>1, <2>2, <2>3, <2>4, <2>5, <2>6 DEF Books, Exists
<1>10. Progress' /\ Apart'
  BY Zenon, <1>2 DEF TreeInv, Progress, Full, Apart
<1>11. Leads'
  <2>1. \A w : Todo(w) => Todo(w)'
    BY ZenonT(60), <1>2, <1>5 DEF Todo, Dir, Local
  <2>2. QED
    BY Zenon, <1>2, <2>1 DEF TreeInv, Leads
<1>12. Complete'
  BY Zenon, <1>2, <1>5 DEF TreeInv, Complete, InScope
<1>13. QED
  BY Zenon, <1>6, <1>7, <1>8, <1>9, <1>10, <1>11, <1>12 DEF TreeInv

\* A walk that goes on with new work and entries in place of the first piece.
LEMMA WalksOn ==
    ASSUME TreeInv, phase = "walk", work # <<>>,
           NEW new \in Seq(Work), NEW added \in Seq(Shape), Replaces(new, added),
           NEW todo, todo = new \o Tail(work) \/ todo = Tail(work) \o new,
           NEW all, all = entries \o added, ~Full(all), Continue(todo, all)
    PROVE  TreeInv'
<1>1. /\ all \in Seq(Shape) /\ todo \in Seq(Work)
      /\ Single(all) /\ Alone(todo) /\ Clear(all, todo)
      /\ \A w \in Range(todo) : Todo(w)
      /\ \A e \in Range(all) : Shown(e)
      /\ \A p \in steady : InScope(p) => Accounted(p, all, todo)
  BY Zenon, Advances
<1>2. QED
  BY Zenon, <1>1, Continues

\* The first piece of work is done with, and led to nothing that stayed.
LEMMA WalksPast ==
    ASSUME TreeInv, phase = "walk", work # <<>>,
           \A p \in steady : InScope(p) => ~Covers(Head(work), p),
           Continue(Tail(work), entries)
    PROVE  TreeInv'
<1>1. /\ <<>> \in Seq(Work) /\ <<>> \in Seq(Shape) /\ Len(<<>>) = 0 /\ 1..0 = {}
      /\ Range(<<>>) = {}
  BY Zenon, Nothing
<1>2. Replaces(<<>>, <<>>)
  BY Zenon, <1>1 DEF Replaces, Alone, Single, Clear
<1>3. entries \in Seq(Shape) /\ Tail(work) \in Seq(Work)
  BY Zenon, Walking
<1>4. entries = entries \o <<>> /\ Tail(work) = <<>> \o Tail(work)
  BY <1>3
<1>5. ~Full(entries)
  BY Zenon DEF TreeInv, Progress
<1>6. QED
  BY Zenon, <1>1, <1>2, <1>4, <1>5, WalksOn

\* The directory listed is gone, or was never one.
LEMMA DirectoryGone ==
    ASSUME TreeInv, phase # "idle", tree[Dir] # "directory"
    PROVE  Cause
<1>1. Dir \in Places /\ tree[<<>>] = "directory"
  BY Zenon, DirType DEF TreeInv, Books, Rooted
<1>2. Dir \in Paths
  BY Zenon, <1>1 DEF Places, Root
<1>3. "directory" \in Kinds
  BY DEF Kinds
<1>4. QED
  BY Zenon, <1>1, <1>2, <1>3, Gone

\* fs.WalkDir looks at its root: a directory is read next.
LEMMA WalkRootKeeps ==
    ASSUME TreeInv, WalkRoot
    PROVE  TreeInv'
<1>1. /\ Local /\ phase = "walk" /\ work # <<>> /\ Head(work).act = "stat" /\ phase # "idle"
      /\ Head(work).path = Dir
  BY Walking DEF WalkRoot, Working, Todo
<1>2. Dir \in Places /\ Dir \in Seq(Nat)
  BY Zenon, DirType
<1>3. CASE /\ tree[Dir] = "directory"
           /\ Continue(<<[act |-> "read", path |-> Dir, kind |-> "directory"]>> \o Tail(work),
                       entries)
  <2>1. PICK w : w = [act |-> "read", path |-> Dir, kind |-> "directory"]
    BY Zenon
  <2>2. w \in Work /\ w.act = "read" /\ w.path = Dir
    BY <1>2, <2>1 DEF Work, Places, Kinds, Root
  <2>3. /\ <<w>> \in Seq(Work) /\ Range(<<w>>) = {w} /\ \A i \in 1..Len(<<w>>) : i = 1
        /\ <<>> \in Seq(Shape) /\ Len(<<>>) = 0 /\ Range(<<>>) = {} /\ 1..0 = {}
    BY <2>2 DEF Range
  <2>4. <<Dir, "directory">> \in seen
    <3>1. Dir \in Paths \/ Dir = <<>>
      BY Zenon, <1>2 DEF Places, Root
    <3>2. Dir \in Paths => Exists(Dir)
      BY <1>3 DEF Exists
    <3>3. QED
      BY Zenon, <1>1, <1>3, <3>1, <3>2 DEF TreeInv, Books
  <2>5. Todo(w)
    BY Zenon, <1>1, <2>2, <2>4 DEF Todo
  <2>6. \A p \in Paths : Covers(w, p) <=> Covers(Head(work), p)
    BY Zenon, <1>1, <2>2 DEF Covers
  <2>7. Replaces(<<w>>, <<>>)
    <3>1. Alone(<<w>>) /\ Single(<<>>) /\ Clear(<<>>, <<w>>)
      BY Zenon, <2>3 DEF Alone, Single, Clear
    <3>2. \A p \in steady : p \in Paths
      BY Zenon DEF TreeInv, ListShape, TreeTypeOK
    <3>3. QED
      BY Zenon, <2>3, <2>5, <2>6, <3>1, <3>2 DEF Replaces, Accounted
  <2>8. entries = entries \o <<>> /\ ~Full(entries)
    <3>1. entries \in Seq(Shape) /\ ~Full(entries)
      BY Zenon, <1>1, Walking DEF TreeInv, Progress
    <3>2. QED
      BY <3>1
  <2>9. PICK todo : todo = <<w>> \o Tail(work)
    BY Zenon
  <2>10. Continue(todo, entries)
    BY Zenon, <1>3, <2>1, <2>9
  <2>11. QED
    BY Zenon, <1>1, <2>3, <2>7, <2>8, <2>9, <2>10, WalksOn
<1>4. CASE tree[Dir] = "file" /\ Return("ok", <<>>)
  <2>1. /\ <<>> \in Seq(Shape) /\ Len(<<>>) = 0 /\ Range(<<>>) = {} /\ 1..0 = {}
        /\ options.limit # Unlimited => Len(<<>>) <= options.limit
    BY DirType DEF Range
  <2>2. Single(<<>>)
    BY Zenon, <2>1 DEF Single
  <2>3. ASSUME NEW p \in steady, InScope(p) PROVE FALSE
    <3>1. Under(p, Dir)
      BY Zenon, <2>3 DEF InScope, Dir
    <3>2. tree[Dir] = "directory"
      BY Zenon, <1>1, <1>2, <3>1, SteadyUnder
    <3>3. QED
      BY <1>4, <3>2
  <2>4. QED
    BY Zenon, <1>1, <1>4, <2>1, <2>2, <2>3, ReturnsEntries
<1>5. CASE tree[Dir] # "directory" /\ Return(Missing(Dir), <<>>)
  <2>1. Missing(Dir) \in {"error", "notfound"}
    BY Zenon DEF Missing
  <2>2. Cause
    BY Zenon, <1>1, <1>5, DirectoryGone
  <2>3. QED
    BY Zenon, <1>1, <1>5, <2>1, <2>2, ReturnsError
<1>6. QED
  BY <1>3, <1>4, <1>5 DEF WalkRoot, Dir

\* A child and what is beneath it, among the children of a directory.
LEMMA ChildCovers ==
    ASSUME NEW q \in Places, NEW c \in Paths, NEW p \in Paths, Parent(c) = q,
           p = c \/ Under(p, c)
    PROVE  Under(p, q) /\ c = Toward(p, q)
<1>1. q \in Seq(Nat) /\ c \in Seq(Nat) /\ p \in Seq(Nat) /\ Len(c) > 0
  BY Zenon, PathsAreSequences DEF Places
<1>2. Under(c, q) /\ Len(q) = Len(c) - 1
  BY Zenon, <1>1, ParentUnder
<1>3. Under(p, q)
  BY Zenon, <1>1, <1>2, UnderOrder
<1>4. Len(c) = Len(q) + 1
  BY <1>1, <1>2
<1>5. CASE p = c
  <2>1. SubSeq(c, 1, Len(c)) = c
    BY Zenon, <1>1, AllOfIt
  <2>2. QED
    BY Zenon, <1>3, <1>4, <1>5, <2>1 DEF Toward
<1>6. CASE Under(p, c)
  BY Zenon, <1>3, <1>4, <1>6 DEF Toward, Under
<1>7. QED
  BY Zenon, <1>5, <1>6

\* The child on the way to something steady exists.
LEMMA SteadyChild ==
    ASSUME TreeInv, phase = "walk", NEW q \in Places, NEW p \in steady, Under(p, q)
    PROVE  LET c == Toward(p, q) IN
           /\ p \in Paths /\ c \in Paths /\ Parent(c) = q /\ Exists(c)
           /\ p = c \/ (Under(p, c) /\ tree[c] = "directory")
           /\ Parent(p) = q => p = c
<1> DEFINE c == Toward(p, q)
<1>1. phase # "idle" /\ q \in Seq(Nat)
  BY Zenon, PathsAreSequences
<1>2. p \in Paths /\ Exists(p)
  BY Zenon, <1>1, SteadyUnder DEF TreeInv, Books
<1>3. /\ c \in Paths /\ Parent(c) = q /\ (p = c \/ Under(p, c))
      /\ Parent(p) = q => p = c
  BY Zenon, <1>1, <1>2, OnTheWay
<1> HIDE DEF c
<1>4. c \in Places
  BY Zenon, <1>3 DEF Places
<1>5. Under(p, c) => tree[c] = "directory"
  BY Zenon, <1>1, <1>4, SteadyUnder
<1>6. Exists(c)
  <2>1. tree[c] = "directory" => Exists(c)
    BY DEF Exists
  <2>2. QED
    BY Zenon, <1>2, <1>3, <1>5, <2>1
<1>7. QED
  BY Zenon, <1>2, <1>3, <1>5, <1>6 DEF c

\* What is beneath a piece of work is beneath the directory listed.
LEMMA BeneathWork ==
    ASSUME TreeInv, NEW q \in Places, q = Dir \/ Under(q, Dir), NEW c \in Paths, Under(c, q)
    PROVE  Under(c, Dir) /\ c # Dir
<1>1. c \in Seq(Nat) /\ q \in Seq(Nat) /\ Dir \in Seq(Nat)
  BY Zenon, DirType, PathsAreSequences DEF Places
<1>2. Under(c, Dir)
  BY Zenon, <1>1, UnderOrder
<1>3. ~Under(Dir, Dir)
  BY Zenon, <1>1, UnderOrder
<1>4. QED
  BY Zenon, <1>2, <1>3

\* The path of the first piece of work.
LEMMA HeadPath ==
    ASSUME TreeInv, phase = "walk", work # <<>>
    PROVE  /\ Head(work).path \in Places /\ Head(work).kind \in Kinds
           /\ Head(work).path = Dir \/ Under(Head(work).path, Dir)
<1>1. Head(work) \in Work /\ Todo(Head(work))
  BY Zenon, Walking
<1>2. Head(work).path \in Places /\ Head(work).kind \in Kinds
  BY <1>1 DEF Work, Places, Root
<1>3. QED
  BY Zenon, <1>1, <1>2 DEF Todo

\* ReadDir: every child is visited, and the visits cover what was beneath.
LEMMA WalkReadKeeps ==
    ASSUME TreeInv, WalkRead
    PROVE  TreeInv'
<1>1. /\ Local /\ phase = "walk" /\ work # <<>> /\ Head(work).act = "read" /\ phase # "idle"
  BY DEF WalkRead, Working
<1>2. PICK q : q = Head(work).path
  BY Zenon
<1>3. q \in Places /\ (q = Dir \/ Under(q, Dir)) /\ <<q, "directory">> \in seen
  BY Zenon, <1>1, <1>2, HeadPath, Walking DEF Todo
<1>4. ASSUME NEW children \in Children(q),
             Continue([i \in 1..Len(children) |-> Item("visit", children[i])] \o Tail(work),
                      entries)
      PROVE  TreeInv'
  <2>a. Offspring(children, q)
    BY Zenon, <1>1, <1>3, ChildrenOf
  <2>1. Len(children) \in Nat /\ \A i \in 1..Len(children) : children[i] \in Node
    BY Zenon, <2>a, PlacesOf DEF Offspring
  <2>2. PICK new : new = [i \in 1..Len(children) |-> Item("visit", children[i])]
    BY Zenon
  <2>3. \A c \in Node : /\ Item("visit", c) \in Work /\ Item("visit", c).act = "visit"
                        /\ Item("visit", c).path = c.path /\ Item("visit", c).kind = c.kind
    BY DEF Node, Item, Work
  <2>4. /\ new \in Seq(Work) /\ Len(new) = Len(children)
        /\ \A i \in 1..Len(children) : new[i] = Item("visit", children[i])
    <3>1. /\ new \in [1..Len(children) -> Work]
          /\ \A i \in 1..Len(children) : new[i] = Item("visit", children[i])
      BY Zenon, <2>1, <2>2, <2>3
    <3>2. QED
      BY Zenon, <2>1, <3>1, TableIsSequence
  <2>5. ASSUME NEW i \in 1..Len(new)
        PROVE  /\ new[i].act = "visit" /\ new[i].path = children[i].path
               /\ new[i].kind = children[i].kind /\ children[i].path \in Paths
    <3>1. i \in 1..Len(children) /\ children[i] \in Node
      BY Zenon, <2>1, <2>4
    <3>2. children[i].path \in Paths
      BY Zenon, <3>1 DEF Node
    <3>3. QED
      BY Zenon, <2>3, <2>4, <3>1, <3>2
  <2>7. DOMAIN new = 1..Len(new)
    BY <2>4
  <2>8. ASSUME NEW i \in 1..Len(new), NEW p \in Paths, Covers(new[i], p)
        PROVE  Under(p, q) /\ children[i].path = Toward(p, q)
    <3>1. PICK c : c = children[i].path
      BY Zenon
    <3>2. c \in Paths /\ Parent(c) = q
      BY Zenon, <2>a, <2>4, <2>5, <3>1 DEF Offspring
    <3>3. p = c \/ Under(p, c)
      BY Zenon, <2>5, <2>8, <3>1 DEF Covers
    <3>4. Under(p, q) /\ c = Toward(p, q)
      BY Zenon, <1>3, <3>2, <3>3, ChildCovers
    <3>5. QED
      BY Zenon, <3>1, <3>4
  <2>9. Alone(new)
    <3>1. \A i, j \in 1..Len(new) : children[i].path = children[j].path => i = j
      BY Zenon, <2>a, <2>4 DEF Offspring
    <3>2. QED
      BY Zenon, <2>8, <3>1 DEF Alone
  <2>10. ASSUME NEW i \in 1..Len(new) PROVE Todo(new[i])
    <3>1. /\ Exists(children[i].path) /\ children[i].kind = tree[children[i].path]
          /\ <<children[i].path, children[i].kind>> \in seen /\ Under(children[i].path, q)
      BY Zenon, <2>a, <2>4 DEF Offspring
    <3>2. Under(children[i].path, Dir) /\ children[i].path # Dir
      BY Zenon, <1>3, <2>5, <3>1, BeneathWork
    <3>3. children[i].kind # "none"
      BY Zenon, <3>1 DEF Exists
    <3>4. QED
      BY Zenon, <1>1, <2>5, <3>1, <3>2, <3>3 DEF Todo
  <2>11. ASSUME NEW p \in steady, Covers(Head(work), p)
         PROVE  \E w \in Range(new) : Covers(w, p)
    <3>1. Under(p, q)
      BY Zenon, <1>1, <1>2, <2>11 DEF Covers
    <3>2. PICK c : c = Toward(p, q)
      BY Zenon
    <3>3. c \in Paths /\ Parent(c) = q /\ Exists(c) /\ (p = c \/ Under(p, c))
      BY Zenon, <1>1, <1>3, <3>1, <3>2, SteadyChild
    <3>4. PICK i \in 1..Len(children) : children[i].path = c
      BY Zenon, <2>a, <3>3 DEF Offspring
    <3>5. new[i] \in Range(new) /\ Covers(new[i], p)
      BY Zenon, <2>4, <2>5, <2>7, <3>3, <3>4 DEF Covers, Range
    <3>6. QED
      BY Zenon, <3>5
  <2>12. <<>> \in Seq(Shape) /\ Len(<<>>) = 0 /\ Range(<<>>) = {} /\ 1..0 = {}
    BY Zenon, Nothing
  <2>13. Replaces(new, <<>>)
    <3>1. Single(<<>>) /\ Clear(<<>>, new)
      BY Zenon, <2>12 DEF Single, Clear
    <3>2. \A w \in Range(new) : \E i \in 1..Len(new) : w = new[i]
      BY Zenon, <2>7 DEF Range
    <3>3. \A p \in Paths : Under(p, q) => Covers(Head(work), p)
      BY Zenon, <1>2 DEF Covers
    <3>4. \A w \in Range(new) :
             Todo(w) /\ \A p \in Paths : Covers(w, p) => Covers(Head(work), p)
      BY Zenon, <2>8, <2>10, <3>2, <3>3
    <3>5. QED
      BY Zenon, <2>9, <2>11, <2>12, <3>1, <3>4 DEF Replaces, Accounted
  <2>14. entries = entries \o <<>> /\ ~Full(entries)
    <3>1. entries \in Seq(Shape) /\ ~Full(entries)
      BY Zenon, <1>1, Walking DEF TreeInv, Progress
    <3>2. QED
      BY <3>1
  <2>15. PICK todo : todo = new \o Tail(work)
    BY Zenon
  <2>16. Continue(todo, entries)
    BY Zenon, <1>4, <2>2, <2>15
  <2>17. QED
    BY Zenon, <1>1, <2>4, <2>12, <2>13, <2>14, <2>15, <2>16, WalksOn
<1>5. CASE tree[q] = "none" /\ Return(Missing(q), <<>>)
  <2>1. Missing(q) \in {"error", "notfound"}
    BY Zenon DEF Missing
  <2>2. q \in Paths /\ "directory" # tree[q] /\ "directory" \in Kinds
    BY Zenon, <1>3, <1>5 DEF TreeInv, Books, Rooted, Places, Root, Kinds
  <2>3. Cause
    BY Zenon, <1>1, <1>3, <2>2, Gone
  <2>4. QED
    BY Zenon, <1>1, <1>5, <2>1, <2>3, ReturnsError
<1>6. CASE Return("error", <<>>)
  BY Zenon, <1>1, <1>6, ReturnsError
<1>7. QED
  BY Zenon, <1>2, <1>4, <1>5, <1>6 DEF WalkRead

\* One entry more.
LEMMA OneMore ==
    ASSUME NEW c \in Seq(Shape), NEW e \in Shape
    PROVE  /\ <<e>> \in Seq(Shape) /\ Range(<<e>>) = {e} /\ Single(<<e>>)
           /\ Append(c, e) = c \o <<e>> /\ Len(Append(c, e)) = Len(c) + 1 /\ Len(c) \in Nat
<1>1. /\ <<e>> \in Seq(Shape) /\ Range(<<e>>) = {e} /\ \A i \in 1..Len(<<e>>) : i = 1
  BY DEF Range
<1>2. Single(<<e>>)
  BY Zenon, <1>1 DEF Single
<1>3. Append(c, e) = c \o <<e>> /\ Len(Append(c, e)) = Len(c) + 1 /\ Len(c) \in Nat
  OBVIOUS
<1>4. QED
  BY Zenon, <1>1, <1>2, <1>3

\* What is to be visited, and the entry it makes.
LEMMA Visited ==
    ASSUME TreeInv, phase = "walk", work # <<>>, Head(work).act = "visit"
    PROVE  LET item == Head(work) IN
           /\ item \in Work /\ item.path \in Paths /\ item.kind \in Kinds \ {"none"}
           /\ Local /\ Under(item.path, Dir) /\ <<item.path, item.kind>> \in seen
           /\ Entry(item) \in Shape /\ Entry(item).path = item.path
           /\ /\ options.recursive \/ ~Nested(item.path)
              /\ item.kind = "link" => ~Deny
              => Shown(Entry(item))
<1>1. PICK item : item = Head(work)
  BY Zenon
<1>2. /\ item \in Work /\ Local /\ item.path \in Places /\ item.kind \in Kinds
      /\ Under(item.path, Dir) /\ item.kind # "none" /\ <<item.path, item.kind>> \in seen
  BY Zenon, <1>1, Walking, HeadPath DEF Todo
<1>3. PICK q : q = item.path
  BY Zenon
<1>4. Dir \in Seq(Nat) /\ q \in Seq(Nat) /\ Under(q, Dir)
  BY Zenon, <1>2, <1>3, DirType, PathsAreSequences
<1>5. Len(Dir) \in Nat /\ Len(q) \in Nat /\ Len(q) > 0 /\ Len(q) > Len(Dir)
  BY <1>4 DEF Under
<1>6. q \in Paths
  BY Zenon, <1>2, <1>3, <1>5, PathsAreSequences
<1>7. Entry(item) \in Shape /\ Entry(item).path = q
  BY Zenon, <1>3, <1>6 DEF Entry, Shape
<1>8. ASSUME options.recursive \/ ~Nested(q), item.kind = "link" => ~Deny
      PROVE  Shown(Entry(item))
  <2>1. InScope(q)
    <3>1. ~Nested(q) => Len(q) = Len(Dir) + 1
      BY <1>5 DEF Nested, Dir
    <3>2. ~Nested(q) => Parent(q) = Dir
      BY Zenon, <1>4, <1>5, <3>1, ParentUnder
    <3>3. QED
      BY Zenon, <1>4, <1>8, <3>2 DEF InScope, Dir
  <2>2. \/ <<q, Entry(item).kind>> \in seen
        \/ ~Deny /\ Entry(item).kind = "file" /\ <<q, "link">> \in seen
    BY Zenon, <1>2, <1>3, <1>8 DEF Entry, Kinds
  <2>3. QED
    BY Zenon, <1>7, <2>1, <2>2 DEF Shown
<1>9. QED
  BY Zenon, <1>1, <1>2, <1>3, <1>6, <1>7, <1>8

\* An entry is collected, skipped, or the end of the walk.
LEMMA VisitKeeps ==
    ASSUME TreeInv, Visit
    PROVE  TreeInv'
<1>1. Local /\ phase = "walk" /\ work # <<>> /\ Head(work).act = "visit" /\ phase # "idle"
  BY Zenon DEF Visit, Working
<1>2. PICK item, q, e : item = Head(work) /\ q = item.path /\ e = Entry(item)
  BY Zenon
<1>3. /\ item \in Work /\ q \in Paths /\ item.kind \in Kinds \ {"none"}
      /\ Under(q, Dir) /\ <<q, item.kind>> \in seen /\ e \in Shape /\ e.path = q
      /\ (options.recursive \/ ~Nested(q)) /\ (item.kind = "link" => ~Deny) => Shown(e)
  BY Zenon, <1>1, <1>2, Visited
<1>4. entries \in Seq(Shape) /\ Tail(work) \in Seq(Work) /\ ~Full(entries)
  BY Zenon, <1>1, Walking DEF TreeInv, Progress
<1>5. q \in Places /\ q \in Seq(Nat) /\ Dir \in Seq(Nat) /\ options.limit \in Nat
  BY Zenon, <1>3, PathsAreSequences, DirType DEF Places
<1>6. PICK collected, added : collected = Append(entries, e) /\ added = <<e>>
  BY Zenon
<1>7. /\ added \in Seq(Shape) /\ Range(added) = {e} /\ Single(added)
      /\ collected = entries \o added /\ Len(collected) = Len(entries) + 1 /\ Len(entries) \in Nat
  BY Zenon, <1>3, <1>4, <1>6, OneMore
<1>8. Covers(Head(work), q)
  BY Zenon, <1>1, <1>2 DEF Covers
<1>9. CASE ~options.recursive /\ Nested(q) /\ Continue(Tail(work), entries)
  <2>1. ASSUME NEW p \in steady, InScope(p), Covers(Head(work), p) PROVE FALSE
    <3>1. p \in Paths /\ p \in Seq(Nat) /\ Len(p) > 0
      BY Zenon, PathsAreSequences DEF TreeInv, ListShape, TreeTypeOK, Places
    <3>2. Parent(p) = Dir
      BY Zenon, <1>9, <2>1 DEF InScope, Dir
    <3>3. Len(Dir) = Len(p) - 1
      BY Zenon, <3>1, <3>2, ParentUnder
    <3>4. p = q \/ Len(p) > Len(q)
      BY Zenon, <1>2, <2>1 DEF Covers, Under
    <3>5. Len(q) > Len(Dir) + 1
      BY Zenon, <1>9 DEF Nested, Dir
    <3>6. Len(p) \in Nat /\ Len(q) \in Nat /\ Len(Dir) \in Nat
      BY <1>5, <3>1
    <3>7. QED
      BY <3>3, <3>4, <3>5, <3>6
  <2>2. QED
    BY Zenon, <1>1, <1>9, <2>1, WalksPast
<1>10. CASE Return("error", <<>>)
  BY Zenon, <1>1, <1>10, ReturnsError
<1>11. CASE ~Exists(q) /\ Return(Missing(q), <<>>)
  <2>1. Missing(q) \in {"error", "notfound"}
    BY Zenon DEF Missing
  <2>2. item.kind # tree[q] /\ item.kind \in Kinds
    BY Zenon, <1>3, <1>11 DEF Exists
  <2>3. Cause
    BY Zenon, <1>1, <1>3, <1>5, <2>2, Gone
  <2>4. QED
    BY Zenon, <1>1, <1>11, <2>1, <2>3, ReturnsError
<1>12. CASE Shown(e) /\ Full(collected) /\ Return("ok", collected)
  <2>1. /\ collected \in Seq(Shape) /\ Single(collected) /\ \A d \in Range(collected) : Shown(d)
    BY Zenon, <1>1, <1>3, <1>7, <1>8, <1>12, Collects
  <2>2. options.limit # Unlimited /\ Len(collected) >= options.limit
    BY Zenon, <1>12 DEF Full
  <2>3. Len(collected) <= options.limit
    BY <1>4, <1>5, <1>7, <2>2 DEF Full
  <2>4. QED
    BY Zenon, <1>1, <1>12, <2>1, <2>2, <2>3, ReturnsEntries
<1>13. CASE /\ Shown(e) /\ ~Full(collected)
            /\ Continue(IF item.kind = "directory"
                        THEN <<[item EXCEPT !.act = "read"]>> \o Tail(work)
                        ELSE Tail(work), collected)
  <2>1. CASE item.kind = "directory"
    <3>1. PICK w : w = [item EXCEPT !.act = "read"]
      BY Zenon
    <3>2. w \in Work /\ w.act = "read" /\ w.path = q /\ w.kind = "directory"
      BY <1>2, <1>3, <2>1, <3>1 DEF Work
    <3>3. <<w>> \in Seq(Work) /\ Range(<<w>>) = {w} /\ \A i \in 1..Len(<<w>>) : i = 1
      BY <3>2 DEF Range
    <3>4. Todo(w)
      <4>1. <<q, "directory">> \in seen
        BY Zenon, <1>3, <2>1
      <4>2. QED
        BY Zenon, <1>1, <1>3, <3>2, <4>1 DEF Todo
    <3>5. \A p \in Paths : Covers(Head(work), p) <=> Covers(w, p) \/ p = q
      BY Zenon, <1>1, <1>2, <3>2 DEF Covers
    <3>6. ~Covers(w, q)
      <4>1. ~Under(q, q)
        BY Zenon, <1>5, UnderOrder
      <4>2. QED
        BY Zenon, <3>2, <4>1 DEF Covers
    <3>7. Replaces(<<w>>, added)
      <4>1. Alone(<<w>>) /\ Clear(added, <<w>>)
        BY Zenon, <1>3, <1>7, <3>3, <3>6 DEF Alone, Clear
      <4>2. \A p \in steady : p \in Paths
        BY Zenon DEF TreeInv, ListShape, TreeTypeOK
      <4>3. \A p \in steady : Covers(Head(work), p) => Accounted(p, added, <<w>>)
        BY Zenon, <1>3, <1>7, <3>3, <3>5, <4>2 DEF Accounted
      <4>4. QED
        BY Zenon, <1>3, <1>7, <1>8, <1>13, <3>3, <3>4, <3>5, <4>1, <4>3 DEF Replaces
    <3>8. PICK todo : todo = <<w>> \o Tail(work)
      BY Zenon
    <3>9. Continue(todo, collected)
      BY Zenon, <1>13, <2>1, <3>1, <3>8
    <3>10. QED
      BY Zenon, <1>1, <1>7, <1>13, <3>3, <3>7, <3>8, <3>9, WalksOn
  <2>2. CASE item.kind # "directory"
    <3>1. <<>> \in Seq(Work) /\ Len(<<>>) = 0 /\ Range(<<>>) = {} /\ 1..0 = {}
      BY Zenon, Nothing
    <3>2. ASSUME NEW p \in steady, Covers(Head(work), p) PROVE p = q
      <4>1. ASSUME Under(p, q) PROVE FALSE
        <5>1. tree[q] = "directory" /\ q \in steady
          BY Zenon, <1>1, <1>3, <1>5, <4>1, SteadyUnder
        <5>2. item.kind = tree[q]
          BY Zenon, <1>1, <1>3, <5>1 DEF TreeInv, Books
        <5>3. QED
          BY Zenon, <2>2, <5>1, <5>2
      <4>2. QED
        BY Zenon, <1>2, <3>2, <4>1 DEF Covers
    <3>3. Replaces(<<>>, added)
      <4>1. Alone(<<>>) /\ Clear(added, <<>>)
        BY Zenon, <3>1 DEF Alone, Clear
      <4>2. \A p \in steady : Covers(Head(work), p) => Accounted(p, added, <<>>)
        BY Zenon, <1>3, <1>7, <3>2 DEF Accounted
      <4>3. QED
        BY Zenon, <1>3, <1>7, <1>8, <1>13, <3>1, <4>1, <4>2 DEF Replaces
    <3>4. Tail(work) = <<>> \o Tail(work) /\ Continue(Tail(work), collected)
      <4>1. Tail(work) = <<>> \o Tail(work)
        BY Zenon, <1>1, Walking, PlacesOf
      <4>2. QED
        BY Zenon, <1>4, <1>13, <2>2, <4>1
    <3>5. QED
      BY Zenon, <1>1, <1>7, <1>13, <3>1, <3>3, <3>4, WalksOn
  <2>3. QED
    BY Zenon, <2>1, <2>2
<1>14. QED
  <2>1. \/ ~options.recursive /\ Nested(q) /\ Continue(Tail(work), entries)
        \/ /\ options.recursive \/ ~Nested(q)
           /\ \/ item.kind = "link" /\ Deny /\ Return("error", <<>>)
              \/ /\ item.kind = "link" => ~Deny
                 /\ \/ ~Exists(q) /\ Return(Missing(q), <<>>)
                    \/ Full(collected) /\ Return("ok", collected)
                    \/ /\ ~Full(collected)
                       /\ Continue(IF item.kind = "directory"
                                   THEN <<[item EXCEPT !.act = "read"]>> \o Tail(work)
                                   ELSE Tail(work), collected)
    BY Zenon, <1>2, <1>6 DEF Visit
  <2>2. QED
    BY Zenon, <1>3, <1>9, <1>10, <1>11, <1>12, <1>13, <2>1

\* A directory that is gone had nothing beneath it that stayed.
LEMMA ReadGoneKeeps ==
    ASSUME TreeInv, ReadGone
    PROVE  TreeInv'
<1>1. ~Local /\ phase = "walk" /\ work # <<>> /\ Head(work).act = "read" /\ phase # "idle"
  BY Zenon DEF ReadGone, Working
<1>2. PICK q : q = Head(work).path
  BY Zenon
<1>3. /\ q \in Places /\ (q = Dir \/ Under(q, Dir)) /\ tree[q] # "directory"
      /\ q # Dir => <<q, "directory">> \in seen
  BY Zenon, <1>1, <1>2, HeadPath, Walking DEF ReadGone, Todo
<1>4. CASE Return("notfound", <<>>)
  <2>1. q \in Paths /\ "directory" \in Kinds
    BY Zenon, <1>3 DEF TreeInv, Books, Rooted, Places, Root, Kinds
  <2>2. Cause
    BY Zenon, <1>1, <1>3, <2>1, Gone
  <2>3. QED
    BY Zenon, <1>1, <1>4, <2>2, ReturnsError
<1>5. CASE Continue(Tail(work), entries)
  <2>1. ASSUME NEW p \in steady, Covers(Head(work), p) PROVE FALSE
    <3>1. Under(p, q)
      BY Zenon, <1>1, <1>2, <2>1 DEF Covers
    <3>2. QED
      BY Zenon, <1>1, <1>3, <3>1, SteadyUnder
  <2>2. QED
    BY Zenon, <1>1, <1>5, <2>1, WalksPast
<1>6. QED
  BY Zenon, <1>4, <1>5 DEF ReadGone

\* The first children of a directory, as entries.
Firsts(children, n) == [i \in 1..n |-> Entry(children[i])]

\* They are within the scope, and each of another path.
AreListed(added, children, n, q) ==
    /\ added \in Seq(Shape) /\ Single(added)
    /\ \A i \in 1..n : added[i] \in Range(added) /\ added[i].path = children[i].path
    /\ \A e \in Range(added) : /\ Shown(e) /\ Covers(Head(work), e.path)
                               /\ e.path \in Paths /\ Parent(e.path) = q

\* So they are when they are the children of the directory that is read.
LEMMA RemoteEntries ==
    ASSUME TreeInv, phase = "walk", work # <<>>, Head(work).act = "read", ~Local,
           NEW q, q = Head(work).path, NEW children, Offspring(children, q),
           NEW n \in 0..Len(children), \A i \in 1..n : children[i].kind # "link",
           NEW added, added = Firsts(children, n)
    PROVE  AreListed(added, children, n, q)
<1>1. /\ q \in Places /\ (q = Dir \/ Under(q, Dir)) /\ (options.recursive \/ q = Dir)
  BY Zenon, HeadPath, Walking DEF Todo
<1>2. n \in Nat /\ \A i \in 1..n : i \in 1..Len(children)
  BY Zenon, FirstPlaces DEF Offspring
<1>3. \A c \in Node : Entry(c) \in Shape /\ Entry(c).path = c.path
  BY Zenon DEF Node, Entry, Shape
<1>4. \A i \in 1..n : children[i] \in Node
  BY Zenon, <1>2 DEF Offspring
<1>5. \A i \in 1..n : Entry(children[i]) \in Shape
  BY Zenon, <1>3, <1>4
<1>6. added \in Seq(Shape) /\ Len(added) = n /\ \A i \in 1..n : added[i] = Entry(children[i])
  <2>1. added \in [1..n -> Shape] /\ \A i \in 1..n : added[i] = Entry(children[i])
    BY Zenon, <1>5 DEF Firsts
  <2>2. QED
    BY Zenon, <1>2, <2>1, TableIsSequence
<1>7. DOMAIN added = 1..n
  BY Zenon, <1>2 DEF Firsts
<1>8. ASSUME NEW i \in 1..n PROVE added[i] \in Range(added) /\ added[i].path = children[i].path
  BY Zenon, <1>3, <1>4, <1>6, <1>7 DEF Range
<1>9. Single(added)
  <2>1. \A i, j \in 1..n : children[i].path = children[j].path => i = j
    BY Zenon, <1>2 DEF Offspring
  <2>2. QED
    BY Zenon, <1>6, <1>8, <2>1 DEF Single
<1>10. ASSUME NEW e \in Range(added)
       PROVE  Shown(e) /\ Covers(Head(work), e.path) /\ e.path \in Paths /\ Parent(e.path) = q
  <2>1. PICK i \in 1..n : e = added[i]
    BY Zenon, <1>7 DEF Range
  <2>2. PICK c : c = children[i]
    BY Zenon
  <2>3. /\ c \in Node /\ c.path \in Paths /\ c.kind = tree[c.path] /\ Exists(c.path)
        /\ <<c.path, c.kind>> \in seen /\ Parent(c.path) = q /\ Under(c.path, q)
    BY Zenon, <1>2, <2>2 DEF Offspring
  <2>4. e = Entry(c) /\ e.path = c.path /\ c.kind # "link" /\ c.kind # "none"
    BY Zenon, <1>6, <1>8, <2>1, <2>2, <2>3 DEF Exists
  <2>5. e.kind = c.kind
    BY Zenon, <2>3, <2>4 DEF Entry, Node, Kinds
  <2>6. Under(c.path, Dir)
    BY Zenon, <1>1, <2>3, BeneathWork
  <2>7. InScope(c.path)
    BY Zenon, <1>1, <2>3, <2>6 DEF InScope, Dir
  <2>8. Shown(e)
    BY Zenon, <2>3, <2>4, <2>5, <2>7 DEF Shown
  <2>9. Covers(Head(work), e.path)
    BY Zenon, <2>3, <2>4 DEF Covers
  <2>10. QED
    BY Zenon, <2>3, <2>4, <2>8, <2>9
<1>11. QED
  BY Zenon, <1>6, <1>8, <1>9, <1>10 DEF AreListed

\* The work of reading the directories among the children of q.
AreRead(reads, children, q) ==
    /\ reads \in Seq(Work) /\ Alone(reads)
    /\ \A w \in Range(reads) :
          /\ w.act = "read" /\ w.path \in Paths /\ Parent(w.path) = q
          /\ Todo(w) /\ \A p \in Paths : Covers(w, p) => Covers(Head(work), p)
    /\ options.recursive =>
          \A i \in 1..Len(children) : children[i].kind = "directory" =>
             \E w \in Range(reads) : w.act = "read" /\ w.path = children[i].path

\* The directories among the children, to be read later.
LEMMA RemoteReads ==
    ASSUME TreeInv, phase = "walk", work # <<>>, Head(work).act = "read", ~Local,
           NEW q, q = Head(work).path, NEW children, Offspring(children, q),
           NEW reads \in Reads(children)
    PROVE  AreRead(reads, children, q)
<1>1. /\ q \in Places /\ (q = Dir \/ Under(q, Dir))
  BY Zenon, HeadPath
<1>2. CASE ~options.recursive
  <2>1. reads = <<>>
    BY Zenon, <1>2 DEF Reads
  <2>2. <<>> \in Seq(Work) /\ Len(<<>>) = 0 /\ Range(<<>>) = {} /\ 1..0 = {}
    BY Zenon, Nothing
  <2>3. QED
    BY Zenon, <1>2, <2>1, <2>2 DEF Alone, AreRead
<1>3. CASE options.recursive
  <2> DEFINE D == {c \in Range(children) : c.kind = "directory"}
             S == {Item("read", c) : c \in D}
  <2>1. reads \in ByName(S)
    BY Zenon, <1>3 DEF Reads
  <2>2. DOMAIN children = 1..Len(children) /\ Len(children) \in Nat
    BY Zenon, PlacesOf DEF Offspring
  <2>3. IsFiniteSet(S)
    <3>1. IsFiniteSet(1..Len(children))
      BY <2>2, FS_Interval
    <3>2. children \in [1..Len(children) -> Range(children)]
      BY <2>2 DEF Offspring, Range
    <3>3. children \in Surjection(1..Len(children), Range(children))
      BY Zenon, <2>2, <3>2 DEF Surjection, Range
    <3>4. IsFiniteSet(Range(children))
      BY Zenon, <3>1, <3>3, FS_Surjection
    <3>5. D \in SUBSET Range(children)
      BY Zenon
    <3>6. IsFiniteSet(D)
      BY Zenon, <3>4, <3>5, FS_Subset
    <3> DEFINE f == [c \in D |-> Item("read", c)]
    <3> HIDE DEF D
    <3>7. f \in Surjection(D, S)
      BY Zenon DEF Surjection
    <3>8. QED
      BY Zenon, <3>6, <3>7, FS_Surjection
  <2>4. ASSUME NEW w \in S
        PROVE  /\ w \in Work /\ w.act = "read" /\ w.path \in Paths /\ Parent(w.path) = q
               /\ Under(w.path, q) /\ <<w.path, "directory">> \in seen
               /\ w = [act |-> "read", path |-> w.path, kind |-> "directory"]
    <3>1. PICK c \in D : w = Item("read", c)
      BY Zenon
    <3>2. PICK i \in 1..Len(children) : c = children[i]
      BY Zenon, <2>2 DEF Range
    <3>3. /\ c \in Node /\ c.path \in Paths /\ <<c.path, c.kind>> \in seen /\ Parent(c.path) = q
          /\ Under(c.path, q) /\ c.kind = "directory"
      BY Zenon, <3>2 DEF Offspring
    <3>4. w = [act |-> "read", path |-> c.path, kind |-> "directory"]
      BY Zenon, <3>1, <3>3 DEF Item
    <3>5. w.act = "read" /\ w.path = c.path /\ w \in Work
      BY Zenon, <3>3, <3>4 DEF Work, Kinds
    <3>6. QED
      BY Zenon, <3>3, <3>4, <3>5
  <2>5. ASSUME NEW i \in 1..Len(children), children[i].kind = "directory"
        PROVE  \E w \in S : w.act = "read" /\ w.path = children[i].path
    <3>1. children[i] \in D
      BY Zenon, <2>2, <2>5 DEF Range
    <3>2. Item("read", children[i]) \in S
      BY Zenon, <3>1
    <3>3. /\ Item("read", children[i]).act = "read"
          /\ Item("read", children[i]).path = children[i].path
      BY Zenon DEF Item
    <3>4. QED
      BY Zenon, <3>2, <3>3
  <2> HIDE DEF S
  <2>6. /\ reads \in Seq(S) /\ Range(reads) = S
        /\ \A i, j \in 1..Len(reads) : reads[i] = reads[j] => i = j
    BY Zenon, <2>1, <2>3, Enumeration
  <2>7. reads \in Seq(Work) /\ \A i \in 1..Len(reads) : reads[i] \in S
    <3>1. \A w \in S : w \in Work
      BY Zenon, <2>4
    <3>2. QED
      BY Zenon, <2>6, <3>1, WiderSequence, PlacesOf
  <2>8. ASSUME NEW w \in S, NEW p \in Paths, Covers(w, p)
        PROVE  Under(p, q) /\ w.path = Toward(p, q)
    <3>1. w.act = "read" /\ w.path \in Paths /\ Parent(w.path) = q
      BY Zenon, <2>4
    <3>2. Under(p, w.path)
      BY Zenon, <2>8, <3>1 DEF Covers
    <3>3. PICK c : c = w.path
      BY Zenon
    <3>4. Under(p, q) /\ c = Toward(p, q)
      BY ZenonT(60), <1>1, <3>1, <3>2, <3>3, ChildCovers
    <3>5. QED
      BY Zenon, <3>3, <3>4
  <2>9. Alone(reads)
    <3>1. ASSUME NEW i \in 1..Len(reads), NEW j \in 1..Len(reads), NEW p \in Paths,
                 Covers(reads[i], p), Covers(reads[j], p)
          PROVE  i = j
      <4>1. PICK v, w : v = reads[i] /\ w = reads[j]
        BY Zenon
      <4>2. v \in S /\ w \in S
        BY Zenon, <2>7, <4>1
      <4>3. v.path = w.path
        BY Zenon, <2>8, <3>1, <4>1, <4>2
      <4>4. /\ v = [act |-> "read", path |-> v.path, kind |-> "directory"]
            /\ w = [act |-> "read", path |-> w.path, kind |-> "directory"]
        BY Zenon, <2>4, <4>2
      <4>5. v = w
        BY Zenon, <4>3, <4>4
      <4>6. QED
        BY Zenon, <2>6, <4>1, <4>5
    <3>2. QED
      BY Zenon, <3>1 DEF Alone
  <2>10. ASSUME NEW w \in S
         PROVE  Todo(w) /\ \A p \in Paths : Covers(w, p) => Covers(Head(work), p)
    <3>1. /\ w.act = "read" /\ w.path \in Paths /\ Under(w.path, q)
          /\ <<w.path, "directory">> \in seen
      BY Zenon, <2>4
    <3>2. Under(w.path, Dir)
      BY Zenon, <1>1, <3>1, BeneathWork
    <3>3. Todo(w)
      BY Zenon, <1>3, <3>1, <3>2 DEF Todo
    <3>4. \A p \in Paths : Covers(w, p) => Covers(Head(work), p)
      BY Zenon, <2>8 DEF Covers
    <3>5. QED
      BY Zenon, <3>3, <3>4
  <2>11. QED
    BY Zenon, <2>4, <2>5, <2>6, <2>7, <2>9, <2>10 DEF AreRead
<1>4. QED
  BY Zenon, <1>2, <1>3

\* One directory of the queue: its children are entries, and its directories
\* join the end of the queue.
LEMMA ReadRemoteKeeps ==
    ASSUME TreeInv, ReadRemote
    PROVE  TreeInv'
<1>1. ~Local /\ phase = "walk" /\ work # <<>> /\ Head(work).act = "read" /\ phase # "idle"
  BY Zenon DEF ReadRemote, Working
<1>2. PICK q : q = Head(work).path
  BY Zenon
<1>3. /\ q \in Places /\ q \in Seq(Nat) /\ (q = Dir \/ Under(q, Dir))
      /\ options.recursive \/ q = Dir
  BY Zenon, <1>1, <1>2, HeadPath, Walking, PathsAreSequences DEF Todo
<1>4. PICK children \in Children(q) : \E n \in 0..Len(children) :
         LET all == entries \o [i \in 1..n |-> Entry(children[i])] IN
         /\ \A i \in 1..n : children[i].kind # "link"
         /\ n < Len(children) => children[n + 1].kind = "link"
         /\ IF Full(all) THEN Return("ok", SubSeq(all, 1, options.limit))
            ELSE IF n < Len(children) THEN Return("error", <<>>)
            ELSE \E reads \in Reads(children) : Continue(Tail(work) \o reads, all)
  BY Zenon, <1>2 DEF ReadRemote
<1>5. PICK n \in 0..Len(children) :
         LET all == entries \o [i \in 1..n |-> Entry(children[i])] IN
         /\ \A i \in 1..n : children[i].kind # "link"
         /\ IF Full(all) THEN Return("ok", SubSeq(all, 1, options.limit))
            ELSE IF n < Len(children) THEN Return("error", <<>>)
            ELSE \E reads \in Reads(children) : Continue(Tail(work) \o reads, all)
  BY Zenon, <1>4
<1>6. PICK added, all : added = Firsts(children, n) /\ all = entries \o added
  BY Zenon
<1>7. Offspring(children, q) /\ \A i \in 1..n : children[i].kind # "link"
  BY Zenon, <1>1, <1>3, <1>5, ChildrenOf
<1>8. /\ added \in Seq(Shape) /\ Single(added)
      /\ \A i \in 1..n : added[i] \in Range(added) /\ added[i].path = children[i].path
      /\ \A e \in Range(added) : /\ Shown(e) /\ Covers(Head(work), e.path)
                                 /\ e.path \in Paths /\ Parent(e.path) = q
  <2>1. AreListed(added, children, n, q)
    BY Zenon, <1>1, <1>2, <1>6, <1>7, RemoteEntries
  <2>2. QED
    BY Zenon, <2>1 DEF AreListed
<1>9. CASE Full(all) /\ Return("ok", SubSeq(all, 1, options.limit))
  <2>1. all \in Seq(Shape) /\ Single(all) /\ \A e \in Range(all) : Shown(e)
    BY Zenon, <1>1, <1>6, <1>8, Collects
  <2>2. PICK l, c : l = options.limit /\ c = SubSeq(all, 1, l)
    BY Zenon
  <2>3. l \in 0..Len(all) /\ l # Unlimited /\ l \in Nat /\ l <= l /\ l >= l
    <3>1. l \in Nat /\ Len(all) \in Nat
      BY <2>1, <2>2, DirType
    <3>2. l # Unlimited /\ Len(all) >= l
      BY Zenon, <1>9, <2>2 DEF Full
    <3>3. QED
      BY <3>1, <3>2
  <2>4. c \in Seq(Shape) /\ Len(c) = l /\ Range(c) \subseteq Range(all) /\ Single(c)
    BY Zenon, <2>1, <2>2, <2>3, Cut
  <2>5. Return("ok", c)
    BY Zenon, <1>9, <2>2
  <2>6. /\ \A e \in Range(c) : Shown(e)
        /\ Len(c) <= options.limit /\ options.limit # Unlimited /\ Len(c) >= options.limit
    BY Zenon, <2>1, <2>2, <2>3, <2>4
  <2>7. QED
    BY Zenon, <1>1, <2>4, <2>5, <2>6, ReturnsEntries
<1>10. CASE Return("error", <<>>)
  BY Zenon, <1>1, <1>10, ReturnsError
<1>11. ASSUME NEW reads \in Reads(children), ~Full(all), ~(n < Len(children)),
              Continue(Tail(work) \o reads, all)
       PROVE  TreeInv'
  <2>1. n = Len(children)
    <3>1. children \in Seq(Node) /\ ~(n < Len(children))
      BY Zenon, <1>7, <1>11 DEF Offspring
    <3>2. QED
      BY Zenon, <3>1, FirstPlaces
  <2>2. /\ reads \in Seq(Work) /\ Alone(reads)
        /\ \A w \in Range(reads) :
              /\ w.act = "read" /\ w.path \in Paths /\ Parent(w.path) = q
              /\ Todo(w) /\ \A p \in Paths : Covers(w, p) => Covers(Head(work), p)
        /\ options.recursive =>
              \A i \in 1..Len(children) : children[i].kind = "directory" =>
                 \E w \in Range(reads) : w.act = "read" /\ w.path = children[i].path
    <3>1. AreRead(reads, children, q)
      BY Zenon, <1>1, <1>2, <1>7, RemoteReads
    <3>2. QED
      BY Zenon, <3>1 DEF AreRead
  <2>3. Clear(added, reads)
    <3>1. ASSUME NEW e \in Range(added), NEW w \in Range(reads), Covers(w, e.path) PROVE FALSE
      <4>1. PICK p, c : p = e.path /\ c = w.path
        BY Zenon
      <4>2. p \in Paths /\ c \in Paths /\ Parent(p) = q /\ Parent(c) = q
        BY Zenon, <1>8, <2>2, <4>1
      <4>3. Under(p, c)
        <5>1. w.act = "read"
          BY Zenon, <2>2
        <5>2. QED
          BY Zenon, <3>1, <4>1, <5>1 DEF Covers
      <4>4. c = Toward(p, q) /\ p = Toward(p, q)
        BY Zenon, <1>3, <4>2, <4>3, ChildCovers
      <4>5. p \in Seq(Nat)
        BY Zenon, <4>2, PathsAreSequences DEF Places
      <4>6. QED
        BY Zenon, <4>3, <4>4, <4>5, UnderOrder
    <3>2. QED
      BY Zenon, <3>1 DEF Clear
  <2>4. ASSUME NEW p \in steady, InScope(p), Covers(Head(work), p)
        PROVE  Accounted(p, added, reads)
    <3>1. Under(p, q)
      BY Zenon, <1>1, <1>2, <2>4 DEF Covers
    <3>2. PICK c : c = Toward(p, q)
      BY Zenon
    <3>3. /\ c \in Paths /\ Parent(c) = q /\ Exists(c)
          /\ p = c \/ (Under(p, c) /\ tree[c] = "directory")
          /\ Parent(p) = q => p = c
      BY Zenon, <1>1, <1>3, <3>1, <3>2, SteadyChild
    <3>4. PICK i \in 1..Len(children) : children[i].path = c
      BY Zenon, <1>7, <3>3 DEF Offspring
    <3>5. CASE p = c
      <4>1. added[i] \in Range(added) /\ added[i].path = p
        BY Zenon, <1>8, <2>1, <3>4, <3>5
      <4>2. QED
        BY Zenon, <4>1 DEF Accounted
    <3>6. CASE p # c
      <4>1. Under(p, c) /\ tree[c] = "directory" /\ Parent(p) # q
        BY Zenon, <3>3, <3>6
      <4>2. options.recursive
        BY Zenon, <1>3, <2>4, <4>1 DEF InScope, Dir
      <4>3. children[i].kind = "directory"
        BY Zenon, <1>7, <3>4, <4>1 DEF Offspring
      <4>4. PICK w \in Range(reads) : w.act = "read" /\ w.path = c
        BY Zenon, <2>2, <3>4, <4>2, <4>3
      <4>5. Covers(w, p)
        BY Zenon, <4>1, <4>4 DEF Covers
      <4>6. QED
        BY Zenon, <4>5 DEF Accounted
    <3>7. QED
      BY Zenon, <3>5, <3>6
  <2>5. Replaces(reads, added)
    BY Zenon, <1>8, <2>2, <2>3, <2>4 DEF Replaces
  <2>6. PICK todo : todo = Tail(work) \o reads
    BY Zenon
  <2>7. Continue(todo, all)
    BY Zenon, <1>11, <2>6
  <2>8. QED
    BY Zenon, <1>1, <1>6, <1>8, <1>11, <2>2, <2>5, <2>6, <2>7, WalksOn
<1>12. QED
  BY Zenon, <1>5, <1>6, <1>9, <1>10, <1>11 DEF Firsts

-----------------------------------------------------------------------------
(* The theorems about listings of trees.                                   *)

\* The invariant holds before the call.
LEMMA TreeBegins ==
    ASSUME TreeInit
    PROVE  TreeInv
<1>1. Len(<<>>) = 0 /\ Range(<<>>) = {} /\ 1..0 = {} /\ <<>> \in Seq(Work)
  BY DEF Range
<1>a. /\ tree \in [Paths \cup {<<>>} -> Kinds] /\ phase = "idle" /\ outcome = "ok" /\ checked = 0
      /\ work = <<>> /\ entries = <<>> /\ retried = FALSE /\ steady = {} /\ changes = 0
      /\ options \in [adapter : Adapters, directory : Directories, recursive : {FALSE}, limit : {1}]
  BY Zenon DEF TreeInit
<1>b. options \in [adapter : Adapters, directory : Directories, recursive : {FALSE}, limit : {1}]
  BY Zenon, <1>a
<1>2. /\ options \in [adapter : Adapters, directory : Directories, recursive : BOOLEAN, limit : Nat]
      /\ options.limit = 1 /\ options.directory \in Directories
  <2>1. /\ options.adapter \in Adapters /\ options.directory \in Directories
        /\ options.recursive = FALSE /\ options.limit = 1
        /\ options = [adapter |-> options.adapter, directory |-> options.directory,
                       recursive |-> options.recursive, limit |-> options.limit]
    BY Zenon, <1>b
  <2>2. 1 \in Nat
    OBVIOUS
  <2>3. options.recursive \in BOOLEAN /\ options.limit \in Nat
    BY Zenon, <2>1, <2>2
  <2>4. QED
    BY Zenon, <2>1, <2>3
<1>3. options.directory \in Seq(Nat)
  BY Zenon, <1>2, PathsAreSequences
<1>4. Len(options.directory) \in Nat /\ MaxList \in Nat /\ MaxList >= 1 /\ Changes \in Nat
  BY <1>3, TreeAssumption
<1>5. ListShape
  <2>1. TreeTypeOK
    <3>1. /\ checked \in 0..Len(options.directory) /\ changes \in 0..Changes
          /\ options.limit <= MaxList
      <4>1. 1 <= MaxList
        BY <1>4
      <4>2. QED
        BY Zenon, <1>a, <1>2, <1>4, <4>1, Counting
    <3>2. entries \in Seq([path : Paths, kind : {"file", "directory"}]) /\ steady \subseteq Paths
      BY Zenon, <1>a, Nothing
    <3>3. /\ phase \in {"idle", "check", "walk", "done"} /\ phase # "done"
          /\ outcome \in {"pending", "ok", "notfound", "error"} /\ retried \in BOOLEAN
          /\ outcome # "pending" <=> phase \in {"idle", "done"}
      BY Zenon, <1>a
    <3>4. QED
      BY Zenon, <1>1, <1>a, <1>2, <3>1, <3>2, <3>3 DEF TreeTypeOK
  <2>2. WithinLimit /\ OrderedOnce
    BY <1>1, <1>2 DEF TreeInit, WithinLimit, OrderedOnce, Listed
  <2>3. QED
    BY Zenon, <2>1, <2>2 DEF ListShape
<1>6. ShowsWhatStayed /\ ShowsWhatWas /\ NotFoundHasCause
  BY Zenon, <1>1 DEF TreeInit, ShowsWhatStayed, ShowsWhatWas, NotFoundHasCause, Listed
<1>7. Books /\ Progress /\ Complete
  BY Zenon DEF TreeInit, Books, Progress, Complete
<1>8. Leads /\ Apart
  <2>1. work = <<>> /\ entries = <<>>
    BY Zenon DEF TreeInit
  <2>2. QED
    BY Zenon, <1>1, <2>1 DEF Leads, Apart, Single, Alone, Clear
<1>9. QED
  BY Zenon, <1>5, <1>6, <1>7, <1>8 DEF TreeInv

\* Nothing changes when no variable does.
LEMMA TreeRests ==
    ASSUME TreeInv, UNCHANGED treeVars
    PROVE  TreeInv'
<1>1. /\ tree' = tree /\ phase' = phase /\ options' = options /\ checked' = checked
      /\ work' = work /\ entries' = entries /\ retried' = retried /\ outcome' = outcome
      /\ steady' = steady /\ seen' = seen /\ changes' = changes
  BY Zenon DEF treeVars
<1>2. ListShape'
  BY ZenonT(60), <1>1
     DEF TreeInv, ListShape, TreeTypeOK, WithinLimit, OrderedOnce, Listed, Local
<1>3. ShowsWhatStayed' /\ NotFoundHasCause'
  BY Zenon, <1>1 DEF TreeInv, ShowsWhatStayed, NotFoundHasCause, Listed, InScope
<1>4. ShowsWhatWas'
  BY Zenon, <1>1 DEF TreeInv, ShowsWhatWas, InScope, Deny
<1>5. Books' /\ Progress'
  BY Zenon, <1>1 DEF TreeInv, Books, Rooted, Exists, Progress, Full
<1>6. Leads'
  <2>1. \A w : Todo(w)' <=> Todo(w)
    BY Zenon, <1>1 DEF Todo, Dir, Local
  <2>2. QED
    BY Zenon, <1>1, <2>1 DEF TreeInv, Leads
<1>7. Apart' /\ Complete'
  BY Zenon, <1>1 DEF TreeInv, Apart, Complete, InScope
<1>8. QED
  BY Zenon, <1>2, <1>3, <1>4, <1>5, <1>6, <1>7 DEF TreeInv

\* The invariant holds throughout.
LEMMA TreeInvariance == TreeSpec => []TreeInv
<1>1. TreeInit => TreeInv
  BY TreeBegins
<1>2. TreeInv /\ [TreeNext]_treeVars => TreeInv'
  BY Zenon, TreeRests, ListKeeps, CheckSegmentKeeps, FinishKeeps, FailsKeeps, WalkRootKeeps,
     WalkReadKeeps, VisitKeeps, ReadRemoteKeeps, ReadGoneKeeps, ConnectionLostKeeps, ChangeKeeps
     DEF TreeNext
<1>3. QED
  BY <1>1, <1>2, PTL DEF TreeSpec

\* A listing of any tree, by any of the three adapters, has no more entries
\* than its limit, is in the order of the paths and shows nothing twice, however
\* the tree changes while it is walked (sortEntries, effectiveListLimit).
THEOREM TreeListingsAreWellFormed == TreeSpec => []ListShape
<1>1. TreeInv => ListShape
  BY Zenon DEF TreeInv
<1>2. QED
  BY <1>1, TreeInvariance, PTL

\* A listing that ends below its limit shows everything that stayed in place,
\* whatever else was created and removed, and after a reconnection too (List
\* and list).
THEOREM TreeListingsAreComplete == TreeSpec => []ShowsWhatStayed
<1>1. TreeInv => ShowsWhatStayed
  BY Zenon DEF TreeInv
<1>2. QED
  BY <1>1, TreeInvariance, PTL

\* A listing shows only what was in its scope at some time of the call, as the
\* file or directory that it was (List and list).
THEOREM TreeListingsAreTruthful == TreeSpec => []ShowsWhatWas
<1>1. TreeInv => ShowsWhatWas
  BY Zenon DEF TreeInv
<1>2. QED
  BY <1>1, TreeInvariance, PTL

\* A listing reports ErrNotFound only when its directory was not one, or when
\* something at or beneath it was removed during the call (mapError in List).
THEOREM MissingTreesHaveCause == TreeSpec => []NotFoundHasCause
<1>1. TreeInv => NotFoundHasCause
  BY Zenon DEF TreeInv
<1>2. QED
  BY <1>1, TreeInvariance, PTL
=============================================================================
