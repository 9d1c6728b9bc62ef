------------------------------ MODULE ByteRanges ------------------------------
(***************************************************************************)
(* OpenRange of the four adapters that have it, in the arithmetic of a     *)
(* signed integer with Half values on either side of zero (2^63 for the    *)
(* code's int64), and the stream it returns, byte by byte.  The object is  *)
(* the one that was opened; it does not change.                            *)
(***************************************************************************)
EXTENDS Integers

CONSTANT Half   \* values on either side of zero

VARIABLES
    adapter,    \* whose OpenRange
    offset,     \* ByteRange.Offset
    length,     \* ByteRange.Length
    size,       \* of the object
    stage,      \* "asked", then "refused" or "open", at last "eof"
    position,   \* the next byte of the stream
    left        \* bytes the stream may still give

rangeVars == <<adapter, offset, length, size, stage, position, left>>

ASSUME HalfAssumption == Half \in Nat \ {0}

Maximum == Half - 1

Int64 == -Half..Maximum

\* The sum or difference of two integers, as the processor leaves it.
Wrap(n) ==
    IF n > Maximum THEN n - 2 * Half ELSE IF n < -Half THEN n + 2 * Half ELSE n

Low(a, b) == IF a < b THEN a ELSE b

RangeTypeOK ==
    /\ adapter \in {"memory", "local", "sftp", "s3"}
    /\ offset \in Int64 /\ length \in Int64
    /\ size \in 0..Maximum
    /\ stage \in {"asked", "refused", "open", "eof"}
    /\ position \in Int64
    /\ left \in 0..Maximum

RangeInit ==
    /\ adapter \in {"memory", "local", "sftp", "s3"}
    /\ offset \in Int64 /\ length \in Int64
    /\ size \in 0..Maximum
    /\ stage = "asked"
    /\ position = 0
    /\ left = 0

-----------------------------------------------------------------------------
Malformed == offset < 0 \/ length <= 0

\* Mutant: the end is computed before it is checked.
validByteRangeByEnd == ~Malformed /\ Wrap(offset + length) > 0

\* sftp: the last byte of the range is representable.
validByteRange == ~Malformed /\ Wrap(length - 1) <= Wrap(Maximum - offset)

\* s3: the last byte of a valid range.
inclusiveRangeEnd == Wrap(Wrap(offset + length) - 1)

Answers(p, first, count) ==
    /\ stage' = p
    /\ position' = first
    /\ left' = count
    /\ UNCHANGED <<adapter, offset, length, size>>

Refuse == Answers("refused", 0, 0)

\* memory: the end of the slice of the stored content.
sliceEnd == Wrap(offset + Low(length, Wrap(size - offset)))

OpenMemory ==
    /\ stage = "asked" /\ adapter = "memory"
    /\ IF Malformed \/ offset >= size THEN Refuse
       ELSE Answers("open", offset, sliceEnd - offset)

\* Mutant: no seek.
OpenLocalUnsought ==
    /\ stage = "asked" /\ adapter = "local"
    /\ IF Malformed \/ offset >= size THEN Refuse ELSE Answers("open", 0, length)

\* local: a seek, and a reader limited to the length.
OpenLocal ==
    /\ stage = "asked" /\ adapter = "local"
    /\ IF Malformed \/ offset >= size THEN Refuse ELSE Answers("open", offset, length)

\* sftp: the same without a look at the size.
OpenSftp ==
    /\ stage = "asked" /\ adapter = "sftp"
    /\ IF ~validByteRange THEN Refuse ELSE Answers("open", offset, length)

\* s3: the service gets the first and the last byte, and refuses a range that
\* begins beyond the object.
OpenS3 ==
    /\ stage = "asked" /\ adapter = "s3"
    /\ IF ~validByteRange \/ offset >= size THEN Refuse
       ELSE Answers("open", offset,
                    Low(inclusiveRangeEnd + 1 - offset, size - offset))

\* The caller reads a byte, or the end.
Read ==
    /\ stage = "open" /\ left > 0 /\ position < size
    /\ Answers("open", position + 1, left - 1)

End ==
    /\ stage = "open" /\ (left = 0 \/ position >= size)
    /\ Answers("eof", position, left)

RangeNext == OpenMemory \/ OpenLocal \/ OpenSftp \/ OpenS3 \/ Read \/ End

RangeSpec == RangeInit /\ [][RangeNext]_rangeVars

-----------------------------------------------------------------------------
(* Properties.                                                             *)

\* A stream read to its end has given exactly the bytes of the half-open range
\* [Offset, Offset+Length) that the object has (ByteRange of contracts.go),
\* for every range that is not refused, at the edge of int64 too.
ExactBytes ==
    stage = "eof" =>
        \A i \in 0..(size - 1) :
            (offset <= i /\ i < position) <=> (offset <= i /\ i < offset + length)

\* A range is refused only when it is malformed, begins beyond the object or,
\* by the adapters that name its last byte, ends beyond int64.
RefusedForAReason ==
    stage = "refused" =>
        \/ Malformed
        \/ offset >= size
        \/ adapter \in {"sftp", "s3"} /\ offset + length - 1 > Maximum
=============================================================================
