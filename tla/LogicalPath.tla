----------------------------- MODULE LogicalPath -----------------------------
(***************************************************************************)
(* filesystem.Path: names as callers write them, and the paths ParsePath   *)
(* makes of them.                                                          *)
(*                                                                         *)
(* A name is the sequence of the segments between its slashes.  Ordinary   *)
(* segments are positive numbers, which stand for the order of names; the  *)
(* segments that ParsePath and fs.ValidPath treat in a way of their own    *)
(* are the ones below.                                                     *)
(***************************************************************************)
EXTENDS Integers, Sequences, FiniteSets

Empty == 0        \* nothing between two slashes
Dot == -1         \* .
DotDot == -2      \* ..
Backslash == -3   \* a\b, which ParsePath reads as the segments 1 and 2
Unc == -4         \* \\a, which it would read as two empty segments and 1
Control == -5     \* with a control character
Volume == -6      \* C:

Root == <<>>

\* No path: ErrInvalidPath.
Invalid == <<Empty>>

\* What is left of a segment once its backslashes are slashes, as two pieces: an
\* empty segment more or less is nothing, since ParsePath drops them all.
Pieces(segment) ==
    CASE segment = Backslash -> <<1, 2>>
      [] segment = Unc -> <<Empty, 1>>
      [] OTHER -> <<segment, Empty>>

Split(name) == [n \in 1..(2 * Len(name)) |-> Pieces(name[(n + 1) \div 2])[2 - (n % 2)]]

\* The places of the segments that are kept, and the nth of them.
Kept(segments) == {i \in 1..Len(segments) : segments[i] \notin {Empty, Dot}}

Place(segments, n) ==
    CHOOSE i \in Kept(segments) : Cardinality({j \in Kept(segments) : j <= i}) = n

normalized(segments) ==
    [n \in 1..Cardinality(Kept(segments)) |-> segments[Place(segments, n)]]

hasWindowsVolume(name) == name[1] = Volume

ParsePath(name) ==
    LET segments == Split(name) IN
    IF \/ name[1] = Unc \/ hasWindowsVolume(name)
       \/ \E i \in 1..Len(segments) : segments[i] \in {Control, DotDot}
       \/ normalized(segments) = <<>>
       \/ hasWindowsVolume(normalized(segments))
    THEN Invalid ELSE normalized(segments)

\* Path.Base, of a path that is not the root, and Path.Dir.
Base(path) == path[Len(path)]

Dir(path) == IF path = Root THEN Root ELSE SubSeq(path, 1, Len(path) - 1)

\* Path.Join parses twice: what it appends, and the whole.
Join(path, relative) ==
    LET joined == ParsePath(relative)
    IN  IF joined = Invalid \/ path = Root THEN joined ELSE ParsePath(path \o joined)

\* fs.ValidPath: a name in the one form io/fs allows.
ValidPath(name) ==
    name = <<Dot>> \/ \A i \in 1..Len(name) : name[i] \notin {Empty, Dot, DotDot}

\* Mutant: a backslash is left to ParsePath.
ioFSPathBackslash(name) ==
    IF ~ValidPath(name) THEN Invalid
    ELSE IF name = <<Dot>> THEN Root ELSE ParsePath(name)

\* The path an io/fs name stands for.
ioFSPath(name) ==
    IF ~ValidPath(name) \/ \E i \in 1..Len(name) : name[i] \in {Backslash, Unc} THEN Invalid
    ELSE IF name = <<Dot>> THEN Root ELSE ParsePath(name)
=============================================================================
