-------------------------------- MODULE IOFS ---------------------------------
(***************************************************************************)
(* filesystem.IOFS: Open, Stat and ReadDir of io/fs on top of a reader, a  *)
(* statter and a lister, whose store others change between any two of the  *)
(* calls IOFS makes, and the directory that Open returns, which a caller   *)
(* reads in pieces.  Any call of a provider may fail.                      *)
(*                                                                         *)
(* A store is flat, like memory and S3, with keys for objects and none for *)
(* directories, or a tree, where what exists is in a directory.            *)
(***************************************************************************)
EXTENDS LogicalPath, Functions

CONSTANTS
    Keys,     \* the paths of the store
    Names,    \* names that callers ask for
    Counts,   \* arguments of ioFSDirectory.ReadDir
    Half,     \* an int is one of -Half..(Half - 1)
    MaxList,  \* the provider's cap on a listing
    Changes   \* bound: changes of the store during one call

ASSUME IOFSAssumption ==
    /\ IsFiniteSet(Keys)
    /\ \A k \in Keys : k \in Seq(Int) /\ k \notin {Root, Invalid} /\ ParsePath(k) = k
    /\ \A n \in Names : n \in Seq(Int) /\ n # <<>>
    /\ Half \in Nat /\ Counts \subseteq (-Half)..(Half - 1)
    /\ MaxList \in 1..(Half - 1)
    /\ Changes \in Nat

VARIABLES
    flat,      \* which kind of store
    objects,   \* what it has at each key
    request,   \* the call: operation, name and control state
    kind,      \* what metadata says the path is
    iterator,  \* EntryIterator: entries to come, failed, open
    entries,   \* collected by directoryEntries, then those of the directory
    outcome,   \* of the call
    offset,    \* ioFSDirectory.offset
    dirClosed, \* ioFSDirectory.closed
    given,     \* the entries ReadDir has returned, and whether it said EOF or panicked
    listed,    \* what the provider's latest List had to show
    seen,      \* what the path was at some time during the call
    vanished,  \* the listings during which one of its entries was removed
    changes    \* changes of the store during the call

fsVars == <<flat, objects, request, kind, iterator, entries, outcome, offset, dirClosed,
          given, listed, seen, vanished, changes>>
callVars == <<request, kind, iterator, entries, outcome, listed>>
handleVars == <<offset, dirClosed, given>>
storeVars == <<flat, objects, seen, vanished, changes>>

Kinds == {"none", "file", "directory"}

path == ioFSPath(request.name)

\* A path is in the tree beneath another.
Under(k, p) == Len(p) < Len(k) /\ SubSeq(k, 1, Len(p)) = p

Beneath(p) == {k \in Keys : Under(k, p) /\ objects[k] # "none"}

IsDirectory(p) == p = Root \/ Beneath(p) # {} \/ (p \in Keys /\ objects[p] = "directory")

At(p) == IF p \in Keys THEN objects[p] ELSE "none"

\* What the call's path is now.
Now == [kind |-> At(path), beneath |-> Beneath(path) # {}]

Legal ==
    \A k \in Keys : IF flat THEN objects[k] # "directory"
                    ELSE objects[k] # "none" /\ Dir(k) \in Keys => objects[Dir(k)] = "directory"

NoIterator == [rest |-> <<>>, failed |-> FALSE, open |-> FALSE]

NothingGiven == [entries |-> <<>>, eof |-> FALSE, panic |-> FALSE]

FSInit ==
    /\ flat \in BOOLEAN
    /\ objects \in [Keys -> Kinds] /\ Legal
    /\ request \in [op : {"open", "stat", "readdir"}, name : Names, pc : {"start"}]
    /\ kind = "none" /\ iterator = NoIterator /\ entries = <<>> /\ outcome = "pending"
    /\ offset = 0 /\ dirClosed = FALSE
    /\ given = NothingGiven
    /\ listed = {} /\ seen = {} /\ vanished = {} /\ changes = 0

FSTypeOK ==
    /\ flat \in BOOLEAN /\ objects \in [Keys -> Kinds] /\ Legal
    /\ request \in [op : {"open", "stat", "readdir"}, name : Names,
                 pc : {"start", "stat", "probe", "probing", "probed", "list", "listing",
                       "listed", "reader", "done"}]
    /\ path = Invalid => request.pc = "start" \/ outcome = "invalid"
    /\ kind \in Kinds
    /\ iterator.failed \in BOOLEAN /\ iterator.open \in BOOLEAN
    /\ outcome \in {"pending", "ok", "invalid", "notexist", "notdir", "error"}
    /\ outcome = "pending" <=> request.pc # "done"
    /\ offset \in 0..Len(entries)
    /\ dirClosed \in BOOLEAN
    /\ changes \in 0..Changes

-----------------------------------------------------------------------------
Proceed(pc) == request' = [request EXCEPT !.pc = pc]

\* The call returns; pathError has made ErrNotFound "notexist".
Answer(o) ==
    /\ Proceed("done")
    /\ outcome' = o

\* Once metadata has its answer.
Known(k) ==
    /\ kind' = k
    /\ entries' = <<>>
    /\ \/ request.op = "stat" /\ Answer("ok")
       \/ request.op = "readdir" /\ k = "file" /\ Answer("notdir")
       \/ request.op # "stat" /\ k = "directory" /\ Proceed("list") /\ UNCHANGED outcome
       \/ request.op = "open" /\ k = "file" /\ Proceed("reader") /\ UNCHANGED outcome

\* The name is looked at, and the root is a directory without asking.
Start ==
    /\ request.pc = "start"
    /\ IF path = Invalid THEN Answer("invalid") /\ UNCHANGED <<kind, entries>>
       ELSE IF path = Root THEN Known("directory")
       ELSE Proceed("stat") /\ UNCHANGED <<kind, entries, outcome>>
    /\ seen' = {Now}
    /\ UNCHANGED <<iterator, listed, handleVars, flat, objects, vanished, changes>>

\* metadata asks the statter.
Stat ==
    /\ request.pc = "stat"
    /\ \/ At(path) # "none" /\ Known(At(path))
       \/ At(path) = "none" /\ Proceed("probe") /\ UNCHANGED <<kind, entries, outcome>>
       \/ Answer("error") /\ UNCHANGED <<kind, entries>>
    /\ UNCHANGED <<iterator, listed, handleVars, storeVars>>

\* What a listing shows: the children in any order.  A key that is an object
\* and has others beneath it is shown as either or as both.
Children(p) ==
    [path : {SubSeq(k, 1, Len(p) + 1) : k \in Beneath(p)}, kind : {"file", "directory"}]

Shows(set, p) ==
    /\ \A e \in set : e.kind = "file" => At(e.path) = "file"
    /\ \A e \in set : e.kind = "directory" => IsDirectory(e.path)
    /\ \A e \in Children(p) : \E f \in set : f.path = e.path

Listings(p, limit) ==
    LET sets == {set \in SUBSET Children(p) : Shows(set, p)}
    IN  {SubSeq(s, 1, IF Len(s) < limit THEN Len(s) ELSE limit) :
            s \in UNION {Bijection(1..Cardinality(set), set) : set \in sets}}

\* A walk of a tree fails with ErrNotFound when an entry that it has read in the
\* directory is gone when it looks at it.
WalkFails == ~flat /\ request.pc \in vanished

\* The lister's List.  Nothing to list is an empty listing or ErrNotFound.
List(limit, next) ==
    \/ /\ \E s \in Listings(path, limit) :
             /\ iterator' = [rest |-> s, failed |-> FALSE, open |-> TRUE]
             /\ listed' = Range(s)
       /\ Proceed(next)
       /\ UNCHANGED outcome
    \/ /\ ~IsDirectory(path) \/ WalkFails
       /\ Answer("notexist")
       /\ UNCHANGED <<iterator, listed>>
    \/ Answer("error") /\ UNCHANGED <<iterator, listed>>

\* metadata looks for one entry beneath what the statter does not know.
Probe ==
    /\ request.pc = "probe"
    /\ List(1, "probing")
    /\ UNCHANGED <<kind, entries, handleVars, storeVars>>

\* directoryEntries.
ListDirectory ==
    /\ request.pc = "list"
    /\ List(MaxList, "listing")
    /\ UNCHANGED <<kind, entries, handleVars, storeVars>>

\* iterator.Next, once for metadata and as often as it can for a directory.
IteratorNext ==
    /\ request.pc \in {"probing", "listing"} /\ iterator.rest # <<>>
    /\ iterator' = [iterator EXCEPT !.rest = Tail(@)]
    /\ entries' = Append(entries, Head(iterator.rest))
    /\ Proceed(IF request.pc = "probing" THEN "probed" ELSE "listing")
    /\ UNCHANGED <<kind, outcome, listed, handleVars, storeVars>>

\* Next says no: there is no more, or Err says why.
IteratorEnds ==
    /\ request.pc \in {"probing", "listing"}
    /\ \/ iterator.rest = <<>> /\ UNCHANGED iterator
       \/ iterator' = [iterator EXCEPT !.failed = TRUE]
    /\ Proceed(IF request.pc = "probing" THEN "probed" ELSE "listed")
    /\ UNCHANGED <<kind, entries, outcome, listed, handleVars, storeVars>>

\* Mutant: whatever can be listed is a directory.
CloseProbeAlways ==
    /\ request.pc = "probed"
    /\ iterator' = NoIterator
    /\ Known("directory")
    /\ UNCHANGED <<listed, handleVars, storeVars>>

\* metadata closes its iterator, which may fail, and has its answer.
CloseProbe ==
    /\ request.pc = "probed"
    /\ iterator' = NoIterator
    /\ \/ Answer("error") /\ UNCHANGED <<kind, entries>>
       \/ /\ ~iterator.failed
          /\ IF entries # <<>> THEN Known("directory")
             ELSE Answer("notexist") /\ UNCHANGED <<kind, entries>>
    /\ UNCHANGED <<listed, handleVars, storeVars>>

\* sort.Slice by name, which leaves entries of one name in any order.
Sorted(s) ==
    LET places == 1..Len(s) IN
    {[i \in places |-> s[order[i]]] :
        order \in {f \in Bijection(places, places) :
                      \A i, j \in places :
                         i < j => Base(s[f[i]].path) <= Base(s[f[j]].path)}}

\* Mutant: what an iterator gave before it failed is the directory.
CloseListPartial ==
    /\ request.pc = "listed"
    /\ iterator' = NoIterator
    /\ Answer("ok") /\ entries' \in Sorted(entries)
    /\ UNCHANGED <<kind, listed, handleVars, storeVars>>

\* directoryEntries closes its iterator and sorts, or fails and has nothing.
CloseList ==
    /\ request.pc = "listed"
    /\ iterator' = NoIterator
    /\ \/ Answer("error") /\ entries' = <<>>
       \/ ~iterator.failed /\ Answer("ok") /\ entries' \in Sorted(entries)
    /\ UNCHANGED <<kind, listed, handleVars, storeVars>>

\* Open of a file asks the reader.
Reader ==
    /\ request.pc = "reader"
    /\ \/ At(path) = "file" /\ Answer("ok")
       \/ At(path) = "none" /\ Answer("notexist")
       \/ Answer("error")
    /\ UNCHANGED <<kind, iterator, entries, listed, handleVars, storeVars>>

\* Somebody else creates or removes an object or a directory.
Change ==
    /\ request.pc \notin {"start", "done"} /\ changes < Changes
    /\ \E k \in Keys, new \in Kinds :
          /\ (objects[k] = "none") # (new = "none")
          /\ objects' = [objects EXCEPT ![k] = new]
          /\ vanished' = IF new = "none" /\ Dir(k) = path
                         THEN vanished \cup ({request.pc} \cap {"probe", "list"})
                         ELSE vanished
    /\ UNCHANGED <<flat, callVars, handleVars>>
    /\ Legal'
    /\ seen' = seen \cup {Now'}
    /\ changes' = changes + 1

-----------------------------------------------------------------------------
(* The directory that Open has returned.                                   *)

Opened == request.op = "open" /\ outcome = "ok" /\ kind = "directory"

\* offset + count in Go's int.
Sum(count) == IF offset + count < Half THEN offset + count ELSE offset + count - 2 * Half

\* The end of what one ReadDir returns.
End(count) ==
    IF count <= 0 \/ Sum(count) >= Len(entries) THEN Len(entries) ELSE Sum(count)

\* The cursor after it.
Advance(count) == End(count)

\* A closed directory answers fs.ErrClosed, which changes nothing.  An end before
\* the offset, where the sum has overflowed, panics in the slice expression.
ReadDir ==
    /\ Opened /\ ~dirClosed
    /\ \E count \in Counts :
          /\ given' = [entries |-> given.entries \o SubSeq(entries, offset + 1, End(count)),
                       eof |-> count > 0 /\ offset >= Len(entries),
                       panic |-> offset < Len(entries) /\ End(count) < offset]
          /\ offset' = IF End(count) < offset THEN offset ELSE Advance(count)
    /\ UNCHANGED <<dirClosed, callVars, storeVars>>

Close ==
    /\ Opened /\ ~dirClosed
    /\ dirClosed' = TRUE
    /\ UNCHANGED <<offset, given, callVars, storeVars>>

FSNext ==
    \/ Start \/ Stat \/ Probe \/ ListDirectory \/ Reader
    \/ IteratorNext \/ IteratorEnds \/ CloseProbe \/ CloseList
    \/ ReadDir \/ Close
    \/ Change

FSSpec == FSInit /\ [][FSNext]_fsVars

-----------------------------------------------------------------------------
(* Properties.                                                             *)

\* Names and paths correspond (ioFSPath, ParsePath, Join, Dir, Base).  An accepted
\* name is the path it stands for.  A path made of any name parses to itself:
\* nothing that ParsePath drops hides what it refuses; Join puts it beneath
\* another path, from where Dir leads back.  And the way a walk goes, the name of
\* a directory and that of an entry in it make a name of that entry's path.
NamesDenote ==
    /\ path # Invalid => path = IF request.name = <<Dot>> THEN Root ELSE request.name
    /\ LET p == ParsePath(request.name) IN
       p # Invalid =>
           /\ ParsePath(p) = p
           /\ \A k \in Keys \cup {Root} :
                 Join(k, request.name) = k \o p /\ Dir(k \o <<Base(p)>>) = k
    /\ outcome = "ok" =>
          \A e \in Range(entries) :
              e.path = ioFSPath(IF path = Root THEN <<Base(e.path)>>
                                ELSE Append(request.name, Base(e.path)))

\* Whatever fails, no iterator stays open when a call of IOFS has returned.
IteratorsClosed ==
    iterator.open => request.pc \in {"probing", "probed", "listing", "listed"}

\* A directory is what the lister had to show, all of it, by name: an iterator
\* that fails half-way, or when it is closed, makes the call fail.
WholeDirectory ==
    outcome = "ok" /\ kind = "directory" /\ request.op # "stat" =>
        /\ Range(entries) = listed /\ Len(entries) = Cardinality(listed)
        /\ \A i \in 1..(Len(entries) - 1) : Base(entries[i].path) <= Base(entries[i + 1].path)

\* No walk has met an entry that was gone.
Undisturbed == flat \/ vanished = {}

\* IOFS makes several calls and has no snapshot, but what it reports was so at
\* some time during the call.  A path that stays what it is meanwhile is
\* reported as just that, directories of a flat store, too.  Excepted is a
\* directory of a tree store that loses an entry while it is listed: the walk's
\* ErrNotFound for the entry is reported as that of the directory.
ReportsWhatWas ==
    /\ outcome = "ok" =>
          IF kind = "file" THEN \E v \in seen : v.kind = "file"
          ELSE path = Root \/ \E v \in seen : v.kind = "directory" \/ v.beneath
    /\ outcome = "notdir" => \E v \in seen : v.kind = "file"
    /\ outcome = "notexist" /\ Undisturbed =>
          /\ \E v \in seen : v.kind = "none"
          /\ \E v \in seen : v.kind = "file" \/ ~v.beneath
    /\ \A v \in seen :
          seen = {v} /\ outcome \in {"ok", "notexist", "notdir"} /\ path # Root =>
              /\ v.kind = "none" /\ ~v.beneath => outcome = "notexist"
              /\ outcome = "notexist" /\ Undisturbed => v.kind = "none" /\ ~v.beneath
              /\ outcome = "ok" => kind = IF v.kind = "none" THEN "directory" ELSE v.kind

\* ioFSDirectory's cursor: whatever the counts, each entry is returned once and
\* in order, and io.EOF comes after all of them.  A count that is too large to add
\* to the offset panics, never at the first read, and the cursor stays.
CursorExact ==
    /\ given.entries = SubSeq(entries, 1, offset)
    /\ given.eof => offset = Len(entries)
    /\ given.panic => offset > 0

\* What a caller may rely on in a directory: all of it, in pieces that make up
\* the whole, and nothing left open behind it.
HandleInvariant == FSTypeOK /\ IteratorsClosed /\ WholeDirectory /\ CursorExact
=============================================================================
