------------------------------ MODULE S3Listing ------------------------------
(***************************************************************************)
(* s3.Adapter.List: one listing of a bucket, page by page, while other     *)
(* programs put and delete objects between the pages, and the iterator it  *)
(* returns.                                                                *)
(*                                                                         *)
(* A key is the sequence of its segments, split at "/", and a segment is a *)
(* number that stands for its place in the byte order: 0 for the segments  *)
(* ParsePath drops ("" and "."), 1 for "..", the names above.  A key that  *)
(* ends in "/" ends in a 0.  A name may have a backslash in it, which      *)
(* ParsePath makes a slash.                                                *)
(***************************************************************************)
EXTENDS Integers, Sequences, Functions, FiniteSets

CONSTANTS
    Keys,        \* the keys the bucket can hold
    Backslashed, \* of a name with a backslash, the segments around it
    Prefix,      \* Adapter.prefix, parsed and split
    Directories, \* the directories listed
    Limits,      \* the ListOptions.Limit values asked for
    MaxList,     \* Adapter.maxList
    PageMax      \* keys in one page of the service: 1000

VARIABLES
    bucket,      \* the keys of the objects in the bucket
    phase,       \* of the List call and its iterator
    options,     \* directory, recursive, limit
    maxKeys,     \* input.MaxKeys
    token,       \* input.ContinuationToken: the last item served, or None
    entries,     \* collected, then left in the iterator
    current,     \* the entries the iterator has given out
    broken,      \* a truncated page came without a token
    steady,      \* keys in the bucket throughout the call
    seen         \* keys in the bucket at some time during the call

vars == <<bucket, phase, options, maxKeys, token, entries, current, broken, steady, seen>>

Kinds == {"file", "directory"}

None == <<>>

ASSUME ListingAssumption ==
    /\ \A k \in Keys : k \in Seq(Nat) /\ k # None
    /\ Backslashed \in [DOMAIN Backslashed -> Nat \X Nat]
    /\ DOMAIN Backslashed \cap {0, 1} = {}
    /\ Prefix \in Seq(Nat \ ({0, 1} \cup DOMAIN Backslashed))
    /\ Directories \subseteq Seq(Nat \ ({0, 1} \cup DOMAIN Backslashed))
    /\ Limits \subseteq Int
    /\ MaxList \in Nat \ {0}
    /\ PageMax \in Nat \ {0}

Low(a, b) == IF a < b THEN a ELSE b

Phases == {"idle", "page", "listed", "failed", "closed"}

TypeOK ==
    /\ bucket \subseteq Keys
    /\ phase \in Phases
    /\ options \in [directory : Directories, recursive : BOOLEAN, limit : Int]
    /\ phase \in {"page", "listed"} => options.limit \in 1..MaxList
    /\ maxKeys \in 0..PageMax
    /\ token = None \/ token.kind \in Kinds
    /\ \A i \in 1..Len(entries) : entries[i].kind \in Kinds
    /\ broken \in BOOLEAN
    /\ steady \subseteq seen /\ seen \subseteq Keys

Init ==
    /\ bucket \in SUBSET Keys
    /\ phase = "idle"
    /\ options \in [directory : Directories, recursive : {FALSE}, limit : {0}]
    /\ maxKeys = 0
    /\ token = None
    /\ entries = <<>> /\ current = <<>>
    /\ broken = FALSE
    /\ steady = {} /\ seen = {}

-----------------------------------------------------------------------------
(* Keys and paths.                                                         *)

\* strings.HasPrefix, of a prefix that ends where a segment does.
HasPrefix(k, prefix) == Len(prefix) <= Len(k) /\ SubSeq(k, 1, Len(prefix)) = prefix

Beneath(k, prefix) == HasPrefix(k, prefix) /\ k # prefix

\* The byte order of keys and paths.
Before(s, t) ==
    \/ Beneath(t, s)
    \/ \E i \in 1..Low(Len(s), Len(t)) :
          SubSeq(s, 1, i - 1) = SubSeq(t, 1, i - 1) /\ s[i] < t[i]

\* What is left of a segment once its backslash is a slash, as two pieces: an
\* empty segment more or less is nothing, since ParsePath drops them all.
Pieces(segment) ==
    IF segment \in DOMAIN Backslashed THEN Backslashed[segment] ELSE <<segment, 0>>

Slashed(value) == [n \in 1..(2 * Len(value)) |-> Pieces(value[(n + 1) \div 2])[2 - (n % 2)]]

\* The places of the segments that are not empty, and the nth of them.
Kept(value) == {i \in 1..Len(value) : value[i] # 0}

Place(value, n) ==
    CHOOSE i \in Kept(value) : Cardinality({j \in Kept(value) : j <= i}) = n

\* A value without its empty segments.
Normalized(value) == [n \in 1..Cardinality(Kept(value)) |-> value[Place(value, n)]]

\* Mutant: parent segments are dropped too.
ParsePathDropsParent(value) ==
    Normalized([i \in 1..(2 * Len(value)) |->
                  IF Slashed(value)[i] = 1 THEN 0 ELSE Slashed(value)[i]])

\* ParsePath: makes backslashes slashes and drops empty segments; refuses parent
\* segments and what has no segment left.
ParsePath(value) == IF 1 \in Range(Slashed(value)) THEN None ELSE Normalized(Slashed(value))

key(p) == Prefix \o p

\* The logical path of a key, None when it has none.  The "/" that ends a
\* common prefix is not part of its segments.
logicalPath(k) ==
    IF HasPrefix(k, Prefix)
    THEN ParsePath(SubSeq(k, Len(Prefix) + 1, Len(k)))
    ELSE None

effectiveListLimit(requested, maximum) ==
    IF requested = 0 THEN maximum ELSE Low(requested, maximum)

\* MaxKeys of the next request.
pageSize(limit, collected) == Low(limit - collected, PageMax)

\* The keys to list begin with the directory's key and a "/".
ListPrefix == IF options.directory = <<>> THEN Prefix ELSE key(options.directory)

-----------------------------------------------------------------------------
(* The service.                                                            *)

\* What the service returns for a key: the key, or under a delimiter the
\* common prefix that it shares with others.
Item(k) ==
    LET depth == Len(ListPrefix) + 1
    IN  IF options.recursive \/ Len(k) = depth
        THEN [path |-> k, kind |-> "file"]
        ELSE [path |-> SubSeq(k, 1, depth), kind |-> "directory"]

Listed(keys) == {k \in keys : Beneath(k, ListPrefix)}

\* The order of items: "a" comes before "a/".
ItemBefore(i, j) ==
    \/ Before(i.path, j.path)
    \/ i.path = j.path /\ i.kind = "file" /\ j.kind = "directory"

\* The items after the continuation token.
Remaining ==
    {i \in {Item(k) : k \in Listed(bucket)} : token = None \/ ItemBefore(token, i)}

-----------------------------------------------------------------------------
(* List.                                                                   *)

Entry(item) == [path |-> logicalPath(item.path), kind |-> item.kind]

\* A page has its Contents before its CommonPrefixes.
PageBefore(i, j) ==
    IF i.kind = j.kind THEN ItemBefore(i, j) ELSE i.kind = "file"

\* The sequence in which the items of a page come.
Arrangements(S) ==
    {s \in Bijection(1..Cardinality(S), S) :
        \A i, j \in DOMAIN s : i < j => PageBefore(s[i], s[j])}

\* The entries of a page, without the keys that are no logical path.
PageEntries(page) ==
    {[n \in DOMAIN items |-> Entry(items[n])] :
        items \in Arrangements({i \in page : logicalPath(i.path) # None})}

\* Mutant: pages are appended and never sorted.
newIteratorUnsorted(collected) == {collected}

\* newIterator: slices.SortFunc leaves entries of one path in any order.
newIterator(collected) ==
    LET places == 1..Len(collected) IN
    {[i \in places |-> collected[order[i]]] :
        order \in {f \in Bijection(places, places) :
                      \A i, j \in places :
                         i < j => ~Before(collected[f[j]].path, collected[f[i]].path)}}

\* The caller lists a directory, once: a later call begins as this one does.
List ==
    /\ phase = "idle"
    /\ \E directory \in Directories, recursive \in BOOLEAN, limit \in Limits :
          LET bound == effectiveListLimit(limit, MaxList) IN
          /\ options' = [directory |-> directory, recursive |-> recursive, limit |-> bound]
          /\ IF limit < 0
             THEN phase' = "failed" /\ maxKeys' = 0
             ELSE phase' = "page" /\ maxKeys' = pageSize(bound, 0)
    /\ token' = None /\ entries' = <<>> /\ current' = <<>> /\ broken' = FALSE
    /\ steady' = bucket /\ seen' = bucket
    /\ UNCHANGED bucket

\* Mutant: the first page is taken for the whole listing.
paginationCompleteAtOnce(truncated, next) == TRUE

\* Mutant: only the limit ends the loop.
paginationCompleteNever(truncated, next) == FALSE

\* paginationComplete: no more pages, or no token to ask for them.
paginationComplete(truncated, next) == ~truncated \/ next = None

\* A page is the first of the remaining items, at most PageMax and not none.
IsPage(page) ==
    /\ IsFiniteSet(page) /\ Cardinality(page) <= PageMax
    /\ page = {} => Remaining = {}
    /\ \A i \in page, j \in Remaining \ page : ItemBefore(i, j)

IsLast(item, page) == item \in page /\ \A i \in page : i = item \/ ItemBefore(i, item)

\* Enough is collected, or there is no more: the entries are sorted.
Collected(collected) ==
    /\ phase' = "listed"
    /\ entries' \in newIterator(SubSeq(collected, 1, Low(Len(collected), options.limit)))
    /\ UNCHANGED <<token, maxKeys>>

\* Another page is asked for.
AskMore(collected, next) ==
    /\ entries' = collected
    /\ token' = next
    /\ maxKeys' = pageSize(options.limit, Len(collected))
    /\ UNCHANGED phase

\* One round of the loop.  The service may serve fewer items than asked for, or
\* more, and says that the page is truncated when there are others.
Page ==
    /\ phase = "page"
    /\ \E page \in SUBSET Remaining, next \in Remaining \cup {None} :
          LET truncated == page # Remaining IN
          /\ IsPage(page)
          /\ next # None => truncated /\ IsLast(next, page)
          /\ broken' = (truncated /\ next = None)
          /\ \E added \in PageEntries(page) :
                LET collected == entries \o added IN
                IF Len(collected) >= options.limit \/ paginationComplete(truncated, next)
                THEN Collected(collected)
                ELSE AskMore(collected, next)
    /\ UNCHANGED <<bucket, options, current, steady, seen>>

\* A request fails, or the context ends: no iterator.
PageFails ==
    /\ phase = "page"
    /\ phase' = "failed"
    /\ entries' = <<>>
    /\ UNCHANGED <<bucket, options, maxKeys, token, current, broken, steady, seen>>

-----------------------------------------------------------------------------
(* The iterator, and the rest of the world.                                *)

IterNext ==
    /\ phase = "listed" /\ entries # <<>>
    /\ current' = Append(current, Head(entries))
    /\ entries' = Tail(entries)
    /\ UNCHANGED <<bucket, phase, options, maxKeys, token, broken, steady, seen>>

\* Close: Next returns false from now on.
IterClose ==
    /\ phase = "listed"
    /\ phase' = "closed"
    /\ UNCHANGED <<bucket, options, maxKeys, token, entries, current, broken, steady, seen>>

\* Another program puts or deletes an object while the listing runs.
Change ==
    /\ phase = "page"
    /\ \E k \in Keys :
          \/ k \notin bucket /\ bucket' = bucket \cup {k}
          \/ k \in bucket /\ bucket' = bucket \ {k}
    /\ steady' = steady \cap bucket'
    /\ seen' = seen \cup bucket'
    /\ UNCHANGED <<phase, options, maxKeys, token, entries, current, broken>>

Next == List \/ Page \/ PageFails \/ IterNext \/ IterClose \/ Change

Spec == Init /\ [][Next]_vars

-----------------------------------------------------------------------------
(* Properties.                                                             *)

\* Collected or in the iterator's hands.
Result == IF phase = "page" THEN entries ELSE current \o entries

\* No more entries than the limit, even from a service that returns more keys
\* than it was asked for (List).
WithinLimit == phase \in {"page", "listed", "closed"} => Len(Result) <= options.limit

\* Each request asks for at least one key, and for no more than are missing
\* (pageSize): none is asked for in vain, and the loop cannot stall.
AsksForTheRest ==
    phase = "page" => maxKeys \in 1..(options.limit - Len(entries))

\* Completeness without a snapshot: a listing that ends below its limit shows
\* every object that was there from its start to its end, whatever was put and
\* deleted around it (List and paginationComplete).
ShowsWhatStayed ==
    phase \in {"listed", "closed"} /\ ~broken /\ Len(Result) < options.limit =>
        \A k \in Listed(steady) :
            logicalPath(Item(k).path) # None => Entry(Item(k)) \in Range(Result)

\* A listing shows only objects that were there at some time of the call, or
\* the directories of such.  It shows each under its key, but for the empty
\* segments of that key and with slashes for its backslashes, and so within the
\* directory that was asked for (List, logicalPath and ParsePath).
ShowsWhatWas ==
    \A e \in Range(Result) :
        /\ HasPrefix(key(e.path), ListPrefix)
        /\ \E k \in Listed(seen) :
              /\ e.kind = Item(k).kind
              /\ key(e.path) = Normalized(Slashed(Item(k).path))

\* The iterator gives entries out in the order of their paths (newIterator).
Ordered ==
    phase = "listed" =>
        \A i \in 1..Len(Result) : \A j \in 1..(i - 1) : ~Before(Result[i].path, Result[j].path)

Normal(k) == Range(k) \cap ({0, 1} \cup DOMAIN Backslashed) = {}

\* Keys written through this library are listed once, even when a page is cut
\* between two changes of the bucket (List's continuation token).
ListedOnce ==
    (\A k \in seen : Normal(k)) =>
        \A i, j \in 1..Len(Result) : Result[i] = Result[j] => i = j

\* What a caller may rely on in any listing: its length, its order, no entry
\* twice; and each request is for what is still missing.
ListShape == TypeOK /\ WithinLimit /\ AsksForTheRest /\ Ordered /\ ListedOnce

\* The loop ends: each round that asks for another page has moved past the one
\* it asked for before, whatever is put into the bucket meanwhile (List and
\* paginationComplete).
PagesAdvance ==
    [][phase = "page" /\ phase' = "page" /\ UNCHANGED bucket =>
          token' # None /\ (token = None \/ ItemBefore(token, token'))]_vars
=============================================================================
