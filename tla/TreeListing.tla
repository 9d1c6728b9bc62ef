----------------------------- MODULE TreeListing -----------------------------
(***************************************************************************)
(* List of the adapters on trees of directories, local, sftp and ftp, while *)
(* other programs change the tree.  The local adapter walks depth first    *)
(* (fs.WalkDir); the remote ones keep a queue of directories to read, and  *)
(* start again once when their connection is lost.  Reading a directory is *)
(* one step; everything between two reads can change.                      *)
(*                                                                         *)
(* A path is a sequence of numbers, which stand for the order of names.    *)
(* Symbolic links lead nowhere: what is behind them is not modelled, nor   *)
(* is an FTP server whose LIST of a file describes the file itself.        *)
(***************************************************************************)
EXTENDS Integers, Sequences, Functions, FiniteSets

CONSTANTS
    Adapters,    \* local or remote, and whether symbolic links are denied
    Paths,       \* the paths below the root
    Extends,     \* <<m, n>>: name n is name m and a byte that comes before "/"
    Directories, \* the directories listed
    Limits,      \* the ListOptions.Limit values asked for
    MaxList,     \* the remote adapters' maxList
    Changes      \* bound: changes of the tree during one call

VARIABLES
    tree,        \* what is at each path
    phase,       \* of the List call
    options,     \* adapter, directory, recursive, limit
    checked,     \* segments of the directory found not to be links
    work,        \* the walk's stack, or the queue of directories
    entries,     \* collected
    retried,     \* the one reconnection is spent
    outcome,     \* of the call
    steady,      \* paths that stayed what they were throughout the call
    seen,        \* what was at some path at some time during the call
    changes      \* how often the tree has changed during the call

treeVars ==
    <<tree, phase, options, checked, work, entries, retried, outcome, steady, seen, changes>>

Kinds == {"none", "file", "directory", "link"}

\* Entries of a directory to visit, and directories to read.
Work == [act : {"stat", "read", "visit"}, path : Paths \cup {<<>>}, kind : Kinds]

ASSUME TreeAssumption ==
    /\ Adapters \subseteq [local : BOOLEAN, deny : BOOLEAN]
    \* the remote adapters always deny links
    /\ \A a \in Adapters : a.local \/ a.deny
    /\ \A pair \in Extends : pair[1] < pair[2]
    /\ IsFiniteSet(Paths)
    /\ \A p \in Paths : p \in Seq(Nat) /\ p # <<>> /\ \A n \in 1..Len(p) : SubSeq(p, 1, n) \in Paths
    /\ Directories \subseteq Paths \cup {<<>>}
    /\ Limits \subseteq Int
    /\ MaxList \in Nat \ {0}
    /\ Changes \in Nat

Unlimited == 0

Local == options.adapter.local
Deny == options.adapter.deny

TreeTypeOK ==
    /\ tree \in [Paths \cup {<<>>} -> Kinds]
    /\ phase \in {"idle", "check", "walk", "done"}
    /\ options \in [adapter : Adapters, directory : Directories, recursive : BOOLEAN, limit : Nat]
    /\ ~Local => options.limit <= MaxList
    /\ checked \in 0..Len(options.directory)
    /\ work \in Seq(Work)
    /\ entries \in Seq([path : Paths, kind : {"file", "directory"}])
    /\ retried \in BOOLEAN
    /\ outcome \in {"pending", "ok", "notfound", "error"}
    /\ outcome # "pending" <=> phase \in {"idle", "done"}
    /\ outcome # "ok" /\ phase = "done" => entries = <<>>
    /\ steady \subseteq Paths
    /\ changes \in 0..Changes

Exists(p) == tree[p] # "none"

\* A tree: what exists is in a directory, and that in others up to the root.
Rooted(t) ==
    /\ t[<<>>] = "directory"
    /\ \A p \in Paths : t[p] # "none" =>
          \A n \in 0..(Len(p) - 1) : t[SubSeq(p, 1, n)] = "directory"

TreeInit ==
    /\ tree \in [Paths \cup {<<>>} -> Kinds] /\ Rooted(tree)
    /\ phase = "idle" /\ outcome = "ok"
    /\ options \in [adapter : Adapters, directory : Directories, recursive : {FALSE}, limit : {1}]
    /\ checked = 0
    /\ work = <<>> /\ entries = <<>>
    /\ retried = FALSE
    /\ steady = {} /\ seen = {}
    /\ changes = 0

-----------------------------------------------------------------------------
\* A path is in the tree beneath another.
Under(p, q) == Len(q) < Len(p) /\ SubSeq(p, 1, Len(q)) = q

Parent(p) == SubSeq(p, 1, Len(p) - 1)

\* The byte order of paths: "a" before "a-" before "a/b".
Before(s, t) ==
    \/ Under(t, s)
    \/ \E i \in (1..Len(s)) \cap (1..Len(t)) :
          /\ SubSeq(s, 1, i - 1) = SubSeq(t, 1, i - 1) /\ s[i] # t[i]
          /\ CASE <<s[i], t[i]>> \in Extends -> Len(s) = i
               [] <<t[i], s[i]>> \in Extends -> Len(t) > i
               [] OTHER -> s[i] < t[i]

\* Mutant: the entries stay in the order of the walk.
sortEntriesNot(collected) == {collected}

\* sortEntries: slices.SortFunc leaves entries of one path in any order.
sortEntries(collected) ==
    LET places == 1..Len(collected) IN
    {[i \in places |-> collected[order[i]]] :
        order \in {f \in Bijection(places, places) :
                      \A i, j \in places :
                         i < j => ~Before(collected[f[j]].path, collected[f[i]].path)}}

\* The sequence of a set of items with different paths, in the order of these.
ByName(items) ==
    {s \in Bijection(1..Cardinality(items), items) :
        \A i, j \in DOMAIN s : i < j => Before(s[i].path, s[j].path)}

\* What a directory holds, by name.
Children(p) ==
    ByName({[path |-> q, kind |-> tree[q]] : q \in {q \in Paths : Parent(q) = p /\ Exists(q)}})

\* A link that is let through is listed as a file.
Entry(child) ==
    [path |-> child.path, kind |-> IF child.kind = "directory" THEN "directory" ELSE "file"]

effectiveListLimit(requested, maximum) ==
    IF requested = 0 \/ requested > maximum THEN maximum ELSE requested

Full(collected) == options.limit # Unlimited /\ Len(collected) >= options.limit

\* The call returns an iterator over the sorted entries, or an error and none.
Return(o, collected) ==
    /\ phase' = "done"
    /\ outcome' = o
    /\ entries' \in IF o = "ok" THEN sortEntries(collected) ELSE {<<>>}
    /\ work' = <<>>
    /\ UNCHANGED <<tree, options, checked, retried, steady, seen, changes>>

Continue(todo, collected) ==
    /\ work' = todo
    /\ entries' = collected
    /\ UNCHANGED <<tree, phase, options, checked, retried, outcome, steady, seen, changes>>

-----------------------------------------------------------------------------
(* The call.                                                               *)

\* Nodes are remembered as they are: a path and its kind.
Nodes == {<<p, tree[p]>> : p \in {q \in Paths : Exists(q)}}

\* One call: a later one begins as this one does.
List ==
    /\ phase = "idle"
    /\ \E recursive \in BOOLEAN, limit \in Limits :
          /\ options' = [options EXCEPT !.recursive = recursive,
                         !.limit = IF limit < 0 THEN 1
                                   ELSE IF Local THEN limit
                                   ELSE effectiveListLimit(limit, MaxList)]
          /\ phase' = IF limit < 0 THEN "done" ELSE "check"
          /\ outcome' = IF limit < 0 THEN "error" ELSE "pending"
    /\ checked' = 0 /\ work' = <<>> /\ entries' = <<>> /\ retried' = FALSE
    /\ steady' = {p \in Paths : Exists(p)} /\ seen' = Nodes \cup {<<<<>>, "directory">>}
    /\ changes' = 0
    /\ UNCHANGED tree

\* The work a walk begins with: fs.WalkDir looks at its root first.
Begin ==
    /\ phase' = "walk"
    /\ work' = <<[act |-> IF Local THEN "stat" ELSE "read",
                  path |-> options.directory, kind |-> "directory"]>>
    /\ UNCHANGED <<tree, options, checked, entries, retried, outcome, steady, seen, changes>>

\* What the local system says of an absent path: ENOTDIR below a file.
Missing(p) ==
    IF \E q \in Paths : Under(p, q) /\ tree[q] = "file" THEN "error" ELSE "notfound"

\* checkSymlinks, rejectSymlinks and rejectLink: the segments of the directory
\* one by one, up to the first that does not exist.
CheckSegment ==
    LET p == SubSeq(options.directory, 1, checked + 1) IN
    /\ phase = "check"
    /\ IF checked = Len(options.directory) \/ ~Deny THEN Begin
       ELSE IF ~Exists(p) THEN
          IF Local /\ Missing(p) = "error" THEN Return("error", <<>>) ELSE Begin
       ELSE IF tree[p] = "link" THEN Return("error", <<>>)
       ELSE /\ checked' = checked + 1
            /\ UNCHANGED <<tree, phase, options, work, entries, retried, outcome,
                           steady, seen, changes>>

Working(act) == phase = "walk" /\ work # <<>> /\ Head(work).act = act

\* Mutant: an empty listing is taken for a missing directory.
FinishEmpty ==
    /\ phase = "walk" /\ work = <<>>
    /\ Return(IF entries = <<>> THEN "notfound" ELSE "ok", entries)

\* The walk is over: the entries are sorted and returned.
Finish ==
    /\ phase = "walk" /\ work = <<>>
    /\ Return("ok", entries)

\* A call fails: permissions, a broken disk, the end of the context.
Fails ==
    /\ phase \in {"check", "walk"}
    /\ Return("error", <<>>)

-----------------------------------------------------------------------------
(* The local adapter: fs.WalkDir and the function it calls.                *)

Item(act, child) == [act |-> act, path |-> child.path, kind |-> child.kind]

\* The root of the walk; a file has nothing to list.
WalkRoot ==
    LET p == options.directory IN
    /\ Local /\ Working("stat")
    /\ CASE tree[p] = "directory" ->
              Continue(<<[act |-> "read", path |-> p, kind |-> "directory"]>> \o Tail(work),
                       entries)
         [] tree[p] = "file" -> Return("ok", <<>>)
         [] OTHER -> Return(Missing(p), <<>>)

\* ReadDir: the children are visited before what is left.
WalkRead ==
    LET p == Head(work).path IN
    /\ Local /\ Working("read")
    /\ CASE tree[p] = "directory" ->
              \E children \in Children(p) :
                  Continue([i \in 1..Len(children) |-> Item("visit", children[i])] \o Tail(work),
                           entries)
         [] tree[p] = "none" -> Return(Missing(p), <<>>)
         [] OTHER -> Return("error", <<>>)

\* Mutant: a listing that is not recursive shows all the walk comes across.
NestedNever(p) == FALSE

\* Deeper than a child of the directory.
Nested(p) == Len(p) > Len(options.directory) + 1

\* The function of the walk.  Info can fail for an entry that is gone.  A child
\* directory is read even when the listing is not recursive.
Visit ==
    LET item == Head(work)
        collected == Append(entries, Entry(item))
        below == [item EXCEPT !.act = "read"]
    IN
    /\ Local /\ Working("visit")
    /\ IF ~options.recursive /\ Nested(item.path) THEN Continue(Tail(work), entries)
       ELSE IF item.kind = "link" /\ Deny THEN Return("error", <<>>)
       ELSE \/ ~Exists(item.path) /\ Return(Missing(item.path), <<>>)
            \/ IF Full(collected) THEN Return("ok", collected)
               ELSE Continue(IF item.kind = "directory" THEN <<below>> \o Tail(work)
                             ELSE Tail(work), collected)

-----------------------------------------------------------------------------
(* The remote adapters.                                                    *)

\* The directories among the children, to be read later.
Reads(children) ==
    IF options.recursive
    THEN ByName({Item("read", c) : c \in {c \in Range(children) : c.kind = "directory"}})
    ELSE {<<>>}

\* list: one directory, all of its entries up to the limit or to a link.
ReadRemote ==
    /\ ~Local /\ Working("read")
    /\ tree[Head(work).path] = "directory"
    /\ \E children \in Children(Head(work).path) : \E n \in 0..Len(children) :
          LET all == entries \o [i \in 1..n |-> Entry(children[i])] IN
          /\ \A i \in 1..n : children[i].kind # "link"
          /\ n < Len(children) => children[n + 1].kind = "link"
          /\ IF Full(all) THEN Return("ok", SubSeq(all, 1, options.limit))
             ELSE IF n < Len(children) THEN Return("error", <<>>)
             ELSE \E reads \in Reads(children) : Continue(Tail(work) \o reads, all)

\* Mutant: a directory that is gone ends the listing quietly.
ReadGoneStops ==
    /\ ~Local /\ Working("read")
    /\ tree[Head(work).path] # "directory"
    /\ Return("ok", entries)

\* A directory that is gone: the server says so, or lists nothing (LIST).
ReadGone ==
    /\ ~Local /\ Working("read")
    /\ tree[Head(work).path] # "directory"
    /\ Return("notfound", <<>>) \/ Continue(Tail(work), entries)

\* The connection is lost: list runs once more from its beginning.
ConnectionLost ==
    /\ ~Local /\ phase \in {"check", "walk"}
    /\ IF retried THEN Return("error", <<>>)
       ELSE /\ phase' = "check" /\ retried' = TRUE
            /\ checked' = 0 /\ work' = <<>> /\ entries' = <<>>
            /\ UNCHANGED <<tree, options, outcome, steady, seen, changes>>

-----------------------------------------------------------------------------
\* Another program creates or removes something while the call runs.
Change ==
    /\ phase \in {"check", "walk"} /\ changes < Changes
    /\ \E p \in Paths, kind \in Kinds :
          /\ Exists(p) <=> kind = "none"
          /\ tree' = [tree EXCEPT ![p] = kind]
          /\ Rooted(tree')
          /\ steady' = steady \ {p}
          /\ seen' = seen \cup {<<p, kind>>}
    /\ changes' = changes + 1
    /\ UNCHANGED <<phase, options, checked, work, entries, retried, outcome>>

TreeNext ==
    \/ List \/ CheckSegment \/ Finish \/ Fails
    \/ WalkRoot \/ WalkRead \/ Visit
    \/ ReadRemote \/ ReadGone \/ ConnectionLost
    \/ Change

TreeSpec == TreeInit /\ [][TreeNext]_treeVars

-----------------------------------------------------------------------------
(* Properties.                                                             *)

Listed == phase = "done" /\ outcome = "ok"

\* What a listing of the directory is about.
InScope(p) ==
    /\ Under(p, options.directory)
    /\ options.recursive \/ Parent(p) = options.directory

\* No more entries than the limit (List of the three adapters).
WithinLimit == options.limit # Unlimited => Len(entries) <= options.limit

\* Completeness without a snapshot: a listing that ends below its limit shows
\* everything that stayed in place during the call, however the tree changed
\* around it, and after a reconnection too.
ShowsWhatStayed ==
    Listed /\ (options.limit = Unlimited \/ Len(entries) < options.limit) =>
        \A p \in steady : InScope(p) => \E i \in 1..Len(entries) : entries[i].path = p

\* A listing shows only what was in its scope at some time of the call, as the
\* file or directory that it was; a link only where links are allowed.
ShowsWhatWas ==
    \A i \in 1..Len(entries) :
        LET e == entries[i] IN
        /\ InScope(e.path)
        /\ \/ <<e.path, e.kind>> \in seen
           \/ ~Deny /\ e.kind = "file" /\ <<e.path, "link">> \in seen

\* Nothing is listed twice, and the order is that of the paths (sortEntries).
OrderedOnce ==
    Listed => \A i \in 1..Len(entries) : \A j \in 1..(i - 1) :
                  Before(entries[j].path, entries[i].path)

\* What a caller may rely on in any listing: its length and its order, no entry
\* twice, and no entries with an error.
ListShape == TreeTypeOK /\ WithinLimit /\ OrderedOnce

\* ErrNotFound has a cause: the directory was not one, or it or something
\* beneath it was removed during the call.  A tree that holds still is never
\* reported missing (mapError is given the listed directory for whatever is
\* missing beneath it).
NotFoundHasCause ==
    outcome = "notfound" =>
        \/ <<options.directory, "directory">> \notin seen
        \/ \E p \in Paths : /\ p = options.directory \/ Under(p, options.directory)
                            /\ p \notin steady
                            /\ \E kind \in Kinds : <<p, kind>> \in seen
=============================================================================
