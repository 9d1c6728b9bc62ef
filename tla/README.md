# Verification of go-filesystem

TLA+ models of the adapters of `go-filesystem`, model-checked with TLC and proved with TLAPS.
`PROJECT.json` names the source lines of every definition (`map`), the runs, the theorems and the
hazards they answer to. This file says what is modelled, why, and what the checks and the proofs
show.

## The system

One Go interface (`contracts.go`) over six backends. Every adapter is called by any number of
goroutines; there is no process of its own beyond the goroutines listed here.

| Part | State | Operations | What makes it hard |
|---|---|---|---|
| storage contract (`contracts.go`, `errors.go`) | the objects | Open, Write, Delete, Stat, List, Copy, Move | errors after publication, non-atomic Copy |
| paths (`path.go`) | none | ParsePath, Join, Dir, Base | normal form, Windows volumes |
| `internal/streamwriter` | pipe, Once, result channel | New, Write, Close | Close, cancellation and the consumer race |
| `memory` | map behind an RWMutex, clock | all | create-only race, aliasing of maps, clock read outside the lock |
| `local` | a directory | all but metadata and visibility | one system call at a time, crashes, power loss |
| `ftp` | one session, `opMu`, streams | Open, Write, Delete, Stat, List, Close | a lock handed between goroutines, aborts without it, lost replies |
| `sftp` | one shared session, no operation lock | Open, Write, Delete, Stat, List, Copy, Move, Close | reconnect while others use the session, temporary uploads, watchers |
| `s3`, `r2` | none of their own | all but Move and visibility | pagination, calls of several requests, range ends |
| `decorator` | none of its own | all | prefixing, read-only, bounded retry |
| `iofs.go` | directory cursor | Open, Stat, ReadDir | several calls without a snapshot, iterators that fail half-way |
| `fstest` | counters, connections | fault readers, TCP proxy | used by tests only: not modelled |
| `internal/redact`, other platforms' renames, conformance tests | - | - | text, byte layout, tests: not modelled |

### How the parts interact

`decorator` wraps any adapter and calls it; `iofs.go` does the same for reading. `OpenWriter` of the
memory, local, ftp, sftp and s3 adapters is a `streamwriter` whose consumer calls the adapter's own
`Write`. `r2` builds an `s3` adapter. Applications rely on `contracts.go` alone, so that is where
the models meet: `ObjectStore` is the contract, five modules are shown to implement it, and the
decorator's backend is an instance of it.

## Modules

| Module | Models | Depends on |
|---|---|---|
| `ObjectStore` | what `contracts.go` promises, as an abstract specification | - |
| `StreamWriter` | `internal/streamwriter`, with `io.Pipe` as external | - |
| `MemoryStore` | `memory.Adapter` | implements `ObjectStore` |
| `LocalStore` | `local.Adapter`, system call by system call | implements `ObjectStore` |
| `FtpSession` | `ftp.Adapter`: the session and who may use it | - |
| `SftpSession` | `sftp.Adapter` over one shared session | implements `ObjectStore` |
| `S3Store` | `s3.Adapter` (and `r2`), request by request | implements `ObjectStore` |
| `Decorator` | `decorator.Adapter` over any backend | uses and implements `ObjectStore` |
| `TreeListing` | `List` of the local, ftp and sftp adapters | - |
| `S3Listing` | `s3.Adapter.List`, page by page | - |
| `ByteRanges` | `OpenRange` of the four adapters that have it | - |
| `LogicalPath` | `path.go` over classes of segments | - |
| `IOFS` | `iofs.go` over a store that changes | extends `LogicalPath` |
| `*Proofs` (eight) | theorems and proofs; `StreamAndTreeProofs` has those of `StreamWriter`, `ByteRanges` and `TreeListing`, `FtpAndIOFSProofs` those of `FtpSession` and `IOFS` | extend the module they name |

Each `MC*` module gives a module its small instance and each `.cfg` is one run. Some definitions
come after a faulty variant of themselves (`WriteCommitUnchecked` before `WriteCommit`,
`internalForgetsPrefix` before `internal`). No specification uses a variant; each is the mistake
that a property is there to catch, and `PROJECT.json` (`mutants`) says which.

**`ObjectStore`.** `objects` is a map from paths to contents. `Invoke` begins a call, one action per
method makes it take effect and answers. Two weaknesses are deliberate, because `contracts.go`
states them: an error proves nothing about publication (`Fail` is possible after a call has taken
effect), and Copy may read and publish at two instants (`CopyLoad`, `CopyStore`). An adapter that
implements it answers "not found" and "exists" only from an instant at which that was true of the
object it was asked for. The local and the SFTP adapter have a few answers of ErrNotFound that are
about something else (see the disagreements below). Their models keep these apart, as the outcome
`gone`, and the mapping to the contract makes them errors like any other.

**`StreamWriter`.** The variables are the fields of `Writer`, the two ends of the pipe and the
control state of the consumer goroutine and of each Close. A Write hands its bytes to the consumer
in pieces (`WriteBegin`, `Transfer`, `WriteReleased`); `Cancel` and `AfterFunc` are the context and
its callback; `CloseBegin`, `CloseJoin` and `CloseRepeat` the `Once`.

**`MemoryStore`.** Code under the lock is one action; `WriteStage` is the part of Write before the
lock (it reads the source and the clock), `WriteCommit` the critical section. Maps are references
(`Cells`), so that sharing one is visible. `leaked` records the read lock that a panicking List of
the root keeps.

**`LocalStore`.** `entry` and `temps` are the directory, `data` what each inode holds, `durable` the
directory a power loss would leave. Write is a check, an exclusive create, filling, sync,
publication by Rename or by Link and Remove, and a final Stat, with its deferred Remove. `Fault`
makes any system call fail; a client can die between two of them, and the machine lose power. The
outcome `gone` is ErrNotFound from the Stat after a publication, and from the rename of a Move whose
destination's directory has been removed.

**`FtpSession`.** `opMu` has an owner, which `StartStream` hands to the transfer goroutine.
`abortTransfer` works on whatever session is current, without `opMu`, as the code does. A lost
connection (`Drop`, `ReplyLost`) leaves it open whether a command had its effect. The server holds
one object; the module is about who may use the session.

**`SftpSession`.** There is no operation lock: clients overlap on `session`. A call keeps the
session it obtained while others replace it (`Reconnect`, `invalidate`). Write has its temporary
file, Copy reads from a stream whose watcher may close it, and the server may lack the POSIX rename
extension. The code ignores what comes of the Remove of a temporary file: `stray` records a file
that stayed because the Remove went to a lost session or was refused. The outcome `gone` is
ErrNotFound from the Stat after a publication, or about the directory of a destination.

**`S3Store`.** One action per request to the service. A request that fails was never served, or its
reply was lost. `published` is the time at which a Write's upload became the object; `head` is what
HeadObject returned. Other programs may write to the bucket.

**`Decorator`.** The backend is an instance of `ObjectStore`, so whatever keeps the contract can be
it. `call` is the control state of `retryCall`, `streams` counts the streams that checksums have
open: one is opened by each attempt, and closed after `io.Copy`, whether that succeeded or failed.
`Tenants` use the same backend outside the prefix, and not at the prefix's own path, which the
decorator's root stands for.
The contract has no checksums, so a step of one only has to leave the objects alone.

**Listings.** In `TreeListing` and `S3Listing` the tree or the bucket changes between any two steps
of the call. `steady` holds what stayed throughout the call and `seen` what was there at some time
of it; the properties bound a listing by the two, since the code promises no snapshot. A path is a
sequence of numbers that stand for the byte order of names; `Extends` adds names such as `a-`, which
sorts before `a/b`. In S3 keys some numbers stand for an empty segment, a parent segment or, by
`Backslashed`, a name with a backslash, which `ParsePath` splits in two.

**`ByteRanges`.** The arithmetic is that of a signed integer with `Half` values on either side of
zero, and wraps around as the processor's does.

**`LogicalPath` and `IOFS`.** A name is a sequence of segments, ordinary ones or one of the classes
`ParsePath` treats in a way of its own (empty, `.`, `..`, a backslash, a UNC prefix, a control
character, a volume). Open, Stat and ReadDir are the calls they make of their providers, in order;
between any two of them the store, flat or a tree, changes, and any of them may fail. `vanished` says
during which listings an entry of the directory was removed: the walk of a tree may then answer
ErrNotFound for the directory. The cursor of ReadDir adds in an `int` of 2·`Half` values, as Go does.

## What the runs show

| Run | Shows | States |
|---|---|---|
| `streamwriter` | an object is published only after a Close and is what Writes reported; a Close that returns nil means it was published; cancellation releases everybody; every Close returns | 5 418 |
| `memory` | `MemoryStore` implements `ObjectStore`; no metadata map is shared with a caller or between objects; a stored time lies within the call that stored it | 671 825 |
| `local` | `LocalStore` implements `ObjectStore`; a stream keeps the object it was opened on; after a power loss, too, a name leads to a complete, synced file; temporary names have owners and files one name | 497 675 |
| `ftp` | streams give whole objects or an error; mutations are sent once; `opMu` has one owner and no session is leaked; a create-only Write replaces nothing of the same adapter; every call returns | 198 408 |
| `sftp` | `SftpSession` implements `ObjectStore`; reconnecting neither leaks a session nor closes one that works; every failed Write asks for the removal of its temporary file, which stays only if a connection was lost, the server refused or the adapter was closed | ≈ 548 000 |
| `sftp_live` | every call returns, every stream ends with its context | 61 224 |
| `decorator` | a decorated store implements `ObjectStore` again; attempts are bounded and mutations are not repeated; listings stay within the prefix and mutations change what they name there, Write never the prefix itself; every attempt at a digest closes its stream; every call returns | 113 400 |
| `s3` | `S3Store` implements `ObjectStore`; a Write reports its own object or a later one; metadata beyond the limits is never handed out | 169 287 |
| `s3_listing` | limit, completeness, order and no repetition over pages; odd keys appear under the path they normalize to or not at all; every page gets further | 284 392 |
| `tree_listing` | a listing keeps its limit, shows all that stayed and nothing that never was, sorted and once, after a reconnection too; ErrNotFound has a cause | 899 932 |
| `byte_ranges` | range reads are exact and refused only for a reason | 18 925 |
| `iofs` | names denote the paths they should; a directory is reported whole, in pieces that make it up, with no iterator left open; what is reported was so at some time of the call, unless a directory lost an entry while it was walked | 109 543 |

`CallInvariant`, `SessionInvariant`, `HeadInvariant`, `DirectoryInvariant`, `HandleInvariant` and
`ListShape` are each the module's type invariant together with what a caller relies on in every
state; the conjuncts are defined, and explained, one by one.

### Bounds, and why they are enough

- Two clients: every race in this code is between two calls on one object, one session or one
  temporary name. Where a third party matters it is a tenant, another program or the environment.
- A *workload* is chosen once, in the initial state, and says which operations and failures occur
  together: for instance every operation with failing system calls, or Writes with power losses. It
  splits one large instance into a few small ones within a run. The theorems have no such bound:
  they hold for every set of workloads, the one with everything included.
- Two contents tell a stale object from a new one; more are symmetric.
- Sessions: two, for a replacement while the old one is in use; `sftp_live` has one, since its
  property does not depend on who reconnects. Inodes (`Files`): three, for an object and a temporary
  file of each writer.
- `MaxTime` bounds the ticks of the clock (memory) or the modifications of the bucket (S3): three
  there, for an object, its replacement, and one more between two requests of one call.
- Trees have three levels, so that a listing which is not recursive meets something deeper than its
  children; `Changes = 2` removes an entry and puts another in its place during one call.
- Pages of at most two keys over five keys give three pages, and limits below, at and above a page.
- `Half` (8 for ranges, 4 for the cursor) makes every sum that can overflow do so. The theorems hold
  for every `Half`.
- Symmetry is declared only in runs without liveness properties. A `VIEW` leaves out only what
  neither a later step nor the property looks at; the comment at each view says what.
- Deadlock is checked in `streamwriter`, `local`, `ftp`, `sftp`, `sftp_live`, `decorator` and `s3`.
  The listings, `iofs` and `byte_ranges` model one call, which ends. In `memory` a panicking List of
  the root keeps the read lock, and writers wait for ever (see the first disagreement below).

### Fairness

Liveness is checked under weak fairness of steps that the code or its environment is bound to take:
goroutines that are ready run; a request or protocol call ends, if only with an error. For ftp the
protocol client has a timeout, and callers close the streams they were given, as `Open` demands;
`opMu` needs strong fairness, which `sync.Mutex` provides by handing itself to a waiter that
starves. For sftp nothing makes a caller close a stream: its context ends it. For the decorator, an
attempt ends because its backend answers, and a backoff because its timer fires. Nothing makes a
caller cancel, write or call again.

## What is proved

Every theorem holds for all values of the constants, under the assumptions its component module
names (`MemoryAssumption` and so on: `None` is no value, bounds are naturals, workloads are sets of
the operations there are). Of the properties that the runs check, thirty invariants and action
properties are proved, and all five refinements of `ObjectStore`. An invariant is seldom inductive
as it stands; what each proof adds to it is the interesting part.

- **`StreamAndTreeProofs`**, streams and ranges: `PublishesWhatWasReported`, `ClosesReport` for the
  writer. `Inv` adds `Counted` (bytes received were reported, or belong to the Write in progress),
  `Ended` (only Close ends the content, and nothing is received after publication) and `Handed` (the
  result travels from the consumer through the channel to every Close). Without `Counted` nothing
  relates what is published to what Writes reported. `RangesAreExact`, `RefusalsHaveAReason` for the
  ranges: `Exact` says that what is left to read and the position add up to the end of the range or
  lie beyond the object, and that nothing computed has wrapped around. With `Half = 2^63` both are
  about the code's `int64`.
- **`StreamAndTreeProofs`**, trees: `TreeListingsAreWellFormed`, `TreeListingsAreComplete`,
  `TreeListingsAreTruthful`, `MissingTreesHaveCause`, for every finite tree, any number of changes
  and both ways of walking. `TreeInv` adds `Books` (what is called steady and seen is so),
  `Progress` (while the walk goes on, the limit is not reached), `Leads` (what is left to do lies
  within the directory and comes from what was seen), `Apart` (no path is collected twice, two
  pieces of work never lead to one path, and none leads to a path already collected) and `Complete`
  (what stayed and is in scope is collected, or some piece of work leads to it). `Apart` is what a
  walk over a changing tree depends on: a directory that is removed and made again is not read
  twice. The lemmas are about the operators: the byte order of paths tells any two apart, which
  rests on a set of numbers having a least one (proved by counting, since induction is not at hand),
  a sequence in the order of names has each child once, and an ordered permutation of entries with
  different paths is strictly ordered. These are safety properties: that a listing
  ends is not among them.
- **`MemoryStoreProofs`**: `TypeCorrect`, `MetadataIsPrivate`, `StampsAreTimely`,
  `MemoryImplementsContract`. `TypeOK` is inductive, since it also says that a request exists
  exactly while a call is pending. `PrivateMetadata` with `TypeOK` is inductive because `cloneMap`
  takes a map that nobody has and each action stores only such a map. `StampsAreTimely` is an action
  property, from `Clocked`: nothing stored or staged is ahead of the clock, and what is staged was
  stamped since its call began. The refinement needs `Intended`: a staged object is the one its
  Write was given, and only Copy and Move have a destination of their own.
- **`LocalStoreProofs`**: `NamesAreAccountedFor`, `ObjectsAreComplete`, `StreamsAreStable`,
  `LocalImplementsContract` (with the answers of ErrNotFound named above taken for errors of any
  kind). `Inv` adds `Calling` (what a call has done, by where it is), `Private`
  (a file that is still being filled has no name but its temporary one, and no stream) and `Synced`
  (whatever has an object's name, now or after a power loss, was synced before it got it).
- **`FtpAndIOFSProofs`**, FTP: `LockAndSessions`, `StreamsAreWhole`, `ChangesAreSentOnce`,
  `WritesDoNotClobber`. `Inv` adds `Handover` (while a transfer runs, its call is in no state that
  unlocks), `Routed` (which operation can be where), `Delivered` (a transfer delivers from the start
  of the object, and only while the pipe is open) and `Vacant` (the Stat before a Write stays true
  until its rename).
- **`FtpAndIOFSProofs`**, the io/fs bridge: `DirectoriesAreWhole`, `NamesDenotePaths`,
  `ReportsAreTrue`, for any finite set of keys in `ParsePath`'s normal form, names of any length,
  any counts, any width of `int`, any cap on a listing and any number of changes. `FSInv` adds `Collected` (whatever has
  been collected or is to come is an entry of the directory), `Steps` (what each step of a call has:
  while a directory is listed, what is collected and what is to come are the listing, each entry
  once) and `Witnessed` (what the call has found out was so at some time of it). `Witnessed` needs
  one fact about the store: nothing turns from a file into a directory without being nothing in
  between. That is why a directory which is gone when it is listed, with a file in its place, was
  nothing at some time, and may be reported as that. What `ReportsAreTrue` says of "does not exist" is
  for flat stores and for directories that lose no entry while they are listed. The lemmas are about paths: `ParsePath` numbers
  the segments it keeps without gaps (`Ranks`, by counting and not by induction), leaves a path in
  normal form as it is, and returns nothing else; and about sequences: an ordered permutation has
  the entries it had before, and the pieces that ReadDir returns make up the whole.
- **`SftpSessionProofs`**: `ConnectionsAndUploadsAccounted`, `HealthySessionsAreKept`,
  `SftpImplementsContract`. `Inv` adds `Calling`: the session a call works on, the temporary file it
  has and what is in it, by where the call is, or will be when it gets the session it waits for. That
  files stay behind only for a reason needs `Calm`: as long as no connection may be lost and the
  adapter is open, the session of every call works, so that its Remove is served. The refinement takes
  the answers of ErrNotFound named above for errors of any kind.
- **`S3StoreProofs`**: `HeadsAreCurrent`, `S3ImplementsContract`. `Inv` adds `Progress` (where a
  call can be, and whether its upload was served) and `Fresh` (while a Write runs, what is at its
  path is what it uploaded, or later).
- **`DecoratorProofs`**: `RoundTrip` and `ListingsShowTheirOwn` (`externalPath` undoes `internal`,
  and a path it accepts leads back), `AttemptsAreBounded` and `CallsAreBounded` (from
  `AttemptsLeft`: a call about to begin an attempt has one left, which the bound alone does not
  say; the open streams are those of the calls at a digest), `PrefixIsolates` and
  `DecoratorImplementsContract`. The last two need `Linked` (during an attempt the backend has the
  client's request seen through the prefix; a read that did not succeed has left no content) and
  `Sides` (tenants stay outside, only checksums are digested, nothing that is refused reaches the
  backend). They take `OutsideAssumption`: no path of a tenant is beneath the prefix or the prefix
  itself. `PrefixIsolates` is about every path of the backend: what changes there, a tenant changed
  outside, or a mutation in progress that names it; at the prefix's own path that is a Delete, Copy or
  Move of the root and never a Write.
- **`S3ListingProofs`**: `ListingsAreWellFormed`, `ListingsAreComplete`, `ListingsAreTruthful`,
  `LoopAdvances`. `Inv` adds `Sound` (what is shown in which phase, and that the limit is not yet
  reached while pages are asked for), `Came` (each entry is that of a key the bucket had, and no
  such key is after the continuation token) and `Complete` (whatever stayed and is not after the
  token is shown). `Came` is why nothing is listed twice: the next page lies after the token. The
  lemmas are about the operators: the byte order of keys and of items is strict, a page cut anywhere
  is an initial piece of what remains, `Normalized` changes no key without empty segments, a key that
  begins with the directory's still does when its backslashes are slashes, and a sorted sequence has the entries it had before. Sorting is any ordered permutation, since
  `slices.SortFunc` promises no more for equal paths. The theorems assume nothing of the service but
  that a page is the first of what remains and that the token is its last item; it may serve more or
  less than it was asked for, and forget the token.

Each refinement proof has the same shape: lemmas that say what a step of one client leaves of the
others' part of the mapping, a lemma for steps the contract does not see, one for calls that fail,
and then one lemma per group of actions which names the action of the contract that it is.

Only model-checked: liveness under fairness (`CancelReleasesAll`, `CloseReturns`, `CallsReturn`,
`CallsAndStreamsEnd`), which is out of the prover's reach. Every other property that a run checks is
also proved.

## Where the code and its documents disagree

Met while modelling. The models do what the code does, and no property above says otherwise.

- `memory.go:285` (Copy, and Move at line 310) stores an object under the root path, which Write
  refuses at line 138; ARCHITECTURE.md:8-9: "A zero `Path` is the logical root for relationship and
  listing operations; it is never an object name." A List of the root then panics in MustParsePath
  (line 246) with the read lock held. `MemoryStore` has both steps (`leaked`).
- `memory.go:239`: an object `a` and the directory of an object `a/b` use the same key of
  `entriesByPath`, so the iteration order of a Go map decides whether `a` is listed as a file or as
  a directory; memory.go:1-2 calls the adapter "deterministic".
- `local.go:442` (also `sftp.go:444`, `ftp.go:471`): whatever goes missing during the walk ends List
  with ErrNotFound for the listed directory, which exists; errors.go:15: "ErrNotFound means the
  requested logical path does not exist." `NotFoundHasCause` states what does hold. Through `iofs.go`
  (lines 112 and 117) it becomes `fs.ErrNotExist` of an existing directory; `ReportsWhatWas` excepts
  it.
- `local.go:322`, `sftp.go:384`: the Stat that ends a Write answers ErrNotFound when another call has
  deleted the object meanwhile, though it was published. `local.go:501` and `506`, `sftp.go:534`: a
  rename that fails because the destination's directory is gone is reported as ErrNotFound of the
  source; `sftp.go:345`, `353` and `382` report it of the object to be written. For errors.go:15 see
  above; the outcome `gone` is these answers.
- `iofs.go:201`: `d.offset+count` overflows for a count near the largest `int` once something has been
  read, and the slice expression panics, where `io/fs` has a ReadDir with a positive count return at
  most that many entries. `IOFS` has the panic (`given.panic`), and `CursorExact` says that it cannot
  come first and that it leaves the cursor where it was.
- `ftp.go:732`: closing a stream whose transfer has ended, or its watcher, aborts whatever the
  current session is doing for another call; ftp.go:118-119: "Adapter serializes operations over one
  FTP control session." The theorems about `FtpSession` hold in spite of it.
- `ftp.go:695`: a transfer that Adapter.Close aborts before its first byte reconnects and begins
  again while Close waits; docs/operations.md:70: "`Adapter.Close` aborts an active transfer, waits
  for the serialized operation, and closes the session."
- `s3.go:450`: SetMetadata copies the object onto itself with the content type of an earlier
  HeadObject, so that an object written in between gets the type of the one it replaced;
  contracts.go:80: "SetMetadata replaces supported user metadata".
- `decorator.go:412`: the root is mapped to the prefix itself, and Delete, Copy and Move, unlike
  Write, accept it; decorator.go:55-56: "WithPrefix isolates every logical path beneath prefix in
  the wrapped backend."

## Abstractions, and what is not modelled

- Contents are model values; error texts and logging are left out, errors are classes.
- Memory: a listing's entries are not modelled (its one step reads the map under the lock); nor is
  its iterator.
- FTP: the server holds one object, and the temporary names of uploads are not modelled;
  `SftpSession` has those of the sftp adapter.
- S3: retries inside the SDK are not modelled, an upload is one request (parts are invisible until
  it completes), CopyObject is atomic. `TemporaryURL` computes a signature and changes nothing.
- Trees: symbolic links lead nowhere, so what is behind an allowed link is not modelled; names that
  `ParsePath` refuses, and names that it changes, those with a backslash (`local.go:431`), do not
  occur; an FTP server whose LIST of a file describes the file itself is
  left out. `LocalStore` and `TreeListing` have separate states: a listing can show the temporary
  name of a running Write, and nothing says that it should not.
- S3 listings: names contain no byte below `/` and at most one backslash; names that `ParsePath`
  refuses for a control character, a UNC prefix or a volume do not occur, as those with a parent
  segment stand for what is refused.
- Paths: invalid UTF-8 and the wording of errors are left out.
- Decorator: the backend's iterator may list anything; observers only see results.

Not modelled at all, since they hold no state that two steps could disturb: capability sets (a set
with a membership test), checksums of the adapters (a digest of a stream that is modelled), the
constructors' validation of configurations and R2's (predicates of strings, made before an adapter
exists), `internal/redact` (text), the exclusive renames of other platforms (one system call each,
with the outcome `LocalStore` relies on). And since they belong to tests and examples: the fault
readers, writers and iterators and the TCP proxy of `fstest`, the conformance suite, and the tabular
ingestion example.
