--------------------------- MODULE LocalStoreProofs ---------------------------
(***************************************************************************)
(* Proofs about LocalStore, for any number of clients, paths, contents and *)
(* files: no object is ever seen half written and no stream changes under  *)
(* its reader, temporary names have owners and files one name, and the     *)
(* adapter implements the contract, whatever the interleaving of system    *)
(* calls and whichever of them fail, processes die or power is lost.       *)
(***************************************************************************)
EXTENDS LocalStore, TLAPS

\* Before the file has the object's name.
Filling == {"fill", "sync", "publish"}

\* What the answer of a call in progress is, by where it is.
CallOK(c) ==
    /\ request[c] # None => request[c] \in Calls
    /\ pc[c] = "idle" => outcome[c] \notin {"pending", "loaded"}
    /\ pc[c] \in {"open", "stat", "remove", "check", "rename"} => outcome[c] = "pending"
    /\ pc[c] = "open" => request[c].op \in {"read", "copy"}
    /\ pc[c] = "stat" => request[c].op = "stat"
    /\ pc[c] = "remove" => request[c].op = "delete"
    /\ pc[c] = "check" => request[c].op \in {"copy", "move"}
    /\ pc[c] = "rename" => request[c].op = "move"
    /\ pc[c] \in {"precheck", "create"} \cup Filling =>
          IF request[c].op = "copy" THEN outcome[c] = "loaded" /\ stream[c] # None
          ELSE outcome[c] = "pending" /\ request[c].op = "write"
    /\ pc[c] \in {"unlink", "confirm"} => outcome[c] = "ok"
    /\ pc[c] = "cleanup" => outcome[c] \in {"exists", "error"}

Calling == \A c \in Clients : CallOK(c)

\* The temporary file of a Write is its own: until it is published nobody else
\* has it, under an object's name, on disk or open.
Private ==
    \A c \in Clients : file[c] # None =>
        /\ \A d \in Clients : d # c => file[d] # file[c]
        /\ pc[c] \in Filling =>
              /\ \A p \in Paths : entry[p] # file[c] /\ durable.entry[p] # file[c]
              /\ \A d \in Clients : stream[d] # file[c]
        /\ pc[c] = "confirm" => file[c] \notin temps

\* What has an object's name, now or after a power loss, is whole and synced,
\* and so is what a Write is about to publish.
Synced ==
    /\ \A f \in Files : data[f].full => data[f].content \in Contents
    /\ \A p \in Paths : entry[p] # None => data[entry[p]].full /\ data[entry[p]].synced
    /\ \A p \in Paths : durable.entry[p] # None =>
          data[durable.entry[p]].full /\ data[durable.entry[p]].synced
    /\ \A p, q \in Paths : p # q /\ durable.entry[p] # None => durable.entry[p] # durable.entry[q]
    /\ \A c \in Clients : pc[c] \in {"sync", "publish"} =>
          data[file[c]].full /\ data[file[c]].content = Source(c)
    /\ \A c \in Clients : pc[c] = "publish" => data[file[c]].synced

Inv == DirectoryInvariant /\ StableStreams /\ Calling /\ Private /\ Synced
-----------------------------------------------------------------------------

\* A call in progress.
LEMMA InProgress ==
    ASSUME Inv, NEW c \in Clients, pc[c] # "idle"
    PROVE  /\ request[c] # None /\ request[c] \in Requests /\ request[c] \in Calls
           /\ request[c].path \in Paths /\ request[c].to \in Paths
BY DEF Inv, DirectoryInvariant, TypeOK, Calling, CallOK, Requests

\* The file at an object's path.
LEMMA Object ==
    ASSUME Inv, NEW p \in Paths, entry[p] # None
    PROVE  /\ entry[p] \in Files /\ data[entry[p]].full /\ data[entry[p]].synced
           /\ data[entry[p]].content \in Contents
           /\ \A d \in Clients : pc[d] \in Filling => file[d] # entry[p]
BY DEF Inv, DirectoryInvariant, TypeOK, Private, Synced, Filling

\* Whatever is referred to is a file.
LEMMA Within ==
    ASSUME Inv
    PROVE  /\ \A d \in Clients : file[d] # None => file[d] \in Files
           /\ \A d \in Clients : stream[d] # None => stream[d] \in Files
           /\ \A p \in Paths : /\ entry[p] # None => entry[p] \in Files
                               /\ durable.entry[p] # None => durable.entry[p] \in Files
BY ZenonT(60) DEF Inv, DirectoryInvariant, TypeOK, Directory

\* What a call's temporary file is to get.
LEMMA Sources ==
    ASSUME Inv, NEW c \in Clients, pc[c] \in Filling
    PROVE  /\ file[c] \in Files /\ Source(c) \in Contents /\ Source(c) # None
           /\ request[c].op = "copy" => stream[c] \in Files /\ Source(c) = answer[c]
           /\ request[c].op # "copy" => Source(c) = request[c].content
<1>1. request[c] \in Calls /\ request[c] \in Requests /\ file[c] \in Files
  BY InProgress DEF Inv, DirectoryInvariant, TypeOK, Filling
<1>2. CASE request[c].op = "copy"
  <2>1. stream[c] \in Files /\ data[stream[c]].full /\ data[stream[c]].content = answer[c]
    BY <1>2 DEF Inv, DirectoryInvariant, TypeOK, StableStreams, Calling, CallOK
  <2>2. QED
    BY <1>1, <1>2, <2>1, LocalAssumption DEF Inv, Synced, Source
<1>3. CASE request[c].op # "copy"
  BY <1>1, <1>3, LocalAssumption DEF Inv, Calling, CallOK, Source, Calls, Requests
<1>4. QED
  BY <1>2, <1>3

\* A step of c leaves the other calls in order.
LEMMA CallingKeeps ==
    ASSUME Inv, NEW c \in Clients, CallOK(c)',
           \A d \in Clients : d # c => /\ pc'[d] = pc[d] /\ request'[d] = request[d]
                                        /\ outcome'[d] = outcome[d] /\ stream'[d] = stream[d]
    PROVE  Calling'
<1>1. ASSUME NEW d \in Clients, d # c
      PROVE  CallOK(d)'
  <2>1. /\ pc'[d] = pc[d] /\ request'[d] = request[d]
        /\ outcome'[d] = outcome[d] /\ stream'[d] = stream[d]
    BY Zenon, <1>1
  <2>2. CallOK(d)
    BY Zenon DEF Inv, Calling
  <2>3. QED
    BY <2>1, <2>2 DEF CallOK
<1>2. QED
  BY Zenon, <1>1 DEF Calling

\* Temporary names stay owned when no name appears and the owner of none leaves.
LEMMA TempsKeep ==
    ASSUME Inv, NEW c \in Clients, stray' = stray, temps' \subseteq temps,
           file[c] \in temps' => file'[c] = file[c] /\ pc'[c] # "idle",
           \A d \in Clients : d # c => pc'[d] = pc[d] /\ file'[d] = file[d]
    PROVE  TempsOwned'
<1> SUFFICES ASSUME NEW f \in temps', f \notin stray'
             PROVE  \E d \in Clients : file'[d] = f /\ pc'[d] # "idle"
  BY Zenon DEF TempsOwned
<1>1. PICK d \in Clients : file[d] = f /\ pc[d] # "idle"
  BY Zenon DEF Inv, DirectoryInvariant, TempsOwned
<1>2. file'[d] = f /\ pc'[d] # "idle"
  BY Zenon, <1>1
<1>3. QED
  BY Zenon, <1>2

-----------------------------------------------------------------------------
(* Steps that leave the disk alone.                                        *)

\* What such a step of c may do to the call's own books.
Books(c) ==
    /\ UNCHANGED <<entry, temps, data, durable, workload>>
    /\ stray \subseteq stray'
    /\ \A d \in Clients : d # c =>
          /\ pc'[d] = pc[d] /\ request'[d] = request[d] /\ file'[d] = file[d]
          /\ stream'[d] = stream[d] /\ outcome'[d] = outcome[d] /\ answer'[d] = answer[d]
    \* the temporary file stays where it is in its life, or is given up
    /\ \/ /\ file'[c] = file[c]
          /\ pc'[c] \in Filling \cup {"confirm"} => FALSE
          /\ pc[c] \in {"unlink", "cleanup"} => pc'[c] = "cleanup"
       \/ file'[c] = None /\ (file[c] \in temps => file[c] \in stray')
    \* a stream is opened on an object
    /\ \/ stream'[c] = None
       \/ stream'[c] = stream[c] /\ answer'[c] = answer[c]
       \/ \E p \in Paths : /\ stream'[c] = entry[p] /\ entry[p] # None
                           /\ answer'[c] = data[entry[p]].content

\* Such a step preserves the invariant when it leaves c's own call in order.
LEMMA BooksKeep ==
    ASSUME Inv, NEW c \in Clients, Books(c), TypeOK', CallOK(c)'
    PROVE  Inv'
<1>1. TempsOwned'
  BY LocalAssumption DEF Books, Inv, DirectoryInvariant, TypeOK, TempsOwned
<1>2. OneNamePerFile'
  <2>1. ASSUME NEW p \in Paths, entry[p] \in temps, entry[p] \notin stray'
        PROVE  \E d \in Clients : file'[d] = entry[p] /\ pc'[d] \in {"unlink", "cleanup"}
    <3>1. PICK d \in Clients : file[d] = entry[p] /\ pc[d] \in {"unlink", "cleanup"}
      BY <2>1 DEF Books, Inv, DirectoryInvariant, OneNamePerFile
    <3>2. file'[d] = file[d] /\ pc'[d] \in {"unlink", "cleanup"}
      BY <2>1, <3>1 DEF Books
    <3>3. QED
      BY <3>1, <3>2
  <2>2. QED
    BY <2>1 DEF Books, Inv, DirectoryInvariant, OneNamePerFile
<1>3. StableStreams'
  BY Object DEF Books, Inv, DirectoryInvariant, TypeOK, StableStreams
<1>4. Calling'
  BY DEF Books, Inv, Calling, CallOK
<1>5. Private'
  BY Object DEF Books, Inv, DirectoryInvariant, TypeOK, Private, Filling
<1>6. Synced'
  BY DEF Books, Inv, DirectoryInvariant, TypeOK, Synced, Source, Filling
<1>7. QED
  BY <1>1, <1>2, <1>3, <1>4, <1>5, <1>6 DEF Inv, DirectoryInvariant

\* A call ends that has no temporary file, or whose temporary name is gone.
LEMMA ReturnKeeps ==
    ASSUME Inv, NEW c \in Clients, pc[c] # "idle", Return(c),
           UNCHANGED <<entry, temps, data, durable, workload, answer, stray>>,
           NEW o \in {"ok", "notfound", "gone", "exists", "error"},
           outcome' = [outcome EXCEPT ![c] = o],
           file[c] \notin temps
    PROVE  Inv'
<1>1. /\ request'[c] = None /\ pc'[c] = "idle" /\ file'[c] = None /\ outcome'[c] = o
      /\ stream'[c] \in {None, stream[c]}
      /\ \A d \in Clients : d # c =>
          /\ pc'[d] = pc[d] /\ request'[d] = request[d] /\ file'[d] = file[d]
          /\ stream'[d] = stream[d] /\ outcome'[d] = outcome[d]
  BY DEF Return, Goto, Inv, DirectoryInvariant, TypeOK
<1>2. TypeOK'
  BY <1>1 DEF Return, Goto, Inv, DirectoryInvariant, TypeOK
<1>3. CallOK(c)'
  BY <1>1 DEF CallOK, Filling
<1>4. Books(c)
  BY <1>1 DEF Books
<1>5. QED
  BY <1>2, <1>3, <1>4, BooksKeep

\* The system calls that only look, and the end of a call.
LEMMA StepsKeepBooks ==
    ASSUME Inv, NEW c \in Clients, UNCHANGED workload,
           Open(c) \/ Stat(c) \/ Check(c) \/ Precheck(c) \/ Confirm(c) \/ CloseStream(c)
    PROVE  Inv'
<1>0. /\ UNCHANGED <<entry, temps, data, durable, stray>>
      /\ pc[c] # "idle" => request[c] \in Requests /\ request[c].path \in Paths
      /\ pc[c] \in {"open", "stat", "check", "precheck"} => file[c] = None
      /\ pc[c] = "confirm" => file[c] \notin temps
      /\ None \notin temps
  BY Zenon, InProgress, LocalAssumption
     DEF Open, Stat, Check, Precheck, Confirm, CloseStream, diskVars, Inv, DirectoryInvariant,
         TypeOK, Private
<1>1. ASSUME UNCHANGED <<request, file, stream, outcome, answer>>,
             NEW s \in {"open", "rename", "create"}, pc' = [pc EXCEPT ![c] = s],
             pc[c] \in {"check", "precheck"}, CallOK(c)'
      PROVE  Inv'
  <2>1. TypeOK'
    BY <1>0, <1>1 DEF Inv, DirectoryInvariant, TypeOK
  <2>2. Books(c)
    BY <1>0, <1>1 DEF Books, Inv, DirectoryInvariant, TypeOK, Filling
  <2>3. QED
    BY <1>1, <2>1, <2>2, BooksKeep
<1>2. CASE Open(c)
  <2> DEFINE f == entry[request[c].path]
  <2>1. CASE f = None
    <3>1. outcome' = [outcome EXCEPT ![c] = "notfound"] /\ Return(c) /\ UNCHANGED answer
          /\ pc[c] = "open"
      BY <1>2, <2>1 DEF Open, Answer
    <3>2. QED
      BY Zenon, <1>0, <3>1, ReturnKeeps
  <2>2. CASE f # None
    <3>1. /\ pc[c] = "open" /\ stream' = [stream EXCEPT ![c] = f]
          /\ answer' = [answer EXCEPT ![c] = data[f].content] /\ UNCHANGED file
          /\ \/ /\ request[c].op = "copy" /\ UNCHANGED request
                /\ pc' = [pc EXCEPT ![c] = "precheck"]
                /\ outcome' = [outcome EXCEPT ![c] = "loaded"]
             \/ /\ request[c].op # "copy" /\ request' = [request EXCEPT ![c] = None]
                /\ pc' = [pc EXCEPT ![c] = "idle"]
                /\ outcome' = [outcome EXCEPT ![c] = "ok"]
      BY <1>2, <2>2 DEF Open, Answer, Goto
    <3>2. f \in Files /\ data[f].content \in Contents
      BY <1>0, <2>2, <3>1, Object
    <3> HIDE DEF f
    <3>3. TypeOK'
      BY <1>0, <3>1, <3>2 DEF Inv, DirectoryInvariant, TypeOK
    <3>4. CallOK(c)'
      BY <2>2, <3>1 DEF Inv, DirectoryInvariant, TypeOK, Calling, CallOK, Filling
    <3>5. Books(c)
      <4>1. /\ stream'[c] = f /\ answer'[c] = data[f].content /\ pc'[c] \in {"precheck", "idle"}
            /\ \A d \in Clients : d # c =>
                  /\ pc'[d] = pc[d] /\ request'[d] = request[d] /\ stream'[d] = stream[d]
                  /\ outcome'[d] = outcome[d] /\ answer'[d] = answer[d]
        BY ZenonT(60), <3>1 DEF Inv, DirectoryInvariant, TypeOK
      <4>2. /\ file'[c] = file[c] /\ ~(pc'[c] \in Filling \cup {"confirm"})
            /\ ~(pc[c] \in {"unlink", "cleanup"})
        BY Zenon, <3>1, <4>1 DEF Filling
      <4>3. request[c].path \in Paths
        BY Zenon, <1>0, <3>1
      <4>4. \E p \in Paths : /\ stream'[c] = entry[p] /\ entry[p] # None
                             /\ answer'[c] = data[entry[p]].content
        BY Zenon, <2>2, <4>1, <4>3 DEF f
      <4>5. UNCHANGED <<entry, temps, data, durable, workload>> /\ stray \subseteq stray'
        BY Zenon, <1>0
      <4>6. QED
        BY Zenon, <3>1, <4>1, <4>2, <4>4, <4>5 DEF Books
    <3>6. QED
      BY <3>3, <3>4, <3>5, BooksKeep
  <2>3. QED
    BY <2>1, <2>2
<1>3. CASE Stat(c)
  <2>1. PICK o \in {"ok", "notfound"} : outcome' = [outcome EXCEPT ![c] = o]
    BY Zenon, <1>3 DEF Stat, Answer
  <2>2. QED
    BY Zenon, <1>0, <1>3, <2>1, ReturnKeeps DEF Stat
<1>4. CASE Check(c) \/ Precheck(c)
  <2>1. CASE ~request[c].replace /\ entry[request[c].to] # None
    <3>1. /\ outcome' = [outcome EXCEPT ![c] = "exists"] /\ Return(c) /\ UNCHANGED answer
          /\ pc[c] \in {"check", "precheck"}
      BY <1>4, <2>1 DEF Check, Precheck, Answer
    <3>2. QED
      BY Zenon, <1>0, <3>1, ReturnKeeps
  <2>2. CASE ~(~request[c].replace /\ entry[request[c].to] # None)
    <3>1. PICK s \in {"open", "rename", "create"} :
             /\ pc' = [pc EXCEPT ![c] = s]
             /\ pc[c] = "check" => s = IF request[c].op = "copy" THEN "open" ELSE "rename"
             /\ pc[c] = "precheck" => s = "create"
      BY <1>4, <2>2 DEF Check, Precheck, Goto
    <3>2. /\ UNCHANGED <<request, file, stream, outcome, answer>>
          /\ pc[c] \in {"check", "precheck"}
      BY <1>4, <2>2 DEF Check, Precheck
    <3>3. CallOK(c)'
      BY <3>1, <3>2 DEF Inv, DirectoryInvariant, TypeOK, Calling, CallOK, Filling
    <3>4. QED
      BY Zenon, <1>1, <3>1, <3>2, <3>3
  <2>3. QED
    BY <2>1, <2>2
<1>5. CASE Confirm(c)
  <2>1. PICK o \in {"ok", "gone", "error"} : outcome' = [outcome EXCEPT ![c] = o]
    BY <1>5 DEF Confirm, Answer, Inv, DirectoryInvariant, TypeOK, Calling, CallOK
  <2>2. QED
    BY Zenon, <1>0, <1>5, <2>1, ReturnKeeps DEF Confirm
<1>6. CASE CloseStream(c)
  <2>1. /\ pc[c] = "idle" /\ stream' = [stream EXCEPT ![c] = None]
        /\ UNCHANGED <<pc, request, file, outcome, answer>>
    BY <1>6 DEF CloseStream
  <2>2. TypeOK'
    BY <1>0, <2>1 DEF Inv, DirectoryInvariant, TypeOK
  <2>3. CallOK(c)'
    BY Zenon, <2>1 DEF Inv, Calling, CallOK, Filling
  <2>4. Books(c)
    BY <1>0, <2>1 DEF Books, Inv, DirectoryInvariant, TypeOK, Filling
  <2>5. QED
    BY <2>2, <2>3, <2>4, BooksKeep
<1>7. QED
  BY <1>2, <1>3, <1>4, <1>5, <1>6

\* Calls begin, and steps and processes fail.
LEMMA OthersKeepBooks ==
    ASSUME Inv, NEW c \in Clients, UNCHANGED workload, Invoke(c) \/ Fault(c) \/ Crash(c)
    PROVE  Inv'
<1>0. UNCHANGED <<entry, temps, data, durable>> /\ None \notin temps
  BY LocalAssumption DEF Invoke, Fault, Crash, diskVars, Inv, DirectoryInvariant, TypeOK
<1>1. CASE Invoke(c)
  <2>1. PICK r \in Calls : /\ request' = [request EXCEPT ![c] = r]
                           /\ pc' = [pc EXCEPT ![c] = First(r.op)]
    BY Zenon, <1>1 DEF Invoke, Goto
  <2>2. /\ pc[c] = "idle" /\ stream[c] = None /\ file[c] = None
        /\ outcome' = [outcome EXCEPT ![c] = "pending"]
        /\ answer' = [answer EXCEPT ![c] = None]
        /\ UNCHANGED <<file, stream, stray>>
    BY <1>1 DEF Invoke, Answer, Inv, DirectoryInvariant, TypeOK
  <2>3. r \in Requests /\ r # None /\ r.op \in Operations
    BY LocalAssumption DEF Calls, Requests
  <2>4. First(r.op) \in {"open", "stat", "remove", "precheck", "check"}
    BY DEF First
  <2>5. TypeOK'
    BY <1>0, <2>1, <2>2, <2>3, <2>4 DEF Inv, DirectoryInvariant, TypeOK
  <2>6. CallOK(c)'
    BY <2>1, <2>2, <2>3 DEF Inv, DirectoryInvariant, TypeOK, CallOK, Filling, First, Operations
  <2>7. Books(c)
    BY <1>0, <2>1, <2>2, <2>4 DEF Books, Inv, DirectoryInvariant, TypeOK, Filling
  <2>8. QED
    BY <2>5, <2>6, <2>7, BooksKeep
<1>2. CASE Fault(c)
  <2>1. PICK o \in {"error", "gone"} :
            /\ outcome' = [outcome EXCEPT ![c] = o]
            /\ o = "gone" => pc[c] = "rename"
    BY Zenon, <1>2 DEF Fault, Answer
  <2>2. /\ UNCHANGED <<answer, stray>>
        /\ pc[c] \in {"open", "stat", "remove", "check", "rename", "precheck", "create",
                      "fill", "sync", "publish"}
    BY <1>2 DEF Fault
  <2>3. CASE file[c] = None
    BY Zenon, <1>0, <1>2, <2>1, <2>2, <2>3, ReturnKeeps DEF Fault
  <2>4. CASE file[c] # None
    <3>0. outcome' = [outcome EXCEPT ![c] = "error"]
      BY Zenon, <2>1, <2>4 DEF Inv, DirectoryInvariant, TypeOK
    <3>1. pc' = [pc EXCEPT ![c] = "cleanup"] /\ UNCHANGED <<request, file, stream>>
      BY <1>2, <2>4 DEF Fault, Goto
    <3>2. TypeOK'
      BY <1>0, <2>2, <2>4, <3>0, <3>1 DEF Inv, DirectoryInvariant, TypeOK
    <3>3. CallOK(c)'
      BY <2>2, <3>0, <3>1 DEF Inv, DirectoryInvariant, TypeOK, Calling, CallOK, Filling
    <3>4. Books(c)
      BY <1>0, <2>2, <3>0, <3>1 DEF Books, Inv, DirectoryInvariant, TypeOK, Filling
    <3>5. QED
      BY <3>2, <3>3, <3>4, BooksKeep
  <2>5. QED
    BY <2>3, <2>4
<1>3. CASE Crash(c)
  <2>1. /\ pc' = [pc EXCEPT ![c] = "idle"] /\ request' = [request EXCEPT ![c] = None]
        /\ file' = [file EXCEPT ![c] = None] /\ stream' = [stream EXCEPT ![c] = None]
        /\ outcome' = [outcome EXCEPT ![c] = IF @ \in {"pending", "loaded", "ok"}
                                             THEN "error" ELSE @]
        /\ stray' = IF file[c] \in temps THEN stray \cup {file[c]} ELSE stray
        /\ UNCHANGED answer
    BY <1>3 DEF Crash, Goto
  <2>2. stray' \in SUBSET Files /\ stray \subseteq stray' /\ (file[c] \in temps => file[c] \in stray')
    BY <2>1 DEF Inv, DirectoryInvariant, TypeOK
  <2>3. TypeOK'
    BY <1>0, <2>1, <2>2 DEF Inv, DirectoryInvariant, TypeOK
  <2>4. CallOK(c)'
    BY <2>1 DEF Inv, DirectoryInvariant, TypeOK, CallOK, Filling
  <2>5. Books(c)
    BY <1>0, <2>1, <2>2 DEF Books, Inv, DirectoryInvariant, TypeOK
  <2>6. QED
    BY <2>3, <2>4, <2>5, BooksKeep
<1>4. QED
  BY <1>1, <1>2, <1>3

-----------------------------------------------------------------------------
(* Steps that change the directory.                                        *)

\* Objects go away or get another path, and the call ends.
LEMMA EntriesKeep ==
    ASSUME Inv, NEW c \in Clients, pc[c] \in {"remove", "rename"}, Return(c),
           UNCHANGED <<temps, data, durable, workload, answer, stray>>,
           NEW o \in {"ok", "notfound", "exists", "error"},
           outcome' = [outcome EXCEPT ![c] = o],
           entry' \in [Paths -> Files \cup {None}],
           \A p \in Paths : entry'[p] # None => \E q \in Paths : entry'[p] = entry[q],
           \A p, q \in Paths : p # q /\ entry'[p] # None => entry'[p] # entry'[q]
    PROVE  Inv'
<1>1. /\ request'[c] = None /\ pc'[c] = "idle" /\ file[c] = None /\ file'[c] = None
      /\ outcome'[c] = o /\ stream'[c] \in {None, stream[c]}
      /\ \A d \in Clients : d # c =>
          /\ pc'[d] = pc[d] /\ request'[d] = request[d] /\ stream'[d] = stream[d]
          /\ outcome'[d] = outcome[d]
      /\ file' = file
  BY DEF Return, Goto, Inv, DirectoryInvariant, TypeOK
<1>2. TypeOK'
  BY <1>1 DEF Return, Goto, Inv, DirectoryInvariant, TypeOK
<1>3. TempsOwned'
  BY <1>1, LocalAssumption DEF Inv, DirectoryInvariant, TypeOK, TempsOwned
<1>4. OneNamePerFile'
  <2>1. ASSUME NEW p \in Paths, entry'[p] \in temps, entry'[p] \notin stray
        PROVE  \E d \in Clients : file'[d] = entry'[p] /\ pc'[d] \in {"unlink", "cleanup"}
    <3>1. PICK q \in Paths : entry'[p] = entry[q]
      BY <2>1, LocalAssumption DEF Inv, DirectoryInvariant, TypeOK
    <3>2. PICK d \in Clients : file[d] = entry[q] /\ pc[d] \in {"unlink", "cleanup"}
      BY <2>1, <3>1 DEF Inv, DirectoryInvariant, OneNamePerFile
    <3>3. QED
      BY <1>1, <3>1, <3>2
  <2>2. QED
    BY <2>1 DEF OneNamePerFile
<1>5. StableStreams'
  BY <1>1 DEF Inv, DirectoryInvariant, TypeOK, StableStreams
<1>6. Calling'
  <2>1. CallOK(c)'
    BY Zenon, <1>1 DEF CallOK, Filling
  <2>2. QED
    BY Zenon, <1>1, <2>1, CallingKeeps
<1>7. Private'
  <2> SUFFICES ASSUME NEW d \in Clients, file[d] # None
               PROVE  /\ \A e \in Clients : e # d => file[e] # file[d]
                      /\ pc'[d] \in Filling =>
                            /\ \A p \in Paths : entry'[p] # file[d] /\ durable.entry[p] # file[d]
                            /\ \A e \in Clients : stream'[e] # file[d]
                      /\ pc'[d] = "confirm" => file[d] \notin temps
    BY Zenon, <1>1 DEF Private
  <2>1. d # c /\ pc'[d] = pc[d]
    BY Zenon, <1>1
  <2>2. /\ \A e \in Clients : e # d => file[e] # file[d]
        /\ pc[d] \in Filling =>
              /\ \A p \in Paths : entry[p] # file[d] /\ durable.entry[p] # file[d]
              /\ \A e \in Clients : stream[e] # file[d]
        /\ pc[d] = "confirm" => file[d] \notin temps
    BY Zenon DEF Inv, Private
  <2>3. \A e \in Clients : stream'[e] \in {None, stream[e]}
    BY Zenon, <1>1
  <2>4. ASSUME pc[d] \in Filling, NEW p \in Paths
        PROVE  entry'[p] # file[d]
    BY Zenon, <2>2, <2>4
  <2>5. QED
    BY Zenon, <2>1, <2>2, <2>3, <2>4
<1>8. Synced'
  <2>1. \A p \in Paths : entry'[p] # None => data[entry'[p]].full /\ data[entry'[p]].synced
    BY ZenonT(60) DEF Inv, Synced
  <2>2. \A d \in Clients : /\ pc'[d] \in {"sync", "publish"} => d # c
                           /\ pc'[d] = "publish" => d # c
    BY Zenon, <1>1
  <2>3. \A d \in Clients : d # c => Source(d)' = Source(d)
    BY Zenon, <1>1 DEF Source
  <2>4. /\ \A d \in Clients : pc'[d] \in {"sync", "publish"} =>
              data[file[d]].full /\ data[file[d]].content = Source(d)'
        /\ \A d \in Clients : pc'[d] = "publish" => data[file[d]].synced
    BY ZenonT(60), <1>1, <2>2, <2>3 DEF Inv, Synced
  <2>5. QED
    BY ZenonT(60), <1>1, <2>1, <2>4 DEF Inv, Synced
<1>9. QED
  BY <1>2, <1>3, <1>4, <1>5, <1>6, <1>7, <1>8 DEF Inv, DirectoryInvariant

\* Delete, and both forms of the Rename that makes a Move.
LEMMA MovesKeep ==
    ASSUME Inv, NEW c \in Clients, UNCHANGED workload,
           Delete(c) \/ Rename(c) \/ RenameNoReplace(c)
    PROVE  Inv'
<1> DEFINE r == request[c]
<1>0. /\ pc[c] \in {"remove", "rename"} /\ Return(c) /\ r.path \in Paths /\ r.to \in Paths
      /\ UNCHANGED <<temps, data, durable, answer, stray>>
  BY InProgress DEF Delete, Rename, RenameNoReplace
<1>1. PICK o \in {"ok", "notfound", "exists", "error"} : outcome' = [outcome EXCEPT ![c] = o]
  BY DEF Delete, Rename, RenameNoReplace, Answer
<1>2. /\ entry \in [Paths -> Files \cup {None}]
      /\ \A p, q \in Paths : p # q /\ entry[p] # None => entry[p] # entry[q]
  BY DEF Inv, DirectoryInvariant, TypeOK, OneNamePerFile
<1>3. CASE entry' = entry
  BY Zenon, <1>0, <1>1, <1>2, <1>3, EntriesKeep
<1>4. CASE entry' = [entry EXCEPT ![r.path] = None]
  <2>1. \A p \in Paths : entry'[p] = IF p = r.path THEN None ELSE entry[p]
    BY <1>0, <1>2, <1>4
  <2>2. entry' \in [Paths -> Files \cup {None}]
    BY Zenon, <1>2, <1>4
  <2>3. QED
    BY ZenonT(60), <1>0, <1>1, <1>2, <2>1, <2>2, EntriesKeep
<1>5. CASE r.path # r.to /\ entry' = [entry EXCEPT ![r.path] = None, ![r.to] = entry[r.path]]
  <2>1. \A p \in Paths : entry'[p] = IF p = r.to THEN entry[r.path]
                                     ELSE IF p = r.path THEN None ELSE entry[p]
    BY <1>0, <1>2, <1>5
  <2>2. entry' \in [Paths -> Files \cup {None}]
    BY <1>0, <1>2, <1>5
  <2>3. \A p \in Paths : entry'[p] # None => \E q \in Paths : entry'[p] = entry[q]
    BY <1>0, <2>1
  <2>4. \A p, q \in Paths : p # q /\ entry'[p] # None => entry'[p] # entry'[q]
    BY <1>0, <1>2, <2>1
  <2>5. QED
    BY Zenon, <1>0, <1>1, <2>2, <2>3, <2>4, EntriesKeep
<1>6. QED
  BY <1>3, <1>4, <1>5 DEF Delete, Rename, RenameNoReplace, Renamed

\* The temporary file gets the object's name, which was another's or nobody's.
LEMMA PublishKeeps ==
    ASSUME Inv, NEW c \in Clients, UNCHANGED workload, PublishRename(c) \/ PublishLink(c)
    PROVE  Inv'
<1> DEFINE to == request[c].to
<1>0. /\ pc[c] = "publish" /\ to \in Paths /\ file[c] \in Files /\ file[c] # None
      /\ UNCHANGED <<data, durable, request, file, stream, answer, stray>>
      /\ data[file[c]].full /\ data[file[c]].synced
      /\ \A p \in Paths : entry[p] # file[c]
  <2>1. /\ pc[c] = "publish"
        /\ UNCHANGED <<data, durable, request, file, stream, answer, stray>>
    BY DEF PublishRename, PublishLink
  <2>2. to \in Paths
    BY <2>1, InProgress
  <2>3. file[c] \in Files /\ file[c] # None
    BY <2>1, Sources, LocalAssumption DEF Filling
  <2>4. data[file[c]].full /\ data[file[c]].synced
    BY Zenon, <2>1 DEF Inv, Synced
  <2>5. \A p \in Paths : entry[p] # file[c]
    BY Zenon, <2>1, <2>3 DEF Inv, Private, Filling
  <2>6. QED
    BY Zenon, <2>1, <2>2, <2>3, <2>4, <2>5
<1>1. CASE /\ outcome' = [outcome EXCEPT ![c] = "exists"] /\ UNCHANGED <<entry, temps>>
           /\ pc' = [pc EXCEPT ![c] = "cleanup"]
  <2>1. TypeOK'
    BY <1>0, <1>1 DEF Inv, DirectoryInvariant, TypeOK
  <2>2. CallOK(c)'
    BY SMTT(60), <1>0, <1>1 DEF Inv, DirectoryInvariant, TypeOK, Calling, CallOK, Filling
  <2>3. Books(c)
    BY <1>0, <1>1 DEF Books, Inv, DirectoryInvariant, TypeOK, Filling
  <2>4. QED
    BY <2>1, <2>2, <2>3, BooksKeep
<1>2. ASSUME entry' = [entry EXCEPT ![to] = file[c]],
             outcome' = [outcome EXCEPT ![c] = "ok"],
             NEW s \in {"unlink", "confirm"}, pc' = [pc EXCEPT ![c] = s],
             IF s = "confirm" THEN temps' = temps \ {file[c]} ELSE temps' = temps
      PROVE  Inv'
  <2>1. /\ \A p \in Paths : entry'[p] = IF p = to THEN file[c] ELSE entry[p]
        /\ pc'[c] = s /\ outcome'[c] = "ok" /\ temps' \subseteq temps
        /\ \A d \in Clients : d # c => pc'[d] = pc[d] /\ outcome'[d] = outcome[d]
        /\ s = "confirm" => file[c] \notin temps'
        /\ \A f \in temps : f \in temps' \/ f = file[c]
    BY SMTT(60), <1>0, <1>2 DEF Inv, DirectoryInvariant, TypeOK
  <2>2. TypeOK'
    BY SMTT(60), <1>0, <1>2, <2>1 DEF Inv, DirectoryInvariant, TypeOK
  <2>3. TempsOwned'
    BY <1>0, <2>1, TempsKeep
  <2>4. OneNamePerFile'
    <3>1. ASSUME NEW p \in Paths, NEW q \in Paths, p # q, entry'[p] # None
          PROVE  entry'[p] # entry'[q]
      <4>1. entry[p] # None => entry[p] # entry[q]
        BY Zenon, <3>1 DEF Inv, DirectoryInvariant, OneNamePerFile
      <4>2. /\ entry'[p] = IF p = to THEN file[c] ELSE entry[p]
            /\ entry'[q] = IF q = to THEN file[c] ELSE entry[q]
        BY Zenon, <2>1
      <4>3. QED
        BY Zenon, <1>0, <3>1, <4>1, <4>2
    <3>2. ASSUME NEW p \in Paths, entry'[p] \in temps'
          PROVE  \/ entry'[p] \in stray
                 \/ \E d \in Clients : file[d] = entry'[p] /\ pc'[d] \in {"unlink", "cleanup"}
      <4>1. CASE p = to
        <5>1. entry'[p] = file[c]
          BY Zenon, <2>1, <4>1
        <5>2. s = "unlink"
          BY Zenon, <2>1, <3>2, <5>1
        <5>3. QED
          BY Zenon, <2>1, <5>1, <5>2
      <4>2. CASE p # to
        <5>1. entry'[p] = entry[p] /\ entry[p] \in temps
          BY Zenon, <2>1, <3>2, <4>2
        <5>2. CASE entry[p] \in stray
          BY Zenon, <5>1, <5>2
        <5>3. CASE entry[p] \notin stray
          <6>1. PICK d \in Clients : file[d] = entry[p] /\ pc[d] \in {"unlink", "cleanup"}
            BY Zenon, <5>1, <5>3 DEF Inv, DirectoryInvariant, OneNamePerFile
          <6>2. d # c
            BY Zenon, <1>0, <6>1
          <6>3. QED
            BY Zenon, <2>1, <5>1, <6>1, <6>2
        <5>4. QED
          BY Zenon, <5>2, <5>3
      <4>3. QED
        BY Zenon, <4>1, <4>2
    <3>3. QED
      BY Zenon, <1>0, <3>1, <3>2 DEF OneNamePerFile
  <2>5. StableStreams'
    BY Zenon, <1>0 DEF Inv, StableStreams
  <2>6. Calling'
    <3>1. request[c] # None => request[c] \in Calls
      BY Zenon DEF Inv, Calling, CallOK
    <3>2. CallOK(c)'
      BY Zenon, <1>0, <2>1, <3>1 DEF CallOK, Filling
    <3>3. QED
      BY Zenon, <1>0, <2>1, <3>2, CallingKeeps
  <2>7. Private'
    <3>1. ASSUME NEW d \in Clients, file[d] # None, d # c
          PROVE  /\ file[d] # file[c]
                 /\ pc'[d] \in Filling =>
                       /\ \A p \in Paths : entry'[p] # file[d] /\ durable.entry[p] # file[d]
                       /\ \A e \in Clients : stream[e] # file[d]
                 /\ pc'[d] = "confirm" => file[d] \notin temps'
      <4>1. file[d] # file[c] /\ pc'[d] = pc[d]
        BY Zenon, <1>0, <2>1, <3>1 DEF Inv, Private
      <4>2. /\ pc[d] \in Filling =>
                  /\ \A p \in Paths : entry[p] # file[d] /\ durable.entry[p] # file[d]
                  /\ \A e \in Clients : stream[e] # file[d]
            /\ pc[d] = "confirm" => file[d] \notin temps
        BY Zenon, <3>1 DEF Inv, Private
      <4>3. QED
        BY ZenonT(60), <2>1, <4>1, <4>2
    <3>2. pc'[c] \notin Filling /\ (pc'[c] = "confirm" => file[c] \notin temps')
      BY <2>1 DEF Filling
    <3>3. \A d, e \in Clients : file[d] # None /\ e # d => file[e] # file[d]
      BY Zenon DEF Inv, Private
    <3>4. QED
      BY Zenon, <1>0, <3>1, <3>2, <3>3 DEF Private
  <2>8. Synced'
    <3>1. data[file[c]].full /\ data[file[c]].synced
      BY <1>0 DEF Inv, Synced
    <3>2. \A p \in Paths : entry'[p] # None => data[entry'[p]].full /\ data[entry'[p]].synced
      BY ZenonT(60), <2>1, <3>1 DEF Inv, Synced
    <3>3. \A d \in Clients : pc'[d] \in {"sync", "publish"} => d # c
      BY <2>1
    <3>4. \A d \in Clients : pc'[d] = "publish" => d # c
      BY <2>1
    <3>5. \A d \in Clients : Source(d)' = Source(d)
      BY Zenon, <1>0 DEF Source
    <3>6. \A d \in Clients : d # c => pc'[d] = pc[d]
      BY Zenon, <2>1
    <3>7. QED
      BY ZenonT(60), <1>0, <3>2, <3>3, <3>4, <3>5, <3>6 DEF Inv, Synced
  <2>9. QED
    BY <2>2, <2>3, <2>4, <2>5, <2>6, <2>7, <2>8 DEF Inv, DirectoryInvariant
<1>3. CASE PublishRename(c)
  BY Zenon, <1>2, <1>3 DEF PublishRename, Answer, Goto
<1>4. CASE PublishLink(c)
  BY Zenon, <1>1, <1>2, <1>4 DEF PublishLink, Answer, Goto
<1>5. QED
  BY <1>3, <1>4

\* The temporary name goes away, or stays behind.
LEMMA RemovalKeeps ==
    ASSUME Inv, NEW c \in Clients, UNCHANGED workload, Unlink(c) \/ Cleanup(c)
    PROVE  Inv'
<1>0. /\ pc[c] \in {"unlink", "cleanup"} /\ file[c] \in Files /\ file[c] # None
      /\ UNCHANGED <<entry, data, durable, answer>>
  BY LocalAssumption DEF Unlink, Cleanup, Inv, DirectoryInvariant, TypeOK
<1>1. ASSUME temps' = temps \ {file[c]}, UNCHANGED stray,
             \/ /\ UNCHANGED <<request, file, stream, outcome>> /\ pc[c] = "unlink"
                /\ pc' = [pc EXCEPT ![c] = "confirm"]
             \/ UNCHANGED outcome /\ Return(c) /\ pc[c] = "cleanup"
      PROVE  Inv'
  <2>1. /\ pc'[c] \in {"confirm", "idle"} /\ stream'[c] \in {None, stream[c]}
        /\ outcome' = outcome /\ file'[c] \in {None, file[c]}
        /\ pc'[c] = "confirm" => outcome[c] = "ok"
        /\ pc'[c] = "idle" => request'[c] = None /\ outcome[c] \in {"exists", "error"}
        /\ request'[c] \in {None, request[c]}
        /\ \A d \in Clients : d # c => /\ pc'[d] = pc[d] /\ request'[d] = request[d]
                                       /\ file'[d] = file[d] /\ stream'[d] = stream[d]
    BY <1>1 DEF Return, Goto, Inv, DirectoryInvariant, TypeOK, Calling, CallOK
  <2>2. TypeOK'
    <3>1. temps' \in SUBSET Files
      BY Zenon, <1>1 DEF Inv, DirectoryInvariant, TypeOK
    <3>2. CASE UNCHANGED <<request, file, stream, outcome>> /\ pc' = [pc EXCEPT ![c] = "confirm"]
      BY ZenonT(60), <1>0, <1>1, <3>1, <3>2 DEF Inv, DirectoryInvariant, TypeOK
    <3>3. CASE UNCHANGED outcome /\ Return(c)
      BY ZenonT(60), <1>0, <1>1, <3>1, <3>3 DEF Return, Goto, Inv, DirectoryInvariant, TypeOK
    <3>4. QED
      BY Zenon, <1>1, <3>2, <3>3
  <2>3. TempsOwned'
    BY Zenon, <1>0, <1>1, <2>1, TempsKeep
  <2>4. OneNamePerFile'
    <3>1. ASSUME NEW p \in Paths, entry[p] \in temps', entry[p] \notin stray
          PROVE  \E d \in Clients : file'[d] = entry[p] /\ pc'[d] \in {"unlink", "cleanup"}
      <4>1. entry[p] \in temps /\ entry[p] # file[c]
        BY Zenon, <1>1, <3>1
      <4>2. PICK d \in Clients : file[d] = entry[p] /\ pc[d] \in {"unlink", "cleanup"}
        BY Zenon, <3>1, <4>1 DEF Inv, DirectoryInvariant, OneNamePerFile
      <4>3. QED
        BY Zenon, <2>1, <4>1, <4>2
    <3>2. QED
      BY Zenon, <1>0, <1>1, <3>1 DEF Inv, DirectoryInvariant, OneNamePerFile
  <2>5. StableStreams'
    <3>1. \A d \in Clients : stream'[d] # None => stream'[d] = stream[d]
      BY Zenon, <2>1
    <3>2. QED
      BY Zenon, <1>0, <3>1 DEF Inv, StableStreams
  <2>6. Calling'
    <3>1. request[c] # None => request[c] \in Calls
      BY Zenon DEF Inv, Calling, CallOK
    <3>2. CallOK(c)'
      BY Zenon, <1>0, <2>1, <3>1 DEF CallOK, Filling
    <3>3. QED
      BY Zenon, <2>1, <3>2, CallingKeeps
  <2>7. Private'
    <3> SUFFICES ASSUME NEW d \in Clients, file'[d] # None
                 PROVE  /\ \A e \in Clients : e # d => file'[e] # file'[d]
                        /\ pc'[d] \in Filling =>
                              /\ \A p \in Paths :
                                    entry[p] # file'[d] /\ durable.entry[p] # file'[d]
                              /\ \A e \in Clients : stream'[e] # file'[d]
                        /\ pc'[d] = "confirm" => file'[d] \notin temps'
      BY Zenon, <1>0 DEF Private
    <3>1. file'[d] = file[d] /\ \A e \in Clients : file'[e] \in {None, file[e]}
      BY Zenon, <2>1
    <3>2. \A e \in Clients : e # d => file[e] # file[d]
      BY Zenon, <3>1 DEF Inv, Private
    <3>3. \A e \in Clients : e # d => file'[e] # file'[d]
      BY <3>1, <3>2
    <3>4. CASE d = c
      BY Zenon, <1>1, <2>1, <3>1, <3>3, <3>4 DEF Filling
    <3>5. CASE d # c
      <4>1. pc'[d] = pc[d] /\ file[d] # None
        BY Zenon, <2>1, <3>1, <3>5
      <4>2. /\ pc[d] \in Filling =>
                  /\ \A p \in Paths : entry[p] # file[d] /\ durable.entry[p] # file[d]
                  /\ \A e \in Clients : stream[e] # file[d]
            /\ pc[d] = "confirm" => file[d] \notin temps
        BY Zenon, <4>1 DEF Inv, Private
      <4>3. \A e \in Clients : stream'[e] \in {None, stream[e]}
        BY Zenon, <2>1
      <4>4. QED
        BY Zenon, <1>1, <3>1, <3>3, <4>1, <4>2, <4>3
    <3>6. QED
      BY Zenon, <3>4, <3>5
  <2>8. Synced'
    <3>1. entry' = entry /\ data' = data /\ durable' = durable
      BY <1>0
    <3>2. \A d \in Clients : pc'[d] \in {"sync", "publish"} \/ pc'[d] = "publish" => d # c
      BY Zenon, <2>1
    <3>3. \A d \in Clients : d # c => pc'[d] = pc[d] /\ file'[d] = file[d] /\ Source(d)' = Source(d)
      BY Zenon, <2>1, <3>1 DEF Source
    <3>4. QED
      BY ZenonT(60), <3>1, <3>2, <3>3 DEF Inv, Synced
  <2>9. QED
    BY <2>2, <2>3, <2>4, <2>5, <2>6, <2>7, <2>8 DEF Inv, DirectoryInvariant
<1>2. CASE /\ Unlink(c) /\ UNCHANGED temps
           /\ pc' = [pc EXCEPT ![c] = "cleanup"] /\ outcome' = [outcome EXCEPT ![c] = "error"]
  <2>1. UNCHANGED <<request, file, stream, answer, stray>> /\ pc[c] = "unlink"
    BY Zenon, <1>2 DEF Unlink
  <2>2. TypeOK'
    BY <1>0, <1>2, <2>1 DEF Inv, DirectoryInvariant, TypeOK
  <2>3. CallOK(c)'
    BY ZenonT(60), <1>2, <2>1 DEF Inv, DirectoryInvariant, TypeOK, Calling, CallOK, Filling
  <2>4. Books(c)
    BY <1>0, <1>2, <2>1 DEF Books, Inv, DirectoryInvariant, TypeOK, Filling
  <2>5. QED
    BY <2>2, <2>3, <2>4, BooksKeep
<1>3. CASE Cleanup(c) /\ stray' = stray \cup {file[c]} /\ UNCHANGED temps
  <2>1. UNCHANGED <<outcome, answer>> /\ pc[c] = "cleanup" /\ Return(c)
    BY Zenon, <1>3 DEF Cleanup
  <2>2. TypeOK'
    BY <1>0, <1>3, <2>1 DEF Return, Goto, Inv, DirectoryInvariant, TypeOK
  <2>3. CallOK(c)'
    BY ZenonT(60), <2>1
       DEF Return, Goto, Inv, DirectoryInvariant, TypeOK, Calling, CallOK, Filling
  <2>4. Books(c)
    <3>1. /\ file'[c] = None /\ stream'[c] \in {None, stream[c]}
          /\ \A d \in Clients : d # c => /\ pc'[d] = pc[d] /\ request'[d] = request[d]
                                         /\ file'[d] = file[d] /\ stream'[d] = stream[d]
      BY SMTT(60), <2>1 DEF Return, Goto, Inv, DirectoryInvariant, TypeOK
    <3>2. file[c] \in stray' /\ stray \subseteq stray'
      BY Zenon, <1>3
    <3>3. QED
      BY ZenonT(60), <1>0, <1>3, <2>1, <3>1, <3>2 DEF Books
  <2>5. QED
    BY <2>2, <2>3, <2>4, BooksKeep
<1>4. CASE Unlink(c)
  BY Zenon, <1>1, <1>2, <1>4 DEF Unlink, Answer, Goto
<1>5. CASE Cleanup(c)
  BY Zenon, <1>1, <1>3, <1>5 DEF Cleanup
<1>6. QED
  BY <1>4, <1>5

-----------------------------------------------------------------------------
(* Steps that change file data, and the disk's own.                        *)

\* A Write takes a file that nothing refers to.
LEMMA CreateKeeps ==
    ASSUME Inv, NEW c \in Clients, UNCHANGED workload, Create(c)
    PROVE  Inv'
<1>1. PICK f \in Free : /\ temps' = temps \cup {f}
                        /\ data' = [data EXCEPT ![f] = Empty]
                        /\ file' = [file EXCEPT ![c] = f]
  BY Zenon DEF Create
<1>2. /\ f \in Files /\ f # None /\ f \notin temps
      /\ \A p \in Paths : entry[p] # f /\ durable.entry[p] # f
      /\ \A d \in Clients : file[d] # f /\ stream[d] # f
  BY Zenon, LocalAssumption DEF Free
<1>3. /\ pc[c] = "create" /\ pc' = [pc EXCEPT ![c] = "fill"]
      /\ UNCHANGED <<entry, durable, request, stream, outcome, answer, stray>>
  BY DEF Create, Goto
<1>4. /\ file[c] = None /\ file'[c] = f /\ pc'[c] = "fill" /\ data'[f] = Empty
      /\ \A g \in Files : g # f => data'[g] = data[g]
      /\ \A d \in Clients : d # c => pc'[d] = pc[d] /\ file'[d] = file[d]
  BY <1>1, <1>2, <1>3 DEF Inv, DirectoryInvariant, TypeOK
<1>5. TypeOK'
  <2>1. Empty \in Data
    BY DEF Empty, Data
  <2>2. data' \in [Files -> Data] /\ temps' \in SUBSET Files
    BY <1>1, <1>2, <2>1 DEF Inv, DirectoryInvariant, TypeOK
  <2>3. QED
    BY ZenonT(60), <1>1, <1>2, <1>3, <2>2 DEF Inv, DirectoryInvariant, TypeOK
<1>6. TempsOwned'
  BY SMTT(60), <1>1, <1>3, <1>4, LocalAssumption DEF Inv, DirectoryInvariant, TypeOK, TempsOwned
<1>7. OneNamePerFile'
  <2>1. \A p \in Paths : entry'[p] = entry[p] /\ (entry'[p] \in temps' => entry[p] \in temps)
    BY Zenon, <1>1, <1>2, <1>3
  <2>2. \A d \in Clients : pc[d] \in {"unlink", "cleanup"} => d # c
    BY <1>3
  <2>3. \A p, q \in Paths : p # q /\ entry'[p] # None => entry'[p] # entry'[q]
    BY ZenonT(60), <2>1 DEF Inv, DirectoryInvariant, OneNamePerFile
  <2>4. ASSUME NEW p \in Paths, entry'[p] \in temps', entry'[p] \notin stray'
        PROVE  \E d \in Clients : file'[d] = entry'[p] /\ pc'[d] \in {"unlink", "cleanup"}
    <3>1. PICK d \in Clients : file[d] = entry[p] /\ pc[d] \in {"unlink", "cleanup"}
      BY Zenon, <1>3, <2>1, <2>4 DEF Inv, DirectoryInvariant, OneNamePerFile
    <3>2. QED
      BY Zenon, <1>4, <2>1, <2>2, <3>1
  <2>5. QED
    BY Zenon, <2>3, <2>4 DEF OneNamePerFile
<1>8. StableStreams'
  BY ZenonT(60), <1>2, <1>3, <1>4, Within DEF Inv, StableStreams
<1>9. Calling'
  <2>1. ASSUME NEW d \in Clients, d # c PROVE CallOK(d)'
    <3>1. CallOK(d)
      BY Zenon DEF Inv, Calling
    <3>2. QED
      BY Zenon, <1>3, <1>4, <2>1, <3>1 DEF CallOK
  <2>2. CallOK(c)'
    <3>1. CallOK(c)
      BY Zenon DEF Inv, Calling
    <3>2. QED
      BY <1>3, <1>4, <3>1 DEF CallOK, Filling
  <2>3. QED
    BY Zenon, <2>1, <2>2 DEF Calling
<1>10. Private'
  <2>1. ASSUME NEW d \in Clients, d # c, file'[d] # None
        PROVE  /\ \A e \in Clients : e # d => file'[e] # file'[d]
               /\ pc'[d] \in Filling =>
                     /\ \A p \in Paths : entry[p] # file'[d] /\ durable.entry[p] # file'[d]
                     /\ \A e \in Clients : stream[e] # file'[d]
               /\ pc'[d] = "confirm" => file'[d] \notin temps'
    <3>1. pc'[d] = pc[d] /\ file'[d] = file[d] /\ file[d] # f /\ file[d] # None
      BY Zenon, <1>2, <1>4, <2>1
    <3>2. /\ \A e \in Clients : e # d => file[e] # file[d]
          /\ pc[d] \in Filling =>
                /\ \A p \in Paths : entry[p] # file[d] /\ durable.entry[p] # file[d]
                /\ \A e \in Clients : stream[e] # file[d]
          /\ pc[d] = "confirm" => file[d] \notin temps
      BY Zenon, <3>1 DEF Inv, Private
    <3>3. \A e \in Clients : e # d => file'[e] # file'[d]
      BY Zenon, <1>4, <3>1, <3>2
    <3>4. QED
      <4>1. file[d] \notin temps => file[d] \notin temps'
        BY Zenon, <1>1, <3>1
      <4>2. QED
        BY Zenon, <3>1, <3>2, <3>3, <4>1
  <2>2. /\ \A e \in Clients : e # c => file'[e] # file'[c]
        /\ \A p \in Paths : entry[p] # file'[c] /\ durable.entry[p] # file'[c]
        /\ \A e \in Clients : stream[e] # file'[c]
        /\ pc'[c] # "confirm"
    BY <1>2, <1>4
  <2>3. entry' = entry /\ durable' = durable /\ stream' = stream
    BY <1>3
  <2>4. QED
    BY Zenon, <2>1, <2>2, <2>3 DEF Private
<1>11. Synced'
  <2>1. \A g \in Files : data'[g].full => data'[g].content \in Contents
    <3>1. ~Empty.full
      BY DEF Empty
    <3>2. QED
      BY Zenon, <1>4, <3>1 DEF Inv, Synced
  <2>2. /\ \A p \in Paths : entry[p] # None => data'[entry[p]] = data[entry[p]]
        /\ \A p \in Paths : durable.entry[p] # None =>
              data'[durable.entry[p]] = data[durable.entry[p]]
    BY Zenon, <1>2, <1>4, Within
  <2>3. ASSUME NEW d \in Clients, pc'[d] \in {"sync", "publish"}
        PROVE  /\ d # c /\ data'[file'[d]] = data[file[d]] /\ Source(d)' = Source(d)
               /\ pc[d] = pc'[d]
    <3>1. d # c /\ pc[d] = pc'[d] /\ file'[d] = file[d] /\ file[d] \in Files /\ file[d] # f
      <4>1. d # c
        BY Zenon, <1>4, <2>3
      <4>2. pc[d] = pc'[d] /\ file'[d] = file[d]
        BY Zenon, <1>4, <4>1
      <4>3. file[d] # None
        BY Zenon, <2>3, <4>2 DEF Inv, DirectoryInvariant, TypeOK
      <4>4. QED
        BY Zenon, <1>2, <4>1, <4>2, <4>3, Within
    <3>2. request[d].op = "copy" => stream[d] \in Files /\ stream[d] # f
      BY Zenon, <1>2, <2>3, <3>1, Sources DEF Filling
    <3>3. QED
      BY Zenon, <1>3, <1>4, <3>1, <3>2 DEF Source
  <2>4. /\ \A p \in Paths : entry'[p] # None => data'[entry'[p]].full /\ data'[entry'[p]].synced
        /\ \A p \in Paths : durable'.entry[p] # None =>
              data'[durable'.entry[p]].full /\ data'[durable'.entry[p]].synced
        /\ \A p, q \in Paths : p # q /\ durable'.entry[p] # None =>
              durable'.entry[p] # durable'.entry[q]
    BY ZenonT(60), <1>3, <2>2 DEF Inv, Synced
  <2>5. /\ \A d \in Clients : pc'[d] \in {"sync", "publish"} =>
              data'[file'[d]].full /\ data'[file'[d]].content = Source(d)'
        /\ \A d \in Clients : pc'[d] = "publish" => data'[file'[d]].synced
    <3>1. \A d \in Clients : pc'[d] = "publish" => pc'[d] \in {"sync", "publish"}
      OBVIOUS
    <3>2. QED
      BY ZenonT(60), <2>3, <3>1 DEF Inv, Synced
  <2>6. QED
    BY Zenon, <2>1, <2>4, <2>5 DEF Synced
<1>12. QED
  BY <1>5, <1>6, <1>7, <1>8, <1>9, <1>10, <1>11 DEF Inv, DirectoryInvariant

\* Only the temporary file of the call is written to, and nobody else has it.
LEMMA DataKeeps ==
    ASSUME Inv, NEW c \in Clients, UNCHANGED workload, Fill(c) \/ Sync(c)
    PROVE  Inv'
<1> DEFINE f == file[c]
<1>0. /\ pc[c] \in {"fill", "sync"} /\ f \in Files /\ Source(c) \in Contents
      /\ UNCHANGED <<entry, temps, durable, request, file, stream, outcome, answer, stray>>
      /\ \A p \in Paths : entry[p] # f /\ durable.entry[p] # f
      /\ \A d \in Clients : stream[d] # f /\ (d # c => file[d] # f)
  <2>1. pc[c] \in {"fill", "sync"}
        /\ UNCHANGED <<entry, temps, durable, request, file, stream, outcome, answer, stray>>
    BY DEF Fill, Sync, directoryVars, callVars
  <2>2. f \in Files /\ Source(c) \in Contents /\ f # None
    BY Zenon, <2>1, Sources, LocalAssumption DEF Filling
  <2>3. QED
    BY Zenon, <2>1, <2>2 DEF Inv, Private, Filling
<1>1. /\ data' \in [Files -> Data] /\ \A g \in Files : g # f => data'[g] = data[g]
      /\ data'[f].content = Source(c)
      /\ pc'[c] \in {"fill", "sync", "publish"}
      /\ pc' = [pc EXCEPT ![c] = pc'[c]]
      /\ pc'[c] \in {"sync", "publish"} => data'[f].full
      /\ pc'[c] = "publish" => data'[f].synced
  <2>1. data \in [Files -> Data] /\ pc \in [Clients -> {pc[d] : d \in Clients}]
    BY Zenon DEF Inv, DirectoryInvariant, TypeOK
  <2>2. CASE Fill(c)
    <3>1. PICK begun \in BOOLEAN :
             /\ data' = [data EXCEPT ![f] =
                            [content |-> Source(c), full |-> begun, synced |-> FALSE]]
             /\ pc' = IF begun THEN [pc EXCEPT ![c] = "sync"] ELSE pc
      BY Zenon, <2>2 DEF Fill, Goto
    <3>2. [content |-> Source(c), full |-> begun, synced |-> FALSE] \in Data
      BY Zenon, <1>0 DEF Data
    <3>3. pc[c] = "fill"
      BY Zenon, <2>2 DEF Fill
    <3>4. QED
      BY Zenon, <1>0, <2>1, <3>1, <3>2, <3>3
  <2>3. CASE Sync(c)
    <3>1. /\ data' = [data EXCEPT ![f].synced = TRUE] /\ pc' = [pc EXCEPT ![c] = "publish"]
          /\ pc[c] = "sync"
      BY <2>3 DEF Sync, Goto
    <3>2. data[f] \in Data /\ data[f].full /\ data[f].content = Source(c)
      BY <1>0, <2>1, <3>1 DEF Inv, Synced
    <3>3. data'[f] = [data[f] EXCEPT !.synced = TRUE] /\ [data[f] EXCEPT !.synced = TRUE] \in Data
      BY Zenon, <1>0, <2>1, <3>1, <3>2 DEF Data
    <3>4. QED
      BY <1>0, <2>1, <3>1, <3>2, <3>3 DEF Data
  <2>4. QED
    BY Zenon, <2>2, <2>3
<1>2. /\ \A d \in Clients : d # c => pc'[d] = pc[d]
      /\ \A d \in Clients : pc[d] \in Filling => (Source(d)' = Source(d))
  <2>1. ASSUME NEW d \in Clients, pc[d] \in Filling
        PROVE  Source(d)' = Source(d)
    <3>1. request[d].op = "copy" => stream[d] \in Files /\ stream[d] # f
      BY Zenon, <1>0, <2>1, Sources
    <3>2. QED
      BY Zenon, <1>0, <1>1, <3>1 DEF Source
  <2>2. QED
    BY SMTT(60), <1>1, <2>1 DEF Inv, DirectoryInvariant, TypeOK
<1> HIDE DEF f
<1>3. TypeOK'
  <2>1. /\ UNCHANGED <<entry, temps, durable, request, file, stream, outcome, answer, stray>>
        /\ data' \in [Files -> Data] /\ pc[c] \in {"fill", "sync"}
        /\ pc'[c] \in {"fill", "sync", "publish"} /\ pc' = [pc EXCEPT ![c] = pc'[c]]
    BY Zenon, <1>0, <1>1
  <2>2. QED
    BY SMTT(60), <2>1 DEF Inv, DirectoryInvariant, TypeOK
<1>4. TempsOwned'
  BY ZenonT(60), <1>0, <1>1, <1>2, TempsKeep
<1>5. OneNamePerFile'
  <2>1. \A d \in Clients : pc[d] \in {"unlink", "cleanup"} => d # c
    BY <1>0
  <2>2. QED
    BY Zenon, <1>0, <1>2, <2>1 DEF Inv, DirectoryInvariant, OneNamePerFile
<1>6. StableStreams'
  BY ZenonT(60), <1>0, <1>1, Within DEF Inv, StableStreams
<1>7. Calling'
  <2>1. CallOK(c)
    BY Zenon DEF Inv, Calling
  <2>2. CallOK(c)'
    BY Zenon, <1>0, <1>1, <2>1 DEF CallOK, Filling
  <2>3. QED
    BY Zenon, <1>0, <1>2, <2>2, CallingKeeps
<1>8. Private'
  <2>1. \A d \in Clients : /\ pc'[d] \in Filling => pc[d] \in Filling
                           /\ pc'[d] = "confirm" => pc[d] = "confirm"
    BY Zenon, <1>0, <1>1, <1>2 DEF Filling
  <2>2. QED
    BY Zenon, <1>0, <2>1 DEF Inv, Private
<1>9. Synced'
  <2>1. ASSUME NEW g \in Files, data'[g].full PROVE data'[g].content \in Contents
    <3>1. CASE g = f
      BY Zenon, <1>0, <1>1, <3>1
    <3>2. CASE g # f
      BY Zenon, <1>1, <2>1, <3>2 DEF Inv, Synced
    <3>3. QED
      BY Zenon, <3>1, <3>2
  <2>2. /\ \A p \in Paths : entry[p] # None => data'[entry[p]] = data[entry[p]]
        /\ \A p \in Paths : durable.entry[p] # None =>
              data'[durable.entry[p]] = data[durable.entry[p]]
    BY Zenon, <1>0, <1>1, Within
  <2>3. ASSUME NEW d \in Clients, pc'[d] \in {"sync", "publish"}
        PROVE  /\ data'[file[d]].full /\ data'[file[d]].content = Source(d)'
               /\ pc'[d] = "publish" => data'[file[d]].synced
    <3>1. CASE d = c
      BY Zenon, <1>0, <1>1, <1>2, <2>3, <3>1 DEF Filling, f
    <3>2. CASE d # c
      <4>1. pc[d] = pc'[d] /\ file[d] \in Files /\ file[d] # f
        BY SMTT(60), <1>0, <1>2, <2>3, <3>2 DEF Inv, DirectoryInvariant, TypeOK
      <4>2. data'[file[d]] = data[file[d]] /\ Source(d)' = Source(d)
        BY Zenon, <1>1, <1>2, <2>3, <4>1 DEF Filling
      <4>3. QED
        BY ZenonT(60), <2>3, <4>1, <4>2 DEF Inv, Synced
    <3>3. QED
      BY Zenon, <3>1, <3>2
  <2>4. QED
    BY Zenon, <1>0, <2>1, <2>2, <2>3 DEF Inv, Synced
<1>10. QED
  BY <1>3, <1>4, <1>5, <1>6, <1>7, <1>8, <1>9 DEF Inv, DirectoryInvariant

\* The directory is written back, or what was written back is all there is.
LEMMA DiskKeeps ==
    ASSUME Inv, UNCHANGED workload, FlushDirectory \/ LosePower
    PROVE  Inv'
<1>1. CASE FlushDirectory
  <2>1. /\ durable' = [entry |-> entry, temps |-> temps]
        /\ UNCHANGED <<entry, temps, data, pc, request, file, stream, outcome, answer, stray>>
    BY Zenon, <1>1 DEF FlushDirectory, callVars
  <2>2. TypeOK'
    BY Zenon, <2>1 DEF Inv, DirectoryInvariant, TypeOK, Directory
  <2>3. TempsOwned' /\ OneNamePerFile' /\ StableStreams' /\ Calling'
    <3>1. TempsOwned' /\ StableStreams'
      BY Zenon, <2>1 DEF Inv, DirectoryInvariant, TempsOwned, StableStreams
    <3>2. OneNamePerFile'
      BY Zenon, <2>1 DEF Inv, DirectoryInvariant, OneNamePerFile
    <3>3. Calling'
      BY ZenonT(60), <2>1 DEF Inv, Calling, CallOK
    <3>4. QED
      BY Zenon, <3>1, <3>2, <3>3
  <2>4. Private'
    BY ZenonT(60), <2>1 DEF Inv, Private
  <2>5. Synced'
    BY ZenonT(60), <2>1 DEF Inv, DirectoryInvariant, OneNamePerFile, Synced, Source
  <2>6. QED
    BY <2>2, <2>3, <2>4, <2>5 DEF Inv, DirectoryInvariant
<1>2. CASE LosePower
  <2>1. /\ entry' = durable.entry /\ temps' = durable.temps /\ stray' = durable.temps
        /\ pc' = [c \in Clients |-> "idle"] /\ request' = [c \in Clients |-> None]
        /\ file' = [c \in Clients |-> None] /\ stream' = [c \in Clients |-> None]
        /\ outcome' = [c \in Clients |-> "error"]
        /\ UNCHANGED <<durable, answer>>
    BY <1>2 DEF LosePower
  <2>2. data' = [f \in Files |-> IF data[f].synced THEN data[f]
                                 ELSE [data[f] EXCEPT !.full = FALSE]]
    BY <1>2 DEF LosePower
  <2>3. data \in [Files -> Data] /\ durable \in Directory
    BY DEF Inv, DirectoryInvariant, TypeOK
  <2>4. ASSUME NEW f \in Files
        PROVE  /\ data'[f] \in Data /\ (data[f].synced => data'[f] = data[f])
               /\ data'[f].full => data[f].full
               /\ data'[f].content = data[f].content
    BY ZenonT(60), <2>2, <2>3 DEF Data
  <2>5. data' \in [Files -> Data]
    BY <2>2, <2>4
  <2>6. TypeOK'
    BY Zenon, <2>1, <2>3, <2>5 DEF Inv, DirectoryInvariant, TypeOK, Directory
  <2>7. TempsOwned' /\ StableStreams' /\ Private'
    BY Zenon, <2>1 DEF TempsOwned, StableStreams, Private
  <2>8. OneNamePerFile'
    BY Zenon, <2>1 DEF Inv, Synced, OneNamePerFile
  <2>9. Calling'
    BY ZenonT(60), <2>1 DEF Calling, CallOK, Filling
  <2>10. Synced'
    BY ZenonT(60), <2>1, <2>3, <2>4 DEF Inv, Synced, Directory
  <2>11. QED
    BY <2>6, <2>7, <2>8, <2>9, <2>10 DEF Inv, DirectoryInvariant
<1>3. QED
  BY <1>1, <1>2

-----------------------------------------------------------------------------
\* Inv is inductive.
LEMMA InvHolds == Spec => []Inv
<1>1. Init => Inv
  <2> SUFFICES ASSUME Init PROVE Inv
    OBVIOUS
  <2>1. TypeOK
    BY Zenon DEF Init, TypeOK, Data, Empty, Directory
  <2>2. TempsOwned /\ OneNamePerFile /\ StableStreams /\ Private
    BY Zenon DEF Init, TempsOwned, OneNamePerFile, StableStreams, Private
  <2>3. Calling /\ Synced
    BY ZenonT(60) DEF Init, Calling, CallOK, Synced, Filling, Empty
  <2>4. QED
    BY <2>1, <2>2, <2>3 DEF Inv, DirectoryInvariant
<1>2. Inv /\ [Next]_vars => Inv'
  <2> SUFFICES ASSUME Inv, [Next]_vars PROVE Inv'
    OBVIOUS
  <2>1. CASE Next
    BY ZenonT(60), <2>1, StepsKeepBooks, OthersKeepBooks, MovesKeep, PublishKeeps, RemovalKeeps,
       CreateKeeps,
       DataKeeps, DiskKeeps DEF Next, Step
  <2>2. CASE UNCHANGED vars
    <3>1. TypeOK' /\ TempsOwned' /\ OneNamePerFile'
      <4>1. TypeOK'
        BY ZenonT(60), <2>2 DEF vars, Inv, DirectoryInvariant, TypeOK
      <4>2. QED
        BY SMTT(60), <2>2, <4>1 DEF vars, Inv, DirectoryInvariant, TempsOwned, OneNamePerFile
    <3>2. StableStreams' /\ Private'
      BY ZenonT(60), <2>2 DEF vars, Inv, StableStreams, Private
    <3>3. Calling'
      BY ZenonT(60), <2>2 DEF vars, Inv, Calling, CallOK
    <3>4. Synced'
      BY Zenon, <2>2 DEF vars, Inv, Synced, Source
    <3>5. QED
      BY Zenon, <3>1, <3>2, <3>3, <3>4 DEF Inv, DirectoryInvariant
  <2>3. QED
    BY <2>1, <2>2
<1>3. QED
  BY <1>1, <1>2, PTL DEF Spec

\* DirectoryInvariant: every temporary name belongs to a running Write or was
\* left by a failed Remove, a crash or a power loss, and a file has one name
\* but for the moment between Link and Remove (local.go: Write, publish).
THEOREM NamesAreAccountedFor == Spec => []DirectoryInvariant
<1>1. Inv => DirectoryInvariant
  BY SMTT(60) DEF Inv
<1>2. QED
  BY <1>1, InvHolds, PTL

\* CompleteObjects: whatever has an object's name holds one writer's whole
\* content, after a power loss at any instant too: Write syncs the temporary
\* file before it gives it the name (local.go: Write).
THEOREM ObjectsAreComplete == Spec => []CompleteObjects
<1>1. Inv => CompleteObjects
  BY Zenon DEF Inv, Synced, CompleteObjects
<1>2. QED
  BY <1>1, InvHolds, PTL

\* StableStreams: an open stream goes on reading the content it was opened on,
\* since only a file that nobody else has is ever written to (local.go: Open,
\* Copy, Write).
THEOREM StreamsAreStable == Spec => []StableStreams
<1>1. Inv => StableStreams
  BY DEF Inv
<1>2. QED
  BY <1>1, InvHolds, PTL

-----------------------------------------------------------------------------
(* Refinement of the contract.                                             *)

\* The mapping of Contract.
Seen == [p \in Paths |-> IF entry[p] = None THEN None ELSE data[entry[p]].content]
Requested == [c \in Clients |-> IF InEffect(c) THEN request[c] ELSE None]
Told == [c \in Clients |-> IF outcome[c] = "gone" THEN "error" ELSE outcome[c]]

\* What the contract sees at a path.
LEMMA SeenIff ==
    ASSUME Inv, NEW p \in Paths
    PROVE  /\ entry[p] # None <=> Seen[p] # None
           /\ entry[p] # None => Seen[p] = data[entry[p]].content
BY Zenon, Object, LocalAssumption DEF Seen

\* The mapped variables are functions on the paths ...
LEMMA OnPaths ==
    Seen = [p \in Paths |-> Seen[p]] /\ Seen' = [p \in Paths |-> Seen'[p]]
BY DEF Seen

\* ... and on the clients.
LEMMA OnClients ==
    /\ Requested = [c \in Clients |-> Requested[c]]
    /\ Requested' = [c \in Clients |-> Requested'[c]]
BY DEF Requested

\* The contract knows what a call that has not returned, or not failed, is told.
LEMMA Tells ==
    ASSUME NEW c \in Clients, outcome[c] # "gone"
    PROVE  Told[c] = outcome[c]
BY Zenon DEF Told

\* An answer of the adapter is an answer of the contract.
LEMMA ToldOf ==
    ASSUME Inv, NEW c \in Clients, NEW o, NEW t, t = IF o = "gone" THEN "error" ELSE o,
           outcome' = [outcome EXCEPT ![c] = o]
    PROVE  Told' = [Told EXCEPT ![c] = t]
<1>1. outcome'[c] = o /\ \A d \in Clients : d # c => outcome'[d] = outcome[d]
  BY DEF Inv, DirectoryInvariant, TypeOK
<1>2. Told'[c] = t /\ \A d \in Clients : d # c => Told'[d] = Told[d]
  BY <1>1 DEF Told
<1>3. Told = [d \in Clients |-> Told[d]] /\ Told' = [d \in Clients |-> Told'[d]]
  BY DEF Told
<1>4. QED
  BY <1>2, <1>3

\* A call that has its answer has it in the contract.
LEMMA Answered ==
    ASSUME Inv, NEW c \in Clients, NEW o \in {"ok", "notfound", "gone", "exists", "error"},
           NEW t, t = IF o = "gone" THEN "error" ELSE o,
           outcome' = [outcome EXCEPT ![c] = o],
           \A d \in Clients : d # c => request'[d] = request[d]
    PROVE  Contract!Answer(c, t)
<1>1. outcome'[c] = o /\ \A d \in Clients : d # c => outcome'[d] = outcome[d]
  BY DEF Inv, DirectoryInvariant, TypeOK
<1>2. Requested'[c] = None /\ \A d \in Clients : d # c => Requested'[d] = Requested[d]
  BY <1>1 DEF Requested, InEffect
<1>3. Requested' = [Requested EXCEPT ![c] = None]
  BY <1>2, OnClients
<1>4. Told' = [Told EXCEPT ![c] = t]
  BY Zenon, ToldOf
<1>5. QED
  BY Zenon, <1>3, <1>4 DEF Contract!Answer, Requested, Told

\* Steps that the contract does not see.
LEMMA Unseen ==
    ASSUME Inv, NEW c \in Clients, UNCHANGED <<outcome, answer>>, Seen' = Seen,
           \A d \in Clients : d # c \/ InEffect(c) => request'[d] = request[d]
    PROVE  UNCHANGED Contract!vars
<1>1. \A d \in Clients : Requested'[d] = Requested[d]
  BY DEF Requested, InEffect
<1>2. Requested' = Requested
  BY <1>1, OnClients
<1>3. Told' = Told
  BY Zenon DEF Told
<1>4. QED
  BY Zenon, <1>2, <1>3 DEF Contract!vars, Seen, Requested, Told

\* The contract sees the same objects as long as no named file changes.
LEMMA SameObjects ==
    ASSUME UNCHANGED entry, \A p \in Paths : entry[p] # None => data'[entry[p]] = data[entry[p]]
    PROVE  Seen' = Seen
BY DEF Seen

\* What Return does to requests.
LEMMA Returns ==
    ASSUME Inv, NEW c \in Clients, Return(c)
    PROVE  request'[c] = None /\ \A d \in Clients : d # c => request'[d] = request[d]
BY ZenonT(60) DEF Return, Inv, DirectoryInvariant, TypeOK

\* A call in progress, as the contract sees it.
LEMMA Pends ==
    ASSUME Inv, NEW c \in Clients, InEffect(c)
    PROVE  /\ pc[c] # "idle" /\ Requested[c] = request[c] /\ Told[c] = outcome[c]
           /\ request[c] \in Calls /\ request[c].path \in Paths /\ request[c].to \in Paths
<1>1. pc[c] # "idle"
  BY Zenon DEF Inv, Calling, CallOK, InEffect
<1>2. Told[c] = outcome[c]
  BY Zenon, Tells DEF InEffect
<1>3. QED
  BY Zenon, <1>1, <1>2, InProgress DEF Requested

\* A call that fails, whether or not it has taken effect.
LEMMA Fails ==
    ASSUME Inv, NEW c \in Clients, outcome[c] \in {"pending", "loaded", "ok"},
           NEW o \in {"error", "gone"},
           outcome' = [outcome EXCEPT ![c] = o], UNCHANGED <<entry, data, answer>>,
           \A d \in Clients : d # c => request'[d] = request[d]
    PROVE  Contract!Next
<1>1. Contract!Answer(c, "error") /\ Seen' = Seen
  BY Zenon, Answered, SameObjects
<1>0. Told[c] = outcome[c]
  BY Zenon, Tells
<1>2. Contract!Fail(c)
  BY Zenon, <1>0, <1>1 DEF Contract!Fail, Seen, Told
<1>3. QED
  BY Zenon, <1>2 DEF Contract!Next

\* A call that finds nothing, or a destination that it may not replace.
LEMMA Refuses ==
    ASSUME Inv, NEW c \in Clients, InEffect(c), UNCHANGED <<entry, data, answer>>,
           \A d \in Clients : d # c => request'[d] = request[d],
           \/ /\ outcome' = [outcome EXCEPT ![c] = "notfound"] /\ outcome[c] = "pending"
              /\ request[c].op \notin {"write", "list"} /\ entry[request[c].path] = None
           \/ /\ outcome' = [outcome EXCEPT ![c] = "exists"]
              /\ request[c].op \in {"write", "copy", "move"}
              /\ ~request[c].replace /\ entry[request[c].to] # None
    PROVE  Contract!Next
<1>0. /\ Seen' = Seen /\ Requested[c] = request[c] /\ Told[c] = outcome[c]
      /\ request[c].path \in Paths
      /\ request[c].to \in Paths
  BY Zenon, SameObjects, Pends
<1>1. CASE /\ outcome' = [outcome EXCEPT ![c] = "notfound"] /\ outcome[c] = "pending"
           /\ request[c].op \notin {"write", "list"} /\ entry[request[c].path] = None
  <2>1. Contract!Answer(c, "notfound") /\ Seen[Requested[c].path] = None
    BY Zenon, <1>0, <1>1, Answered, SeenIff
  <2>2. Contract!NotFound(c)
    BY Zenon, <1>0, <1>1, <2>1 DEF Contract!NotFound, Seen, Requested, Told
  <2>3. QED
    BY Zenon, <2>2 DEF Contract!Next
<1>2. CASE /\ outcome' = [outcome EXCEPT ![c] = "exists"]
           /\ request[c].op \in {"write", "copy", "move"}
           /\ ~request[c].replace /\ entry[request[c].to] # None
  <2>1. Contract!Answer(c, "exists") /\ Seen[Requested[c].to] # None
    BY Zenon, <1>0, <1>2, Answered, SeenIff
  <2>2. Contract!Exists(c)
    BY Zenon, <1>0, <1>2, <2>1 DEF Contract!Exists, InEffect, Seen, Requested, Told
  <2>3. QED
    BY Zenon, <2>2 DEF Contract!Next
<1>3. QED
  BY <1>1, <1>2

\* The steps that read the directory.
LEMMA ReadsRefine ==
    ASSUME Inv, NEW c \in Clients, Open(c) \/ Stat(c) \/ Check(c) \/ Precheck(c)
    PROVE  Contract!Next \/ UNCHANGED Contract!vars
<1> DEFINE r == request[c]
<1>0. /\ pc[c] \in {"open", "stat", "check", "precheck"} /\ InEffect(c)
      /\ UNCHANGED <<entry, data>> /\ Seen' = Seen
      /\ r.path \in Paths /\ Requested[c] = r /\ Told[c] = outcome[c]
      /\ pc[c] # "precheck" => outcome[c] = "pending"
      /\ pc[c] = "open" => r.op \in {"read", "copy"}
      /\ pc[c] = "stat" => r.op = "stat"
      /\ pc[c] \in {"check", "precheck"} => r.op \in {"write", "copy", "move"}
  <2>1. pc[c] \in {"open", "stat", "check", "precheck"} /\ UNCHANGED <<entry, data>>
    BY Zenon DEF Open, Stat, Check, Precheck, diskVars
  <2>2. CallOK(c)
    BY DEF Inv, Calling
  <2>3. InEffect(c) /\ Seen' = Seen
    BY Zenon, <2>1, <2>2, SameObjects DEF CallOK, InEffect
  <2>4. QED
    BY Zenon, <2>1, <2>2, <2>3, Pends DEF CallOK
<1>1. CASE Open(c) /\ entry[r.path] = None
  <2>1. outcome' = [outcome EXCEPT ![c] = "notfound"] /\ Return(c) /\ UNCHANGED answer
    BY Zenon, <1>1 DEF Open, Answer
  <2>2. QED
    BY Zenon, <1>0, <1>1, <2>1, Refuses, Returns DEF Open
<1>2. CASE Open(c) /\ entry[r.path] # None
  <2>1. /\ pc[c] = "open" /\ Seen[Requested[c].path] # None
        /\ Seen[Requested[c].path] = data[entry[r.path]].content
    BY Zenon, <1>0, <1>2, SeenIff DEF Open
  <2>2. answer' = [answer EXCEPT ![c] = Seen[Requested[c].path]]
    BY Zenon, <1>2, <2>1 DEF Open
  <2>3. CASE r.op = "copy"
    <3>1. outcome' = [outcome EXCEPT ![c] = "loaded"] /\ UNCHANGED request
      BY Zenon, <1>2, <2>3 DEF Open, Answer
    <3>2. \A d \in Clients : InEffect(d)' <=> InEffect(d)
      BY Zenon, <1>0, <3>1 DEF InEffect, Inv, DirectoryInvariant, TypeOK
    <3>3. Requested' = Requested
      BY <3>1, <3>2 DEF Requested
    <3>0. Told' = [Told EXCEPT ![c] = "loaded"]
      BY Zenon, <3>1, ToldOf
    <3>4. Contract!CopyLoad(c)
      BY Zenon, <1>0, <2>1, <2>2, <2>3, <3>0, <3>1, <3>3
         DEF Contract!CopyLoad, Contract!Pending, Seen, Requested, Told
    <3>5. QED
      BY <3>4 DEF Contract!Next
  <2>4. CASE r.op # "copy"
    <3>1. outcome' = [outcome EXCEPT ![c] = "ok"] /\ request' = [request EXCEPT ![c] = None]
      BY Zenon, <1>2, <2>4 DEF Open, Answer
    <3>2. \A d \in Clients : d # c => request'[d] = request[d]
      BY Zenon, <3>1 DEF Inv, DirectoryInvariant, TypeOK
    <3>3. Contract!Answer(c, "ok")
      BY Zenon, <3>1, <3>2, Answered
    <3>4. Contract!Read(c)
      BY Zenon, <1>0, <2>1, <2>2, <2>4, <3>3
         DEF Contract!Read, Contract!Pending, Seen, Requested, Told
    <3>5. QED
      BY <3>4 DEF Contract!Next
  <2>5. QED
    BY Zenon, <2>3, <2>4
<1>3. CASE Stat(c)
  <2>1. /\ pc[c] = "stat" /\ Return(c) /\ UNCHANGED answer
        /\ outcome' = [outcome EXCEPT ![c] = IF entry[r.path] = None THEN "notfound" ELSE "ok"]
    BY Zenon, <1>3 DEF Stat, Answer
  <2>2. CASE entry[r.path] = None
    BY Zenon, <1>0, <2>1, <2>2, Refuses, Returns
  <2>3. CASE entry[r.path] # None
    <3>1. Contract!Answer(c, "ok") /\ Seen[Requested[c].path] # None
      BY Zenon, <1>0, <2>1, <2>3, Answered, Returns, SeenIff
    <3>2. Contract!Stat(c)
      BY Zenon, <1>0, <2>1, <3>1 DEF Contract!Stat, Contract!Pending, Seen, Requested, Told
    <3>3. QED
      BY <3>2 DEF Contract!Next
  <2>4. QED
    BY <2>2, <2>3
<1>4. CASE Check(c) \/ Precheck(c)
  <2>1. CASE ~r.replace /\ entry[r.to] # None
    <3>1. /\ outcome' = [outcome EXCEPT ![c] = "exists"] /\ Return(c) /\ UNCHANGED answer
          /\ pc[c] \in {"check", "precheck"}
      BY Zenon, <1>4, <2>1 DEF Check, Precheck, Answer
    <3>2. QED
      BY Zenon, <1>0, <2>1, <3>1, Refuses, Returns
  <2>2. CASE ~(~r.replace /\ entry[r.to] # None)
    <3>1. UNCHANGED <<request, outcome, answer>>
      BY Zenon, <1>4, <2>2 DEF Check, Precheck
    <3>2. QED
      BY Zenon, <1>0, <3>1, Unseen
  <2>3. QED
    BY Zenon, <2>1, <2>2
<1>5. QED
  BY Zenon, <1>1, <1>2, <1>3, <1>4

\* Delete and Move.
LEMMA MovesRefine ==
    ASSUME Inv, NEW c \in Clients, Delete(c) \/ Rename(c) \/ RenameNoReplace(c)
    PROVE  Contract!Next
<1> DEFINE r == request[c]
<1>0. /\ pc[c] \in {"remove", "rename"} /\ InEffect(c) /\ outcome[c] = "pending" /\ Return(c)
      /\ UNCHANGED <<data, answer>> /\ r.path \in Paths /\ r.to \in Paths /\ Requested[c] = r
      /\ Told[c] = outcome[c]
      /\ pc[c] = "remove" => r.op = "delete"
      /\ pc[c] = "rename" => r.op = "move"
      /\ entry \in [Paths -> Files \cup {None}]
  <2>1. pc[c] \in {"remove", "rename"} /\ Return(c) /\ UNCHANGED <<data, answer>>
    BY DEF Delete, Rename, RenameNoReplace
  <2>2. CallOK(c)
    BY DEF Inv, Calling
  <2>3. InEffect(c) /\ outcome[c] = "pending"
    BY Zenon, <2>1, <2>2 DEF CallOK, InEffect
  <2>4. QED
    BY Zenon, <2>1, <2>2, <2>3, Pends DEF CallOK, Inv, DirectoryInvariant, TypeOK
<1>1. /\ request'[c] = None /\ \A d \in Clients : d # c => request'[d] = request[d]
      /\ \A p \in Paths : /\ entry[p] # None <=> Seen[p] # None
                          /\ entry[p] # None => Seen[p] = data[entry[p]].content
  BY Zenon, <1>0, Returns, SeenIff
<1>2. CASE outcome' = [outcome EXCEPT ![c] = "notfound"] /\ entry' = entry /\ entry[r.path] = None
  BY Zenon, <1>0, <1>1, <1>2, Refuses
<1>3. CASE /\ outcome' = [outcome EXCEPT ![c] = "exists"] /\ entry' = entry
           /\ ~r.replace /\ entry[r.to] # None /\ pc[c] = "rename"
  BY Zenon, <1>0, <1>1, <1>3, Refuses
<1>4. CASE /\ Delete(c) /\ entry[r.path] # None
  <2>1. /\ outcome' = [outcome EXCEPT ![c] = "ok"] /\ pc[c] = "remove"
        /\ entry' = [entry EXCEPT ![r.path] = None]
    BY Zenon, <1>4 DEF Delete, Answer
  <2>2. \A p \in Paths : Seen'[p] = IF p = r.path THEN None ELSE Seen[p]
    BY Zenon, <1>0, <2>1 DEF Seen
  <2>3. Seen' = [Seen EXCEPT ![Requested[c].path] = None]
    BY SMTT(60), <1>0, <2>2, OnPaths
  <2>4. Contract!Answer(c, "ok")
    BY Zenon, <1>1, <2>1, Answered
  <2>5. Contract!Delete(c)
    BY Zenon, <1>0, <2>1, <2>3, <2>4 DEF Contract!Delete, Contract!Pending, Seen, Requested, Told
  <2>6. QED
    BY <2>5 DEF Contract!Next
<1>5. CASE /\ outcome' = [outcome EXCEPT ![c] = "ok"] /\ pc[c] = "rename"
           /\ entry[r.path] # None /\ (r.replace \/ entry[r.to] = None)
           /\ Renamed(r.path, r.to)
  <2>1. \A p \in Paths : entry'[p] = IF p = r.to THEN entry[r.path]
                                     ELSE IF p = r.path THEN None ELSE entry[p]
    BY ZenonT(60), <1>0, <1>5 DEF Renamed
  <2>2. \A p \in Paths : Seen'[p] = IF p = r.to THEN Seen[r.path]
                                    ELSE IF p = r.path THEN None ELSE Seen[p]
    BY Zenon, <1>0, <2>1 DEF Seen
  <2>3. Seen' = [Seen EXCEPT ![r.path] = None, ![r.to] = Seen[r.path]]
    BY ZenonT(60), <1>0, <2>2 DEF Seen
  <2>4. Contract!Answer(c, "ok")
    BY Zenon, <1>1, <1>5, Answered
  <2>5. Seen[r.path] # None /\ (r.replace \/ Seen[r.to] = None)
    BY Zenon, <1>0, <1>1, <1>5
  <2>6. Contract!Move(c)
    BY Zenon, <1>0, <1>5, <2>3, <2>4, <2>5 DEF Contract!Move, Contract!Pending, Seen, Requested, Told
  <2>7. QED
    BY <2>6 DEF Contract!Next
<1>6. CASE Delete(c) /\ entry[r.path] = None
  <2>1. outcome' = [outcome EXCEPT ![c] = "notfound"] /\ entry' = entry
    BY Zenon, <1>0, <1>6 DEF Delete, Answer
  <2>2. QED
    BY Zenon, <1>2, <1>6, <2>1
<1>7. CASE Rename(c)
  BY Zenon, <1>2, <1>5, <1>7 DEF Rename, Answer
<1>8. CASE RenameNoReplace(c)
  BY <1>2, <1>3, <1>5, <1>8 DEF RenameNoReplace, Answer
<1>9. QED
  BY <1>4, <1>6, <1>7, <1>8

\* Publication is where a Write, and the second half of a Copy, takes effect.
LEMMA PublishRefines ==
    ASSUME Inv, NEW c \in Clients, PublishRename(c) \/ PublishLink(c)
    PROVE  Contract!Next
<1> DEFINE r == request[c]
<1>0. /\ pc[c] = "publish" /\ UNCHANGED <<data, request, answer>> /\ CallOK(c)
      /\ file[c] \in Files /\ file[c] # None
      /\ entry \in [Paths -> Files \cup {None}]
  <2>1. pc[c] = "publish" /\ UNCHANGED <<data, request, answer>>
    BY Zenon DEF PublishRename, PublishLink
  <2>2. file[c] # None /\ entry \in [Paths -> Files \cup {None}]
    BY Zenon, <2>1 DEF Inv, DirectoryInvariant, TypeOK
  <2>3. QED
    BY Zenon, <2>1, <2>2, Within DEF Inv, Calling
<1>1. /\ InEffect(c) /\ r.op \in {"write", "copy"}
      /\ outcome[c] = IF r.op = "copy" THEN "loaded" ELSE "pending"
  BY Zenon, <1>0 DEF CallOK, InEffect, Filling
<1>2. /\ r.path \in Paths /\ r.to \in Paths /\ Requested[c] = r /\ Told[c] = outcome[c]
  BY Zenon, <1>1, Pends
<1>3. data[file[c]].content = IF r.op = "copy" THEN answer[c] ELSE r.content
  BY Zenon, <1>0, Sources DEF Inv, Synced, Filling
<1>4. CASE /\ outcome' = [outcome EXCEPT ![c] = "exists"] /\ UNCHANGED entry
           /\ ~r.replace /\ entry[r.to] # None
  BY Zenon, <1>0, <1>1, <1>4, Refuses
<1>5. CASE /\ outcome' = [outcome EXCEPT ![c] = "ok"]
           /\ entry' = [entry EXCEPT ![r.to] = file[c]]
           /\ r.replace \/ entry[r.to] = None
  <2>1. \A p \in Paths : Seen'[p] = IF p = r.to THEN data[file[c]].content ELSE Seen[p]
    BY Zenon, <1>0, <1>2, <1>5 DEF Seen
  <2>2. Seen' = [Seen EXCEPT ![Requested[c].to] =
                    IF r.op = "copy" THEN answer[c] ELSE Requested[c].content]
    BY <1>2, <1>3, <2>1, OnPaths
  <2>3. Contract!Answer(c, "ok")
    BY Zenon, <1>0, <1>5, Answered
  <2>4. Requested[c].replace \/ Seen[Requested[c].to] = None
    BY Zenon, <1>2, <1>5, SeenIff
  <2>5. CASE r.op = "copy"
    <3>1. Contract!CopyStore(c)
      BY Zenon, <1>0, <1>1, <1>2, <2>2, <2>3, <2>4, <2>5
         DEF Contract!CopyStore, Contract!Put, Seen, Requested, Told
    <3>2. QED
      BY <3>1 DEF Contract!Next
  <2>6. CASE r.op = "write"
    <3>1. Contract!Write(c)
      BY Zenon, <1>0, <1>1, <1>2, <2>2, <2>3, <2>4, <2>6
         DEF Contract!Write, Contract!Put, Contract!Pending, Seen, Requested, Told
    <3>2. QED
      BY <3>1 DEF Contract!Next
  <2>7. QED
    BY Zenon, <1>1, <2>5, <2>6
<1>6. QED
  BY Zenon, <1>4, <1>5 DEF PublishRename, PublishLink, Answer

\* What a Write does besides.
LEMMA WorkRefines ==
    ASSUME Inv, NEW c \in Clients,
           Create(c) \/ Fill(c) \/ Sync(c) \/ Unlink(c) \/ Confirm(c) \/ Cleanup(c)
    PROVE  Contract!Next \/ UNCHANGED Contract!vars
<1>1. CASE Create(c)
  <2>1. PICK f \in Free : data' = [data EXCEPT ![f] = Empty]
    BY Zenon, <1>1 DEF Create
  <2>2. UNCHANGED <<entry, request, outcome, answer>>
    BY <1>1 DEF Create
  <2>3. \A p \in Paths : entry[p] # None => data'[entry[p]] = data[entry[p]]
    BY ZenonT(60), <2>1 DEF Free, Inv, DirectoryInvariant, TypeOK
  <2>4. QED
    BY <2>2, <2>3, SameObjects, Unseen
<1>2. CASE Fill(c) \/ Sync(c)
  <2>1. PICK x : data' = [data EXCEPT ![file[c]] = x]
    BY <1>2 DEF Fill, Sync
  <2>2. UNCHANGED <<entry, request, outcome, answer>> /\ pc[c] \in Filling
    BY <1>2 DEF Fill, Sync, callVars, directoryVars, Filling
  <2>3. \A p \in Paths : entry[p] # None => data'[entry[p]] = data[entry[p]]
    BY <2>1, <2>2, Object DEF Inv, DirectoryInvariant, TypeOK
  <2>4. QED
    BY Zenon, <2>2, <2>3, SameObjects, Unseen
<1>3. CASE Unlink(c) \/ Confirm(c)
  <2>1. /\ UNCHANGED <<entry, data, answer>> /\ outcome[c] = "ok" /\ ~InEffect(c)
        /\ \A d \in Clients : d # c => request'[d] = request[d]
    <3>1. pc[c] \in {"unlink", "confirm"} /\ UNCHANGED <<entry, data, answer>>
      BY Zenon, <1>3 DEF Unlink, Confirm, diskVars
    <3>2. request' = request \/ Return(c)
      BY Zenon, <1>3 DEF Unlink, Confirm
    <3>3. QED
      BY Zenon, <3>1, <3>2, Returns DEF Inv, Calling, CallOK, InEffect
  <2>2. CASE UNCHANGED outcome
    BY Zenon, <2>1, <2>2, SameObjects, Unseen
  <2>3. CASE \E o \in {"error", "gone"} : outcome' = [outcome EXCEPT ![c] = o]
    BY Zenon, <2>1, <2>3, Fails
  <2>4. QED
    BY Zenon, <1>3, <2>2, <2>3 DEF Unlink, Confirm, Answer
<1>4. CASE Cleanup(c)
  <2>1. /\ UNCHANGED <<entry, data, outcome, answer>> /\ ~InEffect(c)
        /\ \A d \in Clients : d # c => request'[d] = request[d]
    BY Zenon, <1>4, Returns DEF Cleanup, Inv, Calling, CallOK, InEffect
  <2>2. QED
    BY Zenon, <2>1, SameObjects, Unseen
<1>5. QED
  BY <1>1, <1>2, <1>3, <1>4

\* A call begins in the contract as well.
LEMMA InvokeRefines ==
    ASSUME Inv, NEW c \in Clients, Invoke(c)
    PROVE  Contract!Next
<1>1. PICK r \in Calls : request' = [request EXCEPT ![c] = r]
  BY Zenon DEF Invoke
<1>2. /\ pc[c] = "idle" /\ outcome' = [outcome EXCEPT ![c] = "pending"]
      /\ answer' = [answer EXCEPT ![c] = None] /\ UNCHANGED <<entry, data>>
  BY Zenon DEF Invoke, Answer, diskVars
<1>3. outcome[c] \notin {"pending", "loaded"} /\ Seen' = Seen
  BY Zenon, <1>2, SameObjects DEF Inv, Calling, CallOK
<1>4. /\ request'[c] = r /\ outcome'[c] = "pending"
      /\ \A d \in Clients : d # c => request'[d] = request[d] /\ outcome'[d] = outcome[d]
  BY ZenonT(60), <1>1, <1>2 DEF Inv, DirectoryInvariant, TypeOK
<1>5. Requested'[c] = r /\ \A d \in Clients : d # c => Requested'[d] = Requested[d]
  BY Zenon, <1>4 DEF Requested, InEffect
<1>6. Requested' = [Requested EXCEPT ![c] = Requested'[c]]
  BY <1>5, OnClients
<1>7. Requested'[c] \in Contract!Requests
  BY Zenon, <1>5 DEF Calls, Requests, Operations, Contract!Requests, Contract!Methods
<1>0. Told' = [Told EXCEPT ![c] = "pending"] /\ Told[c] \notin {"pending", "loaded"}
  <2>1. Told' = [Told EXCEPT ![c] = "pending"]
    BY Zenon, <1>2, ToldOf
  <2>2. Told[c] \notin {"pending", "loaded"}
    BY <1>3 DEF Told
  <2>3. QED
    BY Zenon, <2>1, <2>2
<1>8. Contract!Invoke(c)
  BY Zenon, <1>0, <1>2, <1>3, <1>6, <1>7 DEF Contract!Invoke, Contract!Returned, Seen, Requested, Told
<1>9. QED
  BY <1>8 DEF Contract!Next

\* A failing step and a dying process.
LEMMA FailuresRefine ==
    ASSUME Inv, NEW c \in Clients, Fault(c) \/ Crash(c)
    PROVE  Contract!Next \/ UNCHANGED Contract!vars
<1>1. CASE Fault(c)
  <2>1. /\ UNCHANGED <<entry, data, answer>>
        /\ \E o \in {"error", "gone"} : outcome' = [outcome EXCEPT ![c] = o]
    BY Zenon, <1>1 DEF Fault, Answer, diskVars
  <2>2. outcome[c] \in {"pending", "loaded"}
    BY Zenon, <1>1 DEF Fault, Inv, Calling, CallOK, Filling
  <2>3. \A d \in Clients : d # c => request'[d] = request[d]
    BY Zenon, <1>1, Returns DEF Fault
  <2>4. QED
    BY Zenon, <2>1, <2>2, <2>3, Fails
<1>2. CASE Crash(c)
  <2>1. /\ UNCHANGED <<entry, data, answer>> /\ request' = [request EXCEPT ![c] = None]
        /\ outcome' = [outcome EXCEPT ![c] = IF outcome[c] \in {"pending", "loaded", "ok"}
                                             THEN "error" ELSE outcome[c]]
    BY Zenon, <1>2 DEF Crash, diskVars
  <2>2. \A d \in Clients : d # c => request'[d] = request[d]
    BY Zenon, <2>1 DEF Inv, DirectoryInvariant, TypeOK
  <2>3. CASE outcome[c] \in {"pending", "loaded", "ok"}
    BY Zenon, <2>1, <2>2, <2>3, Fails
  <2>4. CASE outcome[c] \notin {"pending", "loaded", "ok"}
    <3>1. outcome' = outcome /\ ~InEffect(c)
      BY Zenon, <2>1, <2>4 DEF InEffect, Inv, DirectoryInvariant, TypeOK
    <3>2. QED
      BY Zenon, <2>1, <2>2, <3>1, SameObjects, Unseen
  <2>5. QED
    BY <2>3, <2>4
<1>3. QED
  BY <1>1, <1>2

-----------------------------------------------------------------------------
\* Linearizable: every call of the local adapter takes effect at one system
\* call, Rename, Link, Remove, Open or Stat, with the answer contracts.go
\* promises.  A create-only Write or Move replaces nothing whatever its earlier
\* Stat saw, and a call that fails or dies has done what it was asked to do or
\* nothing; only a power loss undoes what was done.  ErrNotFound proves the
\* object's absence, except from the Stat after a publication or when it is not
\* the source that is missing (local.go: every operation).
THEOREM LocalImplementsContract == Spec => Linearizable
<1>1. Init => Contract!Init
  <2> SUFFICES ASSUME Init PROVE Contract!Init
    OBVIOUS
  <2>1. /\ Seen = [p \in Paths |-> None] /\ Requested = [c \in Clients |-> None]
        /\ Told = [c \in Clients |-> "idle"]
    BY DEF Init, Seen, Requested, Told, InEffect
  <2>2. QED
    BY Zenon, <2>1 DEF Init, Contract!Init, Seen, Requested
<1>2. Inv /\ [Next]_vars => [Contract!Next \/ LosePower]_(Contract!vars)
  <2> SUFFICES ASSUME Inv, [Next]_vars
               PROVE  Contract!Next \/ LosePower \/ UNCHANGED Contract!vars
    OBVIOUS
  <2>1. ASSUME UNCHANGED <<entry, data, request, outcome, answer>>
        PROVE  UNCHANGED Contract!vars
    <3>1. Seen' = Seen /\ Requested' = Requested /\ Told' = Told
      BY <2>1 DEF Seen, Requested, Told, InEffect
    <3>2. QED
      BY Zenon, <2>1, <3>1 DEF Contract!vars, Seen, Requested, Told
  <2>2. CASE UNCHANGED vars \/ FlushDirectory \/ \E c \in Clients : CloseStream(c)
    BY Zenon, <2>1, <2>2 DEF vars, FlushDirectory, CloseStream, callVars, diskVars
  <2>3. ASSUME NEW c \in Clients, Step(c)
        PROVE  Contract!Next \/ UNCHANGED Contract!vars
    BY <2>3, ReadsRefine, MovesRefine, PublishRefines, WorkRefines DEF Step
  <2>4. QED
    BY <2>2, <2>3, InvokeRefines, FailuresRefine DEF Next
<1>3. QED
  BY <1>1, <1>2, InvHolds, PTL DEF Spec, Linearizable
=============================================================================
