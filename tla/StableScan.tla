----------------------------- MODULE StableScan -----------------------------
(***************************************************************************)
(* ParallelStableOrderAnalyzer (pkg/analyze/parallel_stable.go): the files   *)
(* of a directory and the results of its sub-directories' goroutines go      *)
(* through one buffered channel, each with its index, and a collector adds   *)
(* them in the order of the listing before it calls wait.Done.  A goroutine  *)
(* that gets its slot after a cancel sends nil.                              *)
(***************************************************************************)
EXTENDS ScanTree, WaitGroup, SequencesExt

CONSTANTS
  Slots,  \* cap(concurrencyLimit)
  Place   \* where each entry is in its directory, as os.ReadDir sorts it

\* No two entries of a directory have the same name.
PlacesDiffer ==
  /\ Place \in [Entries -> Nat]
  /\ \A x, y \in Entries : Parent[x] = Parent[y] /\ Place[x] = Place[y] => x = y

VARIABLES
  caller,     \* where AnalyzeDir is
  goroutine,  \* the goroutine of each directory
  collector,  \* ... and its collector: "none", "receiving", "adding", "done"
  left,       \* the listed entries the loop has not reached
  indexed,    \* the entries that were given an index, in its order
  channel,    \* itemChan: the entries that something was sent for and not received
  received,   \* the entries whose place in the collector's items is filled
  added,      \* dir.Files
  unread,     \* the directories flagged '!'
  stopped     \* BaseAnalyzer.cancelled

stableVars == <<caller, goroutine, collector, left, indexed, channel, received,
                added, unread, stopped, waitVars>>

SubDirs == Dirs \ {Root}
Everywhere(v) == [d \in Dirs |-> v]
Holders == {d \in SubDirs : goroutine[d] \in {"admitted", "walking", "returned"}}

Init ==
  /\ caller = "idle"
  /\ goroutine = Everywhere("none")
  /\ collector = Everywhere("none")
  /\ left = Everywhere({})
  /\ indexed = Everywhere(<<>>)
  /\ channel = Everywhere({})
  /\ received = Everywhere({})
  /\ added = Everywhere(<<>>)
  /\ unread = {}
  /\ stopped = FALSE
  /\ WaitInit

-----------------------------------------------------------------------------
Start ==
  /\ caller = "idle"
  /\ caller' = "scanning"
  /\ goroutine' = [goroutine EXCEPT ![Root] = "admitted"]
  /\ UNCHANGED <<collector, left, indexed, channel, received, added, unread, stopped, waitVars>>

WaitRead ==
  /\ caller = "waiting"
  /\ caller' = IF MustBlock THEN "locking" ELSE "returned"
  /\ UNCHANGED <<goroutine, collector, left, indexed, channel, received, added,
                 unread, stopped, waitVars>>

WaitLock ==
  /\ caller = "locking"
  /\ WaitAcquire
  /\ caller' = "returned"
  /\ UNCHANGED <<goroutine, collector, left, indexed, channel, received, added, unread, stopped>>

Cancel ==
  /\ caller \in {"scanning", "waiting", "locking"}
  /\ ~stopped
  /\ stopped' = TRUE
  /\ UNCHANGED <<caller, goroutine, collector, left, indexed, channel, received,
                 added, unread, waitVars>>

-----------------------------------------------------------------------------
(* processDir and the goroutine around it *)

Acquire(d) ==
  /\ goroutine[d] = "spawned"
  /\ Cardinality(Holders) < Slots
  /\ goroutine' = [goroutine EXCEPT ![d] = "admitted"]
  /\ UNCHANGED <<caller, collector, left, indexed, channel, received, added,
                 unread, stopped, waitVars>>

Send(p, e) == channel' = [channel EXCEPT ![p] = @ \cup {e}]

\* Cancelled: the slot is given back and nil is sent.
SendNil(d) ==
  /\ goroutine[d] = "admitted" /\ d # Root
  /\ stopped
  /\ goroutine' = [goroutine EXCEPT ![d] = "refused"]
  /\ Send(Parent[d], d)
  /\ UNCHANGED <<caller, collector, left, indexed, received, added, unread, stopped, waitVars>>

\* wait.Add(1) and os.ReadDir, which may fail: what it had read is walked.
ReadDir(d) ==
  /\ goroutine[d] = "admitted"
  /\ d = Root \/ ~stopped
  /\ goroutine' = [goroutine EXCEPT ![d] = "walking"]
  /\ WaitAdd
  /\ \E read \in SUBSET Children(d), broken \in BOOLEAN :
       /\ broken \/ read = Children(d)
       /\ left' = [left EXCEPT ![d] = read]
       /\ unread' = IF broken THEN unread \cup {d} ELSE unread
  /\ UNCHANGED <<caller, collector, indexed, channel, received, added, stopped>>

\* The loop takes the entries in the order of the listing.
Take(d, e) ==
  /\ goroutine[d] = "walking"
  /\ ~stopped
  /\ e \in left[d]
  /\ \A x \in left[d] : Place[e] <= Place[x]
  /\ left' = [left EXCEPT ![d] = @ \ {e}]
  /\ UNCHANGED <<caller, collector, received, added, stopped, waitVars>>

Skipped(d, e) ==
  /\ Take(d, e)
  /\ e \in Skip
  /\ UNCHANGED <<goroutine, indexed, channel, unread>>

\* f.Info or followSymlink failed.
FileFails(d, e) ==
  /\ Take(d, e)
  /\ e \in Files \ Skip
  /\ unread' = unread \cup {d}
  /\ UNCHANGED <<goroutine, indexed, channel>>

SendFile(d, e) ==
  /\ Take(d, e)
  /\ e \in Files \ Skip
  /\ indexed' = [indexed EXCEPT ![d] = Append(@, e)]
  /\ Send(d, e)
  /\ UNCHANGED <<goroutine, unread>>

SpawnDir(d, e) ==
  /\ Take(d, e)
  /\ e \in Dirs \ Skip
  /\ indexed' = [indexed EXCEPT ![d] = Append(@, e)]
  /\ goroutine' = [goroutine EXCEPT ![e] = "spawned"]
  /\ UNCHANGED <<channel, unread>>

\* The collector is started and processDir returns.
EndLoop(d) ==
  /\ goroutine[d] = "walking"
  /\ stopped \/ left[d] = {}
  /\ collector' = [collector EXCEPT ![d] = "receiving"]
  /\ goroutine' = [goroutine EXCEPT ![d] = IF d = Root THEN "finished" ELSE "returned"]
  /\ caller' = IF d = Root THEN "waiting" ELSE caller
  /\ UNCHANGED <<left, indexed, channel, received, added, unread, stopped, waitVars>>

\* The slot is given back and the directory sent.
SendDir(d) ==
  /\ goroutine[d] = "returned"
  /\ goroutine' = [goroutine EXCEPT ![d] = "finished"]
  /\ Send(Parent[d], d)
  /\ UNCHANGED <<caller, collector, left, indexed, received, added, unread, stopped, waitVars>>

-----------------------------------------------------------------------------
(* The collector *)

\* <-itemChan, itemCount times.
Receive(d, e) ==
  /\ collector[d] = "receiving"
  /\ e \in channel[d]
  /\ received' = [received EXCEPT ![d] = @ \cup {e}]
  /\ channel' = [channel EXCEPT ![d] = @ \ {e}]
  /\ UNCHANGED <<caller, goroutine, collector, left, indexed, added, unread, stopped, waitVars>>

AllReceived(d) ==
  /\ collector[d] = "receiving"
  /\ received[d] = ToSet(indexed[d])
  /\ collector' = [collector EXCEPT ![d] = "adding"]
  /\ UNCHANGED <<caller, goroutine, left, indexed, channel, received, added,
                 unread, stopped, waitVars>>

\* The indices of what is yet to be added: the nils are passed over.
Missing(d) ==
  {i \in DOMAIN indexed[d] :
     /\ indexed[d][i] \in Dirs => goroutine[indexed[d][i]] # "refused"
     /\ indexed[d][i] \notin ToSet(added[d])}

\* Mutant: the sub-directories are added as they come, before the files.
AddAsReceived(d) ==
  /\ collector[d] = "adding"
  /\ \E i \in Missing(d) : added' = [added EXCEPT ![d] = Append(@, indexed[d][i])]
  /\ UNCHANGED <<caller, goroutine, collector, left, indexed, channel, received,
                 unread, stopped, waitVars>>

\* AddFile, in the order of the indices.
Add(d) ==
  /\ collector[d] = "adding"
  /\ \E i \in Missing(d) :
       /\ \A j \in Missing(d) : i <= j
       /\ added' = [added EXCEPT ![d] = Append(@, indexed[d][i])]
  /\ UNCHANGED <<caller, goroutine, collector, left, indexed, channel, received,
                 unread, stopped, waitVars>>

Done(d) ==
  /\ collector[d] = "adding"
  /\ Missing(d) = {}
  /\ collector' = [collector EXCEPT ![d] = "done"]
  /\ WaitDone
  /\ UNCHANGED <<caller, goroutine, left, indexed, channel, received, added, unread, stopped>>

-----------------------------------------------------------------------------
Goroutine(d) ==
  \/ Acquire(d) \/ SendNil(d) \/ ReadDir(d) \/ EndLoop(d) \/ SendDir(d)
  \/ \E e \in Entries : Skipped(d, e) \/ FileFails(d, e) \/ SendFile(d, e) \/ SpawnDir(d, e)

Collector(d) == AllReceived(d) \/ Add(d) \/ Done(d) \/ \E e \in Entries : Receive(d, e)

AnalyzeDir == WaitRead \/ WaitLock

Next ==
  \/ Start \/ Cancel \/ AnalyzeDir
  \/ \E d \in Dirs : Goroutine(d) \/ Collector(d)

Spec ==
  /\ Init /\ [][Next]_stableVars
  /\ WF_stableVars(AnalyzeDir)
  /\ \A d \in Dirs : WF_stableVars(Goroutine(d)) /\ WF_stableVars(Collector(d))

-----------------------------------------------------------------------------
(* Properties *)

\* dir.Files has the order of the listing, as far as it was read and without
\* what was skipped or failed; nothing is in it twice.
OrderIsKept ==
  \A d \in Dirs : \A i, j \in DOMAIN added[d] : i < j => Place[added[d][i]] < Place[added[d][j]]

Contract == INSTANCE ScanContract WITH
  phase <- CASE caller = "idle" -> "idle" [] caller = "returned" -> "finished" [] OTHER -> "running",
  linked <- UNION {ToSet(added[d]) : d \in Dirs},
  broken <- unread,
  cancelled <- stopped

\* The stable-order scan keeps the contract of a scan: what it hands over is a
\* tree, complete unless it was cancelled, and final.
KeepsContract == Contract!Init /\ [][Contract!Next]_(Contract!contractVars)

\* Every scan returns, with any number of slots.
ScanReturns == caller = "scanning" ~> caller = "returned"
=============================================================================
