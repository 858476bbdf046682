----------------------------- MODULE StoredScan -----------------------------
(***************************************************************************)
(* StoredAnalyzer (pkg/analyze/stored.go) on the badger store of             *)
(* pkg/analyze/storage.go: a scan writes one record per directory, and the   *)
(* caller's UpdateStats then walks the records from the root and writes them *)
(* again with their totals.  The store is opened by reference count and      *)
(* reopened every ReopenAt operations.  The wait group does not count a      *)
(* goroutine before it has a slot, so Wait can return too early; AnalyzeDir  *)
(* sleeps a second before it gives its reference back.                       *)
(*                                                                           *)
(* The progress goroutine is that of ParallelScan; hard links and filters    *)
(* are left to DirStats.                                                     *)
(***************************************************************************)
EXTENDS TreeSizes, WaitGroup

CONSTANTS
  Slots,        \* cap(concurrencyLimit)
  ReopenAt,     \* operations until checkCount reopens the store
  MaxScans      \* bound: calls of AnalyzeDir

VARIABLES
  main,         \* where AnalyzeDir, and then UpdateStats, is
  scans,        \* calls of AnalyzeDir so far
  worker,       \* where the goroutine of each directory is
  listing,      \* dir.Files of the directory being scanned, and its flag
  records,      \* the store: directory -> what it lists, size, flag and scan
  loaded,       \* UpdateStats: the directories read back, with their totals
  expanded,     \* ... those whose entries have been read back
  updated,      \* ... those whose totals are known
  opens,        \* Storage.openCount
  db,           \* Storage.db # nil
  ops,          \* Storage.counter
  cancelled,    \* BaseAnalyzer.cancelled
  overslept,    \* history: a goroutine was left when the second was over
  whole,        \* history: the last thing done to the records was UpdateStats
  failed        \* history: a record was not written or a file was left out

storeVars == <<opens, db, ops>>
scanVars == <<worker, listing>>
updateVars == <<loaded, expanded, updated>>
vars == <<main, scans, scanVars, records, updateVars, storeVars, waitVars,
          cancelled, overslept, whole, failed>>

SubDirs == Dirs \ {Root}
Nothing == [lists |-> {}, size |-> 0, flag |-> " ", scan |-> 0]

\* The goroutines between concurrencyLimit <- and <-concurrencyLimit.
Holders == {d \in SubDirs : worker[d] \in {"admitted", "listed", "stored"}}
Running == {d \in Dirs : worker[d] \notin {"none", "finished"}}

Init ==
  /\ main = "idle" /\ scans = 0
  /\ worker = [d \in Dirs |-> "none"]
  /\ listing = [d \in Dirs |-> Nothing]
  /\ records = <<>>
  /\ loaded = <<>> /\ expanded = {} /\ updated = {}
  /\ opens = 0 /\ db = FALSE /\ ops = 0
  /\ cancelled = FALSE /\ overslept = FALSE /\ whole = TRUE /\ failed = FALSE
  /\ WaitInit

-----------------------------------------------------------------------------
(* Storage *)

Open == opens' = opens + 1 /\ db' = TRUE

\* Mutant: the closer closes the store whoever else uses it.
ReleaseAlways == opens' = opens - 1 /\ db' = FALSE

\* release: the last reference closes the store.
Release == opens' = opens - 1 /\ db' = (db /\ opens' > 0)

\* checkCount, before every record is read or written.
CheckCount ==
  /\ ops' = (ops + 1) % ReopenAt
  /\ db' = (db \/ ops' = 0)

\* A nil database makes the read or the write panic.
Panics == ~db /\ ops + 1 # ReopenAt

\* StoreDir: the record of a directory replaces the one it had.
Put(store, d, record) ==
  [x \in DOMAIN store \cup {d} |-> IF x = d THEN record ELSE store[x]]

-----------------------------------------------------------------------------
(* AnalyzeDir *)

\* NewStorage, Open, and processDir for the root in this goroutine.
Start ==
  /\ main \in {"idle", "done"}
  /\ scans < MaxScans
  /\ Running = {}   \* bound: not while an overslept scan still runs
  /\ scans' = scans + 1
  /\ main' = "scanning"
  /\ worker' = [d \in Dirs |-> IF d = Root THEN "admitted" ELSE "none"]
  /\ listing' = [d \in Dirs |-> Nothing]
  /\ opens' = 1 /\ db' = TRUE /\ ops' = 0
  /\ cancelled' = FALSE /\ overslept' = FALSE /\ whole' = FALSE /\ failed' = FALSE
  /\ WaitReset
  /\ UNCHANGED <<records, updateVars>>

WaitRead ==
  /\ main = "waiting"
  /\ main' = IF MustBlock THEN "locking" ELSE "sleeping"
  /\ UNCHANGED <<scans, scanVars, records, updateVars, storeVars, waitVars,
                 cancelled, overslept, whole, failed>>

WaitLock ==
  /\ main = "locking"
  /\ WaitAcquire
  /\ main' = "sleeping"
  /\ UNCHANGED <<scans, scanVars, records, updateVars, storeVars, cancelled, overslept, whole, failed>>

\* The deferred Sleep and closeFn; the directory is returned.
Close ==
  /\ main = "sleeping"
  /\ main' = "returned"
  /\ overslept' = (Running # {})
  /\ Release
  /\ UNCHANGED <<scans, scanVars, records, updateVars, ops, waitVars, cancelled, whole, failed>>

\* The process ends: what badger has committed stays.
Stop ==
  /\ main # "idle"
  /\ main' = "idle"
  /\ worker' = [d \in Dirs |-> "none"]
  /\ listing' = [d \in Dirs |-> Nothing]
  /\ loaded' = <<>> /\ expanded' = {} /\ updated' = {}
  /\ opens' = 0 /\ db' = FALSE /\ ops' = 0
  /\ cancelled' = FALSE
  /\ WaitReset
  /\ UNCHANGED <<scans, records, overslept, whole, failed>>

\* app.Run removes the database before a scan, unless told to read from it.
RemoveDb ==
  /\ main = "idle"
  /\ records # <<>>
  /\ records' = <<>>
  /\ UNCHANGED <<main, scans, scanVars, updateVars, storeVars, waitVars,
                 cancelled, overslept, whole, failed>>

Cancel ==
  /\ main \in {"scanning", "waiting", "locking"}
  /\ ~cancelled
  /\ cancelled' = TRUE
  /\ UNCHANGED <<main, scans, scanVars, records, updateVars, storeVars, waitVars,
                 overslept, whole, failed>>

-----------------------------------------------------------------------------
(* processDir *)

\* concurrencyLimit <- in the goroutine of a sub-directory.
Acquire(d) ==
  /\ worker[d] = "spawned"
  /\ Cardinality(Holders) < Slots
  /\ worker' = [worker EXCEPT ![d] = "admitted"]
  /\ UNCHANGED <<main, scans, listing, records, updateVars, storeVars, waitVars,
                 cancelled, overslept, whole, failed>>

\* wait.Add(1), os.ReadDir and the loop, which a cancel ends at any entry; the
\* goroutines of the sub-directories are not waited for.  A file that cannot
\* be read is left out.
ReadDir(d) ==
  /\ worker[d] = "admitted"
  /\ WaitAdd
  /\ \E read, taken \in SUBSET Children(d), broken \in BOOLEAN :
       /\ taken \subseteq read
       /\ broken \/ read = Children(d)
       /\ cancelled \/ (read \ taken) \cap Dirs = {}
       /\ LET lists == taken \ Skip IN
            /\ listing' = [listing EXCEPT ![d] =
                 [lists |-> lists, size |-> 0, scan |-> scans,
                  flag |-> IF broken THEN "!" ELSE IF read = {} THEN "e" ELSE " "]]
            /\ worker' = [e \in Dirs |-> IF e = d THEN "listed"
                                          ELSE IF e \in lists THEN "spawned" ELSE worker[e]]
       /\ failed' = (failed \/ (~cancelled /\ ~(read \ taken \subseteq Skip)))
  /\ UNCHANGED <<main, scans, records, updateVars, storeVars, cancelled, overslept, whole>>

\* StoreDir, under the read lock of the store.
Store(d) ==
  /\ worker[d] = "listed"
  /\ ~Panics
  /\ CheckCount
  /\ records' = Put(records, d, listing[d])
  /\ worker' = [worker EXCEPT ![d] = "stored"]
  /\ UNCHANGED <<main, scans, listing, updateVars, opens, waitVars, cancelled, overslept, whole, failed>>

\* The record cannot be written: logged.
StoreFails(d) ==
  /\ worker[d] = "listed"
  /\ ~Panics
  /\ CheckCount
  /\ worker' = [worker EXCEPT ![d] = "stored"]
  /\ failed' = TRUE
  /\ UNCHANGED <<main, scans, listing, records, updateVars, opens, waitVars, cancelled, overslept, whole>>

\* The store has been closed under the goroutine.
StorePanics(d) ==
  /\ worker[d] = "listed"
  /\ Panics
  /\ main' = "panicked"
  /\ worker' = [worker EXCEPT ![d] = "finished"]
  /\ UNCHANGED <<scans, listing, records, updateVars, storeVars, waitVars, cancelled, overslept, whole, failed>>

\* wait.Done(), and the slot is given back.
Leave(d) ==
  /\ worker[d] = "stored"
  /\ worker' = [worker EXCEPT ![d] = "finished"]
  /\ main' = IF d = Root THEN "waiting" ELSE main
  /\ WaitDone
  /\ UNCHANGED <<scans, listing, records, updateVars, storeVars, cancelled, overslept, whole, failed>>

-----------------------------------------------------------------------------
(* UpdateStats, called by the interface on the directory it was given *)

BeginUpdate ==
  /\ main = "returned"
  /\ main' = "updating"
  /\ loaded' = [d \in {Root} |-> listing[Root]]
  /\ expanded' = {} /\ updated' = {}
  /\ UNCHANGED <<scans, scanVars, records, storeVars, waitVars, cancelled, overslept, whole, failed>>

\* Open, loadFilesLocked: the sub-directories are read back; one without a
\* record is an empty directory.
Expand(d) ==
  /\ main = "updating"
  /\ d \in DOMAIN loaded \ expanded
  /\ loaded' = [c \in DOMAIN loaded \cup (loaded[d].lists \cap Dirs) |->
                  IF c \in DOMAIN loaded THEN loaded[c]
                  ELSE IF c \in DOMAIN records THEN records[c] ELSE Nothing]
  /\ expanded' = expanded \cup {d}
  /\ Open
  /\ ops' = (ops + Cardinality(loaded[d].lists \cap Dirs)) % ReopenAt
  /\ UNCHANGED <<main, scans, scanVars, records, updated, waitVars, cancelled, overslept, whole, failed>>

\* aggregateDirEntries and resolveDirStats, once the entries have theirs.
Totals(d) ==
  LET lists == loaded[d].lists
      sizes == [e \in lists |-> IF e \in Dirs THEN loaded[e].size ELSE Bytes[e]]
      sad == \E c \in lists \cap Dirs : loaded[c].flag \in {"!", "."}
  IN [loaded[d] EXCEPT
        !.size = IF lists = {} THEN EmptyDirSize ELSE SumOver(sizes, lists),
        !.flag = IF sad /\ @ # "!" THEN "." ELSE @]

Updatable(d) ==
  /\ main = "updating"
  /\ d \in expanded \ updated
  /\ loaded[d].lists \cap Dirs \subseteq updated

Updated(d) ==
  /\ Updatable(d)
  /\ loaded' = [loaded EXCEPT ![d] = Totals(d)]
  /\ updated' = updated \cup {d}
  /\ main' = IF d = Root THEN "done" ELSE main
  /\ whole' = (d = Root)
  /\ ops' = (ops + 1) % ReopenAt
  /\ Release
  /\ UNCHANGED <<scans, scanVars, expanded, waitVars, cancelled, overslept>>

\* The totals are written under the lock of the directory, and the reference
\* is given back.
Commit(d) ==
  /\ Updated(d)
  /\ records' = Put(records, d, Totals(d))
  /\ UNCHANGED failed

CommitFails(d) ==
  /\ Updated(d)
  /\ failed' = TRUE
  /\ UNCHANGED records

-----------------------------------------------------------------------------
Worker(d) ==
  Acquire(d) \/ ReadDir(d) \/ Store(d) \/ StoreFails(d) \/ StorePanics(d) \/ Leave(d)

UpdateStats ==
  BeginUpdate \/ \E d \in Dirs : Expand(d) \/ Commit(d) \/ CommitFails(d)

AnalyzeDir == WaitRead \/ WaitLock \/ Close

Next ==
  \/ Start \/ AnalyzeDir \/ UpdateStats \/ Cancel \/ Stop \/ RemoveDb
  \/ \E d \in Dirs : Worker(d)

\* Goroutines that can run are run.
Fairness ==
  /\ WF_vars(AnalyzeDir) /\ WF_vars(UpdateStats)
  /\ \A d \in Dirs : WF_vars(Worker(d))

Spec == Init /\ [][Next]_vars /\ Fairness

-----------------------------------------------------------------------------
(* Properties *)

IsRecord(r) ==
  r.lists \subseteq Entries /\ r.size \in Nat /\ r.flag \in {" ", "e", ".", "!"} /\ r.scan \in 0..MaxScans

TypeOK ==
  /\ main \in {"idle", "scanning", "waiting", "locking", "sleeping", "returned",
               "updating", "done", "panicked"}
  /\ worker \in [Dirs -> {"none", "spawned", "admitted", "listed", "stored", "finished"}]
  /\ \A d \in Dirs : IsRecord(listing[d])
  /\ DOMAIN records \subseteq Dirs /\ \A d \in DOMAIN records : IsRecord(records[d])
  /\ DOMAIN loaded \subseteq Dirs /\ \A d \in DOMAIN loaded : IsRecord(loaded[d])
  /\ updated \subseteq expanded /\ expanded \subseteq DOMAIN loaded
  /\ opens \in Nat /\ db \in BOOLEAN /\ ops \in 0..(ReopenAt - 1)
  /\ WaitTypeOK

\* The properties that follow hold when the second was enough.

\* The store is open exactly while someone holds a reference, across the
\* reopening every ReopenAt operations, and nobody holds one in the end.
ReferencesAreBalanced ==
  overslept \/
  /\ db <=> opens > 0
  /\ main \in {"idle", "done"} => opens = 0
  /\ main # "panicked"

\* After AnalyzeDir, a directory that is listed has a record, and it is this
\* scan's: nothing is read from what an earlier scan left in the store.
RecordsAreThisScans ==
  main \in {"returned", "updating", "done"} /\ ~failed /\ ~overslept =>
    \A d \in DOMAIN records :
      records[d].scan = scans =>
        \A c \in records[d].lists \cap Dirs : c \in DOMAIN records /\ records[c].scan = scans

\* Once UpdateStats is over, and for any later process until the next scan, the
\* totals of the store are those of the records below, errors included, also
\* of a scan that was stopped.
TotalsAreInTheStore ==
  whole /\ ~failed /\ ~overslept /\ Root \in DOMAIN records =>
    \A d \in DOMAIN records :
      records[d].scan = records[Root].scan =>
        LET lists == records[d].lists
            sizes == [e \in lists |-> IF e \in Dirs THEN records[e].size ELSE Bytes[e]]
        IN /\ records[d].size = IF lists = {} THEN EmptyDirSize ELSE SumOver(sizes, lists)
           /\ \A c \in lists \cap Dirs : records[c].flag \in {"!", "."} => records[d].flag \in {"!", "."}

\* A scan returns with any number of slots: no slot is held while waiting for
\* another directory.
ScanReturns == main = "scanning" ~> main \in {"returned", "panicked", "idle"}
=============================================================================
