---------------------------- MODULE ParallelScan ----------------------------
(***************************************************************************)
(* ParallelAnalyzer (pkg/analyze/parallel.go) with the cancellation, reset   *)
(* and progress plumbing of BaseAnalyzer (pkg/analyze/analyzer.go).          *)
(*                                                                           *)
(* Each directory below the root has two goroutines: a worker               *)
(* (processQueuedDir: take a slot of the process-wide semaphore, look at the *)
(* cancel flag, read the directory, give the slot back, send the result) and *)
(* a collector, started when the listing has been walked, that links the     *)
(* results of the sub-directories and then calls wait.Done.  AnalyzeDir walks *)
(* the root itself, waits on the wait group, stops the progress goroutine,   *)
(* announces that it is done and returns.  The analyzer is then reset and    *)
(* used again; the semaphore is a package variable and is not.               *)
(***************************************************************************)
EXTENDS ScanTree, WaitGroup

CONSTANT Slots   \* cap(concurrencyLimit)

ASSUME SlotsAssumption == Slots \in Nat \ {0}

VARIABLES
  main,       \* where AnalyzeDir is
  worker,     \* where processQueuedDir is, per directory
  proc,       \* where processDir is: "unread", "reading", "collecting", "done"
  todo,       \* the listed entries the loop has not reached yet
  owed,       \* the sub-directories whose result the collector still expects
  files,      \* dir.Files
  flag,       \* dir.Flag: " ", "e" or "!"
  holders,    \* the workers holding a slot of concurrencyLimit
  cancelled,  \* BaseAnalyzer.cancelled
  progress,   \* the UpdateProgress goroutine: "off" or "running"
  update,     \* progressOutChan (capacity 1) holds an update
  late        \* history: directories opened after Cancel

scanVars == <<worker, proc, todo, owed, files, flag, holders, late>>
vars == <<main, worker, proc, todo, owed, files, flag, holders, cancelled,
          progress, update, late, waitVars>>

MainStates == {"idle", "scanning", "publishing", "waiting", "locking",
               "stopping", "broadcasting", "returned"}
WorkerStates == {"idle", "queued", "admitted", "refused", "entering",
                 "scanning", "leaving", "sending", "sendingNil", "finished"}
ProcStates == {"unread", "reading", "collecting", "done"}

\* The worker states between acquiring a slot and giving it back.
Holding == {"admitted", "refused", "entering", "scanning", "leaving"}

SubDirs == Dirs \ {Root}

\* The scan's own state before it starts: no Dir, no goroutine.
Everywhere(v) == [d \in Dirs |-> v]

Init ==
  /\ worker = Everywhere("idle")
  /\ proc = Everywhere("unread")
  /\ todo = Everywhere({})
  /\ owed = Everywhere({})
  /\ files = Everywhere({})
  /\ flag = Everywhere(" ")
  /\ late = {}
  /\ main = "idle"
  /\ holders = {}
  /\ cancelled = FALSE
  /\ progress = "off"
  /\ update = FALSE
  /\ WaitInit

-----------------------------------------------------------------------------
(* AnalyzeDir *)

\* AnalyzeDir(path): start UpdateProgress and enter processDir for the root.
Start ==
  /\ main = "idle"
  /\ main' = "scanning"
  /\ progress' = "running"
  /\ worker' = [worker EXCEPT ![Root] = "entering"]
  /\ UNCHANGED <<proc, todo, owed, files, flag, holders, cancelled, update,
                 late, waitVars>>

\* setCurrentDir, after processDir returned the root: previews can see it.
Publish ==
  /\ main = "publishing"
  /\ main' = "waiting"
  /\ UNCHANGED <<scanVars, cancelled, progress, update, waitVars>>

\* Mutant: AnalyzeDir does not wait for the collectors.
WaitSkipped ==
  /\ main = "waiting"
  /\ main' = "stopping"
  /\ UNCHANGED <<scanVars, cancelled, progress, update, waitVars>>

\* wait.Wait(): read the counter, then lock the mutex if it was positive.
WaitRead ==
  /\ main = "waiting"
  /\ main' = IF MustBlock THEN "locking" ELSE "stopping"
  /\ UNCHANGED <<scanVars, cancelled, progress, update, waitVars>>

WaitLock ==
  /\ main = "locking"
  /\ WaitAcquire
  /\ main' = "stopping"
  /\ UNCHANGED <<scanVars, cancelled, progress, update>>

\* progressDoneChan is unbuffered: the send and UpdateProgress's return are
\* one rendezvous.
StopProgress ==
  /\ main = "stopping"
  /\ progress = "running"
  /\ progress' = "off"
  /\ main' = "broadcasting"
  /\ UNCHANGED <<scanVars, cancelled, update, waitVars>>

\* doneChan.Broadcast() and return dir.
Return ==
  /\ main = "broadcasting"
  /\ main' = "returned"
  /\ UNCHANGED <<scanVars, cancelled, progress, update, waitVars>>

\* ResetProgress before the next scan: new channels, a new wait group, the
\* cancel flag cleared.  concurrencyLimit keeps whatever it holds.
ResetProgress ==
  /\ main = "returned"
  /\ main' = "idle"
  /\ worker' = Everywhere("idle")
  /\ proc' = Everywhere("unread")
  /\ todo' = Everywhere({})
  /\ owed' = Everywhere({})
  /\ files' = Everywhere({})
  /\ flag' = Everywhere(" ")
  /\ late' = {}
  /\ cancelled' = FALSE
  /\ update' = FALSE
  /\ WaitReset
  /\ UNCHANGED <<holders, progress>>

-----------------------------------------------------------------------------
(* processQueuedDir *)

Acquire(d) ==
  /\ worker[d] = "queued"
  /\ Cardinality(holders) < Slots
  /\ holders' = holders \cup {d}
  /\ worker' = [worker EXCEPT ![d] = "admitted"]
  /\ UNCHANGED <<main, proc, todo, owed, files, flag, cancelled, progress,
                 update, late, waitVars>>

\* Mutant: a queued worker does not look at the cancel flag.
CheckNothing(d) ==
  /\ worker[d] = "admitted"
  /\ worker' = [worker EXCEPT ![d] = "entering"]
  /\ UNCHANGED <<main, proc, todo, owed, files, flag, holders, cancelled,
                 progress, update, late, waitVars>>

CheckCancelled(d) ==
  /\ worker[d] = "admitted"
  /\ worker' = [worker EXCEPT ![d] = IF cancelled THEN "refused" ELSE "entering"]
  /\ UNCHANGED <<main, proc, todo, owed, files, flag, holders, cancelled,
                 progress, update, late, waitVars>>

\* Mutant: the slot is not given back on the cancelled path.
ReleaseKeeping(d) ==
  /\ worker[d] \in {"leaving", "refused"}
  /\ holders' = IF worker[d] = "leaving" THEN holders \ {d} ELSE holders
  /\ worker' = [worker EXCEPT ![d] =
                  IF worker[d] = "leaving" THEN "sending" ELSE "sendingNil"]
  /\ UNCHANGED <<main, proc, todo, owed, files, flag, cancelled, progress,
                 update, late, waitVars>>

\* Mutant: the slot is kept until the sub-directories are collected.
ReleaseLate(d) ==
  /\ \/ worker[d] = "leaving" /\ proc[d] = "done"
     \/ worker[d] = "refused"
  /\ holders' = holders \ {d}
  /\ worker' = [worker EXCEPT ![d] =
                  IF worker[d] = "leaving" THEN "sending" ELSE "sendingNil"]
  /\ UNCHANGED <<main, proc, todo, owed, files, flag, cancelled, progress,
                 update, late, waitVars>>

\* <-concurrencyLimit, after subdir.Parent = parent or on the cancelled path.
Release(d) ==
  /\ worker[d] \in {"leaving", "refused"}
  /\ holders' = holders \ {d}
  /\ worker' = [worker EXCEPT ![d] =
                  IF worker[d] = "leaving" THEN "sending" ELSE "sendingNil"]
  /\ UNCHANGED <<main, proc, todo, owed, files, flag, cancelled, progress,
                 update, late, waitVars>>

-----------------------------------------------------------------------------
(* processDir *)

\* wait.Add(1), os.ReadDir and the new Dir with its flag.  A failing ReadDir
\* still returns what it had read.
OpenDir(d) ==
  /\ worker[d] = "entering"
  /\ worker' = [worker EXCEPT ![d] = "scanning"]
  /\ proc' = [proc EXCEPT ![d] = "reading"]
  /\ WaitAdd
  /\ \/ /\ todo' = [todo EXCEPT ![d] = Children(d)]
        /\ flag' = [flag EXCEPT ![d] = IF Children(d) = {} THEN "e" ELSE " "]
     \/ /\ \E listed \in SUBSET Children(d) : todo' = [todo EXCEPT ![d] = listed]
        /\ flag' = [flag EXCEPT ![d] = "!"]
  /\ late' = IF cancelled THEN late \cup {d} ELSE late
  /\ UNCHANGED <<main, owed, files, holders, cancelled, progress, update>>

\* The loop takes one entry of d's listing that has not been seen: the loop
\* head and shouldSkipDir both look at the cancel flag first.
TakeEntry(d, e) ==
  /\ worker[d] = "scanning"
  /\ ~cancelled
  /\ e \in todo[d]
  /\ todo' = [todo EXCEPT ![d] = @ \ {e}]
  /\ UNCHANGED <<main, proc, holders, cancelled, progress, update, late, waitVars>>

\* continue: ignored, git-ignored or filtered.
SkipEntry(d, e) ==
  /\ TakeEntry(d, e)
  /\ e \in Skip
  /\ UNCHANGED <<worker, owed, files, flag>>

\* dirCount++ and go processQueuedDir.
SpawnSubDir(d, e) ==
  /\ TakeEntry(d, e)
  /\ e \in Dirs \ Skip
  /\ worker' = [worker EXCEPT ![e] = "queued"]
  /\ owed' = [owed EXCEPT ![d] = @ \cup {e}]
  /\ UNCHANGED <<files, flag>>

AddFile(d, e) ==
  /\ TakeEntry(d, e)
  /\ e \in Files \ Skip
  /\ files' = [files EXCEPT ![d] = @ \cup {e}]
  /\ UNCHANGED <<worker, owed, flag>>

\* Mutant: an unreadable file is left out without flagging its directory.
FailSilently(d, e) ==
  /\ TakeEntry(d, e)
  /\ e \in Files \ Skip
  /\ UNCHANGED <<worker, owed, files, flag>>

\* f.Info or followSymlink failed: the file is left out and the directory flagged.
FailFile(d, e) ==
  /\ TakeEntry(d, e)
  /\ e \in Files \ Skip
  /\ flag' = [flag EXCEPT ![d] = "!"]
  /\ UNCHANGED <<worker, owed, files>>

\* The loop ends (or breaks on cancel), the collector goroutine is started
\* and processDir returns.
EndLoop(d) ==
  /\ worker[d] = "scanning"
  /\ cancelled \/ todo[d] = {}
  /\ proc' = [proc EXCEPT ![d] = "collecting"]
  /\ todo' = [todo EXCEPT ![d] = {}]
  /\ IF d = Root
     THEN /\ worker' = [worker EXCEPT ![d] = "finished"]
          /\ main' = "publishing"
     ELSE /\ worker' = [worker EXCEPT ![d] = "leaving"]
          /\ UNCHANGED main
  /\ UNCHANGED <<owed, files, flag, holders, cancelled, progress, update, late,
                 waitVars>>

-----------------------------------------------------------------------------
(* The collector goroutine of p *)

\* Mutant: results that arrive after a cancel are dropped.
ReceiveDropping(p, c) ==
  /\ proc[p] = "collecting"
  /\ c \in owed[p]
  /\ worker[c] \in {"sending", "sendingNil"}
  /\ owed' = [owed EXCEPT ![p] = @ \ {c}]
  /\ files' = [files EXCEPT ![p] = IF cancelled THEN @ ELSE @ \cup {c}]
  /\ worker' = [worker EXCEPT ![c] = "finished"]
  /\ UNCHANGED <<main, proc, todo, flag, holders, cancelled, progress, update,
                 late, waitVars>>

\* sub = <-subDirChan (a rendezvous with the sender) and addSubDir.
Receive(p, c) ==
  /\ proc[p] = "collecting"
  /\ c \in owed[p]
  /\ worker[c] \in {"sending", "sendingNil"}
  /\ owed' = [owed EXCEPT ![p] = @ \ {c}]
  /\ files' = [files EXCEPT ![p] = IF worker[c] = "sending" THEN @ \cup {c} ELSE @]
  /\ worker' = [worker EXCEPT ![c] = "finished"]
  /\ UNCHANGED <<main, proc, todo, flag, holders, cancelled, progress, update,
                 late, waitVars>>

\* Mutant: wait.Done before the results are in (StoredAnalyzer's order).
CollectorDoneEarly(p) ==
  /\ proc[p] = "collecting"
  /\ proc' = [proc EXCEPT ![p] = "done"]
  /\ WaitDone
  /\ UNCHANGED <<main, worker, todo, owed, files, flag, holders, cancelled,
                 progress, update, late>>

\* All dirCount results are in: wait.Done().
CollectorDone(p) ==
  /\ proc[p] = "collecting"
  /\ owed[p] = {}
  /\ proc' = [proc EXCEPT ![p] = "done"]
  /\ WaitDone
  /\ UNCHANGED <<main, worker, todo, owed, files, flag, holders, cancelled,
                 progress, update, late>>

-----------------------------------------------------------------------------
(* The user interface *)

Cancel ==
  /\ ~cancelled
  /\ cancelled' = TRUE
  /\ UNCHANGED <<main, scanVars, progress, update, waitVars>>

\* UpdateProgress on a tick: publish, or drop the update if the last one has
\* not been read.
Tick ==
  /\ progress = "running"
  /\ update' = TRUE
  /\ UNCHANGED <<main, scanVars, cancelled, progress, waitVars>>

\* The interface reads progressOutChan whenever it likes.
ReadProgress ==
  /\ update
  /\ update' = FALSE
  /\ UNCHANGED <<main, scanVars, cancelled, progress, waitVars>>

-----------------------------------------------------------------------------
AnalyzeDir ==
  Publish \/ WaitRead \/ WaitLock \/ StopProgress \/ Return

Worker(d) ==
  \/ Acquire(d) \/ CheckCancelled(d) \/ Release(d)
  \/ OpenDir(d) \/ EndLoop(d)
  \/ \E e \in Entries : \/ SkipEntry(d, e) \/ SpawnSubDir(d, e)
                        \/ AddFile(d, e) \/ FailFile(d, e)

Collector(p) == CollectorDone(p) \/ \E c \in SubDirs : Receive(p, c)

User == Cancel \/ ReadProgress

Next ==
  \/ Start \/ AnalyzeDir \/ ResetProgress \/ Tick \/ User
  \/ \E d \in Dirs : Worker(d) \/ Collector(d)

\* Every goroutine the Go scheduler can run is eventually run, and file system
\* calls return.  The user and the ticker owe nothing.
Fairness ==
  /\ WF_vars(AnalyzeDir)
  /\ \A d \in Dirs : WF_vars(Worker(d)) /\ WF_vars(Collector(d))

Spec == Init /\ [][Next]_vars /\ Fairness

-----------------------------------------------------------------------------
(* Properties *)

\* The variables keep their types and at most Slots workers are admitted.
TypeOK ==
  /\ main \in MainStates
  /\ worker \in [Dirs -> WorkerStates]
  /\ proc \in [Dirs -> ProcStates]
  /\ todo \in [Dirs -> SUBSET Entries]
  /\ owed \in [Dirs -> SUBSET SubDirs]
  /\ files \in [Dirs -> SUBSET Entries]
  /\ flag \in [Dirs -> {" ", "e", "!"}]
  /\ holders \subseteq SubDirs
  /\ cancelled \in BOOLEAN
  /\ progress \in {"off", "running"}
  /\ update \in BOOLEAN
  /\ late \subseteq Dirs
  /\ WaitTypeOK

\* Once AnalyzeDir is past its wait the tree is the caller's: no goroutine of
\* the scan is left that could still read a directory, link one or hold a slot
\* of the semaphore the next scan shares.
Handover == main \in {"stopping", "broadcasting", "returned"}

NothingRunsAfterHandover ==
  Handover =>
    /\ \A d \in Dirs : worker[d] \in {"idle", "finished"}
    /\ \A d \in Dirs : proc[d] \in {"unread", "done"}
    /\ holders = {}

\* In-flight work survives a cancel (analyzer.go: "allowed to finish so the
\* caller can safely use the partial directory tree"): at hand-over every
\* directory that was read is linked into its parent, and every linked
\* directory was read.
PartialTreeIsWhole ==
  Handover =>
    \A d \in SubDirs : proc[d] = "done" <=> d \in files[Parent[d]]

\* Nothing is lost silently: without a cancel, each entry of a directory that
\* was read is in it at hand-over, unless it is to be skipped or the directory
\* carries the '!' flag.
NoSilentLoss ==
  Handover /\ ~cancelled =>
    \A d \in Dirs : proc[d] = "done" =>
      \A e \in Children(d) \ Skip : e \in files[d] \/ flag[d] = "!"

\* Cancel takes effect at once: besides the root, only workers that had
\* already passed the cancel check may still open their directory, and each of
\* those occupies a slot.
CancelIsPrompt == Cardinality(late \ {Root}) <= Slots

\* The scan ends, cancelled or not, whether or not anyone reads the progress
\* updates: slots are not held while waiting for sub-directories.
ScanReturns == main # "idle" ~> main = "returned"

\* The scan keeps the promise every analyzer makes.
Contract == INSTANCE ScanContract WITH
  phase <- IF main = "idle" THEN "idle"
           ELSE IF main = "returned" THEN "finished" ELSE "running",
  linked <- UNION {files[d] : d \in Dirs},
  broken <- {d \in Dirs : flag[d] = "!"},
  cancelled <- cancelled

KeepsContract == Contract!Spec
-----------------------------------------------------------------------------
(* The inductive invariant behind the theorems of ParallelScanProofs *)

\* The directories whose wait.Add is not yet matched by a wait.Done.
Live == {d \in Dirs : proc[d] \in {"reading", "collecting"}}

\* AnalyzeDir's progress and the root's own processDir.
RootInv ==
  /\ worker[Root] \in {"idle", "entering", "scanning", "finished"}
  /\ main = "idle" <=> worker[Root] = "idle"
  /\ main = "scanning" <=> worker[Root] \in {"entering", "scanning"}
  /\ worker[Root] \in {"idle", "entering"} =>
       \A d \in SubDirs : worker[d] = "idle" /\ proc[d] = "unread"
  /\ worker[Root] = "finished" => proc[Root] # "unread"

\* A worker's position says whether its processDir has begun and ended.
ProcInv ==
  \A d \in Dirs :
    /\ worker[d] = "scanning" <=> proc[d] = "reading"
    /\ worker[d] \in {"idle", "queued", "admitted", "refused", "entering",
                     "sendingNil"} => proc[d] = "unread"
    /\ worker[d] \in {"leaving", "sending"} => proc[d] \in {"collecting", "done"}

\* Tokens of the semaphore are held exactly between acquire and release.
SlotInv ==
  /\ \A d \in SubDirs : d \in holders <=> worker[d] \in Holding
  /\ Cardinality(holders) <= Slots

\* A directory's goroutine exists exactly while its parent expects its result.
AwaitedInv ==
  \A d \in SubDirs :
    /\ worker[d] \notin {"idle", "finished"} <=> d \in owed[Parent[d]]
    /\ worker[d] # "idle" => proc[Parent[d]] # "unread"

\* Whoever expects a result is live: the wait group cannot reach 0 above a
\* running worker.
OwedInv ==
  \A p \in Dirs :
    /\ owed[p] \subseteq Children(p) \ Skip
    /\ owed[p] # {} => proc[p] \in {"reading", "collecting"}

\* What is still to be listed.
TodoInv ==
  \A d \in Dirs :
    /\ todo[d] \subseteq Children(d)
    /\ todo[d] # {} => proc[d] = "reading"
    /\ \A e \in todo[d] : e \notin files[d] /\ (e \in Dirs => worker[e] = "idle")

FilesInv ==
  \A d \in Dirs :
    /\ files[d] \subseteq Children(d) \ Skip
    /\ proc[d] = "unread" => files[d] = {} /\ flag[d] = " "

\* A worker that is finished has been linked, unless it never read.
LinkInv ==
  \A d \in SubDirs :
    (worker[d] = "finished" /\ proc[d] # "unread") <=> d \in files[Parent[d]]

\* The wait group counts the live directories and opens for good at the end.
WaitInv ==
  /\ waitValue = Cardinality(Live)
  /\ ~waitLocked \/ Handover => Live = {} /\ proc[Root] = "done"

\* Without a cancel nothing is refused and nothing is dropped.
LossInv ==
  ~cancelled =>
    /\ \A d \in Dirs : worker[d] \notin {"refused", "sendingNil"}
    /\ \A d \in Dirs : proc[d] # "unread" =>
         \A e \in Children(d) \ Skip :
           e \in todo[d] \cup owed[d] \cup files[d] \/ flag[d] = "!"

Entering == {d \in SubDirs : worker[d] = "entering"}

\* After a cancel the set of late and entering workers only shrinks.
LateInv ==
  /\ ~cancelled => late = {}
  /\ Cardinality((late \ {Root}) \cup Entering) <= Slots

IInv ==
  /\ TypeOK /\ RootInv /\ ProcInv /\ SlotInv /\ AwaitedInv /\ OwedInv
  /\ TodoInv /\ FilesInv /\ LinkInv /\ WaitInv /\ LossInv /\ LateInv
=============================================================================
