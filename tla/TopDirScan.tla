----------------------------- MODULE TopDirScan -----------------------------
(***************************************************************************)
(* TopDirAnalyzer (pkg/analyze/parallel_top_dir.go), the analyzer of the     *)
(* non-interactive mode: no tree is kept, only one running total per          *)
(* directory of the first level (TopDir, pkg/analyze/top_dir.go).            *)
(*                                                                           *)
(* AnalyzeDir lists the root, starts one goroutine per first-level directory *)
(* and reads the totals when all of them have reported.  processSubDir tries *)
(* to take a slot for each directory it meets: with a slot the directory is  *)
(* walked by a goroutine of its own, counted by the wait group; without one  *)
(* it is walked by a plain recursive call.  A frame is one activation of     *)
(* processSubDir, whichever goroutine runs it.                               *)
(*                                                                           *)
(* No caller of this analyzer ever cancels or resets it (stdout scans once), *)
(* so the cancel flag stays false and is left out, as are the progress       *)
(* counters, which nothing reads back.                                       *)
(***************************************************************************)
EXTENDS TreeSizes, WaitGroup

CONSTANTS
  Slots,          \* cap(concurrencyLimit)
  Inode,          \* the multi-linked inode of each file, or NoInode
  NoInode

ASSUME TopDirAssumption ==
  /\ Slots \in Nat
  /\ DOMAIN Inode = Files

\* The links of an inode are the same file.
ASSUME InodeAssumption ==
  \A f, g \in Files : Inode[f] # NoInode /\ Inode[f] = Inode[g] => Bytes[f] = Bytes[g]

VARIABLES
  main,      \* where AnalyzeDir is
  tops,      \* topDirs, as a set
  frame,     \* where processSubDir is, per directory
  todo,      \* the listed entries the loop of each frame has not reached yet
  topDir,    \* the TopDir each frame adds to
  tally,     \* the frame's totalSize and totalCount
  total,     \* the atomic counters of each TopDir
  flag,      \* TopDir.Flag, and SimpleDir.Flag for the root
  linked,    \* linkedItems: the inodes already counted
  holders,   \* the frames whose goroutine holds a slot of concurrencyLimit
  files,     \* the root's files in SimpleDir.Files
  reported,  \* what was read of each TopDir into SimpleDir.Files
  summary,   \* SimpleDir.Size after updateStats
  early      \* history: AnalyzeDir got past its Wait while the value was not 0

vars == <<main, tops, frame, todo, topDir, tally, total, flag, linked, holders,
          files, reported, summary, early, waitVars>>

FrameStates == {"idle", "claimed", "entering", "running", "claiming",
                "calling", "adding", "releasing", "notifying", "sending",
                "finished"}
MainStates == {"idle", "listing", "receiving", "waiting", "locking", "reading",
               "returned", "summarised"}

SubDirs == Dirs \ {Root}
Totals == [size : Nat, count : Nat]
Zero == [size |-> 0, count |-> 0]
Plus(t, size, count) == [size |-> t.size + size, count |-> t.count + count]

Init ==
  /\ main = "idle"
  /\ tops = {}
  /\ frame = [d \in SubDirs |-> "idle"]
  /\ todo = [d \in Dirs |-> {}]
  /\ topDir = [d \in SubDirs |-> Root]
  /\ tally = [d \in SubDirs |-> Zero]
  /\ total = [d \in SubDirs |-> Zero]
  /\ flag = [d \in Dirs |-> " "]
  /\ linked = {}
  /\ holders = {}
  /\ files = {}
  /\ reported = [t \in {} |-> Zero]
  /\ summary = 0
  /\ early = FALSE
  /\ WaitInit

-----------------------------------------------------------------------------
(* AnalyzeDir *)

mainRest == <<topDir, tally, total, linked, holders, summary>>

\* os.ReadDir(path): a failing call still returns what it had read.
Start ==
  /\ main = "idle"
  /\ main' = "listing"
  /\ \/ /\ todo' = [todo EXCEPT ![Root] = Children(Root)]
        /\ flag' = [flag EXCEPT ![Root] = IF Children(Root) = {} THEN "e" ELSE " "]
     \/ /\ \E listed \in SUBSET Children(Root) :
             todo' = [todo EXCEPT ![Root] = listed]
        /\ flag' = [flag EXCEPT ![Root] = "!"]
  /\ UNCHANGED <<tops, frame, files, reported, early, mainRest, waitVars>>

TakeTop(e) ==
  /\ main = "listing"
  /\ e \in todo[Root]
  /\ todo' = [todo EXCEPT ![Root] = @ \ {e}]
  /\ UNCHANGED <<main, tally, total, linked, holders, reported, summary, early,
                 waitVars>>

SkipTop(e) ==
  /\ TakeTop(e)
  /\ e \in Skip
  /\ UNCHANGED <<tops, frame, topDir, flag, files>>

\* A new TopDir and the goroutine that walks it: it needs no slot.
SpawnTop(e) ==
  /\ TakeTop(e)
  /\ e \in Dirs \ Skip
  /\ tops' = tops \cup {e}
  /\ frame' = [frame EXCEPT ![e] = "entering"]
  /\ topDir' = [topDir EXCEPT ![e] = e]
  /\ UNCHANGED <<flag, files>>

\* Files of the root are listed one by one; linkedItems is not consulted.
AddTopFile(e) ==
  /\ TakeTop(e)
  /\ e \in Files \ Skip
  /\ files' = files \cup {e}
  /\ UNCHANGED <<tops, frame, topDir, flag>>

FailTopFile(e) ==
  /\ TakeTop(e)
  /\ e \in Files \ Skip
  /\ flag' = [flag EXCEPT ![Root] = "!"]
  /\ UNCHANGED <<tops, frame, topDir, files>>

EndListing ==
  /\ main = "listing"
  /\ todo[Root] = {}
  /\ main' = "receiving"
  /\ UNCHANGED <<tops, frame, todo, flag, files, reported, early, mainRest,
                 waitVars>>

\* <-subDirChan, a rendezvous with the top goroutine's send.
ReceiveTop(t) ==
  /\ main = "receiving"
  /\ frame[t] = "sending"
  /\ frame' = [frame EXCEPT ![t] = "finished"]
  /\ UNCHANGED <<main, tops, todo, flag, files, reported, early, mainRest,
                 waitVars>>

\* Mutant: the receive loop stops one result short.
ReceivedMost ==
  /\ main = "receiving"
  /\ Cardinality({t \in tops : frame[t] # "finished"}) <= 1
  /\ main' = "waiting"
  /\ UNCHANGED <<tops, frame, todo, flag, files, reported, early, mainRest,
                 waitVars>>

\* The loop has received len(topDirs) results.
ReceivedAll ==
  /\ main = "receiving"
  /\ \A t \in tops : frame[t] = "finished"
  /\ main' = "waiting"
  /\ UNCHANGED <<tops, frame, todo, flag, files, reported, early, mainRest,
                 waitVars>>

\* a.wait.Wait(): the read of the value, then the lock if it was positive.
WaitRead ==
  /\ main = "waiting"
  /\ main' = IF MustBlock THEN "locking" ELSE "reading"
  /\ UNCHANGED <<tops, frame, todo, flag, files, reported, early, mainRest,
                 waitVars>>

WaitLock ==
  /\ main = "locking"
  /\ WaitAcquire
  /\ main' = "reading"
  /\ early' = (waitValue # 0)
  /\ UNCHANGED <<tops, frame, todo, flag, files, reported, mainRest>>

\* One TopDir into SimpleDir.Files.  GetUsage loads its atomic counters one
\* by one, as AddUsage adds to them one by one: no property relates two
\* counters of the same TopDir, so each call is one step.
ReadTop(t) ==
  /\ main = "reading"
  /\ t \in tops \ DOMAIN reported
  /\ reported' = [u \in DOMAIN reported \cup {t} |->
                    IF u = t THEN [total |-> total[t], flag |-> flag[t]]
                    ELSE reported[u]]
  /\ UNCHANGED <<main, tops, frame, todo, flag, files, early, mainRest, waitVars>>

\* progressDoneChan, Broadcast and return.
Return ==
  /\ main = "reading"
  /\ tops = DOMAIN reported
  /\ main' = "returned"
  /\ UNCHANGED <<tops, frame, todo, flag, files, reported, early, mainRest,
                 waitVars>>

\* SimpleDir.updateStats, called by the text interface.
UpdateStats ==
  /\ main = "returned"
  /\ main' = "summarised"
  /\ summary' = IF files = {} /\ tops = {} THEN EmptyDirSize
                ELSE SumOver(Bytes, files) + SumOver([t \in tops |-> reported[t].total.size], tops)
  /\ flag' = [flag EXCEPT ![Root] =
                IF @ # "!" /\ \E t \in tops : reported[t].flag = "." THEN "."
                ELSE @]
  /\ UNCHANGED <<tops, frame, todo, topDir, tally, total, linked, holders,
                 files, reported, early, waitVars>>

-----------------------------------------------------------------------------
(* processSubDir *)

frameRest == <<main, tops, files, reported, summary, early>>

\* os.ReadDir; an empty listing makes the total EmptyDirSize.
OpenDir(d) ==
  /\ frame[d] = "entering"
  /\ frame' = [frame EXCEPT ![d] = "running"]
  /\ \E listed \in SUBSET Children(d) :
       /\ todo' = [todo EXCEPT ![d] = listed]
       /\ tally' = [tally EXCEPT ![d] =
                      IF listed = {} THEN [Zero EXCEPT !.size = EmptyDirSize]
                      ELSE Zero]
       /\ \/ listed = Children(d) /\ UNCHANGED flag
          \/ flag' = [flag EXCEPT ![topDir[d]] = "."]
  /\ UNCHANGED <<frameRest, topDir, total, linked, holders, waitVars>>

Take(d, e) ==
  /\ frame[d] = "running"
  /\ e \in todo[d]
  /\ todo' = [todo EXCEPT ![d] = @ \ {e}]
  /\ UNCHANGED <<frameRest, total>>

SkipEntry(d, e) ==
  /\ Take(d, e)
  /\ e \in Skip
  /\ UNCHANGED <<frame, topDir, tally, flag, linked, holders, waitVars>>

Descend(d, e) ==
  /\ Take(d, e)
  /\ e \in Dirs \ Skip
  /\ tally' = [tally EXCEPT ![d] = Plus(@, 0, 1)]
  /\ topDir' = [topDir EXCEPT ![e] = topDir[d]]
  /\ UNCHANGED <<flag, linked, waitVars>>

\* case concurrencyLimit <- struct{}{}
Claim(d, e) ==
  /\ Descend(d, e)
  /\ Cardinality(holders) < Slots
  /\ holders' = holders \cup {e}
  /\ frame' = [frame EXCEPT ![d] = "claiming", ![e] = "claimed"]

\* Mutant: the new goroutine is counted by nobody.
SpawnUncounted(d, e) ==
  /\ frame[d] = "claiming"
  /\ Parent[e] = d /\ frame[e] = "claimed"
  /\ frame' = [frame EXCEPT ![d] = "running", ![e] = "entering"]
  /\ UNCHANGED <<frameRest, todo, topDir, tally, total, flag, linked, holders,
                 waitVars>>

\* a.wait.Add(1) and the go statement.
Spawn(d, e) ==
  /\ frame[d] = "claiming"
  /\ Parent[e] = d /\ frame[e] = "claimed"
  /\ WaitAdd
  /\ frame' = [frame EXCEPT ![d] = "running", ![e] = "entering"]
  /\ UNCHANGED <<frameRest, todo, topDir, tally, total, flag, linked, holders>>

\* Mutant: the select has no default branch.
CallNever(d, e) == FALSE

\* default: the recursive call.
Call(d, e) ==
  /\ Descend(d, e)
  /\ Cardinality(holders) >= Slots
  /\ frame' = [frame EXCEPT ![d] = "calling", ![e] = "entering"]
  /\ UNCHANGED holders

FileOf(d, e) ==
  /\ Take(d, e)
  /\ e \in Files \ Skip
  /\ UNCHANGED <<frame, topDir, holders, waitVars>>

\* Mutant: an inode is counted again for every link.
CountAlways(d, e) ==
  /\ FileOf(d, e)
  /\ tally' = [tally EXCEPT ![d] = Plus(@, Bytes[e], 1)]
  /\ UNCHANGED <<flag, linked>>

\* A file, whose size counts unless linkedItems.LoadOrStore found its inode.
CountFile(d, e) ==
  /\ FileOf(d, e)
  /\ LET multi == Inode[e] # NoInode
         size == IF multi /\ Inode[e] \in linked THEN 0 ELSE Bytes[e]
     IN /\ tally' = [tally EXCEPT ![d] = Plus(@, size, 1)]
        /\ linked' = IF multi THEN linked \cup {Inode[e]} ELSE linked
  /\ UNCHANGED flag

\* f.Info failed, before the file was counted, or followSymlink, after.
FailFile(d, e) ==
  /\ FileOf(d, e)
  /\ \E counted \in {0, 1} : tally' = [tally EXCEPT ![d] = Plus(@, 0, counted)]
  /\ flag' = [flag EXCEPT ![topDir[d]] = "."]
  /\ UNCHANGED linked

EndLoop(d) ==
  /\ frame[d] = "running"
  /\ todo[d] = {}
  /\ frame' = [frame EXCEPT ![d] = "adding"]
  /\ UNCHANGED <<frameRest, todo, topDir, tally, total, flag, linked, holders,
                 waitVars>>

\* What follows the call: a top goroutine sends, a goroutine with a slot gives
\* it back, a recursive call returns into the frame that made it.
Returned(d) ==
  IF d \in tops THEN [frame EXCEPT ![d] = "sending"]
  ELSE IF d \in holders THEN [frame EXCEPT ![d] = "releasing"]
  ELSE [frame EXCEPT ![d] = "finished", ![Parent[d]] = "running"]

\* Mutant: the last frame to finish overwrites the totals.
SetUsage(d) ==
  /\ frame[d] = "adding"
  /\ total' = [total EXCEPT ![topDir[d]] = tally[d]]
  /\ frame' = Returned(d)
  /\ UNCHANGED <<frameRest, todo, topDir, tally, flag, linked, holders, waitVars>>

\* topDir.AddUsage(totalSize, totalUsage, totalCount) and return.
AddUsage(d) ==
  /\ frame[d] = "adding"
  /\ total' = [total EXCEPT ![topDir[d]] = Plus(@, tally[d].size, tally[d].count)]
  /\ frame' = Returned(d)
  /\ UNCHANGED <<frameRest, todo, topDir, tally, flag, linked, holders, waitVars>>

\* <-concurrencyLimit
Release(d) ==
  /\ frame[d] = "releasing"
  /\ holders' = holders \ {d}
  /\ frame' = [frame EXCEPT ![d] = "notifying"]
  /\ UNCHANGED <<frameRest, todo, topDir, tally, total, flag, linked, waitVars>>

\* a.wait.Done()
Notify(d) ==
  /\ frame[d] = "notifying"
  /\ WaitDone
  /\ frame' = [frame EXCEPT ![d] = "finished"]
  /\ UNCHANGED <<frameRest, todo, topDir, tally, total, flag, linked, holders>>

-----------------------------------------------------------------------------
Main ==
  \/ EndListing \/ ReceivedAll \/ WaitRead \/ WaitLock \/ Return \/ UpdateStats
  \/ \E e \in Entries :
       SkipTop(e) \/ SpawnTop(e) \/ AddTopFile(e) \/ FailTopFile(e)
  \/ \E t \in SubDirs : ReceiveTop(t) \/ ReadTop(t)

Frame(d) ==
  \/ OpenDir(d) \/ EndLoop(d) \/ AddUsage(d) \/ Release(d) \/ Notify(d)
  \/ \E e \in SubDirs : Claim(d, e) \/ Spawn(d, e) \/ Call(d, e)
  \/ \E e \in Entries : SkipEntry(d, e)
  \/ \E e \in Files : CountFile(d, e) \/ FailFile(d, e)

Next == Start \/ Main \/ \E d \in SubDirs : Frame(d)

\* As long as some goroutine can run, one does, and file system calls return.
\* The Go scheduler promises more, but there is nothing here to starve it with.
Fairness == WF_vars(Next)

Spec == Init /\ [][Next]_vars /\ Fairness

-----------------------------------------------------------------------------
(* Properties *)

\* The variables keep their types and at most Slots goroutines hold a slot.
TypeOK ==
  /\ main \in MainStates
  /\ tops \subseteq SubDirs
  /\ frame \in [SubDirs -> FrameStates]
  /\ todo \in [Dirs -> SUBSET Entries]
  /\ topDir \in [SubDirs -> Dirs]
  /\ tally \in [SubDirs -> Totals]
  /\ total \in [SubDirs -> Totals]
  /\ flag \in [Dirs -> {" ", "e", "!", "."}]
  /\ holders \subseteq SubDirs /\ Cardinality(holders) <= Slots
  /\ files \subseteq Files
  /\ reported \in [DOMAIN reported -> [total : Totals, flag : {" ", "."}]]
  /\ summary \in Nat
  /\ early \in BOOLEAN
  /\ WaitTypeOK

\* Reference: the entry of the first level that each entry lies under.
TopOf[e \in Entries] == IF Parent[e] = Root THEN e ELSE TopOf[Parent[e]]

\* Reference: an entry is walked unless it or a directory above it is skipped.
Walked[e \in Entries] ==
  e \notin Skip /\ (Parent[e] = Root \/ Walked[Parent[e]])

Below(t) == {e \in Entries \ {t} : TopOf[e] = t /\ Walked[e]}

\* What the directories below the first level hold, each inode once.
TrueSize ==
  LET below == UNION {Below(t) : t \in tops}
      plain == {f \in below \cap Files : Inode[f] = NoInode}
      inodes == {Inode[f] : f \in (below \cap Files) \ plain}
      empty == {d \in tops \cup (below \cap Dirs) : Children(d) = {}}
  IN SumOver(Bytes, plain)
     + SumOver([i \in inodes |-> Bytes[CHOOSE f \in Files : Inode[f] = i]], inodes)
     + EmptyDirSize * Cardinality(empty)

SumSize == SumOver([t \in tops |-> total[t].size], tops)

\* Nothing of the scan is left to run.
Quiet ==
  /\ main \in {"reading", "returned", "summarised"}
  /\ \A d \in SubDirs : frame[d] \in {"idle", "finished"}

\* wait.go: "Wait blocks until value is 0".  The mutex it blocks on is opened
\* by every Done that reaches 0, also by one that another Add follows, so Wait
\* may return at once while goroutines are still counted.
WaitBlocksUntilZero == [][main = "locking" /\ main' = "reading" => waitValue = 0]_vars

\* Every item below a first-level directory is counted once, by whichever
\* goroutine or recursive call meets it, unless that directory is flagged.
ItemsCountedOnce ==
  Quiet => \A t \in tops :
    flag[t] = " " => total[t].count = Cardinality(Below(t))

\* Every inode is counted once, whichever of the goroutines that meet its
\* links comes first.
InodesCountedOnce ==
  Quiet /\ (\A t \in tops : flag[t] = " ") => SumSize = TrueSize

\* The variables keep their types, the wait group's value is positive while a goroutine with a slot, or one
\* that has yet to report its end, exists; at the end no slot is left taken.
GoroutinesAreCounted ==
  /\ TypeOK
  /\ waitValue = Cardinality(
       {d \in holders : frame[d] # "claimed"} \cup
       {d \in SubDirs : frame[d] = "notifying"})
  /\ Quiet => holders = {}

\* If Wait did not return early, the report is final: totals, flags and the
\* summary are those of the completed walk.  A root that lists nothing, or
\* nothing that is not skipped, is reported as an empty directory.
ReportIsFinal ==
  /\ main \in {"returned", "summarised"} /\ ~early =>
       \A t \in tops : reported[t] = [total |-> total[t], flag |-> flag[t]]
  /\ main = "summarised" /\ ~early /\ flag[Root] = " " =>
       summary = IF files = {} /\ tops = {} THEN EmptyDirSize
                 ELSE TrueSize + SumOver(Bytes, files)

\* The scan ends however few slots there are: a directory that finds none is
\* walked in place.
ScanReturns == main = "listing" ~> main = "summarised"
=============================================================================
