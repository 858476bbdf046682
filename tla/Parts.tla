------------------------------- MODULE Parts -------------------------------
(***************************************************************************)
(* The parts of the program that share no state with each other: the scan    *)
(* session of the terminal interface (extended here), the parallel, the      *)
(* stable-order and the sequential scan, the preview of a scan, the trash,   *)
(* the start of the program, its output without an interface, the totals of  *)
(* a tree and its reports, and what the filters let through.  A behaviour is *)
(* one of them; the others stay in their initial state, or their variables   *)
(* are 0.                                                                    *)
(***************************************************************************)
EXTENDS TuiSession, HardLinks, SequencesExt

CONSTANTS
  Slots, ParallelSkip,       \* ParallelScan, and StableScan
  StableSkip, Place,         \* StableScan
  Name, Rules,               \* SequentialScan
  PreviewSkip,               \* TreeSnapshot
  Items, ItemParts, LastName, Tries,   \* Trash
  ArgLists, Mounts,          \* Startup
  MaxPaths,                  \* Stdout
  MaxChanges,                \* DirStats
  Day, Width, Unit,          \* TimeFilter
  TimeInputs, Now, ModTimes, \* ... the flags, now and the times of the files
  GitInputs, GitPaths        \* Gitignore: the lines and the paths

VARIABLES
  which,   \* the part this behaviour is of
  \* ParallelScan
  main, worker, proc, todo, owed, files, flag, holders, cancelScan, progress,
  update, late, waitValue, waitLocked,
  \* StableScan
  caller, goroutine, collector, unlooked, indexed, channel, received, added,
  unread, stopped, stableValue, stableLocked,
  \* SequentialScan
  walker, frames, found, troubled, halted,
  \* Preview
  phase, linked, broken, previewCancelled, copying, due, copied, marked, before,
  \* Trash
  otherDevice, source, trashed, info, tree, mover, others, taken, unseen, unremoved,
  ended,
  \* Startup
  options, args, exists, at, result, paths, ui, analyzer, ignored, dbFile,
  outFile, scanned,
  \* Stdout
  asked, printer, rootNr, gathered, job, refused, summed, doneRoots, signal, meter,
  watched, screen,
  \* DirStats and Report
  filtering, order, total, flags, counted, truncated, changes, updated, missed,
  \* Gitignore and TimeFilter
  input

parallelVars == <<main, worker, proc, todo, owed, files, flag, holders, cancelScan,
                  progress, update, late, waitValue, waitLocked>>
stableVars == <<caller, goroutine, collector, unlooked, indexed, channel, received,
                added, unread, stopped, stableValue, stableLocked>>
sequentialVars == <<walker, frames, found, troubled, halted>>
previewVars == <<phase, linked, broken, previewCancelled, copying, due, copied, marked, before>>
trashVars == <<otherDevice, source, trashed, info, tree, mover, others, taken, unseen,
               unremoved, ended>>
startVars == <<options, args, exists, at, result, paths, ui, analyzer, ignored,
               dbFile, outFile, scanned>>
statVars == <<filtering, order, total, flags, counted, truncated, changes, updated, missed>>
printVars == <<asked, printer, rootNr, gathered, job, refused, summed, doneRoots, signal,
               meter, watched, screen>>
allVars == <<which, vars, parallelVars, stableVars, sequentialVars, previewVars, trashVars,
             startVars, printVars, statVars, input>>

-----------------------------------------------------------------------------
Parallel == INSTANCE ParallelScan WITH
  Skip <- ParallelSkip, cancelled <- cancelScan
Stable == INSTANCE StableScan WITH
  Skip <- StableSkip, left <- unlooked, waitValue <- stableValue, waitLocked <- stableLocked
Sequential == INSTANCE SequentialScan
Snapshot == INSTANCE TreeSnapshot WITH Skip <- PreviewSkip, cancelled <- previewCancelled
Trash == INSTANCE Trash WITH Parts <- ItemParts, files <- trashed
Startup == INSTANCE Startup WITH flags <- options
Printing == INSTANCE Stdout WITH
  main <- printer, root <- rootNr, roots <- gathered, done <- doneRoots, updated <- summed
Stats == INSTANCE Report
Filter == INSTANCE TimeFilter
Git == INSTANCE Gitignore

ASSUME PartsAssumption ==
  /\ Stable!PlacesDiffer
  /\ Trash!Other \notin Items /\ ItemParts # {} /\ LastName \in Nat \ {0} /\ Tries \in Nat
  /\ MaxPaths \in Nat /\ Slots \in Nat \ {0}

-----------------------------------------------------------------------------
NoStartup ==
  /\ options = 0 /\ args = 0 /\ exists = 0 /\ at = 0 /\ result = 0 /\ paths = 0 /\ ui = 0
  /\ analyzer = 0 /\ ignored = 0 /\ dbFile = 0 /\ outFile = 0 /\ scanned = 0
NoStats ==
  /\ filtering = 0 /\ order = 0 /\ total = 0 /\ flags = 0 /\ counted = 0 /\ truncated = 0
  /\ changes = 0 /\ updated = 0 /\ missed = 0

NoPrinting ==
  /\ asked = 0 /\ printer = 0 /\ rootNr = 0 /\ gathered = 0 /\ job = 0 /\ refused = 0 /\ summed = 0
  /\ doneRoots = 0 /\ signal = 0 /\ meter = 0 /\ watched = 0 /\ screen = 0

PartsInit ==
  /\ Init /\ Parallel!Init /\ Stable!Init /\ Sequential!Init /\ Snapshot!PreviewInit /\ Trash!Init
  /\ \/ which \in {"session", "parallel", "stable", "sequential", "preview"} /\ ~otherDevice
        /\ NoStartup /\ NoPrinting /\ NoStats /\ input = 0
     \/ which = "trash" /\ NoStartup /\ NoPrinting /\ NoStats /\ input = 0
     \/ which = "startup" /\ Startup!Init /\ ~otherDevice /\ NoPrinting /\ NoStats /\ input = 0
     \/ which = "printing" /\ Printing!Init /\ ~otherDevice /\ NoStartup /\ NoStats /\ input = 0
     \/ which = "stats" /\ Stats!Init /\ ~otherDevice /\ NoStartup /\ NoPrinting /\ input = 0
     \/ which = "gitignore" /\ input \in GitInputs /\ ~otherDevice /\ NoStartup /\ NoPrinting /\ NoStats
     \/ which = "times" /\ input \in TimeInputs /\ ~otherDevice /\ NoStartup /\ NoPrinting /\ NoStats

OnlySession ==
  UNCHANGED <<which, parallelVars, stableVars, sequentialVars, previewVars, trashVars, startVars, printVars, statVars, input>>
OnlyParallel ==
  UNCHANGED <<which, vars, stableVars, sequentialVars, previewVars, trashVars, startVars, printVars, statVars, input>>
OnlyStable ==
  UNCHANGED <<which, vars, parallelVars, sequentialVars, previewVars, trashVars, startVars, printVars, statVars, input>>
OnlySequential ==
  UNCHANGED <<which, vars, parallelVars, stableVars, previewVars, trashVars, startVars, printVars, statVars, input>>
OnlyPreview ==
  UNCHANGED <<which, vars, parallelVars, stableVars, sequentialVars, trashVars, startVars, printVars, statVars, input>>
OnlyTrash ==
  UNCHANGED <<which, vars, parallelVars, stableVars, sequentialVars, previewVars, startVars, printVars, statVars, input>>
OnlyStartup ==
  UNCHANGED <<which, vars, parallelVars, stableVars, sequentialVars, previewVars, trashVars, printVars, statVars, input>>
OnlyPrinting ==
  UNCHANGED <<which, vars, parallelVars, stableVars, sequentialVars, previewVars, trashVars, startVars, statVars, input>>
OnlyStats ==
  UNCHANGED <<which, vars, parallelVars, stableVars, sequentialVars, previewVars, trashVars, startVars, printVars, input>>

\* The session runs, and the interface thread has the time for its keys.
Session == which = "session" /\ Running
Idle == Session /\ ~storing

\* The actions of all parts, one disjunct each.
PartsNext ==
  \/ Session /\ Reset /\ OnlySession
  \/ Session /\ AskCancelled /\ OnlySession
  \/ Session /\ OpenDir /\ OnlySession
  \/ Session /\ Publish /\ OnlySession
  \/ Session /\ EndRoot /\ OnlySession
  \/ Session /\ CheckRequested /\ OnlySession
  \/ Session /\ StoreRequest /\ OnlySession
  \/ Session /\ Tick /\ OnlySession
  \/ Idle /\ \E n \in 1..Roots : AnalyzePaths(n) /\ OnlySession
  \/ Idle /\ Post /\ OnlySession
  \/ Idle /\ Esc /\ OnlySession
  \/ Idle /\ CtrlC /\ OnlySession
  \/ Idle /\ Interrupt /\ OnlySession
  \/ Idle /\ EnterPreview /\ OnlySession
  \/ Idle /\ ExitPreview /\ OnlySession
  \/ Idle /\ AskToQuit /\ OnlySession
  \/ Idle /\ Answer /\ OnlySession
  \/ which = "parallel" /\ Parallel!Start /\ OnlyParallel
  \/ which = "parallel" /\ Parallel!AnalyzeDir /\ OnlyParallel
  \/ which = "parallel" /\ Parallel!ResetProgress /\ OnlyParallel
  \/ which = "parallel" /\ Parallel!Tick /\ OnlyParallel
  \/ which = "parallel" /\ Parallel!User /\ OnlyParallel
  \/ which = "parallel" /\ \E d \in Dirs : Parallel!Worker(d) /\ OnlyParallel
  \/ which = "parallel" /\ \E d \in Dirs : Parallel!Collector(d) /\ OnlyParallel
  \/ which = "stable" /\ Stable!Start /\ OnlyStable
  \/ which = "stable" /\ Stable!Cancel /\ OnlyStable
  \/ which = "stable" /\ Stable!WaitRead /\ OnlyStable
  \/ which = "stable" /\ Stable!WaitLock /\ OnlyStable
  \/ which = "stable" /\ \E d \in Dirs : Stable!Acquire(d) /\ OnlyStable
  \/ which = "stable" /\ \E d \in Dirs : Stable!SendNil(d) /\ OnlyStable
  \/ which = "stable" /\ \E d \in Dirs : Stable!ReadDir(d) /\ OnlyStable
  \/ which = "stable" /\ \E d \in Dirs : Stable!EndLoop(d) /\ OnlyStable
  \/ which = "stable" /\ \E d \in Dirs : Stable!SendDir(d) /\ OnlyStable
  \/ which = "stable" /\ \E d \in Dirs, e \in Entries : Stable!Skipped(d, e) /\ OnlyStable
  \/ which = "stable" /\ \E d \in Dirs, e \in Entries : Stable!FileFails(d, e) /\ OnlyStable
  \/ which = "stable" /\ \E d \in Dirs, e \in Entries : Stable!SendFile(d, e) /\ OnlyStable
  \/ which = "stable" /\ \E d \in Dirs, e \in Entries : Stable!SpawnDir(d, e) /\ OnlyStable
  \/ which = "stable" /\ \E d \in Dirs, e \in Entries : Stable!Receive(d, e) /\ OnlyStable
  \/ which = "stable" /\ \E d \in Dirs : Stable!AllReceived(d) /\ OnlyStable
  \/ which = "stable" /\ \E d \in Dirs : Stable!Add(d) /\ OnlyStable
  \/ which = "stable" /\ \E d \in Dirs : Stable!Done(d) /\ OnlyStable
  \/ which = "sequential" /\ Sequential!Start /\ OnlySequential
  \/ which = "sequential" /\ Sequential!EnterRoot /\ OnlySequential
  \/ which = "sequential" /\ Sequential!Cancel /\ OnlySequential
  \/ which = "sequential" /\ Sequential!Return /\ OnlySequential
  \/ which = "sequential" /\ \E e \in Entries : Sequential!SkipEntry(e) /\ OnlySequential
  \/ which = "sequential" /\ \E e \in Entries : Sequential!FileFails(e) /\ OnlySequential
  \/ which = "sequential" /\ \E e \in Entries : Sequential!AddFile(e) /\ OnlySequential
  \/ which = "sequential" /\ \E e \in Entries : Sequential!Descend(e) /\ OnlySequential
  \/ which = "preview" /\ Snapshot!Scan /\ OnlyPreview
  \/ which = "preview" /\ Snapshot!GetCurrentDir /\ OnlyPreview
  \/ which = "preview" /\ Snapshot!EnterPreview /\ OnlyPreview
  \/ which = "preview" /\ \E d \in Dirs : Snapshot!SnapshotDir(d) /\ OnlyPreview
  \/ which = "trash" /\ \E i \in Items : Trash!Begin(i) /\ OnlyTrash
  \/ which = "trash" /\ \E i \in Items : Trash!Command(i) /\ OnlyTrash
  \/ which = "trash" /\ \E i \in Items : Trash!Look(i) /\ OnlyTrash
  \/ which = "trash" /\ \E i \in Items : Trash!Reserve(i) /\ OnlyTrash
  \/ which = "trash" /\ \E i \in Items : Trash!ReserveFails(i) /\ OnlyTrash
  \/ which = "trash" /\ \E i \in Items : Trash!Check(i) /\ OnlyTrash
  \/ which = "trash" /\ \E i \in Items : Trash!CheckFails(i) /\ OnlyTrash
  \/ which = "trash" /\ \E i \in Items : Trash!Rename(i) /\ OnlyTrash
  \/ which = "trash" /\ \E i \in Items : Trash!RenameFails(i) /\ OnlyTrash
  \/ which = "trash" /\ \E i \in Items : Trash!OpenCopy(i) /\ OnlyTrash
  \/ which = "trash" /\ \E i \in Items : Trash!CopyPart(i) /\ OnlyTrash
  \/ which = "trash" /\ \E i \in Items : Trash!CopyFails(i) /\ OnlyTrash
  \/ which = "trash" /\ \E i \in Items : Trash!RemoveSource(i) /\ OnlyTrash
  \/ which = "trash" /\ \E i \in Items : Trash!RemoveSourceFails(i) /\ OnlyTrash
  \/ which = "trash" /\ \E i \in Items : Trash!UpdateTree(i) /\ OnlyTrash
  \/ which = "trash" /\ \E n \in Trash!Names : Trash!OtherReserves(n) /\ OnlyTrash
  \/ which = "trash" /\ \E n \in Trash!Names : Trash!OtherPuts(n) /\ OnlyTrash
  \/ which = "trash" /\ Trash!Stop /\ OnlyTrash
  \/ which = "startup" /\ Startup!Check /\ OnlyStartup
  \/ which = "startup" /\ Startup!ResolvePaths /\ OnlyStartup
  \/ which = "startup" /\ Startup!CreateUI /\ OnlyStartup
  \/ which = "startup" /\ Startup!Database /\ OnlyStartup
  \/ which = "startup" /\ Startup!Analyzer /\ OnlyStartup
  \/ which = "startup" /\ Startup!Filters /\ OnlyStartup
  \/ which = "startup" /\ Startup!RunAction /\ OnlyStartup
  \/ which = "startup" /\ Startup!StartUILoop /\ OnlyStartup
  \/ which = "printing" /\ Printing!PrintFile /\ OnlyPrinting
  \/ which = "printing" /\ Printing!StartRoot /\ OnlyPrinting
  \/ which = "printing" /\ Printing!Analyzed /\ OnlyPrinting
  \/ which = "printing" /\ Printing!ReportRead /\ OnlyPrinting
  \/ which = "printing" /\ Printing!UpdateStats /\ OnlyPrinting
  \/ which = "printing" /\ Printing!Send /\ OnlyPrinting
  \/ which = "printing" /\ Printing!Meet /\ OnlyPrinting
  \/ which = "printing" /\ Printing!Wait /\ OnlyPrinting
  \/ which = "printing" /\ Printing!PrintResult /\ OnlyPrinting
  \/ which = "printing" /\ Printing!GetDone /\ OnlyPrinting
  \/ which = "printing" /\ Printing!SeeDone /\ OnlyPrinting
  \/ which = "printing" /\ Printing!SeeStats /\ OnlyPrinting
  \/ which = "printing" /\ Printing!Turn /\ OnlyPrinting
  \/ which = "stats" /\ \E e \in Entries : Stats!RemoveFile(e) /\ OnlyStats
  \/ which = "stats" /\ \E e \in Entries : Stats!Empty(e) /\ OnlyStats
  \/ which = "stats" /\ \E d \in Dirs : Stats!Rescan(d) /\ OnlyStats

\* The fairness of each part.
PartsSpec ==
  /\ PartsInit /\ [][PartsNext]_allVars
  /\ WF_allVars(Session /\ Goroutine /\ OnlySession)
  /\ WF_allVars(Idle /\ Post /\ OnlySession)
  /\ WF_allVars(Session /\ StoreRequest /\ OnlySession)
  /\ WF_allVars(which = "parallel" /\ Parallel!AnalyzeDir /\ OnlyParallel)
  /\ WF_allVars(which = "stable" /\ Stable!AnalyzeDir /\ OnlyStable)
  /\ \A d \in Dirs :
       /\ WF_allVars(which = "parallel" /\ Parallel!Worker(d) /\ OnlyParallel)
       /\ WF_allVars(which = "parallel" /\ Parallel!Collector(d) /\ OnlyParallel)
       /\ WF_allVars(which = "stable" /\ Stable!Goroutine(d) /\ OnlyStable)
       /\ WF_allVars(which = "stable" /\ Stable!Collector(d) /\ OnlyStable)
  /\ \A i \in Items : WF_allVars(which = "trash" /\ Trash!Move(i) /\ OnlyTrash)
  /\ WF_allVars(which = "printing" /\ Printing!Command /\ OnlyPrinting)
  /\ WF_allVars(which = "printing" /\ (Printing!Job \/ Printing!Meet) /\ OnlyPrinting)
  /\ WF_allVars(which = "printing" /\ Printing!Meter /\ OnlyPrinting)

-----------------------------------------------------------------------------
(* Properties; UnstoppedIsComplete and SingleStopIsPrompt of TuiSession are   *)
(* checked here as well.                                                     *)

\* A session keeps its variables' types, its previews to its scan and its keys
\* off a tree that is being built, and stops after the root it is at; a preview
\* is a tree between the one before and the one after it was copied.  Without
\* an interface, the output is that of all roots, and nobody writes over it.
SessionIsSound ==
  /\ TypeOK
  /\ BrowsingIsBlocked
  /\ PreviewIsTemporary
  /\ StopsAfterThisRoot
  /\ Snapshot!PreviewIsBetween
  /\ which = "printing" => Printing!OutputIsWhole

\* The stable-order and the sequential scan promise what the parallel one does.
\* (KeepsContract of both, evaluated where they are.)
ContractsAreKept ==
  /\ Stable!Contract!Init /\ Sequential!Contract!Init
  /\ [][which = "stable" => [Stable!Contract!Next]_(Stable!Contract!contractVars)]_stableVars
  /\ [][which = "sequential" => [Sequential!Contract!Next]_(Sequential!Contract!contractVars)]_sequentialVars

\* The stable-order scan lists what it found in the order of the directory.
OrderIsKept == Stable!OrderIsKept

\* After a cancel no more directories are opened than there are slots, here one.
CancelIsPrompt == Parallel!CancelIsPrompt

\* Scans and sessions end whoever is cancelled, with a single slot; a move to
\* the trash ends whoever interferes.  (ScanEnds, ScanReturns and MovesEnd of
\* the parts: one formula, since no two parts run in one behaviour.)
Begun ==
  \/ which = "session" /\ scanning
  \/ which = "parallel" /\ main # "idle"
  \/ which = "stable" /\ caller = "scanning"
  \/ which = "trash" /\ \E i \in Items : Trash!At(i, "looking")
  \/ which = "printing"
Over ==
  \/ which = "session" /\ (app = "quit" \/ (~scanning /\ currentDir = scans))
  \/ which = "parallel" /\ main = "returned"
  \/ which = "stable" /\ caller = "returned"
  \/ which = "trash" /\ \A i \in Items : mover[i].stage \in {"done", "failed", "idle", "commanded"}
  \/ which = "printing" /\ printer \in {"printed", "failed"}
AllEnd == Begun ~> Over

\* Moving to the trash loses nothing, and the tree in memory follows, but for
\* what could not be rolled back and what lstat could not see.
TrashKeepsItems ==
  /\ Trash!TypeOK
  /\ Trash!NothingLost
  /\ Trash!MovedCanBeRestored
  /\ Trash!NoOrphanInfo
  /\ Trash!TreeFollowsMoves
  /\ Trash!OthersAreKept

\* From the command line to the scan: each root once, with the options given.
StartIsRight ==
  which = "startup" =>
    /\ Startup!TypeOK
    /\ Startup!RootsAreDisjoint
    /\ Startup!FilesHaveOneRoot
    /\ Startup!RejectedStartIsFree
    /\ Startup!AnalyzerIsTold
    /\ Startup!AllOrNothing
    /\ Startup!MountsAreNotCrossed

\* The totals of a tree, whatever the order it was found in, is removed from
\* it or is scanned again.
TotalsAreExact ==
  which = "stats" =>
    /\ Stats!TypeOK
    /\ Stats!CountsAreExact
    /\ Stats!ErrorsAreFlagged
    /\ Stats!SumsHold

\* What a report says is what was scanned, and what reading it back shows.
ReportsAreTrue ==
  which = "stats" =>
    /\ Stats!ReportsRoundTrip
    /\ Stats!TopIsLargest

\* A file is left out exactly if git would ignore it, as long as the patterns
\* that take something back name files; and exactly if the time flags say so,
\* as long as the program can hold the durations.
FiltersAreMeant ==
  /\ which = "gitignore" =>
       \A path \in GitPaths : Git!WalkIgnores(input, path, FALSE) = Git!GitIgnores(input, path, FALSE)
  /\ which = "times" /\ (\A i \in DOMAIN input.maxAge : Filter!Holdable(input.maxAge[i]))
                     /\ (\A i \in DOMAIN input.minAge : Filter!Holdable(input.minAge[i])) =>
       \A mtime \in ModTimes :
         Filter!IncludeByTimeFilter(Filter!NewTimeFilter(input.since, input.until, input.maxAge, input.minAge, Now), mtime)
           = Filter!Wanted(input.since, input.until, input.maxAge, input.minAge, Now, mtime)
=============================================================================
