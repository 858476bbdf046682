----------------------------- MODULE Databases -----------------------------
(***************************************************************************)
(* The two analyzers that keep the tree in a database, and browsing and      *)
(* deleting in the trees they leave.  The four share no state, so a          *)
(* behaviour is one of them: the variables of the others are parked.         *)
(***************************************************************************)
EXTENDS HardLinks, Sequences

CONSTANTS
  Slots,                       \* of both scans
  SqliteSkip, MaxCalls,        \* SqliteScan
  Workers, MaxItems, SqliteRequests,   \* SqliteTree
  StoredSkip, ReopenAt, MaxScans,      \* StoredScan
  StoredRequests               \* StoredTree

VARIABLES
  which,   \* the component this behaviour is of
  \* SqliteScan
  main, calls, asked, given, bulk, committed, table, worker, todo, looked, owed, total,
  flag, cancelled, partial, failed, torn, waitValue, waitLocked,
  \* SqliteTree
  inBackground, disk, rows, items, current, shown, requests, job, emptied, stale,
  \* StoredScan and StoredTree
  scans, listing, records, loaded, expanded, updated, opens, db, ops, overslept,
  whole, ghosts

\* Of the names more than one component uses, each has its own meaning of them.
scanningVars == <<main, worker, cancelled, waitValue, waitLocked>>
browsingVars == <<disk, current, shown, requests, emptied>>
sqliteScanVars == <<calls, asked, given, bulk, committed, table, todo, looked, owed,
                    total, flag, partial, torn>>
sqliteTreeVars == <<inBackground, rows, items, job, stale>>
storedScanVars == <<scans, listing, loaded, expanded, updated, opens, db, ops,
                    overslept, whole>>
allVars == <<which, scanningVars, browsingVars, sqliteScanVars, sqliteTreeVars,
             storedScanVars, records, ghosts, failed>>

SqliteScan == INSTANCE SqliteScan WITH Skip <- SqliteSkip
SqliteTree == INSTANCE SqliteTree WITH MaxRequests <- SqliteRequests
StoredScan == INSTANCE StoredScan WITH Skip <- StoredSkip
StoredTree == INSTANCE StoredTree WITH MaxRequests <- StoredRequests

ASSUME DatabasesAssumption ==
  /\ SqliteSkip \subseteq Entries /\ StoredSkip \subseteq Entries
  /\ {SqliteRequests, StoredRequests, MaxCalls, MaxScans} \subseteq Nat
  /\ ReopenAt \in Nat \ {0}

\* The variables of a component that is not the one of the behaviour.
NoScanning ==
  /\ main = "none" /\ worker = 0 /\ cancelled = 0 /\ waitValue = 0 /\ waitLocked = 0
NoBrowsing ==
  /\ disk = 0 /\ current = 0 /\ shown = 0 /\ requests = 0 /\ emptied = 0
NoSqliteScan ==
  /\ calls = 0 /\ asked = 0 /\ given = 0 /\ bulk = 0 /\ committed = 0 /\ table = 0 /\ todo = 0
  /\ looked = 0 /\ owed = 0 /\ total = 0 /\ flag = 0 /\ partial = 0 /\ torn = 0
NoSqliteTree ==
  /\ inBackground = 0 /\ rows = 0 /\ items = 0 /\ job = 0 /\ stale = 0
NoStoredScan ==
  /\ scans = 0 /\ listing = 0 /\ loaded = 0 /\ expanded = 0 /\ updated = 0 /\ opens = 0
  /\ db = 0 /\ ops = 0 /\ overslept = 0 /\ whole = 0

DatabasesInit ==
  \/ /\ which = "sqlite scan" /\ SqliteScan!Init
     /\ NoBrowsing /\ NoSqliteTree /\ NoStoredScan
     /\ records = 0 /\ ghosts = 0
  \/ /\ which = "sqlite tree" /\ SqliteTree!Init
     /\ NoScanning /\ NoSqliteScan /\ NoStoredScan
     /\ records = 0 /\ ghosts = 0
  \/ /\ which = "stored scan" /\ StoredScan!Init
     /\ NoBrowsing /\ NoSqliteScan /\ NoSqliteTree
     /\ ghosts = 0
  \/ /\ which = "stored tree" /\ StoredTree!Init
     /\ NoScanning /\ NoSqliteScan /\ NoSqliteTree
     /\ NoStoredScan

OfSqliteScan ==
  which = "sqlite scan" /\ UNCHANGED <<which, browsingVars, sqliteTreeVars, storedScanVars, records, ghosts>>
OfSqliteTree ==
  which = "sqlite tree" /\ UNCHANGED <<which, scanningVars, sqliteScanVars, storedScanVars, records, ghosts>>
OfStoredScan ==
  which = "stored scan" /\ UNCHANGED <<which, browsingVars, sqliteScanVars, sqliteTreeVars, ghosts>>
OfStoredTree ==
  which = "stored tree" /\ UNCHANGED <<which, scanningVars, sqliteScanVars, sqliteTreeVars, storedScanVars>>

\* The actions of all four, one disjunct each.
DatabasesNext ==
  \/ OfSqliteScan /\ SqliteScan!Wait
  \/ OfSqliteScan /\ SqliteScan!Commit
  \/ OfSqliteScan /\ SqliteScan!CommitFails
  \/ OfSqliteScan /\ SqliteScan!Stop
  \/ OfSqliteScan /\ SqliteScan!RemoveDb
  \/ OfSqliteScan /\ SqliteScan!Cancel
  \/ OfSqliteScan /\ \E d \in Dirs : SqliteScan!Load(d)
  \/ OfSqliteScan /\ \E d \in Dirs : SqliteScan!BeginScan(d)
  \/ OfSqliteScan /\ \E d \in Dirs : SqliteScan!Enter(d)
  \/ OfSqliteScan /\ \E d \in Dirs : SqliteScan!Acquire(d)
  \/ OfSqliteScan /\ \E d \in Dirs : SqliteScan!Refuse(d)
  \/ OfSqliteScan /\ \E d \in Dirs : SqliteScan!OpenDir(d)
  \/ OfSqliteScan /\ \E d \in Dirs : SqliteScan!OpenDirFails(d)
  \/ OfSqliteScan /\ \E d \in Dirs : SqliteScan!Insert(d)
  \/ OfSqliteScan /\ \E d \in Dirs : SqliteScan!InsertFails(d)
  \/ OfSqliteScan /\ \E d \in Dirs : SqliteScan!EndLoop(d)
  \/ OfSqliteScan /\ \E d \in Dirs : SqliteScan!Finalize(d)
  \/ OfSqliteScan /\ \E d \in Dirs : SqliteScan!FinalizeFails(d)
  \/ OfSqliteScan /\ \E d \in Dirs, e \in Entries : SqliteScan!SkipEntry(d, e)
  \/ OfSqliteScan /\ \E d \in Dirs, e \in Entries : SqliteScan!Spawn(d, e)
  \/ OfSqliteScan /\ \E d \in Dirs, e \in Entries : SqliteScan!LookUp(d, e)
  \/ OfSqliteScan /\ \E d \in Dirs, e \in Entries : SqliteScan!FileFails(d, e)
  \/ OfSqliteScan /\ \E p \in Dirs, c \in Dirs \ {Root} : SqliteScan!Receive(p, c)
  \/ OfSqliteTree /\ \E i \in 1..Len(items) : SqliteTree!Browse(i)
  \/ OfSqliteTree /\ \E w \in Workers, i \in 1..Len(items) : SqliteTree!Request(w, i)
  \/ OfSqliteTree /\ \E w \in Workers : SqliteTree!Begin(w)
  \/ OfSqliteTree /\ \E w \in Workers : SqliteTree!RemoveFromDisk(w)
  \/ OfSqliteTree /\ \E w \in Workers : SqliteTree!Truncate(w)
  \/ OfSqliteTree /\ \E w \in Workers : SqliteTree!RemoveFails(w)
  \/ OfSqliteTree /\ \E w \in Workers : SqliteTree!SubtractLoaded(w)
  \/ OfSqliteTree /\ \E w \in Workers : SqliteTree!Write(w)
  \/ OfSqliteTree /\ \E w \in Workers : SqliteTree!WriteFails(w)
  \/ OfSqliteTree /\ \E w \in Workers : SqliteTree!Finish(w)
  \/ OfStoredScan /\ StoredScan!Start
  \/ OfStoredScan /\ StoredScan!WaitRead
  \/ OfStoredScan /\ StoredScan!WaitLock
  \/ OfStoredScan /\ StoredScan!Close
  \/ OfStoredScan /\ StoredScan!Stop
  \/ OfStoredScan /\ StoredScan!RemoveDb
  \/ OfStoredScan /\ StoredScan!Cancel
  \/ OfStoredScan /\ StoredScan!BeginUpdate
  \/ OfStoredScan /\ \E d \in Dirs : StoredScan!Acquire(d)
  \/ OfStoredScan /\ \E d \in Dirs : StoredScan!ReadDir(d)
  \/ OfStoredScan /\ \E d \in Dirs : StoredScan!Store(d)
  \/ OfStoredScan /\ \E d \in Dirs : StoredScan!StoreFails(d)
  \/ OfStoredScan /\ \E d \in Dirs : StoredScan!StorePanics(d)
  \/ OfStoredScan /\ \E d \in Dirs : StoredScan!Leave(d)
  \/ OfStoredScan /\ \E d \in Dirs : StoredScan!Expand(d)
  \/ OfStoredScan /\ \E d \in Dirs : StoredScan!Commit(d)
  \/ OfStoredScan /\ \E d \in Dirs : StoredScan!CommitFails(d)
  \/ OfStoredTree /\ \E d \in Dirs : StoredTree!Browse(d)
  \/ OfStoredTree /\ \E e \in Entries : StoredTree!Remove(e)
  \/ OfStoredTree /\ \E e \in Entries : StoredTree!RemoveFails(e)
  \/ OfStoredTree /\ \E e \in Entries : StoredTree!Empty(e)

\* The fairness of SqliteScan and of StoredScan.
DatabasesSpec ==
  /\ DatabasesInit /\ [][DatabasesNext]_allVars
  /\ WF_allVars(OfSqliteScan /\ SqliteScan!AnalyzeDir)
  /\ WF_allVars(OfStoredScan /\ StoredScan!AnalyzeDir)
  /\ WF_allVars(OfStoredScan /\ StoredScan!UpdateStats)
  /\ \A d \in Dirs : WF_allVars(OfSqliteScan /\ SqliteScan!Worker(d))
  /\ \A d \in Dirs : WF_allVars(OfStoredScan /\ StoredScan!Worker(d))

-----------------------------------------------------------------------------
(* Properties *)

\* What is in a database is a tree, and the tree of one scan, whatever statement
\* fails and whatever is removed, and when the process ends, unless it leaves
\* part of a transaction, or rows inserted without one, in the file.
TreesAreWhole ==
  /\ which = "sqlite scan" => SqliteScan!TypeOK /\ SqliteScan!RowsAreATree
  /\ which = "sqlite tree" => SqliteTree!TypeOK /\ SqliteTree!RowsAreATree
  /\ which = "stored scan" => StoredScan!TypeOK /\ StoredScan!RecordsAreThisScans
  /\ which = "stored tree" => StoredTree!TypeOK

\* The totals of a directory are those of what is stored below it, and its flag
\* tells of an error below it, after a scan, complete or cancelled, and after
\* removals; not in what a process that ended in a scan left in the file.
TotalsAreSums ==
  /\ which = "sqlite scan" => SqliteScan!RowsAreSums /\ SqliteScan!ErrorsReachTheRoot
  /\ which = "sqlite tree" => SqliteTree!RowsAreSums
  /\ which = "stored scan" => StoredScan!TotalsAreInTheStore
  /\ which = "stored tree" => StoredTree!RecordsAreSums

\* What exists is listed, whichever half of a removal failed.
NothingHidden ==
  /\ which = "sqlite tree" => SqliteTree!NothingHidden
  /\ which = "stored tree" => StoredTree!NothingHidden

\* After a removal the screen and the database agree.
ScreensAgree ==
  /\ which = "sqlite tree" => SqliteTree!ScreenMatchesRows
  /\ which = "stored tree" => StoredTree!ScreenMatchesStore

\* What is loaded from SQLite instead of scanned is a whole scan, unless the
\* user had stopped it or a statement failed, or it is what a process that ended
\* in a scan left in the file.
LoadsWholeScans == which = "sqlite scan" => SqliteScan!LoadsWholeScans

\* The badger store is open exactly while someone holds a reference to it.
ReferencesAreBalanced == which = "stored scan" => StoredScan!ReferencesAreBalanced

\* A scan into a database returns, with fewer slots than directories.
ScansReturn ==
  /\ which = "sqlite scan" /\ main = "scanning" ~> main \in {"returned", "down"}
  /\ which = "stored scan" /\ main = "scanning" ~> main \in {"returned", "panicked", "idle"}
=============================================================================
