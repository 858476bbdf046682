----------------------------- MODULE SqliteScan -----------------------------
(***************************************************************************)
(* SqliteAnalyzer and the part of SqliteStorage a scan uses                  *)
(* (pkg/analyze/sqlite.go).  One goroutine per directory takes a slot, reads *)
(* the directory, inserts its row and those of its files, gives the slot     *)
(* back, waits for its sub-directories and writes its totals into its row.   *)
(* All of it happens in one transaction, committed when the scan is over, or *)
(* outside any when none could be begun; a database that has a root row is   *)
(* loaded instead of scanning.                                               *)
(*                                                                           *)
(* The rollback journal is kept in memory and nothing is synced, so a        *)
(* process that ends with a transaction open may leave any part of its pages *)
(* in the file.  Of such a file the model keeps which rows there are, and    *)
(* that it is torn; a machine that crashes later, and a file so torn that    *)
(* SQLite refuses it, are left out, and so is a ClearItems that fails.       *)
(*                                                                           *)
(* Of the statistics only the size is kept.  File filters that are on change *)
(* the rule for empty directories and are left to DirStats; archives are     *)
(* left out.                                                                 *)
(***************************************************************************)
EXTENDS HardLinks, WaitGroup

CONSTANTS
  Slots,      \* cap(concurrencyLimit)
  MaxCalls    \* bound: calls of AnalyzeDir, over all lives of the process

VARIABLES
  main,       \* where AnalyzeDir is, or "down": no process
  calls,      \* AnalyzeDir calls so far
  asked,      \* the path of the last call
  given,      \* the directory it returned
  bulk,       \* inserting in a "transaction", "direct", or with "closed" statements
  committed,  \* the rows from before the scan: entry -> size and flag
  table,      \* the rows the scan sees
  worker,     \* where processDir is, per directory
  todo,       \* the listed entries the loop has not reached
  looked,     \* the file between HasInode and InsertItem, with the answer
  owed,       \* the sub-directories whose result is expected
  total,      \* totals.size, and the size returned in the end
  flag,       \* dirFlag
  cancelled,  \* BaseAnalyzer.cancelled
  partial,    \* history: the committed rows come from a cancelled scan
  failed,     \* history: a statement or a lookup failed since the rows were empty
  torn        \* history: the rows are what a process that ended in a scan left

rowVars == <<committed, table>>
dirVars == <<worker, todo, looked, owed, total, flag>>
callVars == <<main, calls, asked, given>>
restVars == <<calls, asked, given, bulk, torn>>
scanVars == <<main, restVars>>
vars == <<callVars, bulk, rowVars, dirVars, waitVars, cancelled, partial, failed, torn>>

SubDirs == Dirs \ {Root}
Everywhere(v) == [d \in Dirs |-> v]
NoFile == [file |-> Root, counted |-> FALSE]

Put(rows, e, size, f) ==
  [x \in DOMAIN rows \cup {e} |-> IF x = e THEN [size |-> size, flag |-> f] ELSE rows[x]]

\* The workers between concurrencyLimit <- and releaseSlot().
Holders == {d \in Dirs : worker[d] \in {"admitted", "scanning"}}

Idle ==
  /\ worker' = Everywhere("idle")
  /\ todo' = Everywhere({})
  /\ looked' = Everywhere(NoFile)
  /\ owed' = Everywhere({})
  /\ total' = Everywhere(0)
  /\ flag' = Everywhere(" ")

Init ==
  /\ main = "down" /\ calls = 0 /\ asked = Root /\ given = Root
  /\ bulk = "transaction" /\ committed = <<>> /\ table = <<>>
  /\ worker = Everywhere("idle")
  /\ todo = Everywhere({})
  /\ looked = Everywhere(NoFile)
  /\ owed = Everywhere({})
  /\ total = Everywhere(0)
  /\ flag = Everywhere(" ")
  /\ cancelled = FALSE /\ partial = FALSE /\ failed = FALSE /\ torn = FALSE
  /\ WaitInit

-----------------------------------------------------------------------------
(* AnalyzeDir *)

\* The calls the interface makes: the path it was started with, or a directory
\* on screen (tui: rescanDir, after ResetProgress).
Call(d) ==
  /\ calls < MaxCalls
  /\ \/ main = "down" /\ d = Root
     \/ main = "returned" /\ d \in {Root} \cup (Dirs \cap DOMAIN committed)
  /\ calls' = calls + 1
  /\ asked' = d
  /\ cancelled' = FALSE
  /\ WaitReset

\* HasData and GetRootItem: the row without a parent is the result, whatever
\* path was asked for.
Load(d) ==
  /\ Call(d)
  /\ Root \in DOMAIN committed
  /\ main' = "returned"
  /\ given' = Root
  /\ UNCHANGED <<bulk, rowVars, dirVars, partial, failed, torn>>

\* There is no root row, or reading it fails: ClearItems, SetMetadata,
\* BeginBulkInsert, and processDir for the root.  An error of BeginBulkInsert is
\* logged: without a transaction, or with one that is rolled back before the
\* first statement is prepared, rows are inserted directly; when a later
\* Prepare fails the closed statements stay in use.
BeginScan(d) ==
  /\ Call(d)
  /\ d = Root
  /\ main' = "scanning"
  /\ given' = Root
  /\ bulk' \in {"transaction", "direct", "closed"}
  /\ committed' = <<>> /\ table' = <<>>
  /\ worker' = [Everywhere("idle") EXCEPT ![Root] = "spawned"]
  /\ todo' = Everywhere({}) /\ looked' = Everywhere(NoFile)
  /\ owed' = Everywhere({}) /\ total' = Everywhere(0) /\ flag' = Everywhere(" ")
  /\ partial' = FALSE /\ failed' = FALSE /\ torn' = FALSE

\* wait.Wait() once processDir has returned: every Done is behind it.
Wait ==
  /\ main = "waiting"
  /\ ~MustBlock
  /\ main' = "committing"
  /\ UNCHANGED <<calls, asked, given, bulk, rowVars, dirVars, waitVars, cancelled,
                 partial, failed, torn>>

\* EndBulkInsert closes the statements and commits, also after a cancel, or has
\* nothing to commit; AnalyzeDir returns.
Commit ==
  /\ main = "committing"
  /\ main' = "returned"
  /\ bulk' = "transaction"
  /\ committed' = table
  /\ partial' = cancelled
  /\ UNCHANGED <<calls, asked, given, table, dirVars, waitVars, cancelled, failed, torn>>

\* The commit fails: logged, and the root is returned all the same.
CommitFails ==
  /\ main = "committing"
  /\ bulk # "direct"
  /\ main' = "returned"
  /\ bulk' = "transaction"
  /\ table' = committed
  /\ failed' = TRUE
  /\ UNCHANGED <<calls, asked, given, committed, dirVars, waitVars, cancelled, partial, torn>>

stopped == <<calls, asked, given, partial, failed>>

\* Mutant: rows are committed as they are inserted.
StopKeeping ==
  /\ main # "down"
  /\ main' = "down"
  /\ bulk' = "transaction"
  /\ committed' = table /\ table' = table
  /\ Idle
  /\ WaitReset
  /\ cancelled' = FALSE
  /\ UNCHANGED <<stopped, torn>>

\* What an open transaction may leave in the file when the process ends: some
\* of the rows.  What is in them nobody reads here, and it is left at zero.
Remains == {[e \in kept |-> [size |-> 0, flag |-> " "]] : kept \in SUBSET DOMAIN table}

\* The process ends, between any two steps.  Of an open transaction nothing is
\* left, or what was in pages written early or half-way through the commit;
\* rows inserted directly stay.
Stop ==
  /\ main # "down"
  /\ main' = "down"
  /\ bulk' = "transaction"
  /\ IF main = "returned" THEN UNCHANGED <<committed, torn>>
     ELSE IF bulk = "direct" THEN committed' = table /\ torn' = TRUE
     ELSE \/ UNCHANGED <<committed, torn>>
          \/ committed' \in Remains /\ torn' = TRUE
  /\ table' = committed'
  /\ Idle
  /\ WaitReset
  /\ cancelled' = FALSE
  /\ UNCHANGED stopped

\* app.Run removes the database before a scan, unless told to read from it.
RemoveDb ==
  /\ main = "down"
  /\ committed # <<>>
  /\ committed' = <<>> /\ table' = <<>>
  /\ partial' = FALSE /\ failed' = FALSE /\ torn' = FALSE
  /\ UNCHANGED <<callVars, bulk, dirVars, waitVars, cancelled>>

Cancel ==
  /\ main = "scanning"
  /\ ~cancelled
  /\ cancelled' = TRUE
  /\ UNCHANGED <<scanVars, rowVars, dirVars, waitVars, partial, failed>>

-----------------------------------------------------------------------------
(* processDir *)

\* wait.Add(1), before the slot.
Enter(d) ==
  /\ worker[d] = "spawned"
  /\ worker' = [worker EXCEPT ![d] = "queued"]
  /\ WaitAdd
  /\ UNCHANGED <<scanVars, rowVars, todo, looked, owed, total, flag, cancelled,
                 partial, failed>>

Acquire(d) ==
  /\ worker[d] = "queued"
  /\ Cardinality(Holders) < Slots
  /\ worker' = [worker EXCEPT ![d] = "admitted"]
  /\ UNCHANGED <<scanVars, rowVars, todo, looked, owed, total, flag, waitVars,
                 cancelled, partial, failed>>

\* return nil: the deferred releaseSlot and wait.Done, then the send.
ReturnNil(d) ==
  /\ worker' = [worker EXCEPT ![d] = IF d = Root THEN "finished" ELSE "sendingNil"]
  /\ main' = IF d = Root THEN "waiting" ELSE main
  /\ WaitDone
  /\ UNCHANGED <<restVars, rowVars, todo, looked, owed, total, flag,
                 cancelled, partial>>

\* A sub-directory that gets its slot after a cancel is not opened.
Refuse(d) ==
  /\ worker[d] = "admitted"
  /\ cancelled /\ d # Root
  /\ ReturnNil(d)
  /\ UNCHANGED failed

\* os.ReadDir, which returns what it had read when it fails, and the row of
\* the directory with its totals still to come.
OpenDir(d) ==
  /\ worker[d] = "admitted"
  /\ ~(cancelled /\ d # Root)
  /\ bulk # "closed"
  /\ \E listed \in SUBSET Children(d), broken \in BOOLEAN :
       /\ broken \/ listed = Children(d)
       /\ todo' = [todo EXCEPT ![d] = listed]
       /\ flag' = [flag EXCEPT ![d] = IF broken THEN "!" ELSE IF listed = {} THEN "e" ELSE " "]
  /\ worker' = [worker EXCEPT ![d] = "scanning"]
  /\ table' = Put(table, d, 0, flag'[d])
  /\ UNCHANGED <<scanVars, committed, looked, owed, total, waitVars, cancelled,
                 partial, failed>>

\* The row cannot be inserted: nothing of the directory is.
OpenDirFails(d) ==
  /\ worker[d] = "admitted"
  /\ ~(cancelled /\ d # Root)
  /\ ReturnNil(d)
  /\ failed' = TRUE

\* The loop takes an entry; its head looks at the cancel flag.
Take(d, e) ==
  /\ worker[d] = "scanning"
  /\ ~cancelled
  /\ looked[d] = NoFile
  /\ e \in todo[d]
  /\ todo' = [todo EXCEPT ![d] = @ \ {e}]
  /\ UNCHANGED <<scanVars, rowVars, total, flag, waitVars, cancelled, partial>>

SkipEntry(d, e) ==
  /\ Take(d, e)
  /\ e \in Skip
  /\ UNCHANGED <<worker, looked, owed, failed>>

Spawn(d, e) ==
  /\ Take(d, e)
  /\ e \in Dirs \ Skip
  /\ worker' = [worker EXCEPT ![e] = "spawned"]
  /\ owed' = [owed EXCEPT ![d] = @ \cup {e}]
  /\ UNCHANGED <<looked, failed>>

\* processFile up to hasInodeLocked: another goroutine may insert before we do.
LookUp(d, e) ==
  /\ Take(d, e)
  /\ e \in Files \ Skip
  /\ looked' = [looked EXCEPT ![d] =
       [file |-> e,
        counted |-> Inode[e] # NoInode /\ \E x \in Files \cap DOMAIN table : Inode[x] = Inode[e]]]
  /\ UNCHANGED <<worker, owed, failed>>

\* f.Info or followSymlink failed: left out, and nothing says so.
FileFails(d, e) ==
  /\ Take(d, e)
  /\ e \in Files \ Skip
  /\ failed' = TRUE
  /\ UNCHANGED <<worker, looked, owed>>

\* insertItemLocked: a link of a counted inode has no size of its own.
Insert(d) ==
  /\ looked[d] # NoFile
  /\ looked' = [looked EXCEPT ![d] = NoFile]
  /\ LET size == IF looked[d].counted THEN 0 ELSE Bytes[looked[d].file] IN
       /\ table' = Put(table, looked[d].file, size, IF looked[d].counted THEN "H" ELSE " ")
       /\ total' = [total EXCEPT ![d] = @ + size]
  /\ UNCHANGED <<scanVars, committed, worker, todo, owed, flag, waitVars,
                 cancelled, partial, failed>>

InsertFails(d) ==
  /\ looked[d] # NoFile
  /\ looked' = [looked EXCEPT ![d] = NoFile]
  /\ failed' = TRUE
  /\ UNCHANGED <<scanVars, rowVars, worker, todo, owed, total, flag, waitVars,
                 cancelled, partial>>

\* Mutant: the slot is kept until the sub-directories are in.
EndLoopHolding(d) ==
  /\ worker[d] = "scanning"
  /\ looked[d] = NoFile
  /\ cancelled \/ todo[d] = {}
  /\ \A c \in owed[d] : worker[c] \in {"sending", "sendingNil"}
  /\ worker' = [worker EXCEPT ![d] = "draining"]
  /\ todo' = [todo EXCEPT ![d] = {}]
  /\ UNCHANGED <<scanVars, rowVars, looked, owed, total, flag, waitVars,
                 cancelled, partial, failed>>

\* The loop is over: releaseSlot() before the results are collected.
EndLoop(d) ==
  /\ worker[d] = "scanning"
  /\ looked[d] = NoFile
  /\ cancelled \/ todo[d] = {}
  /\ worker' = [worker EXCEPT ![d] = "draining"]
  /\ todo' = [todo EXCEPT ![d] = {}]
  /\ UNCHANGED <<scanVars, rowVars, looked, owed, total, flag, waitVars,
                 cancelled, partial, failed>>

\* sub := <-subDirChan.
Receive(p, c) ==
  /\ worker[p] = "draining"
  /\ c \in owed[p]
  /\ worker[c] \in {"sending", "sendingNil"}
  /\ owed' = [owed EXCEPT ![p] = @ \ {c}]
  /\ worker' = [worker EXCEPT ![c] = "finished"]
  /\ total' = [total EXCEPT ![p] = IF worker[c] = "sending" THEN @ + total[c] ELSE @]
  /\ flag' = [flag EXCEPT ![p] = IF worker[c] = "sending" /\ flag[c] \in {"!", "."} /\ @ # "!"
                                   THEN "." ELSE @]
  /\ UNCHANGED <<scanVars, rowVars, todo, looked, waitVars, cancelled, partial, failed>>

\* resolveDirStats: a directory that counted nothing has a size all the same.
Resolved(d) ==
  IF Children(d) \cap DOMAIN table = {} THEN total[d] + EmptyDirSize ELSE total[d]

\* The totals are known: return the item, after the deferred wait.Done.
Leave(d) ==
  /\ worker[d] = "draining"
  /\ owed[d] = {}
  /\ total' = [total EXCEPT ![d] = Resolved(d)]
  /\ worker' = [worker EXCEPT ![d] = IF d = Root THEN "finished" ELSE "sending"]
  /\ main' = IF d = Root THEN "waiting" ELSE main
  /\ WaitDone
  /\ UNCHANGED <<restVars, committed, todo, looked, owed, flag,
                 cancelled, partial>>

\* updateDirLocked.
Finalize(d) ==
  /\ Leave(d)
  /\ table' = Put(table, d, Resolved(d), flag[d])
  /\ UNCHANGED failed

\* UPDATE fails: logged, and the row keeps its zeros.
FinalizeFails(d) ==
  /\ Leave(d)
  /\ failed' = TRUE
  /\ UNCHANGED table

-----------------------------------------------------------------------------
Worker(d) ==
  \/ Enter(d) \/ Acquire(d) \/ Refuse(d) \/ OpenDir(d) \/ OpenDirFails(d)
  \/ \E e \in Entries : SkipEntry(d, e) \/ Spawn(d, e) \/ LookUp(d, e) \/ FileFails(d, e)
  \/ Insert(d) \/ InsertFails(d) \/ EndLoop(d)
  \/ \E c \in SubDirs : Receive(d, c)
  \/ Finalize(d) \/ FinalizeFails(d)

AnalyzeDir == Wait \/ Commit \/ CommitFails

Next ==
  \/ \E d \in Dirs : Load(d) \/ BeginScan(d)
  \/ AnalyzeDir \/ Stop \/ RemoveDb \/ Cancel
  \/ \E d \in Dirs : Worker(d)

\* Goroutines that can run are run, and statements and file system calls return.
Fairness ==
  /\ WF_vars(AnalyzeDir)
  /\ \A d \in Dirs : WF_vars(Worker(d))

Spec == Init /\ [][Next]_vars /\ Fairness

-----------------------------------------------------------------------------
(* Properties *)

TypeOK ==
  /\ main \in {"down", "scanning", "waiting", "committing", "returned"}
  /\ calls \in 0..MaxCalls
  /\ asked \in Dirs /\ given \in Dirs
  /\ bulk \in {"transaction", "direct", "closed"}
  /\ DOMAIN committed \subseteq Dirs \cup Files
  /\ DOMAIN table \subseteq Dirs \cup Files
  /\ worker \in [Dirs -> {"idle", "spawned", "queued", "admitted", "scanning",
                          "draining", "sending", "sendingNil", "finished"}]
  /\ todo \in [Dirs -> SUBSET Entries]
  /\ \A d \in Dirs : looked[d].file \in Files \cup {Root}
  /\ owed \in [Dirs -> SUBSET SubDirs]
  /\ total \in [Dirs -> Nat]
  /\ flag \in [Dirs -> {" ", "e", ".", "!"}]
  /\ cancelled \in BOOLEAN /\ partial \in BOOLEAN
  /\ failed \in BOOLEAN /\ torn \in BOOLEAN
  /\ WaitTypeOK

\* What a new process finds is a tree: every row has its directory's row.
\* Cancels and failing statements do not change that, nor does the end of the
\* process when the transaction it leaves open has written nothing.
RowsAreATree == torn \/ \A e \in DOMAIN committed \ {Root} : Parent[e] \in DOMAIN committed

\* The totals of a directory in the database are the sum of the rows below it,
\* as the analyzer promises that totals kept while scanning "land on the same
\* numbers" as a later pass, also after a cancel.
RowsAreSums ==
  failed \/ torn \/ \A d \in Dirs \cap DOMAIN committed :
    LET below == Children(d) \cap DOMAIN committed IN
      committed[d].size = IF below = {} THEN EmptyDirSize
                          ELSE SumOver([e \in below |-> committed[e].size], below)

\* What is loaded instead of scanned is a whole scan, unless the user had
\* stopped it or a statement failed, or a process that ended in a scan left
\* more than nothing of it in the file.
LoadsWholeScans ==
  main = "returned" /\ ~partial /\ ~failed /\ ~torn =>
    /\ Root \in DOMAIN committed
    /\ \A e \in Entries \ Skip :
         Parent[e] \in DOMAIN committed /\ committed[Parent[e]].flag # "!" => e \in DOMAIN committed

\* An unreadable directory shows in the flag of every directory above it.
ErrorsReachTheRoot ==
  failed \/ torn \/ \A d \in SubDirs \cap DOMAIN committed :
    committed[d].flag \in {"!", "."} => committed[Parent[d]].flag \in {"!", "."}

\* A call that scans comes to an end with any number of slots: none is held
\* while waiting for a sub-directory.
ScanReturns == main = "scanning" ~> main \in {"returned", "down"}

=============================================================================
