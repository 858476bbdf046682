---------------------------- MODULE DeleteQueue ----------------------------
(***************************************************************************)
(* Deleting from the terminal interface: the rows of the directory on       *)
(* screen, the cursor and the marks on them, the confirmation dialog, and    *)
(* the deletion itself, which runs behind a blocking modal                   *)
(* (tui/actions.go, tui/marked.go) or, with delete-in-background, in worker  *)
(* goroutines fed by a queue (tui/background.go).  Every deletion removes    *)
(* from the file system (pkg/remove) and then from the tree, whose sizes are *)
(* corrected directory by directory up to the root (pkg/analyze/file.go).    *)
(*                                                                           *)
(* Of the statistics only the size is kept: usage, tokens and item count are *)
(* subtracted in the same critical sections.  Emptying is modelled for       *)
(* directories only; hard links, filters, ignored rows and collapsed paths   *)
(* are left out.                                                             *)
(***************************************************************************)
EXTENDS TreeSizes, Sequences

CONSTANTS
  Workers,        \* deletion workers; behind the modal one works at a time
  Modes,          \* bound: whether the option delete-in-background is on, off or either
  MaxRequests,    \* bound: deletions the user asks for, by mode
  Rank            \* the order of the rows (sorted by name)

ASSUME DeleteAssumption ==
  /\ IsFiniteSet(Workers)
  /\ Modes \subseteq BOOLEAN
  /\ MaxRequests \in [Modes -> Nat]
  /\ Rank \in [Entries -> Nat]

\* The order of names (natural.Less) tells the entries of one directory apart;
\* it would not tell "01a" from "1a", whose rows it may draw either way.
ASSUME NamesAssumption ==
  \A d \in Dirs : \A x, y \in Children(d) : Rank[x] = Rank[y] => x = y

VARIABLES
  inBackground,  \* ui.deleteInBackground
  disk,        \* what exists in the file system
  files,       \* Dir.Files
  size,        \* Dir.Size
  current,     \* ui.currentDir
  rows,        \* ui.table: the item each row refers to
  cursor,      \* the selected row; 0 is the row "..", which Root does not have
  marked,      \* ui.markedRows
  dialog,      \* the confirmation dialog: what it will do, or NoDialog
  pending,     \* deletions on their way to or in ui.deleteQueue
  job,         \* what each worker is doing
  active,      \* ui.activeWorkers
  panicked,    \* a row that refers to nothing was read, or the parent of Root
  requested,   \* history: the items queued so far, with the number of requests
  agreed,      \* history: the items the user marked or was asked about
  failed       \* history: a deletion has failed

uiVars == <<current, rows, cursor, marked, dialog, panicked, agreed>>
vars == <<inBackground, disk, files, size, uiVars, pending, job, active, requested, failed>>

NoJob == [stage |-> "idle", item |-> Root, action |-> "none", from |-> Root, todo |-> {},
          now |-> Root, amount |-> 0, at |-> Root]
NoDialog == [action |-> "none", marked |-> FALSE, names |-> Root]
Actions == {"delete", "trash", "empty"}

\* What a row refers to: also the row ".." can be deleted.
Items == Dirs \cup Files

Below(e) == IF e = Root THEN Entries ELSE SubtreeOf[e]

\* The entries of a directory in the order of their names.
Before(fs, e) == {x \in fs : Rank[x] < Rank[e]}
RowsOf(fs) ==
  [i \in 1..Cardinality(fs) |-> CHOOSE e \in fs : Cardinality(Before(fs, e)) = i - 1]

SizeOf(e) == IF e \in Files THEN Bytes[e] ELSE size[e]

Init ==
  /\ inBackground \in Modes
  /\ disk = Entries
  /\ files = [d \in Dirs |-> Children(d)]
  /\ size = ScannedSize
  /\ current = Root
  /\ rows = RowsOf(Children(Root))
  /\ cursor = 1
  /\ marked = {}
  /\ dialog = NoDialog
  /\ pending = {}
  /\ job = [w \in Workers |-> NoJob]
  /\ active = 0
  /\ panicked = FALSE
  /\ requested = [e \in Items |-> 0]
  /\ agreed = {}
  /\ failed = FALSE

Working == {w \in Workers : job[w] # NoJob}
Quiet == pending = {} /\ Working = {}

\* The keys that change anything are dead while a dialog or the blocking modal
\* of a foreground deletion is up.
Browsing == dialog = NoDialog /\ (inBackground \/ Quiet)

\* The rows that refer to an item, and the items.
Readable == DOMAIN rows \cup IF current = Root THEN {} ELSE {0}
ItemAt(r) == IF r = 0 THEN Parent[current] ELSE rows[r]

-----------------------------------------------------------------------------
(* The user *)

worldVars == <<disk, files, size, pending, job, active, requested, failed>>

\* fileItemSelected: into the directory under the cursor, or up.  The marks are
\* forgotten and the cursor is at the top, or, on the way up, at the directory
\* that was left if it is still there.
Navigate(d) ==
  /\ Browsing
  /\ \/ cursor \in DOMAIN rows /\ d = rows[cursor]
     \/ current # Root /\ d = Parent[current]
  /\ current' = d
  /\ rows' = RowsOf(files[d])
  /\ cursor' = IF current \in Range(rows') THEN CHOOSE r \in DOMAIN rows' : rows'[r] = current
               ELSE IF d = Root /\ rows' # <<>> THEN 1 ELSE 0
  /\ marked' = {}
  /\ agreed' = {}
  /\ UNCHANGED <<worldVars, dialog, panicked>>

MoveCursor(r) ==
  /\ Browsing
  /\ r \in Readable \ {cursor}
  /\ cursor' = r
  /\ UNCHANGED <<worldVars, current, rows, marked, dialog, panicked, agreed>>

\* handleMark, not on "..": toggle, showDir, next row.
Mark ==
  /\ Browsing
  /\ cursor \in DOMAIN rows
  /\ IF cursor \in marked
     THEN /\ marked' = marked \ {cursor}
          /\ agreed' = agreed \ {rows[cursor]}
     ELSE /\ marked' = marked \cup {cursor}
          /\ agreed' = agreed \cup {rows[cursor]}
  /\ rows' = RowsOf(files[current])
  /\ cursor' = IF cursor + 1 \in DOMAIN rows' THEN cursor + 1 ELSE Len(rows')
  /\ UNCHANGED <<worldVars, current, dialog, panicked>>

\* handleDelete, not on "..": the dialog names the item under the cursor, or
\* the number of marked rows.
Ask(action) ==
  /\ Browsing
  /\ cursor \in DOMAIN rows
  /\ action = "empty" =>
       \A r \in (IF marked = {} THEN {cursor} ELSE marked) \cap DOMAIN rows :
         rows[r] \in Dirs
  /\ dialog' = [action |-> action, marked |-> marked # {},
                names |-> IF marked = {} THEN rows[cursor] ELSE Root]
  /\ agreed' = IF marked = {} THEN agreed \cup {rows[cursor]} ELSE agreed
  /\ UNCHANGED <<worldVars, current, rows, cursor, marked, panicked>>

Refuse ==
  /\ dialog # NoDialog
  /\ dialog' = NoDialog
  /\ UNCHANGED <<worldVars, current, rows, cursor, marked, panicked, agreed>>

\* At most MaxRequests of the mode in all; files are not emptied (see above).
Request(items, action) ==
  /\ action = "empty" => items \subseteq Dirs
  /\ SumOver(requested, Items) + Cardinality(items) <= MaxRequests[inBackground]
  /\ requested' = [e \in Items |-> IF e \in items THEN requested[e] + 1 ELSE requested[e]]
  /\ pending' = pending \cup
       {[item |-> e, action |-> action, nth |-> requested[e]] : e \in items}

\* deleteSelected, deleteMarked: which items is read from the table now, which
\* a background deletion may have drawn again under the dialog; if it took the
\* last row the cursor is on "..".
Confirm ==
  /\ dialog # NoDialog
  /\ dialog' = NoDialog
  /\ LET read == IF dialog.marked THEN marked ELSE {cursor} IN
       IF read \subseteq Readable
       THEN Request({ItemAt(r) : r \in read}, dialog.action) /\ UNCHANGED panicked
       ELSE panicked' = TRUE /\ UNCHANGED <<pending, requested>>
  /\ marked' = IF inBackground THEN {} ELSE marked
  /\ UNCHANGED <<disk, files, size, current, rows, cursor, job, active, agreed,
                 failed>>

-----------------------------------------------------------------------------
(* deleteWorker, or the goroutine behind the modal *)

\* The job of request r: todo is what is to be removed, all from one directory.
Removal(r, from, todo) ==
  [stage |-> "removing", item |-> r.item, action |-> r.action, from |-> from, todo |-> todo,
   now |-> Root, amount |-> 0, at |-> Root]

\* Behind the modal there is one goroutine.
MayStart(w) == job[w] = NoJob /\ (inBackground \/ Working = {})

\* Mutant: what an emptied directory held is removed from the one on screen.
DequeueForScreen(w) ==
  /\ MayStart(w)
  /\ \E r \in pending :
       /\ pending' = pending \ {r}
       /\ job' = [job EXCEPT ![w] = Removal(r, current,
                                         IF r.action = "empty" THEN files[r.item] ELSE {r.item})]
  /\ active' = active + 1
  /\ UNCHANGED <<disk, files, size, uiVars, requested, failed>>

\* Mutant: the worker reads the row under the cursor again.
DequeueSelected(w) ==
  /\ MayStart(w)
  /\ cursor \in DOMAIN rows
  /\ \E r \in pending :
       /\ pending' = pending \ {r}
       /\ job' = [job EXCEPT ![w] = Removal(r, IF r.action = "empty" THEN r.item ELSE current,
                                         IF r.action = "empty" THEN files[r.item] ELSE {rows[cursor]})]
  /\ active' = active + 1
  /\ UNCHANGED <<disk, files, size, uiVars, requested, failed>>

\* A worker takes an item from the queue.  The directory that it will be
\* removed from is the one on screen now, also if the user has left the item's.
Dequeue(w) ==
  /\ MayStart(w)
  /\ \E r \in pending :
       /\ pending' = pending \ {r}
       /\ job' = [job EXCEPT ![w] = Removal(r, IF r.action = "empty" THEN r.item ELSE current,
                                         IF r.action = "empty" THEN files[r.item] ELSE {r.item})]
  /\ active' = active + 1
  /\ UNCHANGED <<disk, files, size, uiVars, requested, failed>>

\* os.RemoveAll, also of what is already gone, or the move to the trash.
RemoveFromDisk(w, e) ==
  /\ job[w].stage = "removing"
  /\ e \in job[w].todo
  /\ job[w].action = "trash" => e \in disk \cup {Root}
  /\ disk' = disk \ Below(e)
  /\ job' = [job EXCEPT ![w].stage = "unlinking", ![w].now = e]
  /\ UNCHANGED <<files, size, uiVars, pending, active, requested, failed>>

\* What a failing deletion of e leaves on disk: part of a directory may be gone,
\* also after a move to the trash, which copies to another device and removes.
FailOnDisk(w, e) ==
  /\ job[w].stage = "removing"
  /\ e \in job[w].todo
  /\ job[w].action # "trash" => e = Root \/ Below(e) \cap disk # {}
  /\ \E gone \in IF e = Root THEN {part \in SUBSET disk : BottomUp(part, disk)}
                  ELSE PartsOf(e, disk) : disk' = disk \ gone
  /\ failed' = TRUE

\* Mutant: the error is shown but the item is unlinked all the same.
FailUnlinking(w, e) ==
  /\ FailOnDisk(w, e)
  /\ job' = [job EXCEPT ![w].stage = "unlinking", ![w].now = e]
  /\ UNCHANGED <<files, size, uiVars, pending, active, requested>>

\* The error is shown and the job, in the foreground also the rest of the
\* marked items, is dropped.  Nothing is drawn again.
Fail(w, e) ==
  /\ FailOnDisk(w, e)
  /\ job' = [job EXCEPT ![w] = NoJob]
  /\ active' = active - 1
  /\ pending' = IF inBackground THEN pending ELSE {}
  /\ UNCHANGED <<files, size, uiVars, requested>>

\* dir.RemoveFile: Files.Remove, nothing if the item is not there ...
Unlink(w) ==
  /\ job[w].stage = "unlinking"
  /\ files' = [files EXCEPT ![job[w].from] = @ \ {job[w].now}]
  /\ job' = [job EXCEPT ![w].stage = "reading"]
  /\ UNCHANGED <<disk, size, uiVars, pending, active, requested, failed>>

\* ... and subtractStats: the item's totals are read once ...
ReadTotals(w) ==
  /\ job[w].stage = "reading"
  /\ job' = [job EXCEPT ![w].stage = "subtracting", ![w].amount = SizeOf(job[w].now),
                         ![w].at = job[w].from]
  /\ UNCHANGED <<disk, files, size, uiVars, pending, active, requested, failed>>

\* Mutant: only the directory itself is corrected, not its ancestors.
SubtractOnce(w) ==
  /\ job[w].stage = "subtracting"
  /\ size' = [size EXCEPT ![job[w].at] = @ - job[w].amount]
  /\ job' = [job EXCEPT ![w].stage = "removing", ![w].todo = @ \ {job[w].now}]
  /\ UNCHANGED <<disk, files, uiVars, pending, active, requested, failed>>

\* ... and subtracted from one directory after the other, up to the root.
Subtract(w) ==
  /\ job[w].stage = "subtracting"
  /\ size' = [size EXCEPT ![job[w].at] = @ - job[w].amount]
  /\ job' = IF job[w].at = Root
            THEN [job EXCEPT ![w].stage = "removing", ![w].todo = @ \ {job[w].now}]
            ELSE [job EXCEPT ![w].at = Parent[@]]
  /\ UNCHANGED <<disk, files, uiVars, pending, active, requested, failed>>

Refresh ==
  /\ rows' = RowsOf(files[current])
  /\ cursor' = IF cursor \in DOMAIN rows' THEN cursor ELSE Len(rows')

finishRest == <<disk, files, size, current, dialog, agreed, pending, requested, failed>>

EndJob(w) ==
  /\ job[w].stage = "removing"
  /\ job[w].todo = {}
  /\ job' = [job EXCEPT ![w] = NoJob]
  /\ active' = active - 1

OnScreen(w) == job[w].item # Root /\ Parent[job[w].item] = current

\* Mutant: the marks survive a foreground deletion.
FinishMarked(w) ==
  /\ EndJob(w)
  /\ IF IF inBackground THEN OnScreen(w) ELSE pending = {}
     THEN Refresh ELSE UNCHANGED <<rows, cursor>>
  /\ UNCHANGED <<marked, panicked, finishRest>>

\* Mutant: a worker whose item is not on screen never gets to its end.
FinishOnScreen(w) ==
  /\ EndJob(w)
  /\ OnScreen(w) /\ Refresh
  /\ marked' = IF inBackground THEN marked ELSE {}
  /\ UNCHANGED <<panicked, finishRest>>

\* The rows are drawn again: in the background if the item's directory is on
\* screen, keeping the marks; in the foreground after the last item.  A
\* background worker asks Root, too, for its directory.
Finish(w) ==
  /\ EndJob(w)
  /\ panicked' = (inBackground /\ job[w].item = Root)
  /\ IF IF inBackground THEN OnScreen(w) ELSE pending = {}
     THEN /\ Refresh
          /\ marked' = IF inBackground THEN marked ELSE {}
     ELSE UNCHANGED <<rows, cursor, marked>>
  /\ UNCHANGED finishRest

-----------------------------------------------------------------------------
Worker(w) ==
  /\ UNCHANGED inBackground
  /\ \/ Dequeue(w) \/ Unlink(w) \/ ReadTotals(w) \/ Subtract(w) \/ Finish(w)
     \/ \E e \in Items : RemoveFromDisk(w, e) \/ Fail(w, e)

User ==
  /\ UNCHANGED inBackground
  /\ \/ Mark \/ Refuse \/ Confirm
     \/ \E d \in Dirs : Navigate(d)
     \/ \E r \in Readable : MoveCursor(r)
     \/ \E a \in Actions : Ask(a)

\* A panic of the interface ends the program.
Next == ~panicked /\ (User \/ \E w \in Workers : Worker(w))

\* The workers are goroutines that run; the user owes nothing.
Spec == Init /\ [][Next]_vars /\ \A w \in Workers : WF_vars(~panicked /\ Worker(w))

-----------------------------------------------------------------------------
(* Properties *)

\* The variables keep their types, and activeWorkers counts the workers at work.
TypeOK ==
  /\ disk \subseteq Entries
  /\ files \in [Dirs -> SUBSET Entries]
  /\ size \in [Dirs -> Int]
  /\ current \in Dirs
  /\ rows \in Seq(Entries)
  /\ cursor \in 0..Cardinality(Entries) \cup {1}
  /\ marked \subseteq 1..Cardinality(Entries)
  /\ \A w \in Working : job[w].from \in Dirs /\ job[w].todo \subseteq Items
  /\ active = Cardinality(Working)

\* The variables keep their types, and what is still on disk is still shown
\* where it is, whatever failed half-way and whatever was on screen: an item
\* leaves the tree after it left the disk.
NothingHidden == TypeOK /\ \A e \in disk : e \in files[Parent[e]]

\* Nothing leaves the disk that does not lie at or below an item that was queued
\* when a dialog was confirmed.  In the background that need not be what the
\* dialog named, nor even an item on screen: see NamedIsDeleted.
OnlyRequestedIsGone ==
  Entries \ disk \subseteq UNION {Below(e) : e \in {x \in Items : requested[x] > 0}}

\* show.go: "Item under cursor: d  Delete file or directory": the item that is
\* deleted is the one that was under the cursor and that the dialog names.
NamedIsDeleted ==
  [][\A e \in Items : requested'[e] > requested[e] /\ ~dialog.marked =>
       e = dialog.names]_vars

\* remove.go: "ItemFromDir removes item from dir": once the workers are idle,
\* and as long as nothing failed, what left the disk has left its directory.
DeletedIsUnlinked ==
  Quiet /\ ~failed =>
    \A e \in Entries \ disk :
      Parent[e] = Root \/ Parent[e] \in disk => e \notin files[Parent[e]]

\* file.go: "RemoveFile removes item from dir, updates size and item count":
\* between deletions each directory's size is the sum of its entries' sizes,
\* and 512 more if the scan found it empty.
SizesMatchTree ==
  Quiet => \A d \in Dirs :
    size[d] = EmptySize(d) + SumOver([e \in files[d] |-> SizeOf(e)], files[d])

\* Until a deletion fails, that is so behind the modal.
SizesMatchUntilFailure == ~inBackground /\ ~failed => SizesMatchTree

\* Until a deletion fails, marks, dialog and rows agree behind the modal: only
\* items the user marked or was asked about are deleted.
AgreedUntilFailure ==
  [][\A e \in Items : ~inBackground /\ ~failed /\ requested'[e] > requested[e] =>
       e \in agreed]_vars

\* Behind the modal deleted items are unlinked, and nobody panics.
ModalKeepsTree == ~inBackground => DeletedIsUnlinked /\ (~failed => ~panicked)

\* The queue is drained and every worker comes to rest, after errors too.
QueueDrains == pending # {} ~> (Quiet \/ panicked)
=============================================================================
