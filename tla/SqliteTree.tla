----------------------------- MODULE SqliteTree -----------------------------
(***************************************************************************)
(* Browsing and deleting in a tree that lives in the SQLite database         *)
(* (SqliteItem and SqliteStorage in pkg/analyze/sqlite.go, driven by tui).   *)
(* Each time a directory is drawn its rows are read into new items; an item  *)
(* keeps the totals it was read with.  A removal takes the size of the item  *)
(* off the items it was reached through, in memory, and then, in one         *)
(* transaction, off the rows of its ancestors before it deletes the rows of  *)
(* its subtree.                                                              *)
(***************************************************************************)
EXTENDS TreeSizes, Sequences

Seqs == INSTANCE SequencesExt

CONSTANTS
  Workers,       \* deletion workers (one at a time behind the modal)
  MaxItems,      \* bound: items read from the database
  MaxRequests    \* bound: deletions asked for

VARIABLES
  inBackground,  \* ui.deleteInBackground
  disk,          \* what exists in the file system
  rows,          \* the table: entry -> size
  items,         \* the SqliteItems read so far: entry, size and parent item
  current,       \* ui.currentDir, an index of items
  shown,         \* the items the rows on screen refer to
  requests,      \* deletions asked for
  job,           \* what each worker does
  emptied,       \* history: the files truncated
  failed,        \* history: a transaction failed
  stale          \* history: a removal took off a size that was not the row's

vars == <<inBackground, disk, rows, items, current, shown, requests, job,
          emptied, failed, stale>>

NoJob == [stage |-> "idle", item |-> 0, dir |-> 0, size |-> 0]
Top == 1

Item(e, up, table) == [entry |-> e, size |-> table[e], up |-> up]

\* GetChildren: the rows below an item's row, as new items that know it.
Below(i, its, table) ==
  Seqs!SetToSeq({Item(e, i, table) : e \in {x \in Children(its[i].entry) : x \in DOMAIN table}})

Init ==
  /\ inBackground \in BOOLEAN
  /\ disk = Entries
  /\ rows = [e \in Dirs \cup Files |-> IF e \in Dirs THEN ScannedSize[e] ELSE Bytes[e]]
  /\ items = LET top == <<Item(Root, 0, rows)>> IN top \o Below(Top, top, rows)
  /\ current = Top
  /\ shown = 2..Len(items)
  /\ requests = 0
  /\ job = [w \in Workers |-> NoJob]
  /\ emptied = {}
  /\ failed = FALSE
  /\ stale = FALSE

Busy == {w \in Workers : job[w] # NoJob}
Quiet == Busy = {}
Free == inBackground \/ Quiet

-----------------------------------------------------------------------------
(* Browsing *)

\* showDir: read the rows of directory item i.
Draw(i, its, table) ==
  LET below == Below(i, its, table) IN
    /\ current' = i
    /\ items' = its \o below
    /\ shown' = (Len(its) + 1)..(Len(its) + Len(below))

\* Enter the directory of a row, or leave to the parent item.
Browse(i) ==
  /\ Len(items) < MaxItems
  /\ Free
  /\ \/ i \in shown /\ items[i].entry \in Dirs
     \/ i # 0 /\ i = items[current].up
  /\ Draw(i, items, rows)
  /\ UNCHANGED <<inBackground, disk, rows, requests, job, emptied, failed, stale>>

-----------------------------------------------------------------------------
(* Deleting *)

\* The row's item is handed to a worker.
Request(w, i) ==
  /\ Free
  /\ requests < MaxRequests
  /\ job[w] = NoJob
  /\ i \in shown
  /\ job' = [job EXCEPT ![w] = [stage |-> "asked", item |-> i, dir |-> 0, size |-> 0]]
  /\ requests' = requests + 1
  /\ UNCHANGED <<inBackground, disk, rows, items, current, shown, emptied, failed, stale>>

\* The worker takes the item up: its directory is the one on screen now.
Begin(w) ==
  /\ job[w].stage = "asked"
  /\ job' = [job EXCEPT ![w].stage = "begun", ![w].dir = current]
  /\ UNCHANGED <<inBackground, disk, rows, items, current, shown, requests, emptied, failed, stale>>

\* os.RemoveAll: all of it, which also succeeds on what is gone.
RemoveFromDisk(w) ==
  /\ job[w].stage = "begun"
  /\ disk' = disk \ SubtreeOf[items[job[w].item].entry]
  /\ job' = [job EXCEPT ![w].stage = "removed"]
  /\ UNCHANGED <<inBackground, rows, items, current, shown, requests, emptied, failed, stale>>

\* ActionEmpty: the file is truncated, and its item removed all the same;
\* AddFile, which is to bring it back, does nothing in a database.
Truncate(w) ==
  /\ job[w].stage = "begun"
  /\ items[job[w].item].entry \in Files \cap disk
  /\ emptied' = emptied \cup {items[job[w].item].entry}
  /\ job' = [job EXCEPT ![w].stage = "removed"]
  /\ UNCHANGED <<inBackground, disk, rows, items, current, shown, requests, failed, stale>>

\* ... or an error: some of it, and the tree is left as it was.
RemoveFails(w) ==
  /\ job[w].stage = "begun"
  /\ \E gone \in PartsOf(items[job[w].item].entry, disk) : disk' = disk \ gone
  /\ job' = [job EXCEPT ![w] = NoJob]
  /\ UNCHANGED <<inBackground, rows, items, current, shown, requests, emptied, failed, stale>>

\* i and the loaded items above it.
Chain(i, its) ==
  LET chain[j \in 0..Len(its)] == IF j = 0 THEN {} ELSE {j} \cup chain[its[j].up]
  IN chain[i]

\* RemoveFile, first half: the loaded ancestors, which no one can read from
\* the database before the second half corrects it.
SubtractLoaded(w) ==
  /\ job[w].stage = "removed"
  /\ LET size == items[job[w].item].size IN
       /\ items' = [i \in DOMAIN items |->
            IF i \in Chain(job[w].dir, items) THEN [items[i] EXCEPT !.size = @ - size] ELSE items[i]]
       /\ job' = [job EXCEPT ![w].stage = "writing", ![w].size = size]
  /\ UNCHANGED <<inBackground, disk, rows, current, shown, requests, emptied, failed, stale>>

Above(e) == {d \in Dirs : d = Root \/ e \in SubtreeOf[d]} \ {e}

\* Mutant: only the item's own row is deleted.
WithoutRow(e, size) ==
  [x \in DOMAIN rows \ {e} |-> IF x \in Above(e) THEN rows[x] - size ELSE rows[x]]

\* Mutant: the directory of the item is updated, its ancestors are not.
WithoutUpper(e, size) ==
  [x \in DOMAIN rows \ SubtreeOf[e] |-> IF x = Parent[e] THEN rows[x] - size ELSE rows[x]]

\* RemoveItemAndUpdateStats: nothing if the row is gone already.
Without(e, size) ==
  IF e \notin DOMAIN rows THEN rows
  ELSE [x \in DOMAIN rows \ SubtreeOf[e] |-> IF x \in Above(e) THEN rows[x] - size ELSE rows[x]]

Write(w) ==
  /\ job[w].stage = "writing"
  /\ LET e == items[job[w].item].entry IN
       /\ rows' = Without(e, job[w].size)
       /\ stale' = (stale \/ (e \in DOMAIN rows /\ job[w].size # rows[e]))
  /\ job' = [job EXCEPT ![w].stage = "drawing"]
  /\ UNCHANGED <<inBackground, disk, items, current, shown, requests, emptied, failed>>

\* A statement fails: everything is rolled back, except in memory.
WriteFails(w) ==
  /\ job[w].stage = "writing"
  /\ failed' = TRUE
  /\ job' = [job EXCEPT ![w].stage = "drawing"]
  /\ UNCHANGED <<inBackground, disk, rows, items, current, shown, requests, emptied, stale>>

\* The removal is over and the directory on screen is drawn again, by a
\* background worker only if it is the one the item was in.
Finish(w) ==
  /\ job[w].stage = "drawing"
  /\ job' = [job EXCEPT ![w] = NoJob]
  /\ IF inBackground /\ items[current].entry # Parent[items[job[w].item].entry]
     THEN UNCHANGED <<current, items, shown>>
     ELSE Draw(current, items, rows)
  /\ UNCHANGED <<inBackground, disk, rows, requests, emptied, failed, stale>>

-----------------------------------------------------------------------------
Worker(w) ==
  \/ Begin(w) \/ RemoveFromDisk(w) \/ Truncate(w) \/ RemoveFails(w) \/ SubtractLoaded(w)
  \/ Write(w) \/ WriteFails(w) \/ Finish(w)

Next ==
  \/ \E i \in 1..Len(items) : Browse(i)
  \/ \E w \in Workers : Worker(w) \/ \E i \in 1..Len(items) : Request(w, i)

Spec == Init /\ [][Next]_vars

-----------------------------------------------------------------------------
(* Properties *)

TypeOK ==
  /\ disk \subseteq Entries
  /\ rows \in [DOMAIN rows -> Int] /\ DOMAIN rows \subseteq Dirs \cup Files
  /\ \A i \in DOMAIN items : items[i].up < i /\ items[i].entry \in Dirs \cup Files
  /\ current \in 1..Len(items)
  /\ shown \subseteq 1..Len(items)

\* No row is left without the row of its directory, and what the file system
\* has is not missing in the database.
RowsAreATree == \A e \in DOMAIN rows \ {Root} : Parent[e] \in DOMAIN rows

\* Nothing disappears from the database before it disappeared from the disk,
\* files apart that were emptied.
NothingHidden == \A e \in disk \ emptied : e \in DOMAIN rows

\* In the database a directory has the size of what is in it, and 512 if the
\* scan found it empty (only then: a removal corrects by subtracting), whichever
\* statement of whichever removal fails and whoever removes what twice; in the
\* background, as long as no removal starts from a row that has grown stale.
RowsAreSums ==
  (inBackground /\ stale) \/ \A d \in Dirs \cap DOMAIN rows :
    rows[d] = EmptySize(d) + SumOver(rows, Children(d) \cap DOMAIN rows)

\* Behind the modal, the directory on screen and those above it show what the
\* database has once a removal is over.
ScreenMatchesRows ==
  ~inBackground /\ Quiet /\ ~failed =>
    \A i \in Chain(current, items) : items[i].size = rows[items[i].entry]
=============================================================================
