----------------------------- MODULE StoredTree -----------------------------
(***************************************************************************)
(* Browsing and deleting in a tree that lives in the badger store            *)
(* (StoredDir in pkg/analyze/stored.go, driven by tui and pkg/remove).  The  *)
(* directory on screen is an object in memory; the items on screen and its   *)
(* ancestors are new objects read from the store.  Removing an item takes it *)
(* out of the object's list and its totals off the object and off the        *)
(* records of the ancestors.                                                 *)
(*                                                                           *)
(* A modal window blocks the interface while a removal runs, so a removal is *)
(* one action; background deletions are those of DeleteQueue.                *)
(***************************************************************************)
EXTENDS TreeSizes

CONSTANT MaxRequests   \* bound: removals asked for

VARIABLES
  disk,       \* what exists in the file system
  records,    \* the store: directory -> its files with sizes, sub-directories, size
  current,    \* ui.currentDir: the object and the directory it is of
  shown,      \* the rows on screen: entry -> size
  requests,   \* removals asked for
  emptied,    \* history: the files truncated
  ghosts,     \* history: a directory was removed that was still listed
  failed      \* history: a record was not written

vars == <<disk, records, current, shown, requests, emptied, ghosts, failed>>

Above(d) == {x \in Dirs : x = Root \/ d \in SubtreeOf[x]} \ {d}

\* The record the scan and UpdateStats left of a directory.
Scanned(d) ==
  [files |-> [e \in Children(d) \cap Files |-> Bytes[e]],
   dirs |-> Children(d) \cap Dirs, size |-> ScannedSize[d]]

\* materializeFiles: files as the object lists them, directories read back.
Rows(object, recs) ==
  [e \in DOMAIN object.files \cup object.dirs |->
    IF e \in DOMAIN object.files THEN object.files[e] ELSE recs[e].size]

Init ==
  /\ disk = Entries
  /\ records = [d \in Dirs |-> Scanned(d)]
  /\ current = [dir |-> Root, object |-> Scanned(Root)]
  /\ shown = Rows(Scanned(Root), records)
  /\ requests = 0
  /\ emptied = {}
  /\ ghosts = FALSE /\ failed = FALSE

-----------------------------------------------------------------------------
\* The row of a directory, or GetParent of the one on screen: read from the store.
Browse(d) ==
  /\ \/ d \in DOMAIN shown \cap Dirs
     \/ current.dir # Root /\ d = Parent[current.dir]
  /\ current' = [dir |-> d, object |-> records[d]]
  /\ shown' = Rows(records[d], records)
  /\ UNCHANGED <<disk, records, requests, emptied, ghosts, failed>>

Request(e) ==
  /\ requests < MaxRequests
  /\ e \in DOMAIN shown
  /\ emptied = {}    \* bound: nothing is removed after a file was emptied
  /\ requests' = requests + 1

\* Files.Remove compares objects: the item of a directory is not the one listed.
Unlisted(object, e, size) ==
  [object EXCEPT !.files = [f \in DOMAIN @ \ {e} |-> @[f]], !.size = @ - size]

\* Mutant: the directory's own record is not written.
SubtractAbove(e, object) ==
  [d \in Dirs |-> IF d \in Above(current.dir) THEN [records[d] EXCEPT !.size = @ - shown[e]]
                  ELSE records[d]]

\* subtractStats: this directory and, read from the store, those above it.
Subtracted(e, object) ==
  [d \in Dirs |-> IF d = current.dir THEN object
                  ELSE IF d \in Above(current.dir) THEN [records[d] EXCEPT !.size = @ - shown[e]]
                  ELSE records[d]]

\* RemoveFile.  Any of the records may fail to be written: logged.
RemoveFile(e, object) ==
  /\ \E lost \in SUBSET Dirs :
       /\ lost \subseteq Above(current.dir) \cup {current.dir}
       /\ records' = [d \in Dirs |-> IF d \in lost THEN records[d] ELSE Subtracted(e, object)[d]]
       /\ failed' = (failed \/ lost # {})

\* ItemFromDir: os.RemoveAll, which succeeds on what is gone, then RemoveFile.
Remove(e) ==
  /\ Request(e)
  /\ disk' = disk \ SubtreeOf[e]
  /\ LET object == Unlisted(current.object, e, shown[e]) IN
       /\ RemoveFile(e, object)
       /\ current' = [current EXCEPT !.object = object]
       /\ shown' = Rows(object, records')
  /\ ghosts' = (ghosts \/ e \in Dirs)
  /\ UNCHANGED emptied

\* Mutant: the row is gone although the removal failed.
RemoveFailsHiding(e) ==
  /\ Request(e)
  /\ \E gone \in PartsOf(e, disk) : disk' = disk \ gone
  /\ shown' = [x \in DOMAIN shown \ {e} |-> shown[x]]
  /\ UNCHANGED <<records, current, emptied, ghosts, failed>>

\* os.RemoveAll fails half-way: the tree stays as it was.
RemoveFails(e) ==
  /\ Request(e)
  /\ \E gone \in PartsOf(e, disk) : disk' = disk \ gone
  /\ UNCHANGED <<records, current, shown, emptied, ghosts, failed>>

\* EmptyFileFromDir: truncate, RemoveFile, and AddFile of an empty file, which
\* is added to the object and not to its record.
Empty(e) ==
  /\ Request(e)
  /\ e \in Files \cap disk
  /\ emptied' = emptied \cup {e}
  /\ LET object == Unlisted(current.object, e, shown[e])
         added == [object EXCEPT !.files = [f \in DOMAIN @ \cup {e} |-> IF f = e THEN 0 ELSE @[f]]]
     IN /\ RemoveFile(e, object)
        /\ current' = [current EXCEPT !.object = added]
        /\ shown' = Rows(added, records')
  /\ UNCHANGED <<disk, ghosts>>

Next ==
  \/ \E d \in Dirs : Browse(d)
  \/ \E e \in Entries : Remove(e) \/ RemoveFails(e) \/ Empty(e)

Spec == Init /\ [][Next]_vars

-----------------------------------------------------------------------------
(* Properties *)

TypeOK ==
  /\ disk \subseteq Entries
  /\ \A d \in Dirs :
       /\ DOMAIN records[d].files \subseteq Files
       /\ records[d].dirs \subseteq Dirs
       /\ records[d].size \in Int
  /\ current.dir \in Dirs
  /\ DOMAIN shown \subseteq Entries
  /\ requests \in 0..MaxRequests
  /\ emptied \subseteq Files

\* Nothing that exists is missing on screen, whatever was removed and whatever
\* failed, as long as no file was emptied.
NothingHidden == emptied = {} => Children(current.dir) \cap disk \subseteq DOMAIN shown

\* Files are never removed twice, and each removal reaches every ancestor: in
\* the store a directory has the size of what its record lists, and 512 if the
\* scan found it empty.
RecordsAreSums ==
  ghosts \/ failed \/ \A d \in Dirs :
    records[d].size =
      EmptySize(d) + SumOver(records[d].files, DOMAIN records[d].files)
        + SumOver([c \in records[d].dirs |-> records[c].size], records[d].dirs)

\* The screen shows what the store has of the directory, so that leaving and
\* coming back changes nothing.
ScreenMatchesStore ==
  failed \/ emptied # {} \/ (current.object = records[current.dir] /\ shown = Rows(records[current.dir], records))

=============================================================================
