---------------------------- MODULE TreeSnapshot ----------------------------
(***************************************************************************)
(* The preview of a running scan (snapshotDir, pkg/analyze/file.go): the     *)
(* interface copies the tree one directory at a time, each under its own     *)
(* read lock, while the goroutines of the scan go on appending.              *)
(*                                                                           *)
(* The scan is any scan that keeps ScanContract, up to its end; so what      *)
(* holds here holds for the analyzers that are shown to keep it.  The        *)
(* entries of a directory are copied in the order of Files, in which a scan  *)
(* may have put them in any order: here the next directory is any of those   *)
(* whose copy is due.                                                        *)
(***************************************************************************)
EXTENDS ScanContract

VARIABLES
  copying,  \* "no", "yes", "done"
  due,      \* the directories whose entries are to be copied
  copied,   \* the entries of the snapshot
  marked,   \* the directories of the snapshot with the flag '!'
  before    \* history: what was linked when the preview was asked for

previewVars == <<contractVars, copying, due, copied, marked, before>>

Linked(d) == Children(d) \cap linked

PreviewInit ==
  /\ Init
  /\ copying = "no"
  /\ due = {} /\ copied = {} /\ marked = {} /\ before = {}

\* GetCurrentDir: the root, as soon as the analyzer has set it.
GetCurrentDir ==
  /\ copying # "yes"
  /\ phase # "idle"
  /\ copying' = "yes"
  /\ due' = {Root} /\ copied' = {} /\ marked' = {}
  /\ before' = linked
  /\ UNCHANGED contractVars

\* snapshotDir as far as its RUnlock.
SnapshotDir(d) ==
  /\ copying = "yes"
  /\ d \in due
  /\ copied' = copied \cup Linked(d)
  /\ due' = (due \ {d}) \cup (Linked(d) \cap Dirs)
  /\ marked' = IF d \in broken THEN marked \cup {d} ELSE marked
  /\ UNCHANGED <<contractVars, copying, before>>

\* The recursion has returned; enterPreview shows the copy.
EnterPreview ==
  /\ copying = "yes"
  /\ due = {}
  /\ copying' = "done"
  /\ UNCHANGED <<contractVars, due, copied, marked, before>>

\* A step of the scan that is copied.
Scan ==
  /\ \/ Begin \/ Finish
     \/ Cancel /\ ~cancelled
     \/ \E e \in Entries \ Skip : Link(e)
     \/ \E d \in Dirs \ broken : Break(d)
  /\ UNCHANGED <<copying, due, copied, marked, before>>

PreviewNext ==
  \/ Scan \/ GetCurrentDir \/ EnterPreview
  \/ \E d \in Dirs : SnapshotDir(d)

PreviewSpec == PreviewInit /\ [][PreviewNext]_previewVars

-----------------------------------------------------------------------------
(* Properties *)

\* The copy lies between the tree that was there when the preview was asked
\* for and the one there is now: it hangs together, shows nothing that was not
\* found, and misses nothing that had been found and hung from the root.
PreviewIsBetween ==
  copying # "no" =>
    /\ copied \subseteq linked
    /\ \A e \in copied : Parent[e] \in copied \cup {Root}
    /\ copying = "done" => \A e \in before : Parent[e] \in copied \cup {Root} => e \in copied

\* What makes it so: what is missing is in a directory that is due, and only
\* copied directories are.
DueIsRest ==
  copying # "no" =>
    /\ before \subseteq linked
    /\ due \subseteq (copied \cap Dirs) \cup {Root}
    /\ \A e \in before : Parent[e] \in copied \cup {Root} => e \in copied \/ Parent[e] \in due
    /\ copying = "done" => due = {}
=============================================================================
