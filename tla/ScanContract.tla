---------------------------- MODULE ScanContract ----------------------------
(***************************************************************************)
(* What a scan promises to the interface that started it, however many      *)
(* goroutines it uses: entries appear in the tree while it runs; when the    *)
(* result is handed over, every linked entry hangs from the root and, unless *)
(* the user cancelled, every entry is there whose directory could be read;   *)
(* from then on the tree is the caller's and the analyzer leaves it alone.   *)
(***************************************************************************)
EXTENDS ScanTree

VARIABLES
  phase,      \* "idle", "running" or "finished"
  linked,     \* the entries some directory's Files lists
  broken,     \* the directories flagged '!': something in them was unreadable
  cancelled   \* the user asked to stop

contractVars == <<phase, linked, broken, cancelled>>

\* Every linked entry is reachable: its directory is the root or is linked too.
HangsFromRoot == \A e \in linked : Parent[e] = Root \/ Parent[e] \in linked

\* Every entry of a directory in the tree is in the tree, unless it is
\* skipped or its directory says that something in it could not be read.
Complete ==
  \A e \in Entries \ Skip :
    Parent[e] \in linked \cup {Root} => e \in linked \/ Parent[e] \in broken

Init ==
  /\ phase = "idle"
  /\ linked = {}
  /\ broken = {}
  /\ cancelled = FALSE

Begin ==
  /\ phase = "idle"
  /\ phase' = "running"
  /\ UNCHANGED <<linked, broken, cancelled>>

Link(e) ==
  /\ phase = "running"
  /\ e \notin linked
  /\ linked' = linked \cup {e}
  /\ UNCHANGED <<phase, broken, cancelled>>

Break(d) ==
  /\ phase = "running"
  /\ broken' = broken \cup {d}
  /\ UNCHANGED <<phase, linked, cancelled>>

Cancel ==
  /\ cancelled' = TRUE
  /\ UNCHANGED <<phase, linked, broken>>

Finish ==
  /\ phase = "running"
  /\ HangsFromRoot
  /\ cancelled \/ Complete
  /\ phase' = "finished"
  /\ UNCHANGED <<linked, broken, cancelled>>

\* ResetProgress: the next scan starts from nothing.
Reset ==
  /\ phase = "finished"
  /\ phase' = "idle"
  /\ linked' = {}
  /\ broken' = {}
  /\ cancelled' = FALSE

Next ==
  \/ Begin \/ Finish \/ Cancel \/ Reset
  \/ \E e \in Entries \ Skip : Link(e)
  \/ \E d \in Dirs : Break(d)

Spec == Init /\ [][Next]_contractVars
=============================================================================
