------------------------------ MODULE ScanTree ------------------------------
(***************************************************************************)
(* The directory tree a scan walks, as constants: directories, files, the    *)
(* directory each entry is in, and the entries the walk must leave out       *)
(* (ignored directories, filtered or git-ignored entries).                   *)
(***************************************************************************)
EXTENDS FiniteSets

CONSTANTS
  Dirs,     \* the directories on disk, Root included
  Files,    \* everything in them that is not a directory
  Root,     \* the path given to AnalyzeDir
  Parent,   \* the directory that holds each entry
  Skip      \* the entries the ignore rules and filters reject

Entries == (Dirs \cup Files) \ {Root}

ASSUME TreeAssumption ==
  /\ IsFiniteSet(Dirs)
  /\ Root \in Dirs
  /\ Dirs \cap Files = {}
  /\ Parent \in [Entries -> Dirs]
  /\ Skip \subseteq Entries

\* No directory is below itself: of any directories, one is in none of them.
ASSUME AcyclicAssumption ==
  \A S \in SUBSET (Dirs \ {Root}) : S # {} => \E d \in S : Parent[d] \notin S

\* What os.ReadDir lists for directory d.
Children(d) == {e \in Entries : Parent[e] = d}
=============================================================================
