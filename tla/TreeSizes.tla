----------------------------- MODULE TreeSizes -----------------------------
(***************************************************************************)
(* What deletions need to know of a scanned tree: what lies below an entry,  *)
(* the sizes the scan has computed, and how far a removal may have come when *)
(* it fails.  Sizes are those of files without hard links; usage, tokens and *)
(* item counts are kept by the code in the same critical sections.           *)
(***************************************************************************)
EXTENDS ScanTree, Integers, FiniteSetsExt

CONSTANT Bytes   \* the size of each file

ASSUME BytesAssumption == IsFiniteSet(Files) /\ Bytes \in [Files -> Nat]

SubtreeOf[e \in Entries] ==
  {e} \cup UNION {SubtreeOf[c] : c \in {x \in Entries : Parent[x] = e}}

SumOver(f, S) == FoldSet(LAMBDA e, acc : f[e] + acc, 0, S)

EmptyDirSize == 512

\* What a directory counts for itself since the scan, which found it empty.
EmptySize(d) == IF Children(d) = {} THEN EmptyDirSize ELSE 0

\* updateStats after the scan (no file system change since, no hard links).
ScannedSize[d \in Dirs] ==
  EmptySize(d) + SumOver(Bytes, Children(d) \cap Files)
               + SumOver(ScannedSize, Children(d) \cap Dirs)

\* What may be gone of e when os.RemoveAll fails: parts of it, bottom up.
BottomUp(gone, disk) == \A x \in gone : SubtreeOf[x] \cap disk \subseteq gone
PartsOf(e, disk) ==
  {gone \in SUBSET ((SubtreeOf[e] \cap disk) \ {e}) : BottomUp(gone, disk)}
=============================================================================
