------------------------------- MODULE Report -------------------------------
(***************************************************************************)
(* Exporting a scan and reading it back (report/export.go, report/import.go, *)
(* pkg/analyze/encode.go, pkg/analyze/top.go).  A report holds the entries   *)
(* of some directories and what was written of their totals; an import puts  *)
(* the tree together again, pins the totals of directories whose entries     *)
(* were cut off, and computes the others anew.                               *)
(*                                                                           *)
(* Names and times are copied; flags other than '@' and 'H' are not written. *)
(***************************************************************************)
EXTENDS DirStats

Depth[d \in Dirs] == IF d = Root THEN 0 ELSE 1 + Depth[Parent[d]]

SizeOf(e) == IF e \in Dirs THEN total[e].size ELSE BytesOf(e)

\* Dir.GetFiles, the largest first; sort.Sort leaves those of one size in any
\* order, here in the order they had.
Sorted(d) == SortSeq(order[d], LAMBDA x, y : SizeOf(x) > SizeOf(y))

-----------------------------------------------------------------------------
(* TopList *)

\* TopList.Add: kept in ascending order; the smallest falls out of a full list.
AddTop(list, file, count) ==
  IF Len(list) < count \/ BytesOf(file) > BytesOf(list[1])
  THEN LET more == SortSeq(Append(list, file), LAMBDA x, y : BytesOf(x) < BytesOf(y)) IN
         IF Len(more) > count THEN Tail(more) ELSE more
  ELSE list

\* CollectTopFiles
TopFiles(count) ==
  Reverse(FoldLeft(LAMBDA list, f : AddTop(list, f, count), <<>>, Walk([d \in Dirs |-> Sorted(d)])))

-----------------------------------------------------------------------------
(* What is exported: the entries of each directory and its totals *)

Whole == [files |-> order, totals |-> total]

Summary == [files |-> [d \in Dirs |-> <<>>], totals |-> total]

\* A copy of the root with the largest files, updated.
Top(count) ==
  LET files == [d \in Dirs |-> IF d = Root THEN TopFiles(count) ELSE <<>>] IN
    [files |-> files, totals |-> StatsOf(files, FALSE, Inode, <<>>)]

\* Mutant: the copies have no totals.
LimitedUntold(depth) ==
  [files |-> [d \in Dirs |-> IF Depth[d] < depth THEN Sorted(d) ELSE <<>>],
   totals |-> [d \in Dirs |-> [items |-> 0, size |-> 0, usage |-> 0]]]

\* Copies of the directories as far as the depth, with their totals.
Limited(depth) ==
  [files |-> [d \in Dirs |-> IF Depth[d] < depth THEN Sorted(d) ELSE <<>>], totals |-> total]

-----------------------------------------------------------------------------
(* Import; attributes is "all", or "selected" when --output-attrs names those  *)
(* of the totals and no inode is written.                                     *)

HasEmptyDirPlaceholderStats(x) == x = [items |-> 1, size |-> EmptyDirSize, usage |-> 0]

\* preserveTruncatedStats: of a directory without entries.
Pinned(report) ==
  {d \in Dirs : report.files[d] = <<>> /\ ~HasEmptyDirPlaceholderStats(report.totals[d])}

\* processDir and UpdateStats.
Imported(report, attributes) ==
  StatsOf(report.files, FALSE,
          [f \in Files |-> IF attributes = "all" THEN Inode[f] ELSE NoInode],
          [d \in Pinned(report) |-> report.totals[d]])

-----------------------------------------------------------------------------
(* Properties *)

Listed(report) == ToSet(Walk(report.files))

Shown(report) ==
  LET shown[d \in Dirs] == d = Root \/ (shown[Parent[d]] /\ d \in ToSet(report.files[Parent[d]]))
  IN {d \in Dirs : shown[d]}

\* An inode has one link in the report and one that was cut off.
Torn(report) ==
  \E e \in Listed(report), x \in (Files \cap Present) \ Listed(report) :
    Inode[e] # NoInode /\ Inode[e] = Inode[x]

\* Two links of one inode are in the report.
Doubled(report) ==
  \E e, x \in Listed(report) : e # x /\ Inode[e] # NoInode /\ Inode[e] = Inode[x]

\* A report read back shows the totals that were exported: of every directory
\* when it was exported whole, of the root and of what was cut off otherwise.
\* That takes what is not written: the filters, and inodes that are known to
\* have another link in the report.
ReportsRoundTrip ==
  updated =>
    /\ ~filtering => \A d \in Shown(Whole) : Imported(Whole, "all")[d] = total[d]
    /\ \A attributes \in {"all", "selected"} : Imported(Summary, attributes)[Root] = total[Root]
    /\ \A count \in 1..2 : Imported(Top(count), "all")[Root] = Top(count).totals[Root]
    /\ \A depth \in 1..3, attributes \in {"all", "selected"} :
         LET report == Limited(depth) IN
           /\ \A d \in Shown(report) : Depth[d] = depth => Imported(report, attributes)[d] = total[d]
           /\ ~filtering /\ ~Torn(report) /\ (attributes = "all" \/ ~Doubled(report)) =>
                Imported(report, attributes)[Root] = total[Root]

\* The list of the largest files is that: no file left out is larger than one
\* in the list, and the list is as long as it can be.
TopIsLargest ==
  \A count \in 1..2 :
    LET list == TopFiles(count)
        all == Present \cap Files
    IN /\ Len(list) = Min({count, Cardinality(all)})
       /\ IsInjective(list) /\ ToSet(list) \subseteq all
       /\ \A i \in DOMAIN list, x \in all \ ToSet(list) : BytesOf(x) <= BytesOf(list[i])
       /\ \A i, j \in DOMAIN list : i < j => BytesOf(list[i]) >= BytesOf(list[j])
=============================================================================
