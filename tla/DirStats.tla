------------------------------ MODULE DirStats ------------------------------
(***************************************************************************)
(* Directory totals (pkg/analyze/file.go): updateStats folds the entries of  *)
(* a directory in the order of Files, which is the order the scan happened   *)
(* to append them in, and counts an inode at the first of its links; a       *)
(* removal subtracts what an item holds from the directories above it; a     *)
(* rescan puts a new directory in the place of the old one and updates all.  *)
(*                                                                           *)
(* A removal is one action here; its interleavings are those of DeleteQueue. *)
(* The disk usage of a file is taken to be its size; tokens go with it.      *)
(***************************************************************************)
EXTENDS HardLinks, SequencesExt

CONSTANT MaxChanges   \* bound: removals and rescans

VARIABLES
  filtering,  \* IsFilteringFiles
  order,      \* dir.Files
  total,      \* ItemCount, Size and Usage of each directory
  flags,      \* Flag of each directory
  counted,    \* the files the last updateStats counted in full
  truncated,  \* the files that were emptied: no size any more
  changes,    \* removals and rescans so far
  updated,    \* history: nothing was removed since updateStats
  missed      \* history: a link that counted nothing was removed

statVars == <<filtering, order, total, flags, counted, truncated, changes, updated, missed>>

Orders(S) == SetToSeqs(S)
Above(e) == {d \in Dirs : d = Root \/ e \in SubtreeOf[d]} \ {e}
BytesOf(e) == IF e \in truncated THEN 0 ELSE Bytes[e]

\* The entries of the tree.
Present ==
  LET present[e \in Entries] ==
        e \in ToSet(order[Parent[e]]) /\ (Parent[e] = Root \/ present[Parent[e]])
  IN {e \in Entries : present[e]}

\* The files in the order updateStats meets them.
Walk(files) ==
  LET walk[d \in Dirs] ==
        FlattenSeq([i \in DOMAIN files[d] |-> IF files[d][i] \in Dirs THEN walk[files[d][i]] ELSE <<files[d][i]>>])
  IN walk[Root]

\* Mutant: every link counts.
EveryLink(files, inode) == ToSet(Walk(files))

\* alreadyCounted: the first link of an inode counts.
FirstLinks(files, inode) ==
  LET walk == Walk(files) IN
    {walk[i] : i \in {j \in DOMAIN walk :
       inode[walk[j]] = NoInode \/ \A k \in 1..(j - 1) : inode[walk[k]] # inode[walk[j]]}}

\* resolveDirStats: no entries or, with filters, nothing but empty directories.
Resolved(sums, entries, filter) ==
  IF entries = {} \/ (filter /\ entries \subseteq Dirs /\ sums.items = Cardinality(entries) + 1)
  THEN [items |-> 1, size |-> sums.size + EmptyDirSize, usage |-> 0]
  ELSE sums

\* updateStats of the whole tree.  A directory in the domain of pinned keeps
\* the totals an import has set.
StatsOf(files, filter, inode, pinned) ==
  LET full == FirstLinks(files, inode)
      stats[d \in Dirs] ==
        LET entries == ToSet(files[d])
            dirs == entries \cap Dirs
            own == MapThenSumSet(BytesOf, entries \cap full)
        IN IF d \in DOMAIN pinned THEN pinned[d]
           ELSE Resolved([items |-> 1 + Cardinality(entries \ dirs) + MapThenSumSet(LAMBDA c : stats[c].items, dirs),
                          size |-> own + MapThenSumSet(LAMBDA c : stats[c].size, dirs),
                          usage |-> own + MapThenSumSet(LAMBDA c : stats[c].usage, dirs)],
                         entries, filter)
  IN stats

\* The flags, from those the directories have.
FlagsOf(files, old) ==
  LET flag[d \in Dirs] ==
        IF old[d] # "!" /\ \E c \in ToSet(files[d]) \cap Dirs : flag[c] \in {"!", "."} THEN "." ELSE old[d]
  IN flag

\* What processDir gives a directory.
ReadFlag(broken, files) == IF broken THEN "!" ELSE IF files = <<>> THEN "e" ELSE " "

-----------------------------------------------------------------------------
Init ==
  /\ filtering \in BOOLEAN
  /\ order \in {o \in [Dirs -> UNION {Orders(Children(d)) : d \in Dirs}] :
                  \A d \in Dirs : o[d] \in Orders(Children(d))}
  /\ truncated = {}
  /\ \E broken \in {{}} \cup {{d} : d \in Dirs} :   \* bound: one at first
       flags = FlagsOf(order, [d \in Dirs |-> ReadFlag(d \in broken, order[d])])
  /\ total = StatsOf(order, filtering, Inode, <<>>)
  /\ counted = FirstLinks(order, Inode)
  /\ changes = 0
  /\ updated = TRUE /\ missed = FALSE

Change == changes < MaxChanges /\ changes' = changes + 1 /\ UNCHANGED filtering

Holds(e) == IF e \in Dirs THEN total[e] ELSE [items |-> 1, size |-> BytesOf(e), usage |-> BytesOf(e)]
Minus(x, y) == [items |-> x.items - y.items, size |-> x.size - y.size, usage |-> x.usage - y.usage]

\* subtractStats
Subtracted(e) == [d \in Dirs |-> IF d \in Above(e) THEN Minus(total[d], Holds(e)) ELSE total[d]]

\* RemoveFile, of a file or of a directory.
RemoveFile(e) ==
  /\ Change
  /\ e \in Present
  /\ order' = [order EXCEPT ![Parent[e]] = SelectSeq(@, LAMBDA x : x # e)]
  /\ total' = Subtracted(e)
  /\ updated' = FALSE
  /\ missed' = (missed \/ (e \in Files /\ e \notin counted))
  /\ UNCHANGED <<flags, counted, truncated>>

\* EmptyFileFromDir: RemoveFile, and AddFile of a file without size.  A file
\* with several links is not emptied here: its other links would lose their
\* contents, of which the tree is not told.
Empty(e) ==
  /\ Change
  /\ e \in Files \cap Present /\ Inode[e] = NoInode
  /\ order' = [order EXCEPT ![Parent[e]] = Append(SelectSeq(@, LAMBDA x : x # e), e)]
  /\ total' = Subtracted(e)
  /\ truncated' = truncated \cup {e}
  /\ updated' = FALSE
  /\ UNCHANGED <<flags, counted, missed>>

\* AnalyzePath with a parent: RemoveFileByName, AddFile, and updateStats of
\* everything with no inode counted yet.  What is in the new directory comes
\* in a new order, and may have become readable, or unreadable.
Rescan(d) ==
  /\ Change
  /\ d # Root /\ d \in Present
  /\ LET inside == SubtreeOf[d] \cap Dirs IN
       \E new \in [inside -> UNION {Orders(ToSet(order[x])) : x \in inside}], broken \in SUBSET inside :
         /\ \A x \in inside : new[x] \in Orders(ToSet(order[x]))
         /\ order' = [x \in Dirs |-> IF x \in inside THEN new[x]
                                     ELSE IF x = Parent[d] THEN Append(SelectSeq(order[x], LAMBDA y : y # d), d)
                                     ELSE order[x]]
         /\ flags' = FlagsOf(order', [x \in Dirs |-> IF x \in inside THEN ReadFlag(x \in broken, new[x]) ELSE flags[x]])
  /\ total' = StatsOf(order', filtering, Inode, <<>>)
  /\ counted' = FirstLinks(order', Inode)
  /\ updated' = TRUE /\ missed' = FALSE
  /\ UNCHANGED truncated

Next ==
  \/ \E e \in Entries : RemoveFile(e) \/ Empty(e)
  \/ \E d \in Dirs : Rescan(d)

Spec == Init /\ [][Next]_statVars

-----------------------------------------------------------------------------
(* Properties *)

TypeOK ==
  /\ \A d \in Dirs : order[d] \in Seq(Children(d))
  /\ total \in [Dirs -> [items : Int, size : Int, usage : Int]]
  /\ flags \in [Dirs -> {" ", "e", ".", "!"}]
  /\ counted \subseteq Files /\ truncated \subseteq Files
  /\ changes \in 0..MaxChanges

\* The report does not depend on the order the scan appended its entries in:
\* each inode and each file is counted once, each empty directory with its 512
\* bytes, and each entry as an item, those below a directory that the filters
\* left without files excepted.
CountsAreExact ==
  updated =>
    LET files == Present \cap Files
        links == {e \in files : Inode[e] # NoInode}
        inodes == {Inode[e] : e \in links}
        usage == MapThenSumSet(BytesOf, files \ links)
                   + MapThenSumSet(LAMBDA i : BytesOf(CHOOSE e \in links : Inode[e] = i), inodes)
        bare == {d \in (Present \cap Dirs) \cup {Root} : \A e \in files : d \notin Above(e)}
        empty == {d \in bare : filtering \/ order[d] = <<>>}
        hidden == {e \in Present : filtering /\ Above(e) \cap bare # {}}
    IN total[Root] = [items |-> 1 + Cardinality(Present \ hidden),
                      size |-> usage + EmptyDirSize * Cardinality(empty), usage |-> usage]

\* An unreadable directory shows in every directory above it.
ErrorsAreFlagged ==
  updated => \A d \in Present \cap Dirs : flags[d] \in {"!", "."} => flags[Parent[d]] \in {"!", "."}

\* Removals leave every directory with the sum of its entries, as long as no
\* link is removed whose inode was counted elsewhere.
SumsHold ==
  \A d \in (Present \cap Dirs) \cup {Root} :
    LET entries == ToSet(order[d])
        Usage(e) == IF e \in Dirs THEN total[e].usage ELSE IF e \in counted THEN BytesOf(e) ELSE 0
        ItemsOf(e) == IF e \in Dirs THEN total[e].items ELSE 1
    IN /\ missed \/ total[d].usage = MapThenSumSet(Usage, entries)
       /\ filtering \/ truncated # {} \/ total[d].items = 1 + MapThenSumSet(ItemsOf, entries)
=============================================================================
