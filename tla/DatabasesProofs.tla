-------------------------- MODULE DatabasesProofs ---------------------------
(***************************************************************************)
(* The six invariants of Databases for every tree, every number of slots,    *)
(* of delete workers and of requests, and every ReopenAt.                    *)
(*                                                                           *)
(* The argument: each component has an inductive invariant, and a behaviour  *)
(* is that of one of them.                                                   *)
(*  - StoredInv: a directory's goroutine is started by the one above, which  *)
(*    lists it, and has its record written when it is stored; UpdateStats    *)
(*    comes back up after having gone down, so that what it has updated is   *)
(*    the sum of what it has updated below.                                  *)
(*  - BrowsingInv: a removal subtracts from the records of the directories   *)
(*    above and from no other, which are the ones whose sum changed.         *)
(*  - DatabaseTreeInv: behind the modal one job runs, of an item on screen,   *)
(*    so that what it takes off is what its row has; the chain of items above *)
(*    the one removed is the lineage of its row.  In the background a removal *)
(*    from an item that is older than its row makes the totals stale.         *)
(*  - SqliteScanInv: a directory that waits is waited for, so that nothing   *)
(*    is under way below one that is finished; its total is the sum of the   *)
(*    rows that are in, but for those of the directories it waits for.       *)
(***************************************************************************)
EXTENDS Databases, TreeFacts

-----------------------------------------------------------------------------
(* An entry and the directories above it *)

Lineage(e) == {x \in Dirs \cup Files : x = Root \/ e \in SubtreeOf[x]}

\* What is below something below an entry is below the entry.
LEMMA SubtreeNests == \A x \in Entries : \A y \in SubtreeOf[x] : SubtreeOf[y] \subseteq SubtreeOf[x]
<1> DEFINE Good == {x \in Dirs \cup Files : x \in Entries => \A y \in SubtreeOf[x] : SubtreeOf[y] \subseteq SubtreeOf[x]}
<1>1. ASSUME NEW x \in Dirs \cup Files, \A c \in Entries : Parent[c] = x => c \in Good
      PROVE  x \in Good
  <2> SUFFICES ASSUME x \in Entries, NEW y \in SubtreeOf[x] PROVE SubtreeOf[y] \subseteq SubtreeOf[x]
    OBVIOUS
  <2>1. CASE y # x
    <3>1. PICK c \in Entries : Parent[c] = x /\ y \in SubtreeOf[c]
      BY <2>1, SubtreeEquation
    <3>2. SubtreeOf[y] \subseteq SubtreeOf[c]
      BY <1>1, <3>1
    <3>3. SubtreeOf[c] \subseteq SubtreeOf[x]
      BY <3>1, SubtreeEquation
    <3> QED
      BY <3>2, <3>3
  <2> QED
    BY <2>1
<1>2. Dirs \cup Files \subseteq Good
  BY <1>1, UpTheTree
<1> QED
  BY <1>2 DEF Entries

LEMMA ParentIsNotBelow == \A x \in Entries : Parent[x] \notin SubtreeOf[x]
<1> SUFFICES ASSUME NEW x \in Entries, Parent[x] \in SubtreeOf[x] PROVE FALSE
  OBVIOUS
<1> DEFINE S == SubtreeOf[x] \cap Dirs
<1>1. S \in SUBSET (Dirs \ {Root}) /\ S # {}
  BY SubtreeFacts, ListingFacts DEF Entries
<1>2. PICK d \in S : Parent[d] \notin S
  BY <1>1, AcyclicAssumption
<1>3. d \in Entries /\ Parent[d] \in Dirs
  BY <1>1, ListingFacts DEF Entries
<1>4. Parent[d] \in SubtreeOf[x]
  BY <1>2, BelowFacts
<1> QED
  BY <1>2, <1>3, <1>4

\* Of siblings, an entry is below one only.
LEMMA OneBranch ==
  \A e \in Entries : \A b, c \in Entries :
    Parent[b] = Parent[c] /\ e \in SubtreeOf[b] /\ e \in SubtreeOf[c] => b = c
<1> DEFINE Good == {e \in Entries : \A b, c \in Entries :
                      Parent[b] = Parent[c] /\ e \in SubtreeOf[b] /\ e \in SubtreeOf[c] => b = c}
<1>1. ASSUME NEW e \in Entries, Parent[e] = Root \/ Parent[e] \in Good PROVE e \in Good
  <2> SUFFICES ASSUME NEW b \in Entries, NEW c \in Entries, Parent[b] = Parent[c],
                      e \in SubtreeOf[b], e \in SubtreeOf[c], b # c
               PROVE  FALSE
    OBVIOUS
  <2>1. \A x \in {b, c} : e # x => Parent[e] # Root /\ Parent[e] \in SubtreeOf[x]
    BY BelowFacts
  <2>2. e # b
    BY <2>1, ParentIsNotBelow
  <2>3. e # c
    BY <2>1, ParentIsNotBelow
  <2> QED
    BY <1>1, <2>1, <2>2, <2>3
<1>2. Entries \subseteq Good
  BY <1>1, DownTheTree
<1> QED
  BY <1>2

LEMMA LineageFacts ==
  ASSUME NEW e \in Dirs \cup Files
  PROVE  /\ e \in Lineage(e) /\ Root \in Lineage(e)
         /\ \A x \in Lineage(e) \ {e} : x \in Dirs
         /\ \A x \in Lineage(e) \ {Root} :
              x \in Entries /\ Parent[x] \in Lineage(e) /\ Parent[x] # e /\ Parent[x] \in Dirs
         /\ \A d \in Lineage(e) \ {e} : \E c \in Children(d) :
              c \in Lineage(e) /\ \A b \in Children(d) : b \in Lineage(e) => b = c
<1>1. e \in Lineage(e) /\ Root \in Lineage(e)
  BY SubtreeFacts, TreeAssumption DEF Lineage, Entries
<1>2. \A x \in Lineage(e) \ {e} : x \in Dirs
  <2> SUFFICES ASSUME NEW x \in Lineage(e), x # e, x \notin Dirs PROVE FALSE
    OBVIOUS
  <2>1. x \in Entries /\ e \in SubtreeOf[x]
    BY TreeAssumption DEF Lineage, Entries
  <2>2. PICK c \in Entries : Parent[c] = x
    BY <2>1, SubtreeEquation
  <2> QED
    BY <2>2, ListingFacts
<1>3. ASSUME NEW x \in Lineage(e) \ {Root}
      PROVE  x \in Entries /\ Parent[x] \in Lineage(e) /\ Parent[x] # e /\ Parent[x] \in Dirs
  <2>1. x \in Entries /\ e \in SubtreeOf[x] /\ Parent[x] \in Dirs
    BY <1>3, ListingFacts DEF Lineage, Entries
  <2>2. Parent[x] # e
    BY <2>1, ParentIsNotBelow
  <2>3. Parent[x] \in Lineage(e)
    BY <2>1, SubtreeFacts DEF Lineage
  <2> QED
    BY <2>1, <2>2, <2>3
<1>4. ASSUME NEW d \in Lineage(e) \ {e}
      PROVE  \E c \in Children(d) : c \in Lineage(e) /\ \A b \in Children(d) : b \in Lineage(e) => b = c
  <2>1. e \in Entries
    <3> SUFFICES ASSUME e = Root PROVE FALSE
      BY DEF Entries
    <3>1. d \in Entries /\ Root \in SubtreeOf[d]
      BY <1>4 DEF Lineage, Entries
    <3> QED
      BY <3>1, SubtreeFacts DEF Entries
  <2>2. PICK c \in Children(d) : e \in SubtreeOf[c]
    <3>1. CASE d = Root
      <4> DEFINE Good == {x \in Entries : \E c \in Children(Root) : x \in SubtreeOf[c]}
      <4>1. ASSUME NEW x \in Entries, Parent[x] = Root \/ Parent[x] \in Good PROVE x \in Good
        <5>1. CASE Parent[x] = Root
          BY <5>1, SubtreeFacts DEF Children
        <5>2. CASE Parent[x] \in Good
          <6>1. PICK c \in Children(Root) : Parent[x] \in SubtreeOf[c]
            BY <5>2
          <6>2. x \in SubtreeOf[Parent[x]] /\ c \in Entries
            BY <5>2, SubtreeFacts, ListingFacts DEF Entries
          <6> QED
            BY <6>1, <6>2, SubtreeNests
        <5> QED
          BY <4>1, <5>1, <5>2
      <4>2. Entries \subseteq Good
        BY <4>1, DownTheTree
      <4> QED
        BY <2>1, <3>1, <4>2
    <3>2. CASE d # Root
      <4>1. d \in Entries /\ e \in SubtreeOf[d] /\ e # d
        BY <1>4, <3>2 DEF Lineage, Entries
      <4> QED
        BY <4>1, SubtreeEquation DEF Children
    <3> QED
      BY <3>1, <3>2
  <2>3. \A b \in Children(d) : b \in Entries /\ Parent[b] = d
    BY ListingFacts
  <2>4. c \in Lineage(e)
    BY <2>2, <2>3 DEF Lineage, Entries
  <2>5. \A b \in Children(d) : b \in Lineage(e) => e \in SubtreeOf[b]
    BY <2>3 DEF Lineage, Entries
  <2> QED
    BY <2>1, <2>2, <2>3, <2>4, <2>5, OneBranch
<1> QED
  BY <1>1, <1>2, <1>3, <1>4

LEMMA LineageUp ==
  /\ Lineage(Root) = {Root}
  /\ \A e \in Entries : Lineage(e) = {e} \cup Lineage(Parent[e])
<1>1. Lineage(Root) = {Root}
  BY SubtreeFacts, TreeAssumption DEF Lineage, Entries
<1>2. ASSUME NEW e \in Entries PROVE Lineage(e) = {e} \cup Lineage(Parent[e])
  <2>1. ASSUME NEW x \in Lineage(e), x # e PROVE x \in Lineage(Parent[e])
    <3>1. x = Root \/ (x \in Entries /\ e \in SubtreeOf[x])
      BY <2>1 DEF Lineage, Entries
    <3>2. x \in Dirs \cup Files
      BY <2>1 DEF Lineage
    <3> QED
      BY <2>1, <3>1, <3>2, BelowFacts DEF Lineage
  <2>2. ASSUME NEW x \in Lineage(Parent[e]) PROVE x \in Lineage(e)
    <3>1. x = Root \/ (x \in Entries /\ Parent[e] \in SubtreeOf[x])
      BY <2>2 DEF Lineage, Entries
    <3>2. x \in Dirs \cup Files
      BY <2>2 DEF Lineage
    <3>3. CASE x # Root
      <4>1. Parent[e] # Root
        BY <3>1, <3>3, SubtreeFacts DEF Entries
      <4>2. e \in SubtreeOf[Parent[e]] /\ SubtreeOf[Parent[e]] \subseteq SubtreeOf[x]
        BY <3>1, <3>3, <4>1, SubtreeFacts, SubtreeNests
      <4> QED
        BY <3>2, <4>2 DEF Lineage
    <3> QED
      BY <3>2, <3>3 DEF Lineage
  <2>3. e \in Lineage(e)
    BY SubtreeFacts DEF Lineage, Entries
  <2> QED
    BY <2>1, <2>2, <2>3
<1> QED
  BY <1>1, <1>2

LEMMA LineageApart == \A e \in Entries : \A x \in Lineage(Parent[e]) : x \notin SubtreeOf[e]
<1> SUFFICES ASSUME NEW e \in Entries, NEW x \in Lineage(Parent[e]), x \in SubtreeOf[e] PROVE FALSE
  OBVIOUS
<1>1. x # Root
  BY SubtreeFacts DEF Entries
<1>2. Parent[e] \in SubtreeOf[x]
  BY <1>1 DEF Lineage
<1>3. SubtreeOf[x] \subseteq SubtreeOf[e]
  BY SubtreeNests
<1> QED
  BY <1>2, <1>3, ParentIsNotBelow
-----------------------------------------------------------------------------
(* The invariant of StoredScan *)

Flags == {" ", "e", ".", "!"}
RecordsOf(d) == [lists : SUBSET Children(d), size : Nat, flag : Flags, scan : 0..scans]

StoredTypes ==
  /\ main \in {"idle", "scanning", "waiting", "locking", "sleeping", "returned",
               "updating", "done", "panicked"}
  /\ scans \in 0..MaxScans
  /\ worker \in [Dirs -> {"none", "spawned", "admitted", "listed", "stored", "finished"}]
  /\ listing = [d \in Dirs |-> listing[d]]
  /\ \A d \in Dirs : listing[d] \in RecordsOf(d)
  /\ DOMAIN records \subseteq Dirs /\ \A d \in DOMAIN records : records[d] \in RecordsOf(d)
  /\ DOMAIN loaded \subseteq Dirs /\ \A d \in DOMAIN loaded : loaded[d] \in RecordsOf(d)
  /\ updated \subseteq expanded /\ expanded \subseteq DOMAIN loaded
  /\ ops \in 0..(ReopenAt - 1) /\ waitValue \in Int
  /\ db \in BOOLEAN /\ waitLocked \in BOOLEAN /\ cancelled \in BOOLEAN /\ overslept \in BOOLEAN /\ whole \in BOOLEAN /\ failed \in BOOLEAN

\* AnalyzeDir has not returned.
Analyzing == main \in {"scanning", "waiting", "locking", "sleeping"}

References ==
  /\ opens \in Nat
  /\ Analyzing => opens = 1 /\ db /\ ~overslept
  /\ main \in {"idle", "returned", "done"} => opens = 0
  /\ main = "updating" => opens = Cardinality(expanded \ updated)
  /\ ~overslept => main # "panicked" /\ (db <=> opens > 0)

\* A goroutine was started by that of the directory above, which lists it.
Goroutines ==
  /\ worker[Root] # "spawned"
  /\ worker[Root] \in {"admitted", "listed", "stored"} => main = "scanning"
  /\ main \notin {"idle", "scanning", "panicked"} => worker[Root] = "finished"
  /\ main = "idle" => StoredScan!Running = {}
  /\ ~overslept /\ ~Analyzing => StoredScan!Running = {}
  /\ \A d \in Dirs : worker[d] \in {"listed", "stored", "finished"} =>
       listing[d].scan = scans /\ \A c \in listing[d].lists \cap Dirs : worker[c] # "none"
  /\ \A d \in Dirs \ {Root} : worker[d] # "none" =>
       worker[Parent[d]] \in {"listed", "stored", "finished"} /\ d \in listing[Parent[d]].lists

\* The records of this scan are those of the directories that are stored.
RecordsInv ==
  main # "idle" /\ ~failed /\ ~overslept =>
    \A d \in Dirs :
      /\ worker[d] \in {"stored", "finished"} <=> d \in DOMAIN records /\ records[d].scan = scans
      /\ worker[d] \in {"stored", "finished"} => records[d].lists = listing[d].lists

\* UpdateStats descends to what is listed and comes back up.
Descent ==
  /\ \A d \in DOMAIN loaded \ {Root} : Parent[d] \in expanded /\ d \in loaded[Parent[d]].lists
  /\ \A d \in expanded : loaded[d].lists \cap Dirs \subseteq DOMAIN loaded
  /\ \A d \in updated : loaded[d].lists \cap Dirs \subseteq updated

\* The totals of a record are those of what it lists in a store.
RecordAgrees(store, r) ==
  LET sizes == [e \in r.lists |-> IF e \in Dirs THEN store[e].size ELSE Bytes[e]] IN
    /\ r.size = IF r.lists = {} THEN EmptyDirSize ELSE SumOver(sizes, r.lists)
    /\ \A c \in r.lists \cap Dirs : store[c].flag \in {"!", "."} => r.flag \in {"!", "."}

\* What UpdateStats has loaded is what this scan found, and what it has updated
\* is in the store, with the totals of what it lists.
LoadedInv ==
  main \in {"updating", "done"} /\ ~failed /\ ~overslept =>
    /\ Root \in DOMAIN loaded
    /\ \A d \in DOMAIN loaded :
         worker[d] = "finished" /\ loaded[d].lists = listing[d].lists /\ loaded[d].scan = scans
    /\ \A d \in updated : records[d] = loaded[d] /\ RecordAgrees(loaded, loaded[d])
    /\ main = "done" => Root \in updated

StoredInv ==
  /\ StoredTypes /\ References /\ Goroutines /\ RecordsInv /\ Descent /\ LoadedInv
  /\ whole /\ ~overslept => main \in {"idle", "done"}
  /\ StoredScan!TotalsAreInTheStore


StoredLocal == <<StoredScan!vars>>

LEMMA SameStoredTree ==
  /\ \A d : StoredScan!Children(d) = Children(d)
  /\ \A f, S : StoredScan!SumOver(f, S) = SumOver(f, S)
  /\ \A S : StoredScan!Cardinality(S) = Cardinality(S)
  /\ StoredScan!EmptyDirSize = EmptyDirSize
BY DEF StoredScan!EmptyDirSize, EmptyDirSize, StoredScan!Cardinality, Cardinality, StoredScan!Children, Children, StoredScan!Entries, Entries, StoredScan!SumOver, SumOver,
       StoredScan!FoldSet, FoldSet, StoredScan!MapThenFoldSet, MapThenFoldSet

LEMMA StoredStarts ==
  ASSUME StoredScan!Init
  PROVE  StoredInv
<1>1. StoredTypes
  <2>1. \A d \in Dirs : StoredScan!Nothing \in RecordsOf(d)
    <3>1. scans = 0
      BY DEF StoredScan!Init
    <3> QED
      BY <3>1 DEF StoredScan!Nothing, RecordsOf, Flags
  <2>2. listing = [d \in Dirs |-> listing[d]] /\ \A d \in Dirs : listing[d] \in RecordsOf(d)
    BY <2>1 DEF StoredScan!Init
  <2>3. DOMAIN records = {} /\ DOMAIN loaded = {} /\ updated = {} /\ expanded = {}
    BY DEF StoredScan!Init
  <2>4. ops \in 0..(ReopenAt - 1) /\ scans \in 0..MaxScans /\ waitValue \in Int
    BY DatabasesAssumption DEF StoredScan!Init, StoredScan!WaitInit
  <2> QED
    BY <2>2, <2>3, <2>4 DEF StoredScan!Init, StoredScan!WaitInit, StoredTypes
<1>2. References /\ Goroutines /\ RecordsInv /\ Descent /\ LoadedInv
  BY TreeAssumption DEF StoredScan!Init, References, Goroutines, RecordsInv, Descent, LoadedInv,
     StoredScan!Running, Analyzing
<1>3. StoredScan!TotalsAreInTheStore
  BY DEF StoredScan!Init, StoredScan!TotalsAreInTheStore
<1> QED
  BY <1>1, <1>2, <1>3 DEF StoredInv, StoredScan!Init

\* Steps of AnalyzeDir that change no goroutine and no record.
LEMMA StoredCallSteps ==
  ASSUME StoredInv,
         StoredScan!WaitRead \/ StoredScan!WaitLock \/ StoredScan!Close \/ StoredScan!Cancel
  PROVE  StoredInv'
<1> USE DEF StoredScan!storeVars, StoredScan!scanVars, StoredScan!updateVars, StoredScan!waitVars
<1> DEFINE Same == UNCHANGED <<scans, worker, listing, records, loaded, expanded, updated, ops, failed, whole>>
<1>1. Same /\ main # "idle" /\ main' # "idle" /\ main' # "panicked" /\ main # "panicked" /\ main # "done" /\ main' # "done"
           /\ main # "updating" /\ main' # "updating"
  BY DEF StoredScan!WaitRead, StoredScan!WaitLock, StoredScan!Close, StoredScan!Cancel
<1>2. StoredTypes'
  BY <1>1 DEF StoredInv, StoredTypes, RecordsOf, StoredScan!WaitRead, StoredScan!WaitLock, StoredScan!Close,
     StoredScan!Cancel, StoredScan!WaitAcquire, StoredScan!Release
<1>3. References' /\ (~overslept' => ~overslept)
  <2> USE <1>1 DEF StoredInv, References, Analyzing, StoredScan!WaitRead, StoredScan!WaitLock, StoredScan!Close,
     StoredScan!Cancel, StoredScan!Release
  <2>1. CASE StoredScan!Close
    <3>1. main = "sleeping" /\ opens = 1 /\ db /\ ~overslept /\ main' = "returned"
      BY <2>1
    <3>2. opens' = opens - 1 /\ db' = (db /\ opens' > 0)
      BY <2>1
    <3>3. opens' = 0 /\ ~(opens' > 0)
      BY <3>1, <3>2
    <3>4. ~db'
      BY <3>2, <3>3
    <3> QED
      BY <3>1, <3>3, <3>4
  <2>2. CASE StoredScan!WaitRead \/ StoredScan!WaitLock \/ StoredScan!Cancel
    BY <2>2
  <2> QED
    BY <2>1, <2>2
<1>4. Goroutines'
  BY <1>1 DEF StoredInv, Goroutines, References, Analyzing, StoredScan!Running, StoredScan!WaitRead, StoredScan!WaitLock, StoredScan!Close,
     StoredScan!Cancel
<1>5. RecordsInv'
  BY <1>1, <1>3 DEF StoredInv, RecordsInv
<1>6. Descent' /\ LoadedInv'
  BY <1>1 DEF StoredInv, Descent, LoadedInv
<1>7. ~(whole' /\ ~overslept')
  BY <1>1, <1>3 DEF StoredInv
<1> QED
  BY <1>2, <1>3, <1>4, <1>5, <1>6, <1>7 DEF StoredInv, StoredScan!TotalsAreInTheStore

\* A scan starts when no goroutine is left of the one before.
LEMMA StoredStartKeeps ==
  ASSUME StoredInv, StoredScan!Start
  PROVE  StoredInv'
<1> USE DEF StoredScan!updateVars
<1>0. /\ scans' = scans + 1 /\ main' = "scanning" /\ scans \in 0..MaxScans /\ scans < MaxScans
      /\ worker' = [d \in Dirs |-> IF d = Root THEN "admitted" ELSE "none"]
      /\ opens' = 1 /\ db' = TRUE /\ ops' = 0 /\ overslept' = FALSE /\ whole' = FALSE
      /\ listing' = [d \in Dirs |-> StoredScan!Nothing]
      /\ UNCHANGED <<records, loaded, expanded, updated>> /\ MaxScans \in Nat
  BY DatabasesAssumption DEF StoredInv, StoredTypes, StoredScan!Start
<1>1. \A d \in Dirs : RecordsOf(d) \subseteq RecordsOf(d)' /\ StoredScan!Nothing \in RecordsOf(d)'
  <2>1. 0..scans \subseteq 0..scans' /\ 0 \in 0..scans'
    BY <1>0
  <2>2. TAKE d \in Dirs
  <2>3. RecordsOf(d) \subseteq RecordsOf(d)'
    <3> SUFFICES ASSUME NEW r \in RecordsOf(d) PROVE r \in RecordsOf(d)'
      OBVIOUS
    <3>1. r.scan \in 0..scans'
      BY <2>1 DEF RecordsOf
    <3> QED
      BY <3>1 DEF RecordsOf
  <2>4. StoredScan!Nothing \in RecordsOf(d)'
    BY <2>1 DEF RecordsOf, StoredScan!Nothing, Flags
  <2> QED
    BY <2>3, <2>4
<1>2. StoredTypes'
  <2>1. /\ listing' = [d \in Dirs |-> listing'[d]] /\ \A d \in Dirs : listing'[d] \in RecordsOf(d)'
        /\ \A d \in DOMAIN records : records[d] \in RecordsOf(d)'
        /\ \A d \in DOMAIN loaded : loaded[d] \in RecordsOf(d)'
    BY <1>0, <1>1 DEF StoredInv, StoredTypes
  <2>2. ops' \in 0..(ReopenAt - 1) /\ scans' \in 0..MaxScans
    BY <1>0, DatabasesAssumption
  <2>3. /\ waitLocked' \in BOOLEAN /\ cancelled' \in BOOLEAN /\ failed' \in BOOLEAN
        /\ waitValue' \in Int
    <3>1. waitLocked' = TRUE /\ waitValue' = 0 /\ cancelled' = FALSE /\ failed' = FALSE
      BY DEF StoredScan!Start, StoredScan!WaitReset
    <3>2. waitValue' \in Int
      BY <3>1
    <3> QED
      BY <3>1, <3>2
  <2> QED
    BY <1>0, <2>1, <2>2, <2>3 DEF StoredInv, StoredTypes
<1>3. References' /\ Goroutines'
  BY <1>0, TreeAssumption DEF References, Goroutines, Analyzing, StoredScan!Running
<1>4. RecordsInv'
  <2>1. \A d \in DOMAIN records : records[d].scan # scans'
    BY <1>0 DEF StoredInv, StoredTypes, RecordsOf
  <2> QED
    BY <1>0, <2>1 DEF RecordsInv
<1>5. Descent' /\ LoadedInv'
  BY <1>0 DEF StoredInv, Descent, LoadedInv
<1> QED
  BY <1>0, <1>2, <1>3, <1>4, <1>5 DEF StoredInv, StoredScan!TotalsAreInTheStore

\* The process ends, or the database is removed while none runs.
LEMMA StoredStopKeeps ==
  ASSUME StoredInv, StoredScan!Stop \/ StoredScan!RemoveDb
  PROVE  StoredInv'
<1> USE DEF StoredScan!storeVars, StoredScan!scanVars, StoredScan!updateVars, StoredScan!waitVars
<1>1. CASE StoredScan!Stop
  <2>0. /\ main # "idle" /\ main' = "idle" /\ worker' = [d \in Dirs |-> "none"]
        /\ listing' = [d \in Dirs |-> StoredScan!Nothing]
        /\ DOMAIN loaded' = {} /\ expanded' = {} /\ updated' = {}
        /\ opens' = 0 /\ db' = FALSE /\ ops' = 0 /\ cancelled' = FALSE
        /\ waitValue' = 0 /\ waitLocked' = TRUE
        /\ UNCHANGED <<scans, records, overslept, whole, failed>>
    BY <1>1 DEF StoredScan!Stop, StoredScan!WaitReset
  <2>1. \A d \in Dirs : RecordsOf(d)' = RecordsOf(d) /\ StoredScan!Nothing \in RecordsOf(d)
    <3>1. scans' = scans /\ 0 \in 0..scans
      BY <2>0, DatabasesAssumption DEF StoredInv, StoredTypes
    <3> QED
      BY <3>1 DEF RecordsOf, StoredScan!Nothing, Flags
  <2>2. ops' \in 0..(ReopenAt - 1)
    BY <2>0, DatabasesAssumption
  <2>3. StoredTypes'
    <3>1. listing' = [d \in Dirs |-> listing'[d]] /\ \A d \in Dirs : listing'[d] \in RecordsOf(d)'
      BY <2>0, <2>1
    <3>2. DOMAIN records' \subseteq Dirs /\ \A d \in DOMAIN records' : records'[d] \in RecordsOf(d)'
      BY <2>0, <2>1 DEF StoredInv, StoredTypes
    <3>3. db' \in BOOLEAN /\ waitLocked' \in BOOLEAN /\ cancelled' \in BOOLEAN
      BY <2>0
    <3> QED
      BY <2>0, <2>2, <3>1, <3>2, <3>3 DEF StoredInv, StoredTypes
  <2>4. References' /\ Goroutines' /\ RecordsInv' /\ Descent' /\ LoadedInv'
    BY <2>0, TreeAssumption DEF References, Goroutines, Analyzing, StoredScan!Running, RecordsInv, Descent, LoadedInv
  <2> QED
    BY <2>0, <2>3, <2>4 DEF StoredInv, StoredScan!TotalsAreInTheStore
<1>2. CASE StoredScan!RemoveDb
  <2>0. /\ main = "idle" /\ DOMAIN records' = {}
        /\ UNCHANGED <<main, scans, worker, listing, loaded, expanded, updated, opens, db, ops,
                       waitValue, waitLocked, cancelled, overslept, whole, failed>>
    BY <1>2 DEF StoredScan!RemoveDb
  <2>1. StoredTypes'
    BY <2>0 DEF StoredInv, StoredTypes, RecordsOf
  <2>2. References' /\ Goroutines' /\ RecordsInv' /\ Descent' /\ LoadedInv'
    BY <2>0 DEF StoredInv, References, Goroutines, Analyzing, StoredScan!Running, RecordsInv, Descent, LoadedInv
  <2> QED
    BY <2>0, <2>1, <2>2 DEF StoredInv, StoredScan!TotalsAreInTheStore
<1> QED
  BY <1>1, <1>2

LEMMA BeginUpdateKeeps ==
  ASSUME StoredInv, StoredScan!BeginUpdate
  PROVE  StoredInv'
<1> USE DEF StoredScan!storeVars, StoredScan!scanVars, StoredScan!waitVars
<1>0. /\ main = "returned" /\ main' = "updating" /\ loaded' = [d \in {Root} |-> listing[Root]]
      /\ DOMAIN loaded' = {Root} /\ loaded'[Root] = listing[Root]
      /\ expanded' = {} /\ updated' = {}
      /\ UNCHANGED <<scans, worker, listing, records, opens, db, ops, waitValue, waitLocked,
                     cancelled, overslept, whole, failed>>
  BY DEF StoredScan!BeginUpdate
<1>1. StoredTypes'
  BY <1>0, TreeAssumption DEF StoredInv, StoredTypes, RecordsOf
<1>2. References'
  BY <1>0, FS_EmptySet DEF StoredInv, References, Analyzing
<1>3. Goroutines' /\ RecordsInv' /\ Descent'
  BY <1>0 DEF StoredInv, Goroutines, Analyzing, StoredScan!Running, RecordsInv, Descent
<1>4. LoadedInv'
  <2>1. worker[Root] = "finished" /\ listing[Root].scan = scans
    BY <1>0, TreeAssumption DEF StoredInv, Goroutines
  <2> QED
    BY <1>0, <2>1 DEF LoadedInv
<1> QED
  BY <1>0, <1>1, <1>2, <1>3, <1>4 DEF StoredInv, StoredScan!TotalsAreInTheStore

\* While goroutines run, either AnalyzeDir has not returned or it overslept; in
\* both cases nothing is said of what UpdateStats does.
LEMMA StoredRunning ==
  ASSUME StoredInv, NEW d \in Dirs, worker[d] \notin {"none", "finished"}
  PROVE  /\ main # "idle"
         /\ ~overslept => Analyzing /\ db /\ main # "panicked"
         /\ Analyzing => db /\ ~overslept /\ opens = 1
         /\ ~(whole /\ ~overslept)
<1>1. d \in StoredScan!Running
  BY DEF StoredScan!Running
<1>2. main # "idle" /\ (~overslept => Analyzing)
  BY <1>1 DEF StoredInv, Goroutines
<1> QED
  BY <1>2 DEF StoredInv, References, Analyzing

LEMMA StoredAcquireKeeps ==
  ASSUME StoredInv, NEW d \in Dirs, StoredScan!Acquire(d)
  PROVE  StoredInv'
<1> USE DEF StoredScan!storeVars, StoredScan!updateVars, StoredScan!waitVars
<1>0. /\ worker[d] = "spawned" /\ worker' = [worker EXCEPT ![d] = "admitted"] /\ d # Root
      /\ UNCHANGED <<main, scans, listing, records, loaded, expanded, updated, opens, db, ops,
                     waitValue, waitLocked, cancelled, overslept, whole, failed>>
  BY DEF StoredScan!Acquire, StoredInv, Goroutines
<1>1. main # "idle" /\ (~overslept => Analyzing)
  BY <1>0, StoredRunning
<1>2. StoredTypes'
  BY <1>0 DEF StoredInv, StoredTypes, RecordsOf
<1>3. References' /\ Descent'
  BY <1>0 DEF StoredInv, References, Analyzing, Descent
<1>4. Goroutines'
  BY <1>0, <1>1, TreeAssumption DEF StoredInv, StoredTypes, Goroutines, Analyzing, StoredScan!Running
<1>5. RecordsInv' /\ LoadedInv'
  BY <1>0, <1>1 DEF StoredInv, StoredTypes, RecordsInv, LoadedInv, Analyzing
<1> QED
  BY <1>0, <1>2, <1>3, <1>4, <1>5 DEF StoredInv, StoredScan!TotalsAreInTheStore

\* The sub-directories a directory lists have no goroutine before it has read
\* them, so that what it starts is new.
LEMMA ReadDirKeeps ==
  ASSUME StoredInv, NEW d \in Dirs, StoredScan!ReadDir(d)
  PROVE  StoredInv'
<1> USE DEF StoredScan!storeVars, StoredScan!updateVars
<1>0. /\ worker[d] = "admitted"
      /\ UNCHANGED <<main, scans, records, loaded, expanded, updated, opens, db, ops,
                     cancelled, overslept, whole>>
      /\ waitValue' = waitValue + 1 /\ waitLocked' = waitLocked
  BY DEF StoredScan!ReadDir, StoredScan!WaitAdd
<1>1. PICK lists \in SUBSET Children(d), f \in Flags :
        /\ listing' = [listing EXCEPT ![d] = [lists |-> lists, size |-> 0, scan |-> scans, flag |-> f]]
        /\ worker' = [e \in Dirs |-> IF e = d THEN "listed"
                                      ELSE IF e \in lists THEN "spawned" ELSE worker[e]]
  <2>0. StoredScan!Children(d) = Children(d)
    BY SameStoredTree
  <2>1. PICK read \in SUBSET StoredScan!Children(d), taken \in SUBSET StoredScan!Children(d), broken \in BOOLEAN :
          /\ listing' = [listing EXCEPT ![d] =
                 [lists |-> taken \ StoredSkip, size |-> 0, scan |-> scans,
                  flag |-> IF broken THEN "!" ELSE IF read = {} THEN "e" ELSE " "]]
          /\ worker' = [e \in Dirs |-> IF e = d THEN "listed"
                                      ELSE IF e \in taken \ StoredSkip THEN "spawned" ELSE worker[e]]
    BY DEF StoredScan!ReadDir
  <2> DEFINE ff == IF broken THEN "!" ELSE IF read = {} THEN "e" ELSE " "
  <2>2. taken \ StoredSkip \in SUBSET Children(d) /\ ff \in Flags
    BY <2>0 DEF Flags
  <2> QED
    BY <2>1, <2>2
<1>2. /\ main # "idle" /\ (~overslept => Analyzing) /\ (Analyzing => ~overslept) /\ ~(whole /\ ~overslept)
  BY <1>0, StoredRunning
<1>3. \A c \in lists \cap Dirs : c # Root /\ Parent[c] = d /\ c # d /\ worker[c] = "none"
  BY <1>0, ListingFacts, NoLoop, TreeAssumption DEF StoredInv, Goroutines, StoredTypes, Entries
<1>4. failed' \in BOOLEAN /\ (failed => failed')
  BY DEF StoredScan!ReadDir, StoredInv, StoredTypes
<1>5. /\ listing'[d] = [lists |-> lists, size |-> 0, scan |-> scans, flag |-> f]
      /\ \A x \in Dirs \ {d} : listing'[x] = listing[x]
      /\ worker'[d] = "listed" /\ \A c \in lists \cap Dirs : worker'[c] = "spawned"
      /\ \A x \in (Dirs \ {d}) \ lists : worker'[x] = worker[x]
  BY <1>1, <1>3 DEF StoredInv, StoredTypes
<1>6. StoredTypes'
  <2>1. listing'[d] \in RecordsOf(d)
    BY <1>5 DEF RecordsOf, StoredInv, StoredTypes
  <2>2. \A x \in Dirs : RecordsOf(x)' = RecordsOf(x)
    BY <1>0 DEF RecordsOf
  <2>3. listing' = [x \in Dirs |-> listing'[x]] /\ \A x \in Dirs : listing'[x] \in RecordsOf(x)
    BY <1>1, <1>5, <2>1 DEF StoredInv, StoredTypes
  <2>4. worker' \in [Dirs -> {"none", "spawned", "admitted", "listed", "stored", "finished"}]
    BY <1>1 DEF StoredInv, StoredTypes
  <2>5. waitValue' \in Int
    BY <1>0 DEF StoredInv, StoredTypes
  <2> QED
    BY <1>0, <1>4, <2>2, <2>3, <2>4, <2>5 DEF StoredInv, StoredTypes
<1>7. References' /\ Descent'
  BY <1>0 DEF StoredInv, References, Analyzing, Descent
<1>8. Goroutines'
  <2>1. \A x \in Dirs : worker'[x] \in {"listed", "stored", "finished"} =>
          listing'[x].scan = scans' /\ \A c \in listing'[x].lists \cap Dirs : worker'[c] # "none"
    <3> TAKE x \in Dirs
    <3> HAVE worker'[x] \in {"listed", "stored", "finished"}
    <3>1. \A c \in Dirs : worker[c] # "none" => worker'[c] # "none"
      BY <1>5
    <3>2. CASE x = d
      BY <1>0, <1>5, <3>2
    <3>3. CASE x # d
      BY <1>0, <1>5, <3>1, <3>3 DEF StoredInv, Goroutines
    <3> QED
      BY <3>2, <3>3
  <2>2. \A x \in Dirs \ {Root} : worker'[x] # "none" =>
          worker'[Parent[x]] \in {"listed", "stored", "finished"} /\ x \in listing'[Parent[x]].lists
    <3> TAKE x \in Dirs \ {Root}
    <3> HAVE worker'[x] # "none"
    <3>0. Parent[x] \in Dirs /\ Parent[x] # x
      BY ListingFacts, NoLoop, TreeAssumption DEF Entries
    <3>1. CASE x \in lists
      BY <1>3, <1>5, <3>1
    <3>2. CASE x \notin lists
      <4>1. worker[x] # "none"
        BY <1>0, <1>5, <3>2
      <4>2. worker[Parent[x]] \in {"listed", "stored", "finished"} /\ x \in listing[Parent[x]].lists
        BY <4>1 DEF StoredInv, Goroutines
      <4>3. Parent[x] # d /\ Parent[x] \notin lists
        BY <1>0, <1>3, <3>0, <4>2
      <4> QED
        BY <1>5, <3>0, <4>2, <4>3
    <3> QED
      BY <3>1, <3>2
  <2>3. /\ worker'[Root] # "spawned"
        /\ worker'[Root] \in {"admitted", "listed", "stored"} => main' = "scanning"
        /\ main' \notin {"idle", "scanning", "panicked"} => worker'[Root] = "finished"
    BY <1>0, <1>3, <1>5, TreeAssumption DEF StoredInv, Goroutines
  <2> QED
    BY <1>0, <1>2, <2>1, <2>2, <2>3 DEF Goroutines, Analyzing
<1>9. RecordsInv'
  <2> SUFFICES ASSUME ~failed', ~overslept
               PROVE  \A x \in Dirs :
                  /\ worker'[x] \in {"stored", "finished"} <=> x \in DOMAIN records /\ records[x].scan = scans
                  /\ worker'[x] \in {"stored", "finished"} => records[x].lists = listing'[x].lists
    BY <1>0 DEF RecordsInv
  <2> TAKE x \in Dirs
  <2>1. /\ worker[x] \in {"stored", "finished"} <=> x \in DOMAIN records /\ records[x].scan = scans
        /\ worker[x] \in {"stored", "finished"} => records[x].lists = listing[x].lists
    BY <1>2, <1>4 DEF StoredInv, RecordsInv
  <2>2. worker'[x] \in {"stored", "finished"} <=> worker[x] \in {"stored", "finished"}
    BY <1>0, <1>3, <1>5
  <2> QED
    BY <1>0, <1>5, <2>1, <2>2
<1>10. LoadedInv'
  BY <1>0, <1>2 DEF LoadedInv, Analyzing
<1> QED
  BY <1>0, <1>2, <1>6, <1>7, <1>8, <1>9, <1>10 DEF StoredInv, StoredScan!TotalsAreInTheStore

\* What a goroutine past its listing does to itself only.
LEMMA StoredLater ==
  ASSUME StoredInv, NEW d \in Dirs, worker[d] \in {"listed", "stored"},
         NEW s \in {"stored", "finished"}, worker' = [worker EXCEPT ![d] = s],
         \/ main' = main
         \/ main' = "waiting" /\ d = Root /\ s = "finished"
         \/ main' = "panicked" /\ overslept,
         UNCHANGED <<scans, listing, loaded, expanded, updated, opens, overslept, whole>>
  PROVE  /\ Goroutines' /\ Descent' /\ LoadedInv' /\ main' # "idle" /\ ~(whole' /\ ~overslept')
         /\ worker' \in [Dirs -> {"none", "spawned", "admitted", "listed", "stored", "finished"}]
         /\ worker'[d] = s /\ \A x \in Dirs \ {d} : worker'[x] = worker[x]
<1>1. /\ main # "idle" /\ (~overslept => Analyzing) /\ ~(whole /\ ~overslept)
  BY StoredRunning
<1>2. /\ worker'[d] = s /\ \A x \in Dirs \ {d} : worker'[x] = worker[x]
      /\ worker' \in [Dirs -> {"none", "spawned", "admitted", "listed", "stored", "finished"}]
  BY DEF StoredInv, StoredTypes
<1>3. main' # "idle" /\ (~overslept => Analyzing')
  BY <1>1 DEF Analyzing
<1>4. Goroutines'
  <2>1. \A x \in Dirs : worker'[x] \in {"listed", "stored", "finished"} =>
          listing'[x].scan = scans' /\ \A c \in listing'[x].lists \cap Dirs : worker'[c] # "none"
    BY <1>2 DEF StoredInv, Goroutines
  <2>2. \A x \in Dirs \ {Root} : worker'[x] # "none" =>
          worker'[Parent[x]] \in {"listed", "stored", "finished"} /\ x \in listing'[Parent[x]].lists
    BY <1>2, ListingFacts, TreeAssumption DEF StoredInv, Goroutines, Entries
  <2>3. /\ worker'[Root] # "spawned"
        /\ worker'[Root] \in {"admitted", "listed", "stored"} => main' = "scanning"
        /\ main' \notin {"idle", "scanning", "panicked"} => worker'[Root] = "finished"
    BY <1>1, <1>2, TreeAssumption DEF StoredInv, Goroutines, References, Analyzing
  <2> QED
    BY <1>3, <2>1, <2>2, <2>3 DEF Goroutines
<1>5. Descent' /\ LoadedInv'
  BY <1>3 DEF StoredInv, Descent, LoadedInv, Analyzing
<1> QED
  BY <1>1, <1>2, <1>3, <1>4, <1>5

LEMMA OpsInRange == ASSUME NEW n \in Int PROVE n % ReopenAt \in 0..(ReopenAt - 1)
BY DatabasesAssumption

LEMMA StoreKeeps ==
  ASSUME StoredInv, NEW d \in Dirs,
         StoredScan!Store(d) \/ StoredScan!StoreFails(d) \/ StoredScan!StorePanics(d) \/ StoredScan!Leave(d)
  PROVE  StoredInv'
<1> USE DEF StoredScan!storeVars, StoredScan!updateVars, StoredScan!waitVars
<1> DEFINE Untouched == UNCHANGED <<scans, listing, loaded, expanded, updated, opens, cancelled, overslept, whole>>
<1>0. /\ main # "idle" /\ (~overslept => Analyzing) /\ ~(whole /\ ~overslept) /\ (Analyzing => db)
      /\ worker[d] \in {"listed", "stored"} => d \in Dirs
  BY StoredRunning DEF StoredScan!Store, StoredScan!StoreFails, StoredScan!StorePanics, StoredScan!Leave
<1>1. ASSUME NEW s \in {"stored", "finished"}, worker[d] \in {"listed", "stored"},
             worker' = [worker EXCEPT ![d] = s], Untouched, ops' \in 0..(ReopenAt - 1),
             db' \in BOOLEAN, db => db', waitLocked' \in BOOLEAN, waitValue' \in Int,
             failed' \in BOOLEAN, failed => failed',
             \/ main' = main
             \/ main' = "waiting" /\ d = Root /\ s = "finished"
             \/ main' = "panicked" /\ overslept,
             DOMAIN records' \subseteq Dirs, \A x \in DOMAIN records' : records'[x] \in RecordsOf(x),
             RecordsInv'
      PROVE  StoredInv'
  <2>1. /\ Goroutines' /\ Descent' /\ LoadedInv' /\ main' # "idle" /\ ~(whole' /\ ~overslept')
        /\ worker' \in [Dirs -> {"none", "spawned", "admitted", "listed", "stored", "finished"}]
    BY <1>1, StoredLater
  <2>2. StoredTypes'
    <3>1. \A x \in Dirs : RecordsOf(x)' = RecordsOf(x)
      BY <1>1 DEF RecordsOf
    <3> QED
      BY <1>1, <2>1, <3>1 DEF StoredInv, StoredTypes
  <2>3. References'
    <3>1. d = Root => main = "scanning"
      BY <1>1 DEF StoredInv, Goroutines
    <3>2. (Analyzing' => Analyzing) /\ opens' = opens /\ (overslept' <=> overslept)
      BY <1>1, <3>1 DEF Analyzing
    <3>3. ~overslept => Analyzing /\ opens = 1 /\ db' /\ main' # "panicked"
      BY <1>0, <1>1, <3>1 DEF StoredInv, References, Analyzing
    <3>4. Analyzing => opens = 1 /\ db' /\ ~overslept
      BY <1>0, <1>1 DEF StoredInv, References
    <3>5. opens \in Nat
      BY DEF StoredInv, References
    <3>6. \/ main' = main
          \/ main' = "waiting"
          \/ main' = "panicked"
      BY <1>1
    <3>7. ~overslept' => (db' <=> opens' > 0)
      BY <3>2, <3>3
    <3>8. /\ main' \in {"idle", "returned", "done"} => opens' = 0
          /\ main' = "updating" => opens' = Cardinality(expanded' \ updated')
      BY <1>1, <3>2, <3>6 DEF StoredInv, References
    <3> QED
      BY <3>2, <3>3, <3>4, <3>5, <3>7, <3>8 DEF References
  <2> QED
    BY <1>1, <2>1, <2>2, <2>3 DEF StoredInv, StoredScan!TotalsAreInTheStore
<1>t. /\ ops \in 0..(ReopenAt - 1) /\ ops \in Int /\ waitValue \in Int /\ waitLocked \in BOOLEAN
      /\ db \in BOOLEAN /\ failed \in BOOLEAN
  BY DatabasesAssumption DEF StoredInv, StoredTypes
<1>r. /\ DOMAIN records \subseteq Dirs /\ \A x \in DOMAIN records : records[x] \in RecordsOf(x)
      /\ listing[d] \in RecordsOf(d) /\ worker \in [Dirs -> {"none", "spawned", "admitted", "listed", "stored", "finished"}]
  BY DEF StoredInv, StoredTypes
<1>c. ASSUME StoredScan!CheckCount
      PROVE  ops' \in 0..(ReopenAt - 1) /\ db' \in BOOLEAN /\ (db => db')
  <2>1. ops' = (ops + 1) % ReopenAt /\ db' = (db \/ ops' = 0)
    BY <1>c DEF StoredScan!CheckCount
  <2>2. ops' \in 0..(ReopenAt - 1)
    BY <1>t, <2>1, OpsInRange
  <2>3. db' \in BOOLEAN /\ (db => db')
    BY <2>1
  <2> QED
    BY <2>2, <2>3
<1>2. CASE StoredScan!Store(d)
  <2>1. /\ worker[d] = "listed" /\ worker' = [worker EXCEPT ![d] = "stored"] /\ Untouched
        /\ main' = main /\ UNCHANGED <<waitValue, waitLocked, failed>>
        /\ records' = StoredScan!Put(records, d, listing[d]) /\ StoredScan!CheckCount
    BY <1>2 DEF StoredScan!Store
  <2>p. /\ DOMAIN records' = DOMAIN records \cup {d} /\ records'[d] = listing[d]
        /\ \A x \in DOMAIN records \ {d} : records'[x] = records[x]
    BY <2>1 DEF StoredScan!Put
  <2>2. DOMAIN records' \subseteq Dirs /\ \A x \in DOMAIN records' : records'[x] \in RecordsOf(x)
    BY <1>r, <2>p
  <2>3. RecordsInv'
    <3> SUFFICES ASSUME ~failed, ~overslept, NEW x \in Dirs
                 PROVE  /\ worker'[x] \in {"stored", "finished"} <=> x \in DOMAIN records' /\ records'[x].scan = scans
                        /\ worker'[x] \in {"stored", "finished"} => records'[x].lists = listing[x].lists
      BY <2>1 DEF RecordsInv
    <3>1. /\ worker[x] \in {"stored", "finished"} <=> x \in DOMAIN records /\ records[x].scan = scans
          /\ worker[x] \in {"stored", "finished"} => records[x].lists = listing[x].lists
      BY <1>0 DEF StoredInv, RecordsInv
    <3>2. listing[d].scan = scans
      BY <2>1 DEF StoredInv, Goroutines
    <3>3. CASE x = d
      BY <1>r, <2>1, <2>p, <3>2, <3>3
    <3>4. CASE x # d
      BY <1>r, <2>1, <2>p, <3>1, <3>4
    <3> QED
      BY <3>3, <3>4
  <2> QED
    BY <1>1, <1>c, <1>t, <2>1, <2>2, <2>3
<1>3. CASE StoredScan!StoreFails(d)
  <2>1. /\ worker[d] = "listed" /\ worker' = [worker EXCEPT ![d] = "stored"] /\ Untouched
        /\ main' = main /\ UNCHANGED <<waitValue, waitLocked, records>> /\ failed' = TRUE
        /\ StoredScan!CheckCount
    BY <1>3 DEF StoredScan!StoreFails
  <2>2. RecordsInv'
    BY <2>1 DEF RecordsInv
  <2> QED
    BY <1>1, <1>c, <1>t, <1>r, <2>1, <2>2
<1>4. CASE StoredScan!StorePanics(d)
  <2>1. /\ worker[d] = "listed" /\ worker' = [worker EXCEPT ![d] = "finished"] /\ Untouched
        /\ main' = "panicked" /\ UNCHANGED <<waitValue, waitLocked, records, failed, db, ops>> /\ ~db
    BY <1>4 DEF StoredScan!StorePanics, StoredScan!Panics
  <2>2. overslept /\ RecordsInv'
    BY <1>0, <2>1 DEF RecordsInv
  <2> QED
    BY <1>1, <1>t, <1>r, <2>1, <2>2
<1>5. CASE StoredScan!Leave(d)
  <2>1. /\ worker[d] = "stored" /\ worker' = [worker EXCEPT ![d] = "finished"] /\ Untouched
        /\ main' = IF d = Root THEN "waiting" ELSE main
        /\ waitValue' = waitValue - 1 /\ waitLocked' = (waitLocked /\ waitValue' # 0)
        /\ UNCHANGED <<records, failed, db, ops>>
    BY <1>5 DEF StoredScan!Leave, StoredScan!WaitDone
  <2>2. waitLocked' \in BOOLEAN
    BY <2>1
  <2>3. waitValue' \in Int
    BY <1>t, <2>1
  <2>4. RecordsInv'
    <3>1. \A x \in Dirs : worker'[x] \in {"stored", "finished"} <=> worker[x] \in {"stored", "finished"}
      BY <1>r, <2>1
    <3> QED
      BY <1>0, <2>1, <3>1 DEF StoredInv, RecordsInv
  <2> QED
    BY <1>1, <1>t, <1>r, <2>1, <2>2, <2>3, <2>4
<1> QED
  BY <1>2, <1>3, <1>4, <1>5

\* The totals of a record depend on what it lists only.
LEMMA AgreesSame ==
  ASSUME NEW store, NEW other, NEW r, \A c \in r.lists \cap Dirs : store[c] = other[c],
         RecordAgrees(store, r)
  PROVE  RecordAgrees(other, r)
<1> DEFINE sizes == [e \in r.lists |-> IF e \in Dirs THEN store[e].size ELSE Bytes[e]]
           others == [e \in r.lists |-> IF e \in Dirs THEN other[e].size ELSE Bytes[e]]
<1>1. sizes = others
  OBVIOUS
<1> QED
  BY <1>1 DEF RecordAgrees

\* UpdateStats reads the sub-directories of one that is loaded.
LEMMA ExpandKeeps ==
  ASSUME StoredInv, NEW d \in Dirs, StoredScan!Expand(d)
  PROVE  StoredInv'
<1> USE DEF StoredScan!storeVars, StoredScan!scanVars, StoredScan!waitVars
<1> DEFINE below == loaded[d].lists \cap Dirs
<1>0. /\ main = "updating" /\ main' = main /\ d \in DOMAIN loaded /\ d \notin expanded
      /\ DOMAIN loaded' = DOMAIN loaded \cup below
      /\ \A c \in DOMAIN loaded : loaded'[c] = loaded[c]
      /\ \A c \in below \ DOMAIN loaded :
           loaded'[c] = IF c \in DOMAIN records THEN records[c] ELSE StoredScan!Nothing
      /\ expanded' = expanded \cup {d} /\ opens' = opens + 1 /\ db' = TRUE
      /\ ops' = (ops + Cardinality(below)) % ReopenAt
      /\ UNCHANGED <<scans, worker, listing, records, updated, waitValue, waitLocked,
                     cancelled, overslept, whole, failed>>
  BY SameStoredTree DEF StoredScan!Expand, StoredScan!Open
<1>1. /\ below \subseteq Children(d) /\ IsFiniteSet(below)
      /\ \A c \in below : c \in Dirs /\ c # Root /\ Parent[c] = d
  <2>1. loaded[d] \in RecordsOf(d)
    BY <1>0 DEF StoredInv, StoredTypes
  <2>2. below \subseteq Children(d)
    BY <2>1 DEF RecordsOf
  <2> QED
    BY <2>2, ListingFacts, FS_Subset DEF Entries
<1>2. StoredTypes'
  <2>1. \A x \in Dirs : RecordsOf(x)' = RecordsOf(x) /\ StoredScan!Nothing \in RecordsOf(x)
    <3>1. 0 \in 0..scans
      BY DatabasesAssumption DEF StoredInv, StoredTypes
    <3> QED
      BY <1>0, <3>1 DEF RecordsOf, StoredScan!Nothing, Flags
  <2>2. ops' \in 0..(ReopenAt - 1)
    <3>1. Cardinality(below) \in Nat /\ ops \in Int
      BY <1>1, FS_CardinalityType, DatabasesAssumption DEF StoredInv, StoredTypes
    <3>2. ops + Cardinality(below) \in Int
      BY <3>1
    <3> QED
      BY <1>0, <3>2, OpsInRange
  <2>3. DOMAIN loaded' \subseteq Dirs /\ \A x \in DOMAIN loaded' : loaded'[x] \in RecordsOf(x)
    BY <1>0, <1>1, <2>1 DEF StoredInv, StoredTypes
  <2> QED
    BY <1>0, <2>1, <2>2, <2>3 DEF StoredInv, StoredTypes
<1>3. References'
  <2>1. IsFiniteSet(expanded \ updated) /\ expanded' \ updated' = (expanded \ updated) \cup {d}
        /\ d \notin expanded \ updated
    BY <1>0, FS_Subset, TreeAssumption DEF StoredInv, StoredTypes
  <2>2. Cardinality(expanded' \ updated') = Cardinality(expanded \ updated) + 1
    BY <2>1, FS_AddElement
  <2>3. opens' = Cardinality(expanded' \ updated') /\ opens' \in Nat /\ opens' > 0
    BY <1>0, <2>2 DEF StoredInv, References
  <2> QED
    BY <1>0, <2>3 DEF References, Analyzing
<1>4. Goroutines' /\ RecordsInv'
  BY <1>0 DEF StoredInv, Goroutines, Analyzing, StoredScan!Running, RecordsInv
<1>5. Descent'
  <2>1. /\ \A x \in DOMAIN loaded \ {Root} : Parent[x] \in expanded /\ x \in loaded[Parent[x]].lists
        /\ \A x \in expanded : loaded[x].lists \cap Dirs \subseteq DOMAIN loaded
        /\ \A x \in updated : loaded[x].lists \cap Dirs \subseteq updated
        /\ updated \subseteq expanded /\ expanded \subseteq DOMAIN loaded
    BY DEF StoredInv, StoredTypes, Descent
  <2>2. \A x \in DOMAIN loaded' \ {Root} : Parent[x] \in expanded' /\ x \in loaded'[Parent[x]].lists
    BY <1>0, <1>1, <2>1
  <2>3. \A x \in expanded' : loaded'[x].lists \cap Dirs \subseteq DOMAIN loaded'
    BY <1>0, <1>1, <2>1
  <2>4. \A x \in updated' : loaded'[x].lists \cap Dirs \subseteq updated'
    BY <1>0, <2>1
  <2> QED
    BY <2>2, <2>3, <2>4 DEF Descent
<1>6. LoadedInv'
  <2> SUFFICES ASSUME ~failed, ~overslept
               PROVE  /\ Root \in DOMAIN loaded'
                      /\ \A x \in DOMAIN loaded' :
                           worker[x] = "finished" /\ loaded'[x].lists = listing[x].lists /\ loaded'[x].scan = scans
                      /\ \A x \in updated : records[x] = loaded'[x] /\ RecordAgrees(loaded', loaded'[x])
    BY <1>0 DEF LoadedInv, RecordAgrees
  <2>1. /\ Root \in DOMAIN loaded
        /\ \A x \in DOMAIN loaded :
             worker[x] = "finished" /\ loaded[x].lists = listing[x].lists /\ loaded[x].scan = scans
        /\ \A x \in updated : records[x] = loaded[x] /\ RecordAgrees(loaded, loaded[x])
    BY <1>0 DEF StoredInv, LoadedInv
  <2>2. ASSUME NEW x \in below \ DOMAIN loaded
        PROVE  worker[x] = "finished" /\ loaded'[x].lists = listing[x].lists /\ loaded'[x].scan = scans
    <3>1. worker[x] # "none"
      BY <1>0, <2>1 DEF StoredInv, Goroutines
    <3>2. StoredScan!Running = {}
      BY <1>0 DEF StoredInv, Goroutines, Analyzing
    <3>3. worker[x] = "finished"
      BY <3>1, <3>2 DEF StoredScan!Running
    <3>4. x \in DOMAIN records /\ records[x].scan = scans /\ records[x].lists = listing[x].lists
      BY <1>0, <3>3 DEF StoredInv, RecordsInv
    <3> QED
      BY <1>0, <3>3, <3>4
  <2>3. ASSUME NEW x \in updated
        PROVE  records[x] = loaded'[x] /\ RecordAgrees(loaded', loaded'[x])
    <3>1. x \in DOMAIN loaded /\ loaded[x].lists \cap Dirs \subseteq DOMAIN loaded
      BY DEF StoredInv, StoredTypes, Descent
    <3>2. \A c \in loaded[x].lists \cap Dirs : loaded[c] = loaded'[c]
      BY <1>0, <3>1
    <3>3. RecordAgrees(loaded', loaded[x])
      BY <2>1, <3>2, AgreesSame
    <3> QED
      BY <1>0, <2>1, <3>1, <3>3
  <2> QED
    BY <1>0, <2>1, <2>2, <2>3
<1>7. ~(whole /\ ~overslept)
  BY <1>0 DEF StoredInv
<1> QED
  BY <1>0, <1>2, <1>3, <1>4, <1>5, <1>6, <1>7 DEF StoredInv, StoredScan!TotalsAreInTheStore

\* A directory whose entries are updated gets its totals, in the store too
\* unless that write fails.
LEMMA CommitKeeps ==
  ASSUME StoredInv, NEW d \in Dirs, StoredScan!Commit(d) \/ StoredScan!CommitFails(d)
  PROVE  StoredInv'
<1> USE DEF StoredScan!storeVars, StoredScan!scanVars, StoredScan!waitVars
<1> DEFINE sums == StoredScan!Totals(d)
           below == loaded[d].lists \cap Dirs
<1>0. /\ main = "updating" /\ main' = (IF d = Root THEN "done" ELSE main)
      /\ d \in expanded /\ d \notin updated /\ below \subseteq updated
      /\ loaded' = [loaded EXCEPT ![d] = sums] /\ updated' = updated \cup {d}
      /\ whole' = (d = Root) /\ ops' = (ops + 1) % ReopenAt
      /\ opens' = opens - 1 /\ db' = (db /\ opens' > 0)
      /\ UNCHANGED <<scans, worker, listing, expanded, waitValue, waitLocked, cancelled, overslept>>
  BY DEF StoredScan!Commit, StoredScan!CommitFails, StoredScan!Updated, StoredScan!Updatable,
     StoredScan!Release
<1>a. /\ DOMAIN loaded \subseteq Dirs /\ \A x \in DOMAIN loaded : loaded[x] \in RecordsOf(x)
      /\ DOMAIN records \subseteq Dirs /\ \A x \in DOMAIN records : records[x] \in RecordsOf(x)
      /\ updated \subseteq expanded /\ expanded \subseteq DOMAIN loaded /\ d \in DOMAIN loaded
      /\ loaded[d] \in RecordsOf(d)
  BY <1>0 DEF StoredInv, StoredTypes
<1>1. /\ \A c \in below : c \in Dirs /\ c # Root /\ Parent[c] = d /\ c # d /\ c \in updated
      /\ loaded[d].lists \subseteq Children(d) /\ IsFiniteSet(loaded[d].lists)
  <2>1. loaded[d].lists \subseteq Children(d)
    BY <1>a DEF RecordsOf
  <2> QED
    BY <1>0, <2>1, ListingFacts, NoLoop, FS_Subset DEF Entries
<1> DEFINE sizes == [e \in loaded[d].lists |-> IF e \in Dirs THEN loaded[e].size ELSE Bytes[e]]
           sad == \E c \in below : loaded[c].flag \in {"!", "."}
<1>2. /\ sums \in RecordsOf(d) /\ sums.lists = loaded[d].lists /\ sums.scan = loaded[d].scan
      /\ sums.size = (IF loaded[d].lists = {} THEN EmptyDirSize ELSE SumOver(sizes, loaded[d].lists))
      /\ sad => sums.flag \in {"!", "."}
  <2>1. sums = [loaded[d] EXCEPT
                   !.size = IF loaded[d].lists = {} THEN EmptyDirSize ELSE SumOver(sizes, loaded[d].lists),
                   !.flag = IF sad /\ @ # "!" THEN "." ELSE @]
    BY SameStoredTree DEF StoredScan!Totals
  <2>2. \A e \in loaded[d].lists : sizes[e] \in Nat
    <3> TAKE e \in loaded[d].lists
    <3>1. CASE e \in Dirs
      <4>1. e \in DOMAIN loaded
        BY <1>0, <1>a, <3>1
      <4>2. loaded[e].size \in Nat
        BY <1>a, <4>1 DEF RecordsOf
      <4> QED
        BY <3>1, <4>2
    <3>2. CASE e \notin Dirs
      <4>1. e \in Files
        BY <1>1, <3>2 DEF Children, Entries
      <4> QED
        BY <3>2, <4>1, BytesAssumption
    <3> QED
      BY <3>1, <3>2
  <2>3. SumOver(sizes, loaded[d].lists) \in Nat
    BY <1>1, <2>2, SumTypeNat
  <2> HIDE DEF sums, sizes
  <2> DEFINE size == IF loaded[d].lists = {} THEN EmptyDirSize ELSE SumOver(sizes, loaded[d].lists)
             mark == IF sad /\ loaded[d].flag # "!" THEN "." ELSE loaded[d].flag
  <2>4. size \in Nat /\ mark \in Flags /\ (sad => mark \in {"!", "."})
    <3>1. loaded[d].flag \in Flags
      BY <1>a DEF RecordsOf
    <3>2. size \in Nat
      BY <2>3 DEF EmptyDirSize
    <3>3. mark \in Flags /\ (sad => mark \in {"!", "."})
      BY <3>1 DEF Flags
    <3> QED
      BY <3>2, <3>3
  <2>5. sums = [loaded[d] EXCEPT !.size = size, !.flag = mark]
    BY <1>a, <2>1 DEF RecordsOf
  <2> HIDE DEF size, mark, sad
  <2>6. sums \in RecordsOf(d) /\ sums.lists = loaded[d].lists /\ sums.scan = loaded[d].scan
        /\ sums.size = size /\ sums.flag = mark
    BY <1>a, <2>4, <2>5 DEF RecordsOf
  <2> QED
    BY <2>4, <2>6 DEF size
<1>3. /\ DOMAIN loaded' = DOMAIN loaded /\ loaded'[d] = sums
      /\ \A x \in DOMAIN loaded \ {d} : loaded'[x] = loaded[x]
  BY <1>0, <1>a
<1>4. /\ \A x \in DOMAIN loaded \ {Root} : Parent[x] \in expanded /\ x \in loaded[Parent[x]].lists
      /\ \A x \in expanded : loaded[x].lists \cap Dirs \subseteq DOMAIN loaded
      /\ \A x \in updated : loaded[x].lists \cap Dirs \subseteq updated
  BY DEF StoredInv, Descent
<1>5. /\ DOMAIN records' \subseteq DOMAIN records \cup {d}
      /\ \A x \in DOMAIN records \ {d} : x \in DOMAIN records' /\ records'[x] = records[x]
      /\ d \in DOMAIN records' => records'[d] \in RecordsOf(d)
      /\ failed' \in BOOLEAN
      /\ ~failed' => ~failed /\ DOMAIN records' = DOMAIN records \cup {d} /\ records'[d] = sums
  <2>1. CASE StoredScan!Commit(d)
    <3>1. records' = StoredScan!Put(records, d, sums) /\ failed' = failed
      BY <2>1 DEF StoredScan!Commit
    <3>2. DOMAIN records' = DOMAIN records \cup {d} /\ records'[d] = sums
          /\ \A x \in DOMAIN records \ {d} : records'[x] = records[x]
      BY <3>1 DEF StoredScan!Put
    <3>3. failed' \in BOOLEAN
      BY <3>1 DEF StoredInv, StoredTypes
    <3> QED
      BY <1>2, <3>1, <3>2, <3>3
  <2>2. CASE StoredScan!CommitFails(d)
    <3>1. records' = records /\ failed' = TRUE
      BY <2>2 DEF StoredScan!CommitFails
    <3> QED
      BY <1>a, <3>1
  <2> QED
    BY <2>1, <2>2
<1> HIDE DEF sums, sizes, sad
<1>6. StoredTypes'
  <2>1. \A x \in Dirs : RecordsOf(x)' = RecordsOf(x)
    BY <1>0 DEF RecordsOf
  <2>2. DOMAIN loaded' \subseteq Dirs /\ \A x \in DOMAIN loaded' : loaded'[x] \in RecordsOf(x)
    BY <1>2, <1>3, <1>a
  <2>3. DOMAIN records' \subseteq Dirs /\ \A x \in DOMAIN records' : records'[x] \in RecordsOf(x)
    BY <1>5, <1>a
  <2>4. ops' \in 0..(ReopenAt - 1)
    <3>1. ops + 1 \in Int
      BY DatabasesAssumption DEF StoredInv, StoredTypes
    <3> QED
      BY <1>0, <3>1, OpsInRange
  <2>5. db' \in BOOLEAN /\ whole' \in BOOLEAN
    BY <1>0
  <2>6. main' \in {"updating", "done"} /\ updated' \subseteq expanded' /\ expanded' \subseteq DOMAIN loaded'
    BY <1>0, <1>3, <1>a
  <2> QED
    BY <1>0, <1>5, <2>1, <2>2, <2>3, <2>4, <2>5, <2>6 DEF StoredInv, StoredTypes
<1>7. ASSUME d = Root
      PROVE  \A x \in DOMAIN loaded : x \in updated'
  <2> DEFINE Good == {e \in Entries : e \in DOMAIN loaded => e \in updated}
  <2>1. ASSUME NEW e \in Entries, Parent[e] = Root \/ Parent[e] \in Good PROVE e \in Good
    <3> SUFFICES ASSUME e \in DOMAIN loaded PROVE e \in updated
      OBVIOUS
    <3>1. Parent[e] \in expanded /\ e \in loaded[Parent[e]].lists /\ e \in Dirs
      BY <1>4, <1>a DEF Entries
    <3>2. CASE Parent[e] = Root
      BY <1>0, <1>7, <3>1, <3>2
    <3>3. CASE Parent[e] \in Good
      BY <1>4, <1>a, <3>1, <3>3
    <3> QED
      BY <2>1, <3>2, <3>3
  <2>2. Entries \subseteq Good
    BY <2>1, DownTheTree
  <2> QED
    BY <1>0, <1>7, <1>a, <2>2 DEF Entries
<1>8. References'
  <2>1. IsFiniteSet(expanded \ updated) /\ expanded' \ updated' = (expanded \ updated) \ {d}
        /\ d \in expanded \ updated
    BY <1>0, <1>a, FS_Subset, TreeAssumption
  <2>2. /\ Cardinality(expanded' \ updated') = Cardinality(expanded \ updated) - 1
        /\ Cardinality(expanded' \ updated') \in Nat
    BY <2>1, FS_RemoveElement, FS_CardinalityType, FS_Subset
  <2>3. opens' = Cardinality(expanded' \ updated') /\ opens' \in Nat /\ opens > 0
    BY <1>0, <2>2, <2>1, FS_CardinalityType DEF StoredInv, References
  <2>4. d = Root => opens' = 0
    <3> HAVE d = Root
    <3>1. expanded' \ updated' = {}
      BY <1>0, <1>7, <1>a
    <3> QED
      BY <2>3, <3>1, FS_EmptySet
  <2>5. ~overslept => db
    BY <2>3 DEF StoredInv, References
  <2>6. ~overslept => (db' <=> opens' > 0)
    BY <1>0, <2>5
  <2> QED
    BY <1>0, <2>3, <2>4, <2>6 DEF References, Analyzing
<1>9. Goroutines'
  BY <1>0 DEF StoredInv, Goroutines, Analyzing, StoredScan!Running
<1>10. Descent'
  <2>1. \A x \in DOMAIN loaded : loaded'[x].lists = loaded[x].lists
    BY <1>2, <1>3
  <2> QED
    BY <1>0, <1>3, <1>4, <1>a, <2>1 DEF Descent
<1>11. ASSUME ~failed', ~overslept
       PROVE  /\ Root \in DOMAIN loaded'
              /\ \A x \in DOMAIN loaded' :
                   worker[x] = "finished" /\ loaded'[x].lists = listing[x].lists /\ loaded'[x].scan = scans
              /\ \A x \in updated' : records'[x] = loaded'[x] /\ RecordAgrees(loaded', loaded'[x])
              /\ RecordsInv'
  <2>1. /\ Root \in DOMAIN loaded
        /\ \A x \in DOMAIN loaded :
             worker[x] = "finished" /\ loaded[x].lists = listing[x].lists /\ loaded[x].scan = scans
        /\ \A x \in updated : records[x] = loaded[x] /\ RecordAgrees(loaded, loaded[x])
        /\ \A x \in Dirs :
             /\ worker[x] \in {"stored", "finished"} <=> x \in DOMAIN records /\ records[x].scan = scans
             /\ worker[x] \in {"stored", "finished"} => records[x].lists = listing[x].lists
    BY <1>0, <1>5, <1>11 DEF StoredInv, LoadedInv, RecordsInv
  <2>2. ASSUME NEW x \in updated
        PROVE  records'[x] = loaded'[x] /\ RecordAgrees(loaded', loaded'[x])
    <3>1. x # d /\ x \in DOMAIN loaded /\ loaded'[x] = loaded[x]
      BY <1>0, <1>3, <1>a
    <3>2. \A c \in loaded[x].lists \cap Dirs : loaded[c] = loaded'[c]
      BY <1>0, <1>3, <1>4, <1>a
    <3>3. RecordAgrees(loaded', loaded[x])
      BY <2>1, <3>2, AgreesSame
    <3>4. worker[x] = "finished" /\ x \in Dirs
      BY <2>1, <3>1, <1>a
    <3>5. x \in DOMAIN records
      BY <2>1, <3>4
    <3> QED
      BY <1>5, <2>1, <3>1, <3>3, <3>5
  <2>3. records'[d] = loaded'[d] /\ RecordAgrees(loaded', loaded'[d])
    <3> DEFINE sizes2 == [e \in sums.lists |-> IF e \in Dirs THEN loaded'[e].size ELSE Bytes[e]]
    <3>1. \A c \in below : c \in DOMAIN loaded /\ loaded'[c] = loaded[c]
      BY <1>1, <1>3, <1>a
    <3>2. sizes = sizes2
      BY <1>2, <3>1 DEF sizes
    <3>3. sums.size = IF sums.lists = {} THEN EmptyDirSize ELSE SumOver(sizes2, sums.lists)
      BY <1>2, <3>2
    <3>4. \A c \in sums.lists \cap Dirs : loaded'[c].flag \in {"!", "."} => sums.flag \in {"!", "."}
      BY <1>2, <3>1 DEF sad
    <3>5. RecordAgrees(loaded', sums)
      BY <3>3, <3>4 DEF RecordAgrees
    <3> QED
      BY <1>3, <1>5, <1>11, <3>5
  <2>4. \A x \in DOMAIN loaded' :
          worker[x] = "finished" /\ loaded'[x].lists = listing[x].lists /\ loaded'[x].scan = scans
    BY <1>2, <1>3, <1>a, <2>1
  <2>5. RecordsInv'
    <3> SUFFICES ASSUME NEW x \in Dirs
                 PROVE  /\ worker[x] \in {"stored", "finished"} <=> x \in DOMAIN records' /\ records'[x].scan = scans
                        /\ worker[x] \in {"stored", "finished"} => records'[x].lists = listing[x].lists
      BY <1>0 DEF RecordsInv
    <3>1. CASE x = d
      BY <1>2, <1>5, <1>11, <1>a, <2>1, <3>1
    <3>2. CASE x # d
      BY <1>5, <1>11, <2>1, <3>2
    <3> QED
      BY <3>1, <3>2
  <2> QED
    BY <1>0, <1>3, <2>1, <2>2, <2>3, <2>4, <2>5
<1>12. LoadedInv' /\ RecordsInv'
  <2>1. main' = "done" => Root \in updated'
    BY <1>0
  <2>2. LoadedInv'
    BY <1>0, <1>11, <2>1 DEF LoadedInv, RecordAgrees
  <2>3. RecordsInv'
    BY <1>0, <1>11 DEF RecordsInv
  <2> QED
    BY <2>2, <2>3
<1>13. StoredScan!TotalsAreInTheStore'
  <2> SUFFICES ASSUME whole', ~failed', ~overslept', NEW x \in DOMAIN records',
                      records'[x].scan = records'[Root].scan, Root \in DOMAIN records'
               PROVE  RecordAgrees(records', records'[x])
    BY SameStoredTree DEF StoredScan!TotalsAreInTheStore, RecordAgrees
  <2>1. d = Root /\ ~overslept
    BY <1>0
  <2>2. /\ \A y \in DOMAIN loaded' :
             worker[y] = "finished" /\ loaded'[y].lists = listing[y].lists /\ loaded'[y].scan = scans
        /\ \A y \in updated' : records'[y] = loaded'[y] /\ RecordAgrees(loaded', loaded'[y])
        /\ Root \in updated'
    BY <1>0, <1>11, <2>1
  <2>3. records'[Root].scan = scans
    BY <1>0, <1>3, <1>a, <2>1, <2>2
  <2>4. x \in Dirs /\ worker[x] # "none"
    <3>1. x \in Dirs
      BY <1>5, <1>a
    <3>2. worker'[x] \in {"stored", "finished"}
      BY <1>0, <1>12, <2>1, <2>3, <3>1 DEF RecordsInv
    <3> QED
      BY <1>0, <3>1, <3>2
  <2> DEFINE Good == {e \in Entries : e \in Dirs /\ worker[e] # "none" => e \in updated'}
  <2>5. ASSUME NEW e \in Entries, Parent[e] = Root \/ Parent[e] \in Good PROVE e \in Good
    <3> SUFFICES ASSUME e \in Dirs, worker[e] # "none" PROVE e \in updated'
      OBVIOUS
    <3>1. worker[Parent[e]] # "none" /\ e \in listing[Parent[e]].lists /\ Parent[e] \in Dirs
      BY ListingFacts DEF StoredInv, Goroutines, Entries
    <3>2. Parent[e] \in updated'
      BY <2>2, <2>5, <3>1
    <3>3. Parent[e] \in DOMAIN loaded'
      BY <1>0, <1>3, <1>a, <3>2
    <3> QED
      BY <1>10, <2>2, <3>1, <3>2, <3>3 DEF Descent
  <2>6. Entries \subseteq Good
    BY <2>5, DownTheTree
  <2>7. x \in updated'
    BY <2>2, <2>4, <2>6 DEF Entries
  <2>8. \A c \in loaded'[x].lists \cap Dirs : loaded'[c] = records'[c]
    BY <1>10, <2>2, <2>7 DEF Descent
  <2>9. RecordAgrees(records', loaded'[x])
    BY <2>2, <2>7, <2>8, AgreesSame
  <2> QED
    BY <2>2, <2>7, <2>9
<1>14. whole' /\ ~overslept' => main' \in {"idle", "done"}
  BY <1>0
<1> QED
  BY <1>6, <1>8, <1>9, <1>10, <1>12, <1>13, <1>14 DEF StoredInv

LEMMA StoredStutter == StoredInv /\ UNCHANGED StoredScan!vars => StoredInv'
<1> SUFFICES ASSUME StoredInv, UNCHANGED StoredScan!vars PROVE StoredInv'
  OBVIOUS
<1>0. UNCHANGED <<main, scans, worker, listing, records, loaded, expanded, updated, opens, db, ops,
                  waitValue, waitLocked, cancelled, overslept, whole, failed>>
  BY DEF StoredScan!vars, StoredScan!scanVars, StoredScan!updateVars, StoredScan!storeVars,
     StoredScan!waitVars
<1>1. StoredTypes' /\ References'
  BY <1>0 DEF StoredInv, StoredTypes, RecordsOf, References, Analyzing
<1>2. Goroutines' /\ RecordsInv' /\ Descent'
  BY <1>0 DEF StoredInv, Goroutines, Analyzing, StoredScan!Running, RecordsInv, Descent
<1>3. LoadedInv'
  BY <1>0 DEF StoredInv, LoadedInv, RecordAgrees
<1> QED
  BY <1>0, <1>1, <1>2, <1>3 DEF StoredInv, StoredScan!TotalsAreInTheStore

LEMMA StoredStep == StoredInv /\ StoredScan!Next => StoredInv'
BY StoredStartKeeps, StoredCallSteps, StoredStopKeeps, BeginUpdateKeeps, StoredAcquireKeeps,
   ReadDirKeeps, StoreKeeps, ExpandKeeps, CommitKeeps
   DEF StoredScan!Next, StoredScan!AnalyzeDir, StoredScan!UpdateStats, StoredScan!Worker

LEMMA StoredSafe ==
  ASSUME StoredInv
  PROVE  /\ StoredScan!TypeOK /\ StoredScan!RecordsAreThisScans
         /\ StoredScan!TotalsAreInTheStore /\ StoredScan!ReferencesAreBalanced
<1>1. StoredScan!TypeOK
  <2>1. \A d \in Dirs : \A r \in RecordsOf(d) : StoredScan!IsRecord(r)
    <3>1. 0..scans \subseteq 0..MaxScans
      BY DatabasesAssumption DEF StoredInv, StoredTypes
    <3>2. \A d \in Dirs : Children(d) \subseteq StoredScan!Entries
      BY ListingFacts DEF Entries, StoredScan!Entries
    <3> QED
      BY <3>1, <3>2 DEF RecordsOf, Flags, StoredScan!IsRecord
  <2>2. StoredScan!WaitTypeOK
    BY DEF StoredInv, StoredTypes, StoredScan!WaitTypeOK
  <2>3. opens \in Nat /\ db \in BOOLEAN
    BY DEF StoredInv, StoredTypes, References
  <2>4. /\ \A d \in Dirs : StoredScan!IsRecord(listing[d])
        /\ DOMAIN records \subseteq Dirs /\ \A d \in DOMAIN records : StoredScan!IsRecord(records[d])
        /\ DOMAIN loaded \subseteq Dirs /\ \A d \in DOMAIN loaded : StoredScan!IsRecord(loaded[d])
    BY <2>1 DEF StoredInv, StoredTypes
  <2> QED
    BY <2>2, <2>3, <2>4 DEF StoredInv, StoredTypes, StoredScan!TypeOK
<1>2. StoredScan!RecordsAreThisScans
  <2> SUFFICES ASSUME main \in {"returned", "updating", "done"}, ~failed, ~overslept,
                      NEW d \in DOMAIN records, records[d].scan = scans,
                      NEW c \in records[d].lists \cap Dirs
               PROVE  c \in DOMAIN records /\ records[c].scan = scans
    BY DEF StoredScan!RecordsAreThisScans
  <2>1. d \in Dirs
    BY DEF StoredInv, StoredTypes
  <2>2. worker[d] \in {"stored", "finished"} /\ c \in listing[d].lists
    BY <2>1 DEF StoredInv, RecordsInv
  <2>3. worker[c] # "none"
    BY <2>1, <2>2 DEF StoredInv, Goroutines
  <2>4. worker[c] = "finished"
    BY <2>3 DEF StoredInv, Goroutines, Analyzing, StoredScan!Running
  <2> QED
    BY <2>4 DEF StoredInv, RecordsInv
<1>3. StoredScan!ReferencesAreBalanced
  BY DEF StoredInv, References, StoredScan!ReferencesAreBalanced
<1> QED
  BY <1>1, <1>2, <1>3 DEF StoredInv
-----------------------------------------------------------------------------
(* The invariant of StoredTree *)

Objects(d) ==
  [files : UNION {[S -> Int] : S \in SUBSET (Children(d) \cap Files)},
   dirs : {Children(d) \cap Dirs}, size : Int]

BrowsingTypes ==
  /\ disk \subseteq Entries
  /\ records = [d \in Dirs |-> records[d]]
  /\ \A d \in Dirs : records[d] \in Objects(d)
  /\ current = [dir |-> current.dir, object |-> current.object]
  /\ current.dir \in Dirs /\ current.object \in Objects(current.dir)
  /\ requests \in 0..StoredRequests
  /\ emptied \subseteq Files
  /\ ghosts \in BOOLEAN /\ failed \in BOOLEAN

\* Records list files by the size they have on disk, and so does the object on
\* screen until a file in it is emptied.
FileSizes ==
  /\ \A d \in Dirs : \A e \in DOMAIN records[d].files : records[d].files[e] = Bytes[e]
  /\ emptied = {} =>
       \A e \in DOMAIN current.object.files : current.object.files[e] = Bytes[e]

\* Files that exist are listed, in the records and by the object.
FilesAreListed ==
  emptied = {} =>
    /\ \A d \in Dirs : Children(d) \cap Files \cap disk \subseteq DOMAIN records[d].files
    /\ Children(current.dir) \cap Files \cap disk \subseteq DOMAIN current.object.files

BrowsingInv ==
  /\ BrowsingTypes /\ FileSizes /\ FilesAreListed
  /\ shown = StoredTree!Rows(current.object, records)
  /\ StoredTree!RecordsAreSums /\ StoredTree!ScreenMatchesStore


LEMMA SameBrowsedTree ==
  /\ StoredTree!Entries = Entries /\ \A d : StoredTree!Children(d) = Children(d)
  /\ \A f, S : StoredTree!SumOver(f, S) = SumOver(f, S)
  /\ StoredTree!SubtreeOf = SubtreeOf /\ StoredTree!ScannedSize = ScannedSize
  /\ \A d : StoredTree!EmptySize(d) = EmptySize(d)
BY DEF StoredTree!Children, Children, StoredTree!Entries, Entries, StoredTree!SumOver, SumOver,
   StoredTree!FoldSet, FoldSet, StoredTree!MapThenFoldSet, MapThenFoldSet,
   StoredTree!SubtreeOf, SubtreeOf, StoredTree!ScannedSize, ScannedSize,
   StoredTree!EmptySize, EmptySize, StoredTree!EmptyDirSize, EmptyDirSize

\* What an object or a record of a directory holds.
LEMMA ObjectFacts ==
  ASSUME NEW d \in Dirs, NEW o \in Objects(d)
  PROVE  /\ DOMAIN o.files \subseteq Children(d) \cap Files /\ o.dirs = Children(d) \cap Dirs
         /\ IsFiniteSet(DOMAIN o.files) /\ IsFiniteSet(o.dirs) /\ o.size \in Int
         /\ DOMAIN o.files \subseteq Entries /\ o.dirs \subseteq Entries
         /\ DOMAIN o.files \cap o.dirs = {} /\ DOMAIN o.files \cap Dirs = {}
         /\ \A e \in DOMAIN o.files : o.files[e] \in Int
<1>1. PICK S \in SUBSET (Children(d) \cap Files) : o.files \in [S -> Int]
  BY DEF Objects
<1>2. o.dirs = Children(d) \cap Dirs /\ o.size \in Int
  BY DEF Objects
<1>3. IsFiniteSet(Children(d)) /\ Children(d) \subseteq Entries /\ Dirs \cap Files = {}
  BY ListingFacts, TreeAssumption
<1> QED
  BY <1>1, <1>2, <1>3, FS_Subset

LEMMA BrowsingStarts ==
  ASSUME StoredTree!Init
  PROVE  BrowsingInv
<1> DEFINE record(d) == [files |-> [e \in Children(d) \cap Files |-> Bytes[e]],
                         dirs |-> Children(d) \cap Dirs, size |-> ScannedSize[d]]
<1>1. \A d : StoredTree!Scanned(d) = record(d)
  BY SameBrowsedTree DEF StoredTree!Scanned
<1>2. /\ disk = Entries /\ records = [d \in Dirs |-> record(d)] /\ current = [dir |-> Root, object |-> record(Root)]
      /\ shown = StoredTree!Rows(record(Root), records) /\ requests = 0 /\ emptied = {}
      /\ ghosts = FALSE /\ failed = FALSE
  BY <1>1, SameBrowsedTree DEF StoredTree!Init
<1>3. \A d \in Dirs : record(d) \in Objects(d)
  <2> TAKE d \in Dirs
  <2>1. [e \in Children(d) \cap Files |-> Bytes[e]] \in [Children(d) \cap Files -> Int]
    BY BytesAssumption
  <2>2. ScannedSize[d] \in Int
    BY ScannedSizeEquation
  <2>3. [e \in Children(d) \cap Files |-> Bytes[e]]
          \in UNION {[S -> Int] : S \in SUBSET (Children(d) \cap Files)}
    BY <2>1
  <2> QED
    BY <2>2, <2>3 DEF Objects
<1>4. BrowsingTypes /\ FileSizes /\ FilesAreListed
  <2>1. /\ records = [d \in Dirs |-> records[d]] /\ \A d \in Dirs : records[d] = record(d)
        /\ current.dir = Root /\ current.object = record(Root)
        /\ current = [dir |-> current.dir, object |-> current.object]
    BY <1>2
  <2>2. \A d \in Dirs : records[d].files = [e \in Children(d) \cap Files |-> Bytes[e]]
    <3> TAKE d \in Dirs
    <3>1. record(d).files = [e \in Children(d) \cap Files |-> Bytes[e]]
      OBVIOUS
    <3>2. records[d] = record(d)
      BY <2>1
    <3> HIDE DEF record
    <3> QED
      BY <3>1, <3>2
  <2>3. current.object.files = [e \in Children(Root) \cap Files |-> Bytes[e]]
    BY <2>1
  <2>4. BrowsingTypes
    <3>1. 0 \in 0..StoredRequests
      BY DatabasesAssumption
    <3> QED
      BY <1>2, <1>3, <2>1, <3>1, TreeAssumption DEF BrowsingTypes
  <2>5. FileSizes /\ FilesAreListed
    BY <1>2, <2>1, <2>2, <2>3 DEF FileSizes, FilesAreListed
  <2> QED
    BY <2>4, <2>5
<1>5. StoredTree!RecordsAreSums
  <2> SUFFICES ASSUME NEW d \in Dirs
               PROVE  records[d].size = EmptySize(d) + SumOver(records[d].files, DOMAIN records[d].files)
                        + SumOver([c \in records[d].dirs |-> records[c].size], records[d].dirs)
    BY SameBrowsedTree DEF StoredTree!RecordsAreSums
  <2>1. records[d].size = EmptySize(d) + SumOver(Bytes, Children(d) \cap Files) + SumOver(ScannedSize, Children(d) \cap Dirs)
    BY <1>2, ScannedSizeEquation
  <2>2. IsFiniteSet(Children(d) \cap Files) /\ IsFiniteSet(Children(d) \cap Dirs)
    BY ListingFacts, FS_Subset
  <2>3. SumOver(Bytes, Children(d) \cap Files) = SumOver(records[d].files, Children(d) \cap Files)
    BY <1>2, <2>2, SumSame
  <2>4. SumOver(ScannedSize, Children(d) \cap Dirs) =
          SumOver([c \in records[d].dirs |-> records[c].size], Children(d) \cap Dirs)
    <3> DEFINE sizes == [c \in records[d].dirs |-> records[c].size]
    <3>1. \A b \in Children(d) \cap Dirs : ScannedSize[b] = sizes[b]
      BY <1>2
    <3> HIDE DEF sizes
    <3>2. SumOver(ScannedSize, Children(d) \cap Dirs) = SumOver(sizes, Children(d) \cap Dirs)
      BY <2>2, <3>1, SumSame
    <3> QED
      BY <3>2 DEF sizes
  <2> QED
    BY <1>2, <2>1, <2>3, <2>4
<1>6. StoredTree!ScreenMatchesStore
  BY <1>2, TreeAssumption DEF StoredTree!ScreenMatchesStore
<1> QED
  BY <1>2, <1>4, <1>5, <1>6 DEF BrowsingInv

\* A file taken out of the directory on screen is taken off the directories
\* above, each of which has one entry on the way to it.
SizeIsSum(recs, d) ==
  recs[d].size = EmptySize(d) + SumOver(recs[d].files, DOMAIN recs[d].files)
                   + SumOver([c \in recs[d].dirs |-> recs[c].size], recs[d].dirs)

LEMMA SubtractionKeepsSums ==
  ASSUME NEW recs, \A d \in Dirs : recs[d] \in Objects(d),
         NEW cur \in Dirs, NEW e \in DOMAIN recs[cur].files, NEW n, n = recs[cur].files[e],
         NEW new, DOMAIN new[cur].files = DOMAIN recs[cur].files \ {e},
         \A x \in DOMAIN new[cur].files : new[cur].files[x] = recs[cur].files[x],
         \A d \in Dirs : new[d].dirs = recs[d].dirs,
         \A d \in Dirs \ {cur} : new[d].files = recs[d].files,
         \A d \in Dirs : new[d].size = IF d \in Lineage(cur) THEN recs[d].size - n ELSE recs[d].size,
         \A d \in Dirs : SizeIsSum(recs, d), NEW d \in Dirs
  PROVE  SizeIsSum(new, d)
<1> DEFINE files == recs[d].files
           dirs == recs[d].dirs
           old == [c \in dirs |-> recs[c].size]
           now == [c \in dirs |-> new[c].size]
           k == 0 - n
           own == EmptySize(d)
<1>0. own \in Int
  BY EmptySizeType
<1> HIDE DEF own
<1>1. /\ IsFiniteSet(DOMAIN files) /\ IsFiniteSet(dirs) /\ dirs = Children(d) \cap Dirs
      /\ \A x \in DOMAIN files : files[x] \in Int
      /\ \A x \in Dirs : recs[x].size \in Int
      /\ n \in Int
  BY ObjectFacts
<1>2. recs[d].size = own + SumOver(files, DOMAIN files) + SumOver(old, dirs) /\ new[d].dirs = dirs
      /\ \A c \in dirs : c \in Dirs /\ c \in Children(d)
  BY <1>1 DEF SizeIsSum, own
<1>s. SizeIsSum(new, d) <=>
        new[d].size = own + SumOver(new[d].files, DOMAIN new[d].files) + SumOver(now, dirs)
  BY <1>2 DEF SizeIsSum, own
<1>3. SumOver(files, DOMAIN files) \in Int
  <2>1. \A x \in DOMAIN files : files[x] \in Int
    BY ObjectFacts
  <2> QED
    BY <1>1, <2>1, SumType
<1>4. /\ \A c \in dirs : old[c] \in Int /\ now[c] \in Int
      /\ \A c \in dirs : c \notin Lineage(cur) => now[c] = old[c]
      /\ \A c \in dirs : c \in Lineage(cur) => now[c] = old[c] + k
  <2>1. ASSUME NEW c \in dirs
        PROVE  /\ old[c] = recs[c].size /\ now[c] = new[c].size /\ recs[c].size \in Int
               /\ new[c].size = IF c \in Lineage(cur) THEN recs[c].size - n ELSE recs[c].size
    <3>1. old[c] = recs[c].size /\ now[c] = new[c].size
      BY <2>1
    <3>2. c \in Dirs
      BY <1>2, <2>1
    <3> HIDE DEF old, now, dirs, files
    <3>3. recs[c].size \in Int
      BY <1>1, <3>2
    <3>4. new[c].size = IF c \in Lineage(cur) THEN recs[c].size - n ELSE recs[c].size
      BY <3>2
    <3> QED
      BY <3>1, <3>3, <3>4
  <2> HIDE DEF old, now, dirs
  <2> QED
    BY <1>1, <2>1
<1>5. SumOver(old, dirs) \in Int
  BY <1>1, <1>4, SumType
<1>6. CASE d = cur
  <2>1. \A c \in dirs : c \notin Lineage(cur)
    <3> SUFFICES ASSUME NEW c \in dirs, c \in Lineage(cur) PROVE FALSE
      OBVIOUS
    <3>1. c # Root /\ Parent[c] = cur
      BY <1>2, <1>6, ListingFacts DEF Entries
    <3> QED
      BY <3>1, LineageFacts
  <2>2. SumOver(now, dirs) = SumOver(old, dirs)
    BY <1>1, <1>4, <2>1, SumSame
  <2>3. /\ SumOver(files, DOMAIN files) = n + SumOver(files, DOMAIN files \ {e})
        /\ SumOver(files, DOMAIN files \ {e}) \in Int
    <3>1. \A x \in DOMAIN files : files[x] \in Int
      BY ObjectFacts
    <3> QED
      BY <1>1, <1>6, <3>1, SumDrop
  <2>4. SumOver(new[d].files, DOMAIN new[d].files) = SumOver(files, DOMAIN files \ {e})
    <3>1. \A x \in DOMAIN files \ {e} : new[d].files[x] = files[x]
      BY <1>6
    <3>2. IsFiniteSet(DOMAIN files \ {e})
      BY <1>1, FS_Subset
    <3>3. SumOver(new[d].files, DOMAIN files \ {e}) = SumOver(files, DOMAIN files \ {e})
      BY <3>1, <3>2, SumSame
    <3> QED
      BY <1>6, <3>3
  <2>5. new[d].size = recs[d].size - n
    BY <1>6, LineageFacts
  <2> HIDE DEF files, old, now, dirs
  <2> QED
    BY <1>0, <1>1, <1>s, <1>2, <1>3, <1>5, <2>2, <2>3, <2>4, <2>5
<1>7. CASE d # cur /\ d \in Lineage(cur)
  <2>1. PICK c \in Children(d) : c \in Lineage(cur) /\ \A b \in Children(d) : b \in Lineage(cur) => b = c
    BY <1>7, LineageFacts
  <2>2. c \in dirs
    BY <1>1, <2>1, LineageFacts
  <2>3. now[c] = old[c] + k /\ \A b \in dirs \ {c} : old[b] = now[b]
    BY <1>2, <1>4, <2>1, <2>2
  <2>4. k \in Int
    BY <1>1
  <2> HIDE DEF files, old, now, dirs, k
  <2>5. SumOver(now, dirs) = SumOver(old, dirs) + k
    <3>1. IsFiniteSet(dirs) /\ c \in dirs /\ k \in Int
      BY <1>1, <2>2, <2>4
    <3>2. \A x \in dirs : old[x] \in Int /\ now[x] \in Int
      BY <1>4
    <3>3. \A x \in dirs \ {c} : old[x] = now[x]
      BY <2>3
    <3>4. now[c] = old[c] + k
      BY <2>3
    <3> QED
      BY <3>1, <3>2, <3>3, <3>4, SumGrow
  <2>6. new[d].size = recs[d].size - n /\ new[d].files = files
    BY <1>7 DEF files
  <2> QED
    BY <1>0, <1>1, <1>2, <1>3, <1>5, <2>5, <2>6, <1>s DEF k
<1>8. CASE d \notin Lineage(cur)
  <2>1. \A c \in dirs : c \notin Lineage(cur)
    <3> SUFFICES ASSUME NEW c \in dirs, c \in Lineage(cur) PROVE FALSE
      OBVIOUS
    <3>1. c # Root /\ Parent[c] = d
      BY <1>2, ListingFacts DEF Entries
    <3> QED
      BY <1>8, <3>1, LineageFacts
  <2>2. SumOver(now, dirs) = SumOver(old, dirs)
    BY <1>1, <1>4, <2>1, SumSame
  <2>3. d # cur
    BY <1>8, LineageFacts
  <2> QED
    BY <1>s, <1>2, <1>8, <2>2, <2>3
<1> QED
  BY <1>6, <1>7, <1>8

\* RemoveFile on the object without e.
LEMMA RemoveFileKeeps ==
  ASSUME BrowsingInv, NEW e \in Entries, e \in DOMAIN shown, emptied = {},
         NEW object, object = StoredTree!Unlisted(current.object, e, shown[e]),
         StoredTree!RemoveFile(e, object)
  PROVE  /\ object \in Objects(current.dir)
         /\ DOMAIN object.files = DOMAIN current.object.files \ {e}
         /\ \A x \in DOMAIN object.files : object.files[x] = current.object.files[x]
         /\ records' = [d \in Dirs |-> records'[d]] /\ \A d \in Dirs : records'[d] \in Objects(d)
         /\ \A d \in Dirs : records'[d].files = records[d].files \/ (d = current.dir /\ records'[d].files = object.files)
         /\ failed' \in BOOLEAN
         /\ ~failed' => ~failed /\ records'[current.dir] = object
         /\ e \notin Dirs /\ ~ghosts /\ ~failed' => \A d \in Dirs : SizeIsSum(records', d)
<1> DEFINE cur == current.dir
           o == current.object
           n == shown[e]
<1>1. /\ cur \in Dirs /\ o \in Objects(cur) /\ \A d \in Dirs : records[d] \in Objects(d)
      /\ DOMAIN shown = DOMAIN o.files \cup o.dirs
      /\ \A x \in DOMAIN shown : shown[x] = IF x \in DOMAIN o.files THEN o.files[x] ELSE records[x].size
  BY DEF BrowsingInv, BrowsingTypes, StoredTree!Rows
<1>2. n \in Int
  <2>1. \A x \in Dirs : records[x].size \in Int
    BY <1>1, ObjectFacts
  <2>2. o.dirs \subseteq Dirs
    BY <1>1, ObjectFacts
  <2>3. \A x \in DOMAIN o.files : o.files[x] \in Int
    BY <1>1, ObjectFacts
  <2> QED
    BY <1>1, <2>1, <2>2, <2>3
<1> HIDE DEF n
<1>3. /\ object \in Objects(cur) /\ DOMAIN object.files = DOMAIN o.files \ {e}
      /\ \A x \in DOMAIN object.files : object.files[x] = o.files[x]
      /\ object.size = o.size - n /\ object.dirs = o.dirs
  <2> DEFINE kept == [f \in DOMAIN o.files \ {e} |-> o.files[f]]
  <2>1. object = [o EXCEPT !.files = kept, !.size = @ - n]
    BY DEF StoredTree!Unlisted, n
  <2>2. kept \in UNION {[S -> Int] : S \in SUBSET (Children(cur) \cap Files)}
    <3>1. DOMAIN o.files \ {e} \in SUBSET (Children(cur) \cap Files)
      BY <1>1, ObjectFacts
    <3>2. kept \in [DOMAIN o.files \ {e} -> Int]
      <4>1. \A x \in DOMAIN o.files : o.files[x] \in Int
        BY <1>1, ObjectFacts
      <4> QED
        BY <4>1
    <3> QED
      BY <3>1, <3>2
  <2>3. DOMAIN kept = DOMAIN o.files \ {e} /\ \A x \in DOMAIN kept : kept[x] = o.files[x]
    OBVIOUS
  <2> HIDE DEF kept
  <2>4. o.size - n \in Int
    BY <1>1, <1>2, ObjectFacts
  <2>5. /\ object.files = kept /\ object.size = o.size - n /\ object.dirs = o.dirs
        /\ object = [files |-> kept, dirs |-> o.dirs, size |-> o.size - n]
    BY <1>1, <2>1 DEF Objects
  <2>6. object \in Objects(cur)
    BY <1>1, <2>2, <2>4, <2>5 DEF Objects
  <2> QED
    BY <2>3, <2>5, <2>6
<1>4. \A x : x \in StoredTree!Above(cur) <=> x \in Lineage(cur) /\ x # cur
  <2>1. Lineage(cur) \subseteq Dirs
    BY <1>1, LineageFacts, TreeAssumption
  <2> QED
    BY <2>1, SameBrowsedTree DEF StoredTree!Above, Lineage
<1> DEFINE lighter(d) == [records[d] EXCEPT !.size = @ - n]
           whole2 == StoredTree!Subtracted(e, object)
<1>5. \A d \in Dirs : whole2[d] = IF d = cur THEN object
                                 ELSE IF d \in Lineage(cur) THEN lighter(d) ELSE records[d]
  BY <1>4 DEF StoredTree!Subtracted, n
<1>6. \A d \in Dirs : /\ lighter(d) \in Objects(d) /\ lighter(d).files = records[d].files
                      /\ lighter(d).size = records[d].size - n /\ lighter(d).dirs = records[d].dirs
  <2> TAKE d \in Dirs
  <2>1. records[d].size - n \in Int
    BY <1>1, <1>2, ObjectFacts
  <2> QED
    BY <1>1, <2>1 DEF Objects
<1>7. PICK lost \in SUBSET Dirs :
        /\ records' = [d \in Dirs |-> IF d \in lost THEN records[d] ELSE whole2[d]]
        /\ failed' = (failed \/ lost # {})
  BY DEF StoredTree!RemoveFile
<1> HIDE DEF lighter, whole2
<1>8. /\ records' = [d \in Dirs |-> records'[d]]
      /\ \A d \in Dirs : records'[d] \in {records[d], lighter(d)} \/ (d = cur /\ records'[d] = object)
  BY <1>5, <1>7
<1>9. \A d \in Dirs :
        /\ records'[d] \in Objects(d)
        /\ records'[d].files = records[d].files \/ (d = cur /\ records'[d].files = object.files)
  BY <1>1, <1>3, <1>6, <1>8
<1>10. failed' \in BOOLEAN /\ (~failed' => ~failed /\ lost = {})
  BY <1>7
<1>11. ~failed' => \A d \in Dirs : records'[d] = whole2[d]
  BY <1>7, <1>10
<1>12. ~failed' => records'[cur] = object
  BY <1>1, <1>5, <1>11
<1>13. ASSUME e \notin Dirs, ~ghosts, ~failed', NEW d \in Dirs
       PROVE  SizeIsSum(records', d)
  <2>1. o = records[cur]
    BY <1>10, <1>13 DEF BrowsingInv, StoredTree!ScreenMatchesStore
  <2>2. e \in DOMAIN o.files /\ n = o.files[e]
    <3>1. o.dirs \subseteq Dirs
      BY <1>1, ObjectFacts
    <3> QED
      BY <1>1, <1>13, <3>1 DEF n
  <2>3. \A x \in Dirs : SizeIsSum(records, x)
    BY <1>10, <1>13, SameBrowsedTree DEF BrowsingInv, StoredTree!RecordsAreSums, SizeIsSum
  <2>4. cur \in Lineage(cur)
    BY <1>1, LineageFacts
  <2>5. \A x \in Dirs : records'[x] = IF x = cur THEN object
                                 ELSE IF x \in Lineage(cur) THEN lighter(x) ELSE records[x]
    BY <1>5, <1>11, <1>13
  <2>6. /\ \A x \in Dirs : records'[x].dirs = records[x].dirs
        /\ \A x \in Dirs \ {cur} : records'[x].files = records[x].files
        /\ \A x \in Dirs : records'[x].size = IF x \in Lineage(cur) THEN records[x].size - n ELSE records[x].size
        /\ DOMAIN records'[cur].files = DOMAIN records[cur].files \ {e}
        /\ \A x \in DOMAIN records'[cur].files : records'[cur].files[x] = records[cur].files[x]
    BY <1>1, <1>3, <1>6, <2>1, <2>4, <2>5
  <2>7. PICK new : new = records'
    OBVIOUS
  <2>8. /\ \A x \in Dirs : new[x].dirs = records[x].dirs
        /\ \A x \in Dirs \ {cur} : new[x].files = records[x].files
        /\ \A x \in Dirs : new[x].size = IF x \in Lineage(cur) THEN records[x].size - n ELSE records[x].size
        /\ DOMAIN new[cur].files = DOMAIN records[cur].files \ {e}
        /\ \A x \in DOMAIN new[cur].files : new[cur].files[x] = records[cur].files[x]
        /\ e \in DOMAIN records[cur].files /\ n = records[cur].files[e]
        /\ cur \in Dirs /\ \A x \in Dirs : records[x] \in Objects(x)
    BY <1>1, <2>1, <2>2, <2>6, <2>7
  <2> HIDE DEF cur, n
  <2>9. SizeIsSum(new, d)
    BY <2>3, <2>8, SubtractionKeepsSums
  <2> QED
    BY <2>7, <2>9
<1> QED
  BY <1>3, <1>8, <1>9, <1>10, <1>12, <1>13

LEMMA BrowsingStep == BrowsingInv /\ StoredTree!Next => BrowsingInv'
<1> SUFFICES ASSUME BrowsingInv, StoredTree!Next PROVE BrowsingInv'
  OBVIOUS
<1> DEFINE cur == current.dir
           o == current.object
<1>0. /\ BrowsingTypes /\ cur \in Dirs /\ o \in Objects(cur) /\ Parent \in [Entries -> Dirs]
  BY TreeAssumption DEF BrowsingInv, BrowsingTypes
<1>1. ASSUME NEW d \in Dirs, StoredTree!Browse(d) PROVE BrowsingInv'
  <2>1. /\ current' = [dir |-> d, object |-> records[d]] /\ shown' = StoredTree!Rows(records[d], records)
        /\ UNCHANGED <<disk, records, requests, emptied, ghosts, failed>>
        /\ current'.dir = d /\ current'.object = records[d]
    BY <1>1 DEF StoredTree!Browse
  <2>2. BrowsingTypes'
    BY <1>0, <2>1 DEF BrowsingTypes
  <2>3. FileSizes' /\ FilesAreListed'
    BY <2>1 DEF BrowsingInv, FileSizes, FilesAreListed
  <2>4. shown' = StoredTree!Rows(current'.object, records')
    BY <2>1
  <2>5. StoredTree!RecordsAreSums'
    BY <2>1 DEF BrowsingInv, StoredTree!RecordsAreSums
  <2>6. StoredTree!ScreenMatchesStore'
    BY <2>1 DEF StoredTree!ScreenMatchesStore
  <2> QED
    BY <2>2, <2>3, <2>4, <2>5, <2>6 DEF BrowsingInv
<1>2. ASSUME NEW e \in Entries, StoredTree!Remove(e) PROVE BrowsingInv'
  <2> DEFINE object == StoredTree!Unlisted(o, e, shown[e])
  <2>1. /\ emptied = {} /\ e \in DOMAIN shown /\ requests < StoredRequests /\ requests' = requests + 1
        /\ disk' = disk \ SubtreeOf[e] /\ StoredTree!RemoveFile(e, object)
        /\ current' = [current EXCEPT !.object = object] /\ shown' = StoredTree!Rows(object, records')
        /\ ghosts' = (ghosts \/ e \in Dirs) /\ emptied' = emptied
    BY <1>2, SameBrowsedTree DEF StoredTree!Remove, StoredTree!Request
  <2>2. /\ object \in Objects(cur)
        /\ DOMAIN object.files = DOMAIN o.files \ {e}
        /\ \A x \in DOMAIN object.files : object.files[x] = o.files[x]
        /\ records' = [d \in Dirs |-> records'[d]]
        /\ \A d \in Dirs : records'[d] \in Objects(d)
        /\ \A d \in Dirs : records'[d].files = records[d].files \/ (d = cur /\ records'[d].files = object.files)
        /\ failed' \in BOOLEAN
        /\ ~failed' => ~failed /\ records'[cur] = object
        /\ e \notin Dirs /\ ~ghosts /\ ~failed' => \A d \in Dirs : SizeIsSum(records', d)
    BY <2>1, RemoveFileKeeps
  <2> HIDE DEF object
  <2>3. current' = [dir |-> cur, object |-> object] /\ current'.dir = cur /\ current'.object = object
    BY <1>0, <2>1 DEF BrowsingTypes
  <2>4. e \in SubtreeOf[e]
    BY SubtreeFacts
  <2>5. BrowsingTypes'
    <3>1. requests' \in 0..StoredRequests
      BY <1>0, <2>1, DatabasesAssumption DEF BrowsingTypes
    <3>2. ghosts' \in BOOLEAN
      BY <2>1
    <3> QED
      BY <1>0, <2>1, <2>2, <2>3, <3>1, <3>2 DEF BrowsingTypes
  <2>6. FileSizes'
    <3>1. \A d \in Dirs : \A x \in DOMAIN records[d].files : records[d].files[x] = Bytes[x]
      BY DEF BrowsingInv, FileSizes
    <3>2. \A x \in DOMAIN o.files : o.files[x] = Bytes[x]
      BY <2>1 DEF BrowsingInv, FileSizes
    <3>3. \A x \in DOMAIN object.files : object.files[x] = Bytes[x]
      BY <2>2, <3>2
    <3> QED
      BY <2>2, <2>3, <3>1, <3>3 DEF FileSizes
  <2>7. FilesAreListed'
    <3>1. \A d \in Dirs : Children(d) \cap Files \cap disk \subseteq DOMAIN records[d].files
      BY <2>1 DEF BrowsingInv, FilesAreListed
    <3>2. Children(cur) \cap Files \cap disk' \subseteq DOMAIN object.files
      BY <2>1, <2>2, <2>4 DEF BrowsingInv, FilesAreListed
    <3>3. \A d \in Dirs : Children(d) \cap Files \cap disk' \subseteq DOMAIN records'[d].files
      BY <2>1, <2>2, <3>1, <3>2
    <3> QED
      BY <2>3, <3>2, <3>3 DEF FilesAreListed
  <2>8. StoredTree!RecordsAreSums'
    BY <2>1, <2>2, SameBrowsedTree DEF StoredTree!RecordsAreSums, SizeIsSum
  <2>9. StoredTree!ScreenMatchesStore'
    BY <2>1, <2>2, <2>3 DEF StoredTree!ScreenMatchesStore
  <2> QED
    BY <2>1, <2>3, <2>5, <2>6, <2>7, <2>8, <2>9 DEF BrowsingInv
<1>3. ASSUME NEW e \in Entries, StoredTree!RemoveFails(e) PROVE BrowsingInv'
  <2>1. /\ requests < StoredRequests /\ requests' = requests + 1 /\ disk' \subseteq disk
        /\ UNCHANGED <<records, current, shown, emptied, ghosts, failed>>
    BY <1>3 DEF StoredTree!RemoveFails, StoredTree!Request
  <2>2. requests' \in 0..StoredRequests
    BY <1>0, <2>1, DatabasesAssumption DEF BrowsingTypes
  <2>3. BrowsingTypes'
    BY <1>0, <2>1, <2>2 DEF BrowsingTypes
  <2>4. FileSizes' /\ FilesAreListed'
    BY <2>1 DEF BrowsingInv, FileSizes, FilesAreListed
  <2> QED
    BY <2>1, <2>3, <2>4 DEF BrowsingInv, StoredTree!RecordsAreSums, StoredTree!ScreenMatchesStore
<1>4. ASSUME NEW e \in Entries, StoredTree!Empty(e) PROVE BrowsingInv'
  <2> DEFINE object == StoredTree!Unlisted(o, e, shown[e])
             added == [object EXCEPT !.files = [f \in DOMAIN @ \cup {e} |-> IF f = e THEN 0 ELSE @[f]]]
             withE == [f \in DOMAIN object.files \cup {e} |-> IF f = e THEN 0 ELSE object.files[f]]
  <2>1. /\ emptied = {} /\ e \in DOMAIN shown /\ requests < StoredRequests /\ requests' = requests + 1
        /\ e \in Files /\ StoredTree!RemoveFile(e, object)
        /\ current' = [current EXCEPT !.object = added] /\ shown' = StoredTree!Rows(added, records')
        /\ emptied' = emptied \cup {e} /\ UNCHANGED <<disk, ghosts>>
    BY <1>4 DEF StoredTree!Empty, StoredTree!Request
  <2>2. /\ object \in Objects(cur)
        /\ DOMAIN object.files = DOMAIN o.files \ {e}
        /\ \A x \in DOMAIN object.files : object.files[x] = o.files[x]
        /\ records' = [d \in Dirs |-> records'[d]]
        /\ \A d \in Dirs : records'[d] \in Objects(d)
        /\ \A d \in Dirs : records'[d].files = records[d].files \/ (d = cur /\ records'[d].files = object.files)
        /\ failed' \in BOOLEAN
        /\ ~failed' => ~failed /\ records'[cur] = object
        /\ e \notin Dirs /\ ~ghosts /\ ~failed' => \A d \in Dirs : SizeIsSum(records', d)
    BY <2>1, RemoveFileKeeps
  <2> HIDE DEF object
  <2>3. e \in Children(cur) \cap Files
    <3>1. DOMAIN shown \subseteq Children(cur)
      <4>1. DOMAIN shown = DOMAIN o.files \cup o.dirs
        BY DEF BrowsingInv, StoredTree!Rows
      <4> QED
        BY <1>0, <4>1, ObjectFacts
    <3> QED
      BY <2>1, <3>1
  <2>4. added \in Objects(cur)
    <3>1. added = [files |-> withE, dirs |-> object.dirs, size |-> object.size]
      BY <2>2 DEF Objects
    <3>2. withE \in [DOMAIN object.files \cup {e} -> Int]
      <4>1. \A x \in DOMAIN object.files : object.files[x] \in Int
        BY <1>0, <2>2, ObjectFacts
      <4> QED
        BY <4>1
    <3>3. DOMAIN object.files \cup {e} \in SUBSET (Children(cur) \cap Files)
      BY <1>0, <2>2, <2>3, ObjectFacts
    <3>4. withE \in UNION {[S -> Int] : S \in SUBSET (Children(cur) \cap Files)}
      BY <3>2, <3>3
    <3> HIDE DEF withE
    <3> QED
      BY <2>2, <3>1, <3>4 DEF Objects
  <2> HIDE DEF added
  <2>5. current' = [dir |-> cur, object |-> added] /\ current'.dir = cur /\ current'.object = added
    BY <1>0, <2>1 DEF BrowsingTypes
  <2>6. BrowsingTypes'
    <3>1. requests' \in 0..StoredRequests
      BY <1>0, <2>1, DatabasesAssumption DEF BrowsingTypes
    <3> QED
      BY <1>0, <2>1, <2>2, <2>4, <2>5, <3>1 DEF BrowsingTypes
  <2>7. FileSizes'
    <3>1. \A d \in Dirs : \A x \in DOMAIN records[d].files : records[d].files[x] = Bytes[x]
      BY DEF BrowsingInv, FileSizes
    <3>2. \A x \in DOMAIN object.files : object.files[x] = Bytes[x]
      BY <2>1, <2>2 DEF BrowsingInv, FileSizes
    <3> QED
      BY <2>1, <2>2, <2>5, <3>1, <3>2 DEF FileSizes
  <2>8. FilesAreListed'
    BY <2>1 DEF FilesAreListed
  <2>9. StoredTree!RecordsAreSums'
    <3>1. e \notin Dirs
      BY <2>1, TreeAssumption
    <3> QED
      BY <2>1, <2>2, <3>1, SameBrowsedTree DEF StoredTree!RecordsAreSums, SizeIsSum
  <2>10. StoredTree!ScreenMatchesStore'
    BY <2>1 DEF StoredTree!ScreenMatchesStore
  <2> QED
    BY <2>1, <2>5, <2>6, <2>7, <2>8, <2>9, <2>10 DEF BrowsingInv
<1> QED
  BY <1>1, <1>2, <1>3, <1>4, SameBrowsedTree DEF StoredTree!Next

LEMMA BrowsingStutter == BrowsingInv /\ UNCHANGED StoredTree!vars => BrowsingInv'
BY DEF StoredTree!vars, BrowsingInv, BrowsingTypes, FileSizes, FilesAreListed,
   StoredTree!RecordsAreSums, StoredTree!ScreenMatchesStore

LEMMA BrowsingSafe ==
  ASSUME BrowsingInv
  PROVE  StoredTree!TypeOK /\ StoredTree!NothingHidden
<1>1. /\ current.dir \in Dirs /\ current.object \in Objects(current.dir)
      /\ DOMAIN shown = DOMAIN current.object.files \cup current.object.dirs
      /\ \A d \in Dirs : records[d] \in Objects(d)
      /\ disk \subseteq Entries /\ requests \in 0..StoredRequests /\ emptied \subseteq Files
  BY DEF BrowsingInv, BrowsingTypes, StoredTree!Rows
<1>2. DOMAIN shown \subseteq Entries /\ current.object.dirs = Children(current.dir) \cap Dirs
  BY <1>1, ObjectFacts
<1>3. \A d \in Dirs : /\ DOMAIN records[d].files \subseteq Files
                      /\ records[d].dirs \subseteq Dirs /\ records[d].size \in Int
  BY <1>1, ObjectFacts
<1>4. StoredTree!TypeOK
  BY <1>1, <1>2, <1>3, SameBrowsedTree DEF StoredTree!TypeOK
<1>5. StoredTree!NothingHidden
  BY <1>1, <1>2, SameBrowsedTree DEF StoredTree!NothingHidden, BrowsingInv, FilesAreListed, Entries
<1> QED
  BY <1>4, <1>5
-----------------------------------------------------------------------------
(* The invariant of SqliteTree *)

ItemsOk(its) ==
  /\ its \in Seq([entry : Dirs \cup Files, size : Int, up : Nat])
  /\ Len(its) >= 1 /\ its[1].entry = Root /\ its[1].up = 0
  /\ \A i \in 2..Len(its) :
       its[i].up \in 1..(i - 1) /\ its[i].entry \in Children(its[its[i].up].entry)

ItemsInv ==
  /\ ItemsOk(items)
  /\ current \in 1..Len(items) /\ items[current].entry \in Dirs
  /\ shown \subseteq 1..Len(items) /\ \A i \in shown : items[i].up = current

RowsInv ==
  /\ rows \in [DOMAIN rows -> Int] /\ DOMAIN rows \subseteq Dirs \cup Files
  /\ Root \in DOMAIN rows
  /\ SqliteTree!RowsAreATree

\* A job past its question has an item that was on screen.
JobRecords ==
  [stage : {"idle", "asked", "begun", "removed", "writing", "drawing"},
   item : Nat, dir : Nat, size : Int]
JobsInv ==
  /\ job \in [Workers -> JobRecords]
  /\ \A w \in Workers :
       /\ job[w].stage = "idle" => job[w] = SqliteTree!NoJob
       /\ job[w].stage # "idle" => job[w].item \in 2..Len(items)
       /\ job[w].stage \notin {"idle", "asked"} => job[w].dir \in 1..Len(items)

\* Rows go only once their entries have gone, or were emptied.
RemovedFirst ==
  /\ disk \subseteq Entries
  /\ \A w \in Workers : job[w].stage \in {"removed", "writing", "drawing"} =>
       SqliteTree!SubtreeOf[items[job[w].item].entry] \cap disk \subseteq emptied
  /\ SqliteTree!NothingHidden

\* Behind the modal there is one job, of an item on screen, and what it takes
\* off is what the item was read with.
AtWork == {w \in Workers : job[w].stage # "idle"}
OneJob == ~inBackground => \A v, w \in AtWork : v = w
JobOnScreen ==
  ~inBackground => \A w \in AtWork :
    job[w].item \in shown /\ (job[w].stage # "asked" => job[w].dir = current)
TakesItsSize ==
  ~inBackground => \A w \in Workers : job[w].stage = "writing" => job[w].size = items[job[w].item].size

\* Until its rows are gone the items on screen are what the rows say, so what
\* is taken off is what the row has.
ItemIsRow(i) == items[i].entry \in DOMAIN rows /\ items[i].size = rows[items[i].entry]
ScreenIsRows ==
  ~inBackground /\ (\A w \in Workers : job[w].stage # "drawing") => \A i \in shown : ItemIsRow(i)
NeverStale == ~inBackground => ~stale

\* The items above have rows, from which they differ by what is being taken off.
Taking == \E w \in Workers : job[w].stage = "writing"
ChainHasRows ==
  ~inBackground => \A i \in SqliteTree!Chain(current, items) : items[i].entry \in DOMAIN rows
ChainIsRows ==
  ~inBackground /\ ~failed /\ ~Taking =>
    \A i \in SqliteTree!Chain(current, items) : items[i].size = rows[items[i].entry]
ChainIsAhead ==
  ~inBackground /\ ~failed => \A w \in Workers : job[w].stage = "writing" =>
    \A i \in SqliteTree!Chain(current, items) : items[i].size = rows[items[i].entry] - job[w].size
Modal ==
  OneJob /\ JobOnScreen /\ TakesItsSize /\ ScreenIsRows /\ NeverStale
    /\ ChainHasRows /\ ChainIsRows /\ ChainIsAhead

TableIsSums(tab) ==
  \A d \in Dirs \cap DOMAIN tab : tab[d] = EmptySize(d) + SumOver(tab, Children(d) \cap DOMAIN tab)

DatabaseTreeInv ==
  /\ inBackground \in BOOLEAN /\ failed \in BOOLEAN /\ stale \in BOOLEAN /\ emptied \subseteq Files
  /\ ItemsInv /\ RowsInv /\ JobsInv /\ RemovedFirst /\ Modal
  /\ (inBackground /\ stale) \/ TableIsSums(rows)


LEMMA SameDatabaseTree ==
  /\ SqliteTree!Entries = Entries /\ \A d : SqliteTree!Children(d) = Children(d)
  /\ \A f, S : SqliteTree!SumOver(f, S) = SumOver(f, S)
  /\ SqliteTree!SubtreeOf = SubtreeOf /\ SqliteTree!ScannedSize = ScannedSize
  /\ \A d : SqliteTree!EmptySize(d) = EmptySize(d)
BY DEF SqliteTree!Children, Children, SqliteTree!Entries, Entries, SqliteTree!SumOver, SumOver,
   SqliteTree!FoldSet, FoldSet, SqliteTree!MapThenFoldSet, MapThenFoldSet,
   SqliteTree!SubtreeOf, SubtreeOf, SqliteTree!ScannedSize, ScannedSize,
   SqliteTree!EmptySize, EmptySize, SqliteTree!EmptyDirSize, EmptyDirSize

IsChain(f, its) == f = [j \in 0..Len(its) |-> IF j = 0 THEN {} ELSE {j} \cup f[its[j].up]]

LEMMA ChainChosen ==
  ASSUME NEW its, NEW i
  PROVE  SqliteTree!Chain(i, its) = (CHOOSE f : IsChain(f, its))[i]
BY DEF SqliteTree!Chain, IsChain

\* Every item was reached through one read before it.
Linked(its) == Len(its) \in Nat /\ \A i \in 1..Len(its) : its[i].up \in 0..(i - 1)

LEMMA ChainExists ==
  ASSUME NEW its, Linked(its)
  PROVE  \E f : IsChain(f, its)
<1> DEFINE Holds(f, n) == \A j \in 0..n : f[j] = IF j = 0 THEN {} ELSE {j} \cup f[its[j].up]
           Some(n) == \E f : f = [j \in 0..n |-> f[j]] /\ Holds(f, n)
           Good == {n \in Nat : n <= Len(its) => Some(n)}
<1>0. Len(its) \in Nat
  BY DEF Linked
<1>1. 0 \in Good
  <2> DEFINE f == [j \in 0..0 |-> {}]
  <2>0. 0..0 = {0}
    OBVIOUS
  <2>1. f = [j \in 0..0 |-> f[j]] /\ Holds(f, 0)
    BY <2>0
  <2> QED
    BY <2>1
<1>2. ASSUME NEW n \in Nat, n \in Good PROVE n + 1 \in Good
  <2> SUFFICES ASSUME n + 1 <= Len(its) PROVE Some(n + 1)
    <3> HIDE DEF Some
    <3> QED
      OBVIOUS
  <2>1. PICK f : f = [j \in 0..n |-> f[j]] /\ Holds(f, n)
    BY <1>0, <1>2
  <2> DEFINE g == [j \in 0..(n + 1) |-> IF j = n + 1 THEN {n + 1} \cup f[its[n + 1].up] ELSE f[j]]
  <2>2. \A j \in 0..(n + 1) : j = n + 1 \/ j \in 0..n
    OBVIOUS
  <2>3. \A j \in 1..(n + 1) : its[j].up \in 0..(j - 1) /\ its[j].up \in 0..n
    BY <1>0 DEF Linked
  <2>4. \A j \in 0..n : g[j] = f[j]
    OBVIOUS
  <2>5. g[n + 1] = {n + 1} \cup f[its[n + 1].up]
    OBVIOUS
  <2>6. g = [j \in 0..(n + 1) |-> g[j]]
    OBVIOUS
  <2> HIDE DEF g
  <2>7. Holds(g, n + 1)
    <3> SUFFICES ASSUME NEW j \in 0..(n + 1)
                 PROVE  g[j] = IF j = 0 THEN {} ELSE {j} \cup g[its[j].up]
      OBVIOUS
    <3>1. CASE j = n + 1
      <4>1. its[n + 1].up \in 0..n /\ j # 0
        BY <2>3, <3>1
      <4> QED
        BY <2>4, <2>5, <3>1, <4>1
    <3>2. CASE j \in 0..n /\ j # 0
      <4>1. its[j].up \in 0..n
        BY <2>3, <3>2
      <4>2. f[j] = {j} \cup f[its[j].up]
        BY <2>1, <3>2
      <4> QED
        BY <2>4, <3>2, <4>1, <4>2
    <3>3. CASE j = 0
      BY <2>1, <2>4, <3>3
    <3> QED
      BY <2>2, <3>1, <3>2, <3>3
  <2> QED
    BY <2>6, <2>7
<1>3. Nat \subseteq Good
  <2> HIDE DEF Good
  <2> QED
    BY <1>1, <1>2, CountingInduction
<1>4. PICK f : f = [j \in 0..Len(its) |-> f[j]] /\ Holds(f, Len(its))
  BY <1>0, <1>3
<1>5. f = [j \in 0..Len(its) |-> IF j = 0 THEN {} ELSE {j} \cup f[its[j].up]]
  BY <1>4
<1> QED
  BY <1>5 DEF IsChain

LEMMA ChainEquation ==
  ASSUME NEW its, Linked(its), NEW i \in 0..Len(its)
  PROVE  SqliteTree!Chain(i, its) = IF i = 0 THEN {} ELSE {i} \cup SqliteTree!Chain(its[i].up, its)
<1>1. PICK f : f = CHOOSE g : IsChain(g, its)
  OBVIOUS
<1>2. IsChain(f, its)
  BY <1>1, ChainExists
<1>3. f[i] = IF i = 0 THEN {} ELSE {i} \cup f[its[i].up]
  BY <1>2 DEF IsChain
<1>4. SqliteTree!Chain(i, its) = f[i]
  BY <1>1, ChainChosen
<1>5. SqliteTree!Chain(its[i].up, its) = f[its[i].up]
  BY <1>1, ChainChosen
<1> QED
  BY <1>3, <1>4, <1>5

\* The chain of an item is of items read before it, and does not depend on what
\* else was read.
LEMMA ChainFacts ==
  ASSUME NEW its, Linked(its), NEW other, Linked(other), Len(its) <= Len(other),
         \A j \in 1..Len(its) : other[j].up = its[j].up
  PROVE  \A i \in 0..Len(its) :
           SqliteTree!Chain(i, its) \subseteq 1..i /\ SqliteTree!Chain(i, other) = SqliteTree!Chain(i, its)
<1> DEFINE Fine(i) == /\ SqliteTree!Chain(i, its) \subseteq 1..i
                      /\ SqliteTree!Chain(i, other) = SqliteTree!Chain(i, its)
           Good == {n \in Nat : \A i \in 0..n : i <= Len(its) => Fine(i)}
<1>0. Len(its) \in Nat /\ Len(other) \in Nat
  BY DEF Linked
<1>1. 0 \in Good
  <2> SUFFICES Fine(0)
    OBVIOUS
  <2>1. 0 \in 0..Len(its) /\ 0 \in 0..Len(other)
    BY <1>0
  <2>2. SqliteTree!Chain(0, its) = {} /\ SqliteTree!Chain(0, other) = {}
    BY <2>1, ChainEquation
  <2> QED
    BY <2>2
<1>2. ASSUME NEW n \in Nat, n \in Good PROVE n + 1 \in Good
  <2> SUFFICES ASSUME n + 1 <= Len(its) PROVE Fine(n + 1)
    BY <1>2
  <2>1. n + 1 \in 0..Len(its) /\ n + 1 \in 0..Len(other) /\ n + 1 # 0
    BY <1>0
  <2> DEFINE u == its[n + 1].up
  <2>2. u \in 0..n /\ other[n + 1].up = u
    BY <1>0 DEF Linked
  <2>3. Fine(u)
    BY <1>0, <1>2, <2>2
  <2>4. /\ SqliteTree!Chain(n + 1, its) = {n + 1} \cup SqliteTree!Chain(u, its)
        /\ SqliteTree!Chain(n + 1, other) = {n + 1} \cup SqliteTree!Chain(u, other)
    BY <2>1, <2>2, ChainEquation
  <2>5. 1..u \subseteq 1..(n + 1) /\ n + 1 \in 1..(n + 1)
    BY <2>2
  <2> QED
    BY <2>3, <2>4, <2>5
<1>3. Nat \subseteq Good
  <2> HIDE DEF Good
  <2> QED
    BY <1>1, <1>2, CountingInduction
<1>4. Len(its) \in Good
  BY <1>0, <1>3
<1>5. \A i \in 0..Len(its) : i <= Len(its)
  BY <1>0
<1>6. \A i \in 0..Len(its) : Fine(i)
  <2> HIDE DEF Fine
  <2> QED
    BY <1>4, <1>5
<1> QED
  BY <1>6

\* The items read of a directory, in the order of some enumeration.
LEMMA BelowItems ==
  ASSUME NEW its, NEW i, NEW tab
  PROVE  /\ Len(SqliteTree!Below(i, its, tab)) \in Nat
         /\ SqliteTree!Below(i, its, tab) = [k \in 1..Len(SqliteTree!Below(i, its, tab)) |-> SqliteTree!Below(i, its, tab)[k]]
         /\ \A k \in 1..Len(SqliteTree!Below(i, its, tab)) :
              \E e \in Children(its[i].entry) \cap DOMAIN tab :
                SqliteTree!Below(i, its, tab)[k] = [entry |-> e, size |-> tab[e], up |-> i]
<1> DEFINE S == {[entry |-> e, size |-> tab[e], up |-> i] : e \in {x \in Children(its[i].entry) : x \in DOMAIN tab}}
           B == SqliteTree!Below(i, its, tab)
<1>1. B = CHOOSE f \in [1..Cardinality(S) -> S] : \A x, y \in DOMAIN f : f[x] = f[y] => x = y
  BY SameDatabaseTree DEF SqliteTree!Below, SqliteTree!Item, SqliteTree!Seqs!SetToSeq,
     SqliteTree!Seqs!IsInjective, Cardinality, SqliteTree!Seqs!Cardinality
<1>2. IsFiniteSet(S)
  <2> DEFINE C == {x \in Children(its[i].entry) : x \in DOMAIN tab}
  <2>1. IsFiniteSet(C)
    BY ListingFacts, FS_Subset
  <2> DEFINE g == [e \in C |-> [entry |-> e, size |-> tab[e], up |-> i]]
  <2>2. g \in [C -> S] /\ \A t \in S : \E e \in C : g[e] = t
    OBVIOUS
  <2> HIDE DEF C, g, S
  <2>3. g \in Surjection(C, S)
    BY <2>2 DEF Surjection
  <2> QED
    BY <2>1, <2>3, FS_Surjection
<1> HIDE DEF S
<1>3. PICK n \in Nat : ExistsBijection(1..n, S)
  BY <1>2, FS_NatBijection
<1>4. n = Cardinality(S)
  BY <1>2, <1>3, FS_CountingElements
<1>5. \E f \in [1..Cardinality(S) -> S] : \A x, y \in DOMAIN f : f[x] = f[y] => x = y
  BY <1>3, <1>4 DEF ExistsBijection, Bijection, Injection, IsInjective
<1>6. B \in [1..n -> S]
  BY <1>1, <1>4, <1>5
<1> HIDE DEF B
<1>7. Len(B) = n
  BY <1>6
<1>8. \A k \in 1..Len(B) : B[k] \in S
  BY <1>6, <1>7
<1> QED
  BY <1>6, <1>7, <1>8 DEF B, S

-----------------------------------------------------------------------------
LEMMA SeqFacts ==
  ASSUME NEW R, NEW s, s \in Seq(R)
  PROVE  /\ Len(s) \in Nat /\ DOMAIN s = 1..Len(s) /\ s = [i \in 1..Len(s) |-> s[i]]
         /\ \A i \in 1..Len(s) : s[i] \in R
OBVIOUS

LEMMA ConcatFacts ==
  ASSUME NEW R, NEW s, s \in Seq(R), NEW t, t \in Seq(R)
  PROVE  /\ s \o t \in Seq(R) /\ Len(s \o t) = Len(s) + Len(t)
         /\ \A j \in 1..Len(s) : (s \o t)[j] = s[j]
         /\ \A j \in (Len(s) + 1)..(Len(s) + Len(t)) :
              (s \o t)[j] = t[j - Len(s)] /\ j - Len(s) \in 1..Len(t)
<1>1. s \o t \in Seq(R) /\ Len(s \o t) = Len(s) + Len(t) /\ Len(s) \in Nat /\ Len(t) \in Nat
  OBVIOUS
<1>2. \A j \in 1..Len(s) : (s \o t)[j] = s[j]
  OBVIOUS
<1>3. ASSUME NEW j \in (Len(s) + 1)..(Len(s) + Len(t))
      PROVE  (s \o t)[j] = t[j - Len(s)] /\ j - Len(s) \in 1..Len(t)
  OBVIOUS
<1> QED
  BY <1>1, <1>2, <1>3

LEMMA LinkedItems ==
  ASSUME NEW its, ItemsOk(its)
  PROVE  /\ Linked(its) /\ Len(its) \in Nat /\ DOMAIN its = 1..Len(its)
         /\ \A i \in 1..Len(its) : its[i] \in [entry : Dirs \cup Files, size : Int, up : Nat]
<1>1. /\ Len(its) \in Nat /\ DOMAIN its = 1..Len(its)
      /\ \A i \in 1..Len(its) : its[i] \in [entry : Dirs \cup Files, size : Int, up : Nat]
  BY SeqFacts DEF ItemsOk
<1>2. \A i \in 1..Len(its) : its[i].up \in 0..(i - 1)
  <2> TAKE i \in 1..Len(its)
  <2>1. CASE i = 1
    BY <2>1 DEF ItemsOk
  <2>2. CASE i # 1
    <3>1. i \in 2..Len(its)
      BY <1>1, <2>2
    <3>2. its[i].up \in 1..(i - 1)
      BY <3>1 DEF ItemsOk
    <3> QED
      BY <3>2
  <2> QED
    BY <2>1, <2>2
<1> QED
  BY <1>1, <1>2 DEF Linked

\* Reading a directory appends items.
ReadInto(its, i, tab, new) ==
  /\ ItemsOk(new) /\ Len(its) <= Len(new) /\ Len(new) \in Nat
  /\ Len(new) = Len(its) + Len(SqliteTree!Below(i, its, tab))
  /\ \A j \in 1..Len(its) : new[j] = its[j]
  /\ \A j \in (Len(its) + 1)..Len(new) :
       /\ new[j].up = i /\ new[j].entry \in Children(its[i].entry) \cap DOMAIN tab
       /\ new[j].size = tab[new[j].entry]

LEMMA ReadFacts ==
  ASSUME NEW its, ItemsOk(its), NEW tab, tab \in [DOMAIN tab -> Int], DOMAIN tab \subseteq Dirs \cup Files,
         NEW i \in 1..Len(its), NEW new, new = its \o SqliteTree!Below(i, its, tab)
  PROVE  ReadInto(its, i, tab, new)
<1> DEFINE B == SqliteTree!Below(i, its, tab)
           R == [entry : Dirs \cup Files, size : Int, up : Nat]
           Fresh(r) == \E e \in Children(its[i].entry) \cap DOMAIN tab : r = [entry |-> e, size |-> tab[e], up |-> i]
<1>1. Len(B) \in Nat /\ B = [k \in 1..Len(B) |-> B[k]] /\ \A k \in 1..Len(B) : Fresh(B[k])
  BY BelowItems
<1>2. Len(its) \in Nat
  BY LinkedItems
<1>s. its \in Seq(R)
  BY DEF ItemsOk
<1>3. \A r : Fresh(r) => /\ r \in R /\ r.up = i /\ r.entry \in Children(its[i].entry) \cap DOMAIN tab
                         /\ r.size = tab[r.entry]
  <2> SUFFICES ASSUME NEW e \in Children(its[i].entry) \cap DOMAIN tab
               PROVE  [entry |-> e, size |-> tab[e], up |-> i] \in R
    OBVIOUS
  <2>1. tab[e] \in Int /\ e \in Dirs \cup Files /\ i \in Nat
    BY <1>2
  <2> QED
    BY <2>1
<1> HIDE DEF B, Fresh
<1>4. \A k \in 1..Len(B) : B[k] \in R
  BY <1>1, <1>3
<1>5. B \in Seq(R)
  <2>1. B \in [1..Len(B) -> R]
    BY <1>1, <1>4
  <2> HIDE DEF R
  <2> QED
    BY <1>1, <2>1
<1>6. /\ new \in Seq(R) /\ Len(new) = Len(its) + Len(B)
      /\ \A j \in 1..Len(its) : new[j] = its[j]
      /\ \A j \in (Len(its) + 1)..Len(new) : new[j] = B[j - Len(its)] /\ j - Len(its) \in 1..Len(B)
  <2>1. new = its \o B
    BY DEF B
  <2> HIDE DEF R
  <2> QED
    BY <1>s, <1>5, <2>1, ConcatFacts
<1>7. \A j \in (Len(its) + 1)..Len(new) : Fresh(new[j])
  BY <1>1, <1>6
<1>8. ItemsOk(new)
  <2>1. \A j \in 2..Len(new) : new[j].up \in 1..(j - 1) /\ new[j].entry \in Children(new[new[j].up].entry)
    <3> TAKE j \in 2..Len(new)
    <3>1. CASE j <= Len(its)
      <4>1. j \in 2..Len(its) /\ j \in 1..Len(its)
        BY <1>2, <3>1
      <4>2. its[j].up \in 1..(j - 1) /\ its[j].entry \in Children(its[its[j].up].entry)
        BY <4>1 DEF ItemsOk
      <4>3. its[j].up \in 1..Len(its)
        <5> DEFINE u == its[j].up
        <5>1. u \in 1..(j - 1)
          BY <4>2
        <5> HIDE DEF u
        <5>2. u \in 1..Len(its)
          BY <1>2, <4>1, <5>1
        <5> QED
          BY <5>2 DEF u
      <4> QED
        BY <1>6, <4>1, <4>2, <4>3
    <3>2. CASE j > Len(its)
      <4>1. j \in (Len(its) + 1)..Len(new)
        BY <1>2, <3>2
      <4>2. new[j].up = i /\ new[j].entry \in Children(its[i].entry)
        BY <1>3, <1>7, <4>1
      <4>3. i \in 1..(j - 1) /\ new[i] = its[i]
        BY <1>2, <1>6, <3>2
      <4> QED
        BY <4>2, <4>3
    <3> QED
      BY <1>2, <3>1, <3>2
  <2>2. Len(new) >= 1 /\ new[1] = its[1]
    BY <1>1, <1>2, <1>6
  <2> QED
    BY <1>6, <2>1, <2>2 DEF ItemsOk
<1>9. Len(new) \in Nat /\ Len(its) <= Len(new)
  BY <1>1, <1>2, <1>6
<1> QED
  BY <1>3, <1>6, <1>7, <1>8, <1>9 DEF B, ReadInto

\* What SubtractLoaded makes of the items.
LEMMA ResizedFacts ==
  ASSUME NEW its, ItemsOk(its), NEW C, NEW n \in Int, NEW new,
         new = [i \in DOMAIN its |-> IF i \in C THEN [its[i] EXCEPT !.size = @ - n] ELSE its[i]]
  PROVE  /\ ItemsOk(new) /\ Len(new) = Len(its) /\ Len(its) \in Nat
         /\ \A i \in 1..Len(its) : /\ new[i].entry = its[i].entry /\ new[i].up = its[i].up
                                   /\ i \notin C => new[i] = its[i]
                                   /\ i \in C => new[i].size = its[i].size - n
<1> DEFINE R == [entry : Dirs \cup Files, size : Int, up : Nat]
<1>1. /\ Len(its) \in Nat /\ DOMAIN its = 1..Len(its) /\ \A i \in 1..Len(its) : its[i] \in R
  BY LinkedItems
<1>2. ASSUME NEW i \in 1..Len(its)
      PROVE  /\ new[i] \in R /\ new[i].entry = its[i].entry /\ new[i].up = its[i].up
             /\ i \notin C => new[i] = its[i]
             /\ i \in C => new[i].size = its[i].size - n
  <2>1. its[i] \in R /\ its[i].size - n \in Int
    BY <1>1
  <2>2. new[i] = IF i \in C THEN [its[i] EXCEPT !.size = @ - n] ELSE its[i]
    BY <1>1
  <2> QED
    BY <2>1, <2>2
<1>3. new \in Seq(R) /\ Len(new) = Len(its)
  <2>1. new \in [1..Len(its) -> R]
    BY <1>1, <1>2
  <2> HIDE DEF R
  <2> QED
    BY <1>1, <2>1
<1>4. ItemsOk(new)
  <2>1. Len(new) >= 1 /\ new[1].entry = Root /\ new[1].up = 0
    BY <1>1, <1>2, <1>3 DEF ItemsOk
  <2>2. ASSUME NEW i \in 2..Len(new)
        PROVE  new[i].up \in 1..(i - 1) /\ new[i].entry \in Children(new[new[i].up].entry)
    <3>1. i \in 2..Len(its) /\ i \in 1..Len(its)
      BY <1>1, <1>3
    <3>2. its[i].up \in 1..(i - 1) /\ its[i].entry \in Children(its[its[i].up].entry)
      BY <3>1 DEF ItemsOk
    <3>3. its[i].up \in 1..Len(its)
      BY <1>1, <3>1, <3>2
    <3> QED
      BY <1>2, <3>1, <3>2, <3>3
  <2> QED
    BY <1>3, <2>1, <2>2 DEF ItemsOk
<1> QED
  BY <1>1, <1>2, <1>3, <1>4

\* The chain of an item is of directories above its entry, and itself.
LEMMA ChainIsLineage ==
  ASSUME NEW its, ItemsOk(its)
  PROVE  \A i \in 1..Len(its) : \A k \in SqliteTree!Chain(i, its) :
           k \in 1..i /\ its[k].entry \in Lineage(its[i].entry)
<1>0. Linked(its) /\ Len(its) \in Nat /\ \A i \in 1..Len(its) : its[i].entry \in Dirs \cup Files
  BY LinkedItems
<1> DEFINE Fine(i) == \A k \in SqliteTree!Chain(i, its) : its[k].entry \in Lineage(its[i].entry)
           Good == {n \in Nat : \A i \in 1..n : i <= Len(its) => Fine(i)}
<1>1. 0 \in Good
  OBVIOUS
<1>2. ASSUME NEW n \in Nat, n \in Good PROVE n + 1 \in Good
  <2> SUFFICES ASSUME n + 1 <= Len(its) PROVE Fine(n + 1)
    <3> HIDE DEF Fine
    <3> QED
      BY <1>2
  <2>1. n + 1 \in 0..Len(its) /\ n + 1 \in 1..Len(its) /\ n + 1 # 0 /\ 0 \in 0..Len(its)
    BY <1>0
  <2> DEFINE u == its[n + 1].up
             e == its[n + 1].entry
  <2>2. SqliteTree!Chain(n + 1, its) = {n + 1} \cup SqliteTree!Chain(u, its)
    BY <1>0, <2>1, ChainEquation
  <2>3. e \in Lineage(e)
    BY <1>0, <2>1, LineageFacts
  <2>4. CASE n = 0
    <3>1. u = 0
      BY <2>4 DEF ItemsOk
    <3>2. SqliteTree!Chain(0, its) = {}
      BY <1>0, <2>1, ChainEquation
    <3> QED
      BY <2>2, <2>3, <3>1, <3>2
  <2>5. CASE n # 0
    <3>1. n + 1 \in 2..Len(its)
      BY <1>0, <2>1, <2>5
    <3> DEFINE m == n + 1
    <3>a. m \in 2..Len(its) /\ m - 1 = n
      BY <3>1
    <3> HIDE DEF m
    <3>b. its[m].up \in 1..(m - 1) /\ its[m].entry \in Children(its[its[m].up].entry)
      BY <3>a DEF ItemsOk
    <3>2. u \in 1..n /\ e \in Children(its[u].entry)
      BY <3>a, <3>b DEF m
    <3>3. e \in Entries /\ Parent[e] = its[u].entry
      BY <3>2, ListingFacts
    <3>4. Lineage(its[u].entry) \subseteq Lineage(e)
      BY <3>3, LineageUp
    <3>5. u \in 1..n /\ u <= Len(its)
      BY <1>0, <3>2, <2>1
    <3>6. Fine(u)
      <4> HIDE DEF Fine
      <4> QED
        BY <1>2, <3>5
    <3> QED
      BY <2>2, <2>3, <3>4, <3>6
  <2> QED
    BY <2>4, <2>5
<1>3. Nat \subseteq Good
  <2> HIDE DEF Good
  <2> QED
    BY <1>1, <1>2, CountingInduction
<1>4. Len(its) \in Good
  BY <1>0, <1>3
<1>5. \A i \in 1..Len(its) : Fine(i)
  <2> HIDE DEF Fine
  <2>1. \A i \in 1..Len(its) : i <= Len(its)
    BY <1>0
  <2> QED
    BY <1>4, <2>1
<1>6. \A i \in 1..Len(its) : SqliteTree!Chain(i, its) \subseteq 1..i
  <2>1. \A i \in 1..Len(its) : i \in 0..Len(its)
    BY <1>0
  <2>2. Len(its) <= Len(its)
    BY <1>0
  <2> QED
    BY <1>0, <2>1, <2>2, ChainFacts
<1> QED
  BY <1>5, <1>6

\* The directories above what has a row have rows.
LEMMA AncestorsHaveRows ==
  ASSUME NEW tab, Root \in DOMAIN tab, DOMAIN tab \subseteq Dirs \cup Files,
         \A x \in DOMAIN tab \ {Root} : Parent[x] \in DOMAIN tab
  PROVE  \A x \in DOMAIN tab : Lineage(x) \subseteq DOMAIN tab
<1> DEFINE Good == {x \in Entries : x \in DOMAIN tab => Lineage(x) \subseteq DOMAIN tab}
<1>1. ASSUME NEW x \in Entries, Parent[x] = Root \/ Parent[x] \in Good PROVE x \in Good
  BY <1>1, LineageUp DEF Entries
<1>2. Entries \subseteq Good
  BY <1>1, DownTheTree
<1> QED
  BY <1>2, LineageUp DEF Entries

\* A summand that has changed changes the sum.
Grows(f, g, S, c, k) ==
  /\ IsFiniteSet(S) /\ c \in S /\ k \in Int
  /\ \A x \in S : f[x] \in Int /\ g[x] \in Int
  /\ \A x \in S \ {c} : f[x] = g[x]
  /\ g[c] = f[c] + k

LEMMA GrownSum ==
  ASSUME NEW f, NEW g, NEW S, NEW c, NEW k, Grows(f, g, S, c, k)
  PROVE  SumOver(g, S) = SumOver(f, S) + k
BY SumGrow DEF Grows

\* Taking an entry with its subtree out of the table, and its size off the
\* directories above.
LEMMA WithoutSums ==
  ASSUME NEW tab, tab \in [DOMAIN tab -> Int], Root \in DOMAIN tab, DOMAIN tab \subseteq Dirs \cup Files,
         \A x \in DOMAIN tab \ {Root} : Parent[x] \in DOMAIN tab,
         NEW e \in Entries, e \in DOMAIN tab, NEW new,
         new = [x \in DOMAIN tab \ SubtreeOf[e] |->
                  IF x \in Lineage(Parent[e]) THEN tab[x] - tab[e] ELSE tab[x]],
         TableIsSums(tab)
  PROVE  TableIsSums(new)
<1> SUFFICES ASSUME NEW d \in Dirs \cap DOMAIN new
             PROVE  new[d] = EmptySize(d) + SumOver(new, Children(d) \cap DOMAIN new)
  BY DEF TableIsSums
<1> DEFINE P == Lineage(Parent[e])
           K == Children(d) \cap DOMAIN tab
           N == Children(d) \cap DOMAIN new
           own == EmptySize(d)
<1>0. own \in Int
  BY EmptySizeType
<1> HIDE DEF own
<1>1. /\ d \in DOMAIN tab /\ d \notin SubtreeOf[e] /\ DOMAIN new = DOMAIN tab \ SubtreeOf[e]
      /\ \A x \in DOMAIN new : new[x] = IF x \in P THEN tab[x] - tab[e] ELSE tab[x]
      /\ \A x \in DOMAIN tab : tab[x] \in Int
  OBVIOUS
<1>2. /\ IsFiniteSet(K) /\ \A x \in Children(d) : x \in Entries /\ Parent[x] = d
      /\ e \in SubtreeOf[e] /\ Parent[e] \in Dirs
  BY ListingFacts, FS_Subset, SubtreeFacts
<1>3. /\ Parent[e] \in P /\ P \subseteq DOMAIN tab
      /\ \A x \in P \ {Root} : Parent[x] \in P /\ Parent[x] # Parent[e]
  <2>1. Lineage(e) \subseteq DOMAIN tab
    BY AncestorsHaveRows
  <2> QED
    BY <1>2, <2>1, LineageUp, LineageFacts
<1>4. \A x \in K : x \in SubtreeOf[e] => x = e
  BY <1>1, <1>2, BelowFacts
<1>5. \A x \in N : x \in K
  BY <1>1
<1>6. tab[d] = own + SumOver(tab, K) /\ SumOver(tab, K) \in Int /\ \A x \in K : tab[x] \in Int
  <2>1. \A x \in K : tab[x] \in Int
    OBVIOUS
  <2>2. SumOver(tab, K) \in Int
    BY <1>2, <2>1, SumType
  <2> QED
    BY <1>1, <2>1, <2>2 DEF TableIsSums, own
<1>7. CASE d = Parent[e]
  <2>1. e \in K /\ N = K \ {e}
    BY <1>1, <1>2, <1>4, <1>7 DEF Children
  <2>2. \A x \in N : x \notin P
    BY <1>2, <1>3, <1>7 DEF Entries
  <2>3. \A x \in N : new[x] = tab[x]
    BY <1>1, <2>2
  <2> HIDE DEF K, N
  <2>4. IsFiniteSet(N)
    BY <1>2, <2>1, FS_Subset
  <2>5. SumOver(new, N) = SumOver(tab, N)
    BY <2>3, <2>4, SumSame
  <2>6. SumOver(tab, K) = tab[e] + SumOver(tab, N) /\ SumOver(tab, N) \in Int
    BY <1>2, <1>6, <2>1, SumDrop
  <2>7. new[d] = tab[d] - tab[e] /\ tab[e] \in Int
    BY <1>1, <1>3, <1>7
  <2> QED
    BY <1>0, <1>6, <2>5, <2>6, <2>7 DEF N, own
<1>8. CASE d # Parent[e] /\ d \in P
  <2>1. PICK c \in Children(d) : c \in P /\ \A b \in Children(d) : b \in P => b = c
    BY <1>2, <1>8, LineageFacts
  <2>2. N = K
    BY <1>1, <1>2, <1>4, <1>8
  <2>3. c \in K /\ c \in N
    BY <1>3, <2>1, <2>2
  <2> DEFINE k == 0 - tab[e]
  <2>4. k \in Int /\ tab[e] \in Int
    BY <1>1
  <2>5. /\ \A x \in K : tab[x] \in Int /\ new[x] \in Int
        /\ \A x \in K \ {c} : tab[x] = new[x]
        /\ new[c] = tab[c] + k
    <3>1. \A x \in K \ {c} : x \in DOMAIN new /\ x \notin P
      BY <2>1, <2>2
    <3>2. c \in DOMAIN new /\ c \in P
      BY <2>1, <2>3
    <3>3. ASSUME NEW x \in K \ {c} PROVE tab[x] = new[x]
      BY <1>1, <3>1
    <3>4. new[c] = tab[c] - tab[e] /\ tab[c] \in Int
      BY <1>1, <1>6, <2>3, <3>2
    <3>5. new[c] = tab[c] + k /\ new[c] \in Int
      BY <2>4, <3>4
    <3> HIDE DEF K, N, P, k
    <3> QED
      BY <1>6, <3>3, <3>5
  <2> HIDE DEF K, N, k
  <2>6. SumOver(new, K) = SumOver(tab, K) + k
    <3>1. IsFiniteSet(K) /\ c \in K /\ k \in Int
      BY <1>2, <2>3, <2>4
    <3>2. \A x \in K : tab[x] \in Int /\ new[x] \in Int
      BY <2>5
    <3>3. \A x \in K \ {c} : tab[x] = new[x]
      BY <2>5
    <3>4. new[c] = tab[c] + k
      BY <2>5
    <3> HIDE DEF P
    <3>5. Grows(tab, new, K, c, k)
      BY <3>1, <3>2, <3>3, <3>4 DEF Grows
    <3> QED
      BY <3>5, GrownSum
  <2>7. new[d] = tab[d] - tab[e]
    BY <1>1, <1>8
  <2>8. new[d] = own + SumOver(new, N)
    BY <1>0, <1>6, <2>2, <2>4, <2>6, <2>7 DEF k
  <2> QED
    BY <2>8 DEF N, own
<1>9. CASE d \notin P
  <2>1. N = K
    BY <1>1, <1>2, <1>3, <1>4, <1>9
  <2>2. \A x \in K : x \notin P
    BY <1>2, <1>3, <1>9 DEF Entries
  <2>3. \A x \in K : new[x] = tab[x]
    BY <1>1, <2>1, <2>2
  <2>4. new[d] = tab[d]
    BY <1>1, <1>9
  <2> HIDE DEF K, N
  <2>5. SumOver(new, K) = SumOver(tab, K)
    BY <1>2, <2>3, SumSame
  <2>6. new[d] = own + SumOver(new, N)
    BY <1>6, <2>1, <2>4, <2>5
  <2> QED
    BY <2>6 DEF N, own
<1> QED
  BY <1>7, <1>8, <1>9

\* The directories whose rows a removal corrects.
LEMMA AboveFacts == \A e \in Entries : SqliteTree!Above(e) = Lineage(Parent[e])
<1> SUFFICES ASSUME NEW e \in Entries PROVE SqliteTree!Above(e) = Lineage(Parent[e])
  OBVIOUS
<1>1. e \in SubtreeOf[e] /\ e \in Dirs \cup Files
  BY SubtreeFacts DEF Entries
<1>2. Lineage(Parent[e]) = Lineage(e) \ {e}
  BY <1>1, LineageUp, LineageApart
<1>3. SqliteTree!Above(e) = Lineage(e) \ {e}
  BY <1>1, LineageFacts, SameDatabaseTree, TreeAssumption DEF SqliteTree!Above, Lineage
<1> QED
  BY <1>2, <1>3

LEMMA ScanLeavesSums ==
  ASSUME NEW tab, tab = [e \in Dirs \cup Files |-> IF e \in Dirs THEN ScannedSize[e] ELSE Bytes[e]]
  PROVE  /\ tab \in [DOMAIN tab -> Int] /\ DOMAIN tab = Dirs \cup Files /\ TableIsSums(tab)
<1>1. \A e \in Dirs \cup Files : tab[e] = (IF e \in Dirs THEN ScannedSize[e] ELSE Bytes[e]) /\ tab[e] \in Int
  BY ScannedSizeEquation, BytesAssumption
<1>2. DOMAIN tab = Dirs \cup Files
  OBVIOUS
<1>3. tab \in [DOMAIN tab -> Int]
  BY <1>1, <1>2
<1>4. ASSUME NEW d \in Dirs PROVE tab[d] = EmptySize(d) + SumOver(tab, Children(d) \cap DOMAIN tab)
  <2> DEFINE F == Children(d) \cap Files
             D == Children(d) \cap Dirs
  <2>1. IsFiniteSet(F) /\ IsFiniteSet(D) /\ F \cap D = {} /\ F \cup D = Children(d) \cap DOMAIN tab
    BY <1>2, ListingFacts, FS_Subset, TreeAssumption DEF Entries
  <2>2. \A x \in F : tab[x] = Bytes[x]
    BY <1>1, TreeAssumption
  <2>3. \A x \in D : tab[x] = ScannedSize[x]
    BY <1>1
  <2>4. \A x \in F \cup D : tab[x] \in Int
    BY <1>1
  <2>5. ScannedSize[d] = EmptySize(d) + SumOver(Bytes, F) + SumOver(ScannedSize, D)
    BY ScannedSizeEquation
  <2>6. tab[d] = ScannedSize[d]
    BY <1>1
  <2> HIDE DEF F, D
  <2>7. SumOver(tab, F) = SumOver(Bytes, F)
    BY <2>1, <2>2, SumSame
  <2>8. SumOver(tab, D) = SumOver(ScannedSize, D)
    BY <2>1, <2>3, SumSame
  <2>9. SumOver(tab, F \cup D) = SumOver(tab, F) + SumOver(tab, D)
    BY <2>1, <2>4, SumUnion
  <2>10. SumOver(tab, F) \in Int /\ SumOver(tab, D) \in Int /\ EmptySize(d) \in Int
    BY <2>1, <2>4, SumType, EmptySizeType
  <2> QED
    <3>1. tab[d] = EmptySize(d) + (SumOver(tab, F) + SumOver(tab, D))
      BY <2>5, <2>6, <2>7, <2>8, <2>10
    <3> QED
      BY <2>1, <2>9, <3>1
<1> QED
  BY <1>2, <1>3, <1>4 DEF TableIsSums

LEMMA DatabaseTreeStarts == ASSUME SqliteTree!Init PROVE DatabaseTreeInv
<1> DEFINE top == <<[entry |-> Root, size |-> rows[Root], up |-> 0]>>
<1>0. /\ inBackground \in BOOLEAN /\ disk = Entries /\ current = 1 /\ shown = 2..Len(items)
      /\ rows = [e \in Dirs \cup Files |-> IF e \in Dirs THEN ScannedSize[e] ELSE Bytes[e]]
      /\ items = top \o SqliteTree!Below(1, top, rows)
      /\ job = [w \in Workers |-> SqliteTree!NoJob] /\ emptied = {} /\ failed = FALSE /\ stale = FALSE
  BY SameDatabaseTree DEF SqliteTree!Init, SqliteTree!Top, SqliteTree!Item
<1>1. rows \in [DOMAIN rows -> Int] /\ DOMAIN rows = Dirs \cup Files /\ TableIsSums(rows)
  BY <1>0, ScanLeavesSums
<1>2. ItemsOk(top) /\ Len(top) = 1 /\ top[1].entry = Root /\ top[1].size = rows[Root] /\ top[1].up = 0
  BY <1>1, TreeAssumption DEF ItemsOk
<1> HIDE DEF top
<1>3. /\ ItemsOk(items) /\ 1 <= Len(items) /\ Len(items) \in Nat /\ items[1] = top[1]
      /\ \A j \in 2..Len(items) :
           /\ items[j].up = 1 /\ items[j].entry \in Children(Root) \cap DOMAIN rows
           /\ items[j].size = rows[items[j].entry]
  <2>1. 1 \in 1..Len(top)
    BY <1>2
  <2>2. rows \in [DOMAIN rows -> Int] /\ DOMAIN rows \subseteq Dirs \cup Files
    BY <1>1
  <2>a. items = top \o SqliteTree!Below(1, top, rows) /\ ItemsOk(top)
    BY <1>0, <1>2
  <2>3. /\ ItemsOk(items) /\ Len(top) <= Len(items) /\ Len(items) \in Nat
        /\ \A j \in 1..Len(top) : items[j] = top[j]
        /\ \A j \in (Len(top) + 1)..Len(items) :
             /\ items[j].up = 1 /\ items[j].entry \in Children(top[1].entry) \cap DOMAIN rows
             /\ items[j].size = rows[items[j].entry]
    <3>1. ReadInto(top, 1, rows, items)
      BY <2>1, <2>2, <2>a, ReadFacts
    <3> QED
      BY <3>1 DEF ReadInto
  <2>4. (Len(top) + 1)..Len(items) = 2..Len(items)
    BY <1>2
  <2> QED
    BY <1>2, <2>1, <2>3, <2>4
<1>4. SqliteTree!Chain(1, items) = {1}
  <2>1. 1 \in 0..Len(items) /\ 0 \in 0..Len(items) /\ Linked(items)
    BY <1>3, LinkedItems
  <2>2. SqliteTree!Chain(0, items) = {}
    BY <2>1, ChainEquation
  <2> QED
    BY <1>2, <1>3, <2>1, <2>2, ChainEquation
<1>5. ItemsInv
  <2>1. 2..Len(items) \subseteq 1..Len(items) /\ 1 \in 1..Len(items)
    BY <1>3
  <2> QED
    BY <1>0, <1>2, <1>3, <2>1, TreeAssumption DEF ItemsInv
<1>6. RowsInv
  BY <1>1, ListingFacts, TreeAssumption DEF RowsInv, SqliteTree!RowsAreATree, Entries
<1>7. \A w \in Workers : job[w] = SqliteTree!NoJob /\ job[w].stage = "idle"
  BY <1>0 DEF SqliteTree!NoJob
<1>8. JobsInv
  <2>1. SqliteTree!NoJob \in JobRecords
    BY DEF SqliteTree!NoJob, JobRecords
  <2>2. job \in [Workers -> JobRecords]
    BY <1>0, <2>1
  <2> QED
    BY <1>7, <2>2 DEF JobsInv
<1>9. RemovedFirst
  BY <1>0, <1>1, <1>7 DEF RemovedFirst, SqliteTree!NothingHidden, Entries
<1>10. Modal
  <2>1. ScreenIsRows
    BY <1>0, <1>3 DEF ScreenIsRows, ItemIsRow
  <2>2. OneJob /\ JobOnScreen /\ TakesItsSize /\ NeverStale /\ ChainIsAhead
    BY <1>0, <1>7 DEF OneJob, JobOnScreen, TakesItsSize, NeverStale, ChainIsAhead, AtWork
  <2>3. ChainHasRows /\ ChainIsRows
    <3>1. SqliteTree!Chain(current, items) = {1}
      BY <1>0, <1>4
    <3>2. items[1].entry \in DOMAIN rows /\ items[1].size = rows[items[1].entry]
      BY <1>1, <1>2, <1>3, TreeAssumption
    <3> QED
      BY <3>1, <3>2 DEF ChainHasRows, ChainIsRows
  <2> QED
    BY <2>1, <2>2, <2>3 DEF Modal
<1> QED
  BY <1>0, <1>1, <1>5, <1>6, <1>8, <1>9, <1>10 DEF DatabaseTreeInv

\* What changes only where a worker is with its job.
LEMMA JobOnly ==
  ASSUME DatabaseTreeInv, NEW w \in Workers, NEW new \in JobRecords, job' = [job EXCEPT ![w] = new],
         UNCHANGED <<inBackground, rows, items, current, shown, stale>>,
         failed' \in BOOLEAN, failed => failed', disk' \subseteq disk,
         emptied \subseteq emptied', emptied' \subseteq Files,
         new.stage = "idle" => new = SqliteTree!NoJob,
         new.stage # "idle" => new.item \in 2..Len(items),
         new.stage \notin {"idle", "asked"} => new.dir \in 1..Len(items),
         new.stage \in {"removed", "drawing"} =>
           SubtreeOf[items[new.item].entry] \cap disk' \subseteq emptied',
         new.stage # "writing", job[w].stage # "drawing", job[w].stage = "writing" => failed',
         ~inBackground /\ new.stage # "idle" =>
           /\ \A v \in AtWork : v = w
           /\ new.item \in shown /\ (new.stage # "asked" => new.dir = current)
  PROVE  DatabaseTreeInv'
<1>0. /\ inBackground \in BOOLEAN /\ stale \in BOOLEAN
      /\ ItemsInv /\ RowsInv /\ JobsInv /\ RemovedFirst
      /\ OneJob /\ JobOnScreen /\ TakesItsSize /\ ScreenIsRows /\ NeverStale
      /\ ChainHasRows /\ ChainIsRows /\ ChainIsAhead
      /\ (inBackground /\ stale) \/ TableIsSums(rows)
  BY DEF DatabaseTreeInv, Modal
<1>1. /\ job \in [Workers -> JobRecords] /\ job' \in [Workers -> JobRecords] /\ job'[w] = new
      /\ \A v \in Workers \ {w} : job'[v] = job[v]
      /\ inBackground' = inBackground /\ rows' = rows /\ items' = items /\ current' = current
      /\ shown' = shown /\ stale' = stale
  BY <1>0 DEF JobsInv
<1>2. ItemsInv' /\ RowsInv' /\ NeverStale' /\ ChainHasRows'
      /\ ((inBackground' /\ stale') \/ TableIsSums(rows'))
  BY <1>0, <1>1 DEF ItemsInv, RowsInv, SqliteTree!RowsAreATree, NeverStale, ChainHasRows
<1>3. JobsInv'
  BY <1>0, <1>1 DEF JobsInv
<1>4. RemovedFirst'
  BY <1>0, <1>1, SameDatabaseTree DEF RemovedFirst, SqliteTree!NothingHidden
<1>5. OneJob' /\ JobOnScreen' /\ TakesItsSize'
  BY <1>0, <1>1 DEF OneJob, JobOnScreen, TakesItsSize, AtWork
<1>6. ScreenIsRows'
  BY <1>0, <1>1 DEF ScreenIsRows, ItemIsRow
<1>7. ChainIsRows'
  BY <1>0, <1>1 DEF ChainIsRows, Taking
<1>8. ChainIsAhead'
  BY <1>0, <1>1 DEF ChainIsAhead
<1> QED
  BY <1>0, <1>1, <1>2, <1>3, <1>4, <1>5, <1>6, <1>7, <1>8 DEF DatabaseTreeInv, Modal

\* The stages in which a worker only moves on.
LEMMA JobSteps ==
  ASSUME DatabaseTreeInv, NEW w \in Workers,
         \/ \E i \in 1..Len(items) : SqliteTree!Request(w, i)
         \/ SqliteTree!Begin(w) \/ SqliteTree!RemoveFromDisk(w) \/ SqliteTree!Truncate(w)
         \/ SqliteTree!RemoveFails(w) \/ SqliteTree!WriteFails(w)
  PROVE  DatabaseTreeInv'
<1>0. /\ job \in [Workers -> JobRecords] /\ failed \in BOOLEAN /\ emptied \subseteq Files
      /\ disk \subseteq Entries /\ OneJob /\ JobOnScreen
      /\ \A v \in Workers :
           /\ job[v].stage = "idle" => job[v] = SqliteTree!NoJob
           /\ job[v].stage # "idle" => job[v].item \in 2..Len(items)
           /\ job[v].stage \notin {"idle", "asked"} => job[v].dir \in 1..Len(items)
           /\ job[v].stage \in {"removed", "writing", "drawing"} =>
                SubtreeOf[items[job[v].item].entry] \cap disk \subseteq emptied
      /\ ItemsInv
  BY SameDatabaseTree DEF DatabaseTreeInv, JobsInv, RemovedFirst, Modal
<1>j. job[w] \in JobRecords /\ current \in 1..Len(items) /\ current \in Nat
  <2>1. Len(items) \in Nat
    BY <1>0, LinkedItems DEF ItemsInv
  <2>2. current \in 1..Len(items)
    BY <1>0 DEF ItemsInv
  <2> QED
    BY <1>0, <2>1, <2>2
<1>n. SqliteTree!NoJob \in JobRecords /\ SqliteTree!NoJob.stage = "idle"
  BY DEF SqliteTree!NoJob, JobRecords
<1>a. ~inBackground /\ job[w].stage # "idle" =>
        /\ \A v \in AtWork : v = w
        /\ job[w].item \in shown /\ (job[w].stage # "asked" => job[w].dir = current)
  BY <1>0 DEF OneJob, JobOnScreen, AtWork
<1>1. ASSUME NEW i \in 1..Len(items), SqliteTree!Request(w, i) PROVE DatabaseTreeInv'
  <2> DEFINE new == [stage |-> "asked", item |-> i, dir |-> 0, size |-> 0]
  <2>0. /\ job' = [job EXCEPT ![w] = new] /\ job[w] = SqliteTree!NoJob /\ i \in shown
        /\ (inBackground \/ SqliteTree!Quiet)
        /\ UNCHANGED <<inBackground, disk, rows, items, current, shown, emptied, failed, stale>>
    BY <1>1 DEF SqliteTree!Request, SqliteTree!Free
  <2>1. SqliteTree!Quiet => AtWork = {}
    BY <1>n DEF SqliteTree!Quiet, SqliteTree!Busy, AtWork
  <2>2. i \in 2..Len(items) /\ i \in Nat
    <3>1. Len(items) \in Nat /\ items[i].up = current /\ items[1].up = 0
      BY <1>0, <2>0, LinkedItems DEF ItemsInv, ItemsOk
    <3> QED
      BY <1>j, <3>1
  <2>3. /\ new \in JobRecords /\ new.stage = "asked" /\ new.item = i
    BY <2>2 DEF JobRecords
  <2> HIDE DEF new
  <2>4. \A v \in AtWork : ~inBackground => v = w
    BY <2>0, <2>1
  <2> QED
    BY <1>0, <1>n, <2>0, <2>2, <2>3, <2>4, JobOnly
<1>2. CASE SqliteTree!Begin(w)
  <2> DEFINE new == [job[w] EXCEPT !.stage = "begun", !.dir = current]
  <2>0. /\ job' = [job EXCEPT ![w] = new] /\ job[w].stage = "asked"
        /\ UNCHANGED <<inBackground, disk, rows, items, current, shown, emptied, failed, stale>>
    BY <1>0, <1>2 DEF SqliteTree!Begin
  <2>3. new \in JobRecords /\ new.stage = "begun" /\ new.item = job[w].item /\ new.dir = current
    BY <1>j DEF JobRecords
  <2> HIDE DEF new
  <2> QED
    BY <1>0, <1>j, <1>a, <2>0, <2>3, JobOnly
<1>3. CASE SqliteTree!RemoveFromDisk(w)
  <2> DEFINE new == [job[w] EXCEPT !.stage = "removed"]
  <2>0. /\ job' = [job EXCEPT ![w] = new] /\ job[w].stage = "begun"
        /\ disk' = disk \ SubtreeOf[items[job[w].item].entry]
        /\ UNCHANGED <<inBackground, rows, items, current, shown, emptied, failed, stale>>
    BY <1>0, <1>3, SameDatabaseTree DEF SqliteTree!RemoveFromDisk
  <2>3. new \in JobRecords /\ new.stage = "removed" /\ new.item = job[w].item /\ new.dir = job[w].dir
    BY <1>j DEF JobRecords
  <2> HIDE DEF new
  <2>4. disk' \subseteq disk /\ SubtreeOf[items[new.item].entry] \cap disk' \subseteq emptied'
    BY <2>0, <2>3
  <2> QED
    BY <1>0, <1>j, <1>a, <2>0, <2>3, <2>4, JobOnly
<1>4. CASE SqliteTree!Truncate(w)
  <2> DEFINE new == [job[w] EXCEPT !.stage = "removed"]
  <2>0. /\ job' = [job EXCEPT ![w] = new] /\ job[w].stage = "begun"
        /\ items[job[w].item].entry \in Files
        /\ emptied' = emptied \cup {items[job[w].item].entry}
        /\ UNCHANGED <<inBackground, disk, rows, items, current, shown, failed, stale>>
    BY <1>0, <1>4, SameDatabaseTree DEF SqliteTree!Truncate
  <2>3. new \in JobRecords /\ new.stage = "removed" /\ new.item = job[w].item /\ new.dir = job[w].dir
    BY <1>j DEF JobRecords
  <2> HIDE DEF new
  <2>4. emptied \subseteq emptied' /\ emptied' \subseteq Files
        /\ SubtreeOf[items[new.item].entry] \cap disk' \subseteq emptied'
    <3>1. \A f \in Files : SubtreeOf[f] = {f}
      <4> TAKE f \in Files
      <4>1. f \in Entries /\ Children(f) = {}
        BY ListingFacts
      <4>2. \A c \in Entries : Parent[c] # f
        BY <4>1 DEF Children
      <4> QED
        BY <4>1, <4>2, SubtreeEquation
    <3> QED
      BY <1>0, <2>0, <2>3, <3>1
  <2> QED
    BY <1>0, <1>j, <1>a, <2>0, <2>3, <2>4, JobOnly
<1>5. CASE SqliteTree!RemoveFails(w)
  <2>0. /\ job' = [job EXCEPT ![w] = SqliteTree!NoJob] /\ job[w].stage = "begun"
        /\ disk' \subseteq disk
        /\ UNCHANGED <<inBackground, rows, items, current, shown, emptied, failed, stale>>
    BY <1>0, <1>5 DEF SqliteTree!RemoveFails
  <2> QED
    BY <1>0, <1>n, <2>0, JobOnly
<1>6. CASE SqliteTree!WriteFails(w)
  <2> DEFINE new == [job[w] EXCEPT !.stage = "drawing"]
  <2>0. /\ job' = [job EXCEPT ![w] = new] /\ job[w].stage = "writing" /\ failed' = TRUE
        /\ UNCHANGED <<inBackground, disk, rows, items, current, shown, emptied, stale>>
    BY <1>0, <1>6 DEF SqliteTree!WriteFails
  <2>3. new \in JobRecords /\ new.stage = "drawing" /\ new.item = job[w].item /\ new.dir = job[w].dir
    BY <1>j DEF JobRecords
  <2> HIDE DEF new
  <2> QED
    BY <1>0, <1>j, <1>a, <2>0, <2>3, JobOnly
<1> QED
  BY <1>1, <1>2, <1>3, <1>4, <1>5, <1>6

LEMMA LoadedStep ==
  ASSUME DatabaseTreeInv, NEW w \in Workers, SqliteTree!SubtractLoaded(w)
  PROVE  DatabaseTreeInv'
<1> DEFINE C == SqliteTree!Chain(job[w].dir, items)
           n == items[job[w].item].size
           new == [job[w] EXCEPT !.stage = "writing", !.size = n]
<1>0. /\ inBackground \in BOOLEAN /\ failed \in BOOLEAN /\ stale \in BOOLEAN /\ emptied \subseteq Files
      /\ ItemsInv /\ RowsInv /\ JobsInv /\ RemovedFirst
      /\ OneJob /\ JobOnScreen /\ TakesItsSize /\ ScreenIsRows /\ NeverStale
      /\ ChainHasRows /\ ChainIsRows /\ ChainIsAhead
      /\ (inBackground /\ stale) \/ TableIsSums(rows)
  BY DEF DatabaseTreeInv, Modal
<1>1. /\ job[w].stage = "removed" /\ job' = [job EXCEPT ![w] = new]
      /\ items' = [i \in DOMAIN items |-> IF i \in C THEN [items[i] EXCEPT !.size = @ - n] ELSE items[i]]
      /\ UNCHANGED <<inBackground, disk, rows, current, shown, requests, emptied, failed, stale>>
  BY <1>0 DEF SqliteTree!SubtractLoaded, JobsInv
<1>2. /\ ItemsOk(items) /\ Linked(items) /\ Len(items) \in Nat
      /\ current \in 1..Len(items) /\ shown \subseteq 1..Len(items)
      /\ \A i \in shown : items[i].up = current
      /\ \A i \in 1..Len(items) : items[i].size \in Int
  BY <1>0, LinkedItems DEF ItemsInv
<1>3. job \in [Workers -> JobRecords] /\ job[w].item \in 2..Len(items) /\ job[w].item \in 1..Len(items)
  <2>1. job \in [Workers -> JobRecords] /\ job[w].item \in 2..Len(items)
    BY <1>0, <1>1 DEF JobsInv
  <2> QED
    BY <1>2, <2>1
<1>4. n \in Int
  BY <1>2, <1>3
<1>5. /\ new \in JobRecords /\ new.stage = "writing" /\ new.size = n
      /\ new.item = job[w].item /\ new.dir = job[w].dir
  <2>1. job[w] \in JobRecords
    BY <1>3
  <2> QED
    BY <1>4, <2>1 DEF JobRecords
<1> HIDE DEF C, new
<1>6. /\ ItemsOk(items') /\ Len(items') = Len(items)
      /\ \A i \in 1..Len(items) : /\ items'[i].entry = items[i].entry /\ items'[i].up = items[i].up
                                  /\ i \notin C => items'[i] = items[i]
                                  /\ i \in C => items'[i].size = items[i].size - n
  <2>1. PICK its : its = items'
    OBVIOUS
  <2> HIDE DEF n
  <2>2. its = [i \in DOMAIN items |-> IF i \in C THEN [items[i] EXCEPT !.size = @ - n] ELSE items[i]]
    BY <1>1, <2>1
  <2>3. ItemsOk(items) /\ n \in Int
    BY <1>2, <1>4
  <2>4. /\ ItemsOk(its) /\ Len(its) = Len(items)
        /\ \A i \in 1..Len(items) : /\ its[i].entry = items[i].entry /\ its[i].up = items[i].up
                                    /\ i \notin C => its[i] = items[i]
                                    /\ i \in C => its[i].size = items[i].size - n
    BY <2>2, <2>3, ResizedFacts
  <2> QED
    BY <2>1, <2>4
<1>7. /\ SqliteTree!Chain(current, items) \subseteq 1..current
      /\ SqliteTree!Chain(current, items') = SqliteTree!Chain(current, items)
  <2>1. Linked(items') /\ Len(items) <= Len(items') /\ current \in 0..Len(items)
    BY <1>2, <1>6, LinkedItems
  <2> QED
    BY <1>2, <1>6, <2>1, ChainFacts
<1>8. \A i \in shown : i \in 1..Len(items) /\ i \notin 1..current
  <2> TAKE i \in shown
  <2>1. i \in 1..Len(items) /\ items[i].up \in 0..(i - 1) /\ items[i].up = current
    BY <1>2 DEF Linked
  <2> QED
    BY <1>2, <2>1
<1>9. /\ job' \in [Workers -> JobRecords] /\ job'[w] = new /\ \A v \in Workers \ {w} : job'[v] = job[v]
  BY <1>1, <1>3, <1>5
<1>10. ASSUME ~inBackground
       PROVE  /\ job[w].item \in shown /\ C = SqliteTree!Chain(current, items)
              /\ \A v \in Workers \ {w} : job[v].stage = "idle"
  <2>1. w \in AtWork
    BY <1>1 DEF AtWork
  <2>2. job[w].item \in shown /\ job[w].dir = current
    BY <1>0, <1>1, <1>10, <2>1 DEF JobOnScreen
  <2>3. \A v \in Workers \ {w} : job[v].stage = "idle"
    BY <1>0, <1>10, <2>1 DEF OneJob, AtWork
  <2> QED
    BY <2>2, <2>3 DEF C
<1>11. ASSUME ~inBackground PROVE \A i \in shown : items'[i] = items[i]
  BY <1>6, <1>7, <1>8, <1>10, <1>11
<1>12. ItemsInv'
  <2>1. items'[current].entry \in Dirs /\ \A i \in shown : items'[i].up = current
    BY <1>0, <1>2, <1>6, <1>8 DEF ItemsInv
  <2> QED
    BY <1>1, <1>2, <1>6, <2>1 DEF ItemsInv
<1>13. RowsInv' /\ NeverStale' /\ ((inBackground' /\ stale') \/ TableIsSums(rows'))
  BY <1>0, <1>1 DEF RowsInv, SqliteTree!RowsAreATree, NeverStale
<1>14. JobsInv'
  BY <1>0, <1>1, <1>5, <1>6, <1>9 DEF JobsInv
<1>15. RemovedFirst'
  <2>1. ASSUME NEW v \in Workers, job'[v].stage \in {"removed", "writing", "drawing"}
        PROVE  SubtreeOf[items'[job'[v].item].entry] \cap disk \subseteq emptied
    <3>1. job'[v].item = job[v].item /\ job[v].stage \in {"removed", "writing", "drawing"}
      BY <1>1, <1>5, <1>9, <2>1
    <3>2. job[v].item \in 2..Len(items)
      BY <1>0, <3>1 DEF JobsInv
    <3>3. job[v].item \in 1..Len(items)
      BY <1>2, <3>2
    <3> QED
      BY <1>0, <1>6, <3>1, <3>3, SameDatabaseTree DEF RemovedFirst
  <2> QED
    BY <1>0, <1>1, <2>1, SameDatabaseTree DEF RemovedFirst, SqliteTree!NothingHidden
<1>16. OneJob' /\ JobOnScreen'
  BY <1>0, <1>1, <1>5, <1>9, <1>10 DEF OneJob, JobOnScreen, AtWork
<1>17. TakesItsSize'
  <2> SUFFICES ASSUME ~inBackground, NEW v \in Workers, job'[v].stage = "writing"
               PROVE  job'[v].size = items'[job'[v].item].size
    BY <1>1 DEF TakesItsSize
  <2>1. v = w
    BY <1>9, <1>10
  <2> QED
    BY <1>5, <1>9, <1>10, <1>11, <2>1
<1>18. ScreenIsRows'
  BY <1>0, <1>1, <1>9, <1>10, <1>11 DEF ScreenIsRows, ItemIsRow
<1>19. ChainHasRows'
  <2> SUFFICES ASSUME ~inBackground, NEW i \in SqliteTree!Chain(current, items)
               PROVE  items'[i].entry \in DOMAIN rows
    BY <1>1, <1>7 DEF ChainHasRows
  <2>1. i \in 1..Len(items)
    BY <1>2, <1>7
  <2> QED
    BY <1>0, <1>6, <2>1 DEF ChainHasRows
<1>20. ChainIsRows'
  BY <1>5, <1>9 DEF ChainIsRows, Taking
<1>21. ChainIsAhead'
  <2> SUFFICES ASSUME ~inBackground, ~failed, NEW v \in Workers, job'[v].stage = "writing",
                      NEW i \in SqliteTree!Chain(current, items)
               PROVE  items'[i].size = rows[items'[i].entry] - job'[v].size
    BY <1>1, <1>7 DEF ChainIsAhead
  <2>1. v = w /\ ~Taking
    BY <1>1, <1>9, <1>10 DEF Taking
  <2>2. i \in 1..Len(items) /\ i \in C
    BY <1>2, <1>7, <1>10
  <2>3. items[i].size = rows[items[i].entry]
    BY <1>0, <2>1 DEF ChainIsRows
  <2> QED
    BY <1>5, <1>6, <1>9, <2>1, <2>2, <2>3
<1> QED
  BY <1>0, <1>1, <1>12, <1>13, <1>14, <1>15, <1>16, <1>17, <1>18, <1>19, <1>20, <1>21
     DEF DatabaseTreeInv, Modal

LEMMA WriteStep ==
  ASSUME DatabaseTreeInv, NEW w \in Workers, SqliteTree!Write(w)
  PROVE  DatabaseTreeInv'
<1> DEFINE e == items[job[w].item].entry
           n == job[w].size
           new == [job[w] EXCEPT !.stage = "drawing"]
<1>0. /\ inBackground \in BOOLEAN /\ failed \in BOOLEAN /\ stale \in BOOLEAN /\ emptied \subseteq Files
      /\ ItemsInv /\ RowsInv /\ JobsInv /\ RemovedFirst
      /\ OneJob /\ JobOnScreen /\ TakesItsSize /\ ScreenIsRows /\ NeverStale
      /\ ChainHasRows /\ ChainIsRows /\ ChainIsAhead
      /\ (inBackground /\ stale) \/ TableIsSums(rows)
  BY DEF DatabaseTreeInv, Modal
<1>1. /\ job[w].stage = "writing" /\ job' = [job EXCEPT ![w] = new]
      /\ rows' = SqliteTree!Without(e, n)
      /\ stale' = (stale \/ (e \in DOMAIN rows /\ n # rows[e]))
      /\ UNCHANGED <<inBackground, disk, items, current, shown, requests, emptied, failed>>
  BY <1>0 DEF SqliteTree!Write, JobsInv
<1>2. /\ ItemsOk(items) /\ Len(items) \in Nat
      /\ current \in 1..Len(items) /\ shown \subseteq 1..Len(items)
      /\ \A i \in shown : items[i].up = current
  BY <1>0, LinkedItems DEF ItemsInv
<1>3. /\ job \in [Workers -> JobRecords] /\ job[w].item \in 2..Len(items)
      /\ job[w] \in JobRecords /\ n \in Int
  BY <1>0, <1>1 DEF JobsInv, JobRecords
<1>4. /\ new \in JobRecords /\ new.stage = "drawing"
      /\ new.item = job[w].item /\ new.dir = job[w].dir
  BY <1>3 DEF JobRecords
<1>5. e \in Entries /\ Parent[e] = items[items[job[w].item].up].entry
  <2>1. items[job[w].item].entry \in Children(items[items[job[w].item].up].entry)
    BY <1>2, <1>3 DEF ItemsOk
  <2> QED
    BY <2>1, ListingFacts
<1> HIDE DEF new
<1>6. /\ job' \in [Workers -> JobRecords] /\ job'[w] = new /\ \A v \in Workers \ {w} : job'[v] = job[v]
  BY <1>1, <1>3, <1>4
<1>7. ASSUME ~inBackground
      PROVE  /\ job[w].item \in shown /\ e \in DOMAIN rows /\ rows[e] = n
             /\ \A v \in Workers \ {w} : job[v].stage = "idle"
  <2>1. job[w].item \in shown /\ \A v \in Workers \ {w} : job[v].stage = "idle"
    BY <1>0, <1>1, <1>7 DEF OneJob, JobOnScreen, AtWork
  <2>2. ItemIsRow(job[w].item)
    BY <1>0, <1>1, <1>7, <2>1 DEF ScreenIsRows
  <2> QED
    BY <1>0, <1>1, <1>7, <2>1, <2>2 DEF ItemIsRow, TakesItsSize
<1>8. /\ rows \in [DOMAIN rows -> Int] /\ DOMAIN rows \subseteq Dirs \cup Files /\ Root \in DOMAIN rows
      /\ \A x \in DOMAIN rows \ {Root} : Parent[x] \in DOMAIN rows
  BY <1>0 DEF RowsInv, SqliteTree!RowsAreATree
<1> DEFINE P == Lineage(Parent[e])
<1>9. \/ e \notin DOMAIN rows /\ rows' = rows
      \/ e \in DOMAIN rows
         /\ rows' = [x \in DOMAIN rows \ SubtreeOf[e] |-> IF x \in P THEN rows[x] - n ELSE rows[x]]
  BY <1>1, <1>5, AboveFacts, SameDatabaseTree DEF SqliteTree!Without
<1>10. /\ \A x \in DOMAIN rows' : x \in DOMAIN rows /\ rows'[x] \in Int
       /\ DOMAIN rows' = DOMAIN rows \/ DOMAIN rows' = DOMAIN rows \ SubtreeOf[e]
       /\ \A x \in DOMAIN rows \ SubtreeOf[e] : x \in DOMAIN rows'
       /\ rows' = [x \in DOMAIN rows' |-> rows'[x]]
  <2>1. CASE e \notin DOMAIN rows /\ rows' = rows
    BY <1>8, <2>1
  <2>2. CASE e \in DOMAIN rows
         /\ rows' = [x \in DOMAIN rows \ SubtreeOf[e] |-> IF x \in P THEN rows[x] - n ELSE rows[x]]
    <3>1. DOMAIN rows' = DOMAIN rows \ SubtreeOf[e]
      BY <2>2
    <3> HIDE DEF P, n
    <3>2. \A x \in DOMAIN rows : rows[x] \in Int
      BY <1>8
    <3>3. \A x \in DOMAIN rows' : rows'[x] = (IF x \in P THEN rows[x] - n ELSE rows[x])
      BY <2>2
    <3>4. \A x \in DOMAIN rows' : rows'[x] \in Int
      <4>1. n \in Int
        BY <1>3 DEF n
      <4> QED
        BY <3>1, <3>2, <3>3, <4>1
    <3> QED
      BY <2>2, <3>1, <3>4
  <2> QED
    BY <1>9, <2>1, <2>2
<1>11. RowsInv'
  <2>1. Root \in DOMAIN rows'
    BY <1>5, <1>8, <1>10, SubtreeFacts DEF Entries
  <2>2. ASSUME NEW x \in DOMAIN rows' \ {Root} PROVE Parent[x] \in DOMAIN rows'
    <3>1. x \in DOMAIN rows \ {Root} /\ x \in Entries /\ Parent[x] \in DOMAIN rows
      BY <1>8, <1>10 DEF Entries
    <3>2. CASE DOMAIN rows' = DOMAIN rows
      BY <3>1, <3>2
    <3>3. CASE DOMAIN rows' = DOMAIN rows \ SubtreeOf[e]
      <4>1. x \notin SubtreeOf[e] /\ x \in SubtreeOf[x]
        BY <3>1, <3>3, SubtreeFacts
      <4>2. ASSUME Parent[x] \in SubtreeOf[e] PROVE FALSE
        <5>1. Parent[x] # Root
          BY <1>5, <4>2, SubtreeFacts DEF Entries
        <5> QED
          BY <1>5, <3>1, <4>1, <4>2, <5>1, SubtreeFacts, SubtreeNests
      <4> QED
        BY <3>1, <3>3, <4>2
    <3> QED
      BY <1>10, <3>2, <3>3
  <2>3. rows' \in [DOMAIN rows' -> Int] /\ DOMAIN rows' \subseteq Dirs \cup Files
    BY <1>8, <1>10
  <2> QED
    BY <2>1, <2>2, <2>3 DEF RowsInv, SqliteTree!RowsAreATree
<1>12. ItemsInv'
  BY <1>0, <1>1 DEF ItemsInv
<1>13. JobsInv'
  BY <1>0, <1>1, <1>4, <1>6 DEF JobsInv
<1>14. RemovedFirst'
  <2>1. SubtreeOf[e] \cap disk \subseteq emptied
    BY <1>0, <1>1, SameDatabaseTree DEF RemovedFirst
  <2>2. \A x \in disk \ emptied : x \in DOMAIN rows'
    BY <1>0, <1>10, <2>1 DEF RemovedFirst, SqliteTree!NothingHidden
  <2>3. \A v \in Workers : job'[v].stage \in {"removed", "writing", "drawing"} =>
          job[v].stage \in {"removed", "writing", "drawing"} /\ job'[v].item = job[v].item
    BY <1>1, <1>4, <1>6
  <2> QED
    BY <1>0, <1>1, <2>2, <2>3 DEF RemovedFirst, SqliteTree!NothingHidden
<1>15. OneJob' /\ JobOnScreen' /\ TakesItsSize' /\ ChainIsAhead'
  BY <1>0, <1>1, <1>4, <1>6, <1>7 DEF OneJob, JobOnScreen, AtWork, TakesItsSize, ChainIsAhead
<1>16. ScreenIsRows'
  BY <1>4, <1>6 DEF ScreenIsRows
<1>17. NeverStale'
  BY <1>0, <1>1, <1>7 DEF NeverStale
<1>18. ASSUME ~inBackground, NEW i \in SqliteTree!Chain(current, items)
       PROVE  /\ items[i].entry \in DOMAIN rows'
              /\ rows'[items[i].entry] = rows[items[i].entry] - n
  <2>1. items[i].entry \in Lineage(items[current].entry)
    BY <1>2, ChainIsLineage
  <2>2. items[current].entry = Parent[e]
    BY <1>2, <1>5, <1>7, <1>18
  <2>3. items[i].entry \in P /\ items[i].entry \notin SubtreeOf[e] /\ items[i].entry \in DOMAIN rows
    BY <1>0, <1>5, <1>18, <2>1, <2>2, LineageApart DEF ChainHasRows
  <2> HIDE DEF P, n
  <2> QED
    BY <1>7, <1>9, <1>18, <2>3
<1>19. ChainHasRows'
  BY <1>1, <1>18 DEF ChainHasRows
<1>20. ChainIsRows'
  <2> SUFFICES ASSUME ~inBackground, ~failed, NEW i \in SqliteTree!Chain(current, items)
               PROVE  items[i].size = rows'[items[i].entry]
    BY <1>1 DEF ChainIsRows
  <2>1. items[i].size = rows[items[i].entry] - n
    BY <1>0, <1>1 DEF ChainIsAhead
  <2> QED
    BY <1>18, <2>1
<1>21. (inBackground' /\ stale') \/ TableIsSums(rows')
  <2>1. CASE inBackground /\ stale
    BY <1>1, <2>1
  <2>2. CASE e \notin DOMAIN rows /\ rows' = rows
    BY <1>0, <1>1, <2>2
  <2>3. CASE e \in DOMAIN rows /\ n # rows[e]
    BY <1>1, <1>7, <2>3
  <2>4. CASE /\ TableIsSums(rows) /\ e \in DOMAIN rows /\ n = rows[e]
             /\ rows' = [x \in DOMAIN rows \ SubtreeOf[e] |-> IF x \in P THEN rows[x] - n ELSE rows[x]]
    <3>1. PICK r : r = rows'
      OBVIOUS
    <3>2. r = [x \in DOMAIN rows \ SubtreeOf[e] |->
                 IF x \in Lineage(Parent[e]) THEN rows[x] - rows[e] ELSE rows[x]]
      BY <2>4, <3>1
    <3> HIDE DEF P, e, n
    <3>3. e \in Entries
      BY <1>5
    <3>4. TableIsSums(r)
      BY <1>8, <2>4, <3>2, <3>3, WithoutSums
    <3> QED
      BY <3>1, <3>4
  <2> QED
    BY <1>0, <1>9, <2>1, <2>2, <2>3, <2>4
<1> QED
  BY <1>0, <1>1, <1>11, <1>12, <1>13, <1>14, <1>15, <1>16, <1>17, <1>19, <1>20, <1>21
     DEF DatabaseTreeInv, Modal

\* A directory is drawn again: its rows are read.
LEMMA DrawStep ==
  ASSUME DatabaseTreeInv, NEW i \in 1..Len(items), items[i].entry \in Dirs,
         SqliteTree!Draw(i, items, rows),
         UNCHANGED <<inBackground, disk, rows, emptied, failed, stale>>,
         \/ job' = job
         \/ \E w \in Workers : job[w].stage = "drawing" /\ job' = [job EXCEPT ![w] = SqliteTree!NoJob],
         ~inBackground => /\ \A v \in Workers : job'[v].stage = "idle"
                          /\ \A k \in SqliteTree!Chain(i, items) :
                               /\ items[k].entry \in DOMAIN rows
                               /\ ~failed => items[k].size = rows[items[k].entry]
  PROVE  DatabaseTreeInv'
<1>0. /\ inBackground \in BOOLEAN /\ failed \in BOOLEAN /\ stale \in BOOLEAN /\ emptied \subseteq Files
      /\ ItemsInv /\ RowsInv /\ JobsInv /\ RemovedFirst /\ NeverStale
      /\ (inBackground /\ stale) \/ TableIsSums(rows)
  BY DEF DatabaseTreeInv, Modal
<1>1. /\ current' = i
      /\ items' = items \o SqliteTree!Below(i, items, rows)
      /\ shown' = (Len(items) + 1)..(Len(items) + Len(SqliteTree!Below(i, items, rows)))
  BY DEF SqliteTree!Draw
<1>2. ItemsOk(items) /\ Linked(items) /\ Len(items) \in Nat /\ i \in Nat
  <2>1. ItemsOk(items) /\ Linked(items) /\ Len(items) \in Nat
    BY <1>0, LinkedItems DEF ItemsInv
  <2> QED
    BY <2>1
<1>3. ReadInto(items, i, rows, items')
  <2>1. PICK its : its = items'
    OBVIOUS
  <2>2. its = items \o SqliteTree!Below(i, items, rows)
    BY <1>1, <2>1
  <2>3. rows \in [DOMAIN rows -> Int] /\ DOMAIN rows \subseteq Dirs \cup Files
    BY <1>0 DEF RowsInv
  <2>4. ReadInto(items, i, rows, its)
    BY <1>2, <2>2, <2>3, ReadFacts
  <2> QED
    BY <2>1, <2>4
<1>4. /\ ItemsOk(items') /\ Len(items) <= Len(items') /\ Len(items') \in Nat
      /\ \A j \in 1..Len(items) : items'[j] = items[j] /\ j \in 1..Len(items')
      /\ shown' = (Len(items) + 1)..Len(items') /\ shown' \subseteq 1..Len(items')
      /\ \A j \in shown' :
           /\ items'[j].up = i /\ items'[j].entry \in DOMAIN rows
           /\ items'[j].size = rows[items'[j].entry]
  <2>1. /\ ItemsOk(items') /\ Len(items) <= Len(items') /\ Len(items') \in Nat
        /\ Len(items') = Len(items) + Len(SqliteTree!Below(i, items, rows))
        /\ \A j \in 1..Len(items) : items'[j] = items[j]
        /\ \A j \in (Len(items) + 1)..Len(items') :
             /\ items'[j].up = i /\ items'[j].entry \in DOMAIN rows
             /\ items'[j].size = rows[items'[j].entry]
    BY <1>3 DEF ReadInto
  <2>2. shown' = (Len(items) + 1)..Len(items')
    BY <1>1, <2>1
  <2>3. \A j \in 1..Len(items) : j \in 1..Len(items')
    BY <1>2, <2>1
  <2>4. (Len(items) + 1)..Len(items') \subseteq 1..Len(items')
    BY <1>2, <2>1
  <2> QED
    BY <2>1, <2>2, <2>3, <2>4
<1>5. SqliteTree!Chain(i, items') = SqliteTree!Chain(i, items) /\ SqliteTree!Chain(i, items) \subseteq 1..i
  <2>1. Linked(items') /\ i \in 0..Len(items)
    BY <1>2, <1>4, LinkedItems
  <2> QED
    BY <1>2, <1>4, <2>1, ChainFacts
<1>6. /\ job' \in [Workers -> JobRecords]
      /\ \A v \in Workers : job'[v] = job[v] \/ (job'[v] = SqliteTree!NoJob /\ job'[v].stage = "idle")
  <2>1. SqliteTree!NoJob \in JobRecords /\ SqliteTree!NoJob.stage = "idle"
    BY DEF SqliteTree!NoJob, JobRecords
  <2>2. job \in [Workers -> JobRecords]
    BY <1>0 DEF JobsInv
  <2> QED
    BY <2>1, <2>2
<1>7. ItemsInv'
  BY <1>1, <1>4 DEF ItemsInv
<1>8. RowsInv' /\ NeverStale' /\ ((inBackground' /\ stale') \/ TableIsSums(rows'))
  BY <1>0 DEF RowsInv, SqliteTree!RowsAreATree, NeverStale
<1>9. \A j \in 2..Len(items) : j \in 2..Len(items') /\ j \in 1..Len(items)
  BY <1>2, <1>4
<1>10. JobsInv'
  BY <1>0, <1>4, <1>6, <1>9 DEF JobsInv
<1>11. RemovedFirst'
  <2>1. ASSUME NEW v \in Workers, job'[v].stage \in {"removed", "writing", "drawing"}
        PROVE  SubtreeOf[items'[job'[v].item].entry] \cap disk \subseteq emptied
    <3>1. job'[v] = job[v]
      BY <1>6, <2>1
    <3>2. job[v].item \in 1..Len(items)
      BY <1>0, <1>9, <2>1, <3>1 DEF JobsInv
    <3> QED
      BY <1>0, <1>4, <2>1, <3>1, <3>2, SameDatabaseTree DEF RemovedFirst
  <2> QED
    BY <1>0, <2>1, SameDatabaseTree DEF RemovedFirst, SqliteTree!NothingHidden
<1>12. OneJob' /\ JobOnScreen' /\ TakesItsSize' /\ ChainIsAhead'
  BY DEF OneJob, JobOnScreen, AtWork, TakesItsSize, ChainIsAhead
<1>13. ScreenIsRows'
  BY <1>4 DEF ScreenIsRows, ItemIsRow
<1>14. ChainHasRows' /\ ChainIsRows'
  <2>1. ASSUME ~inBackground, NEW k \in SqliteTree!Chain(i, items)
        PROVE  items'[k] = items[k]
    <3>1. k \in 1..Len(items)
      BY <1>2, <1>5
    <3> QED
      BY <1>4, <3>1
  <2>2. ASSUME ~inBackground, NEW k \in SqliteTree!Chain(i, items)
        PROVE  items'[k].entry \in DOMAIN rows /\ (~failed => items'[k].size = rows[items'[k].entry])
    BY <2>1, <2>2
  <2> QED
    BY <1>1, <1>5, <2>2 DEF ChainHasRows, ChainIsRows
<1> QED
  BY <1>0, <1>1, <1>7, <1>8, <1>10, <1>11, <1>12, <1>13, <1>14 DEF DatabaseTreeInv, Modal

LEMMA DatabaseTreeStep ==
  ASSUME DatabaseTreeInv, SqliteTree!Next
  PROVE  DatabaseTreeInv'
<1>0. /\ ItemsInv /\ JobsInv /\ OneJob /\ JobOnScreen /\ ScreenIsRows
      /\ ChainHasRows /\ ChainIsRows
  BY DEF DatabaseTreeInv, Modal
<1>1. /\ ItemsOk(items) /\ Linked(items) /\ Len(items) \in Nat /\ current \in 1..Len(items)
      /\ current \in 0..Len(items) /\ items[current].entry \in Dirs
      /\ \A j \in shown : items[j].up = current
  <2>1. ItemsOk(items) /\ Linked(items) /\ Len(items) \in Nat
    BY <1>0, LinkedItems DEF ItemsInv
  <2>2. /\ current \in 1..Len(items) /\ items[current].entry \in Dirs
        /\ \A j \in shown : items[j].up = current
    BY <1>0 DEF ItemsInv
  <2>3. current \in 0..Len(items)
    BY <2>1, <2>2
  <2> QED
    BY <2>1, <2>2, <2>3
<1>2. SqliteTree!NoJob.stage = "idle"
  BY DEF SqliteTree!NoJob
<1>3. ASSUME NEW i \in 1..Len(items), SqliteTree!Browse(i) PROVE DatabaseTreeInv'
  <2>0. /\ inBackground \/ SqliteTree!Quiet
        /\ (i \in shown /\ items[i].entry \in Dirs) \/ (i # 0 /\ i = items[current].up)
        /\ SqliteTree!Draw(i, items, rows)
        /\ UNCHANGED <<inBackground, disk, rows, requests, job, emptied, failed, stale>>
    BY <1>3 DEF SqliteTree!Browse, SqliteTree!Free
  <2>1. ~inBackground => \A v \in Workers : job[v].stage = "idle"
    BY <1>2, <2>0 DEF SqliteTree!Quiet, SqliteTree!Busy
  <2>2. \A k \in SqliteTree!Chain(current, items) : ~inBackground =>
          items[k].entry \in DOMAIN rows /\ (~failed => items[k].size = rows[items[k].entry])
    BY <1>0, <2>1 DEF ChainHasRows, ChainIsRows, Taking
  <2>3. CASE i \in shown /\ items[i].entry \in Dirs
    <3>1. ~inBackground => ItemIsRow(i)
      BY <1>0, <2>1, <2>3 DEF ScreenIsRows
    <3>2. SqliteTree!Chain(i, items) = {i} \cup SqliteTree!Chain(current, items)
      <4>1. i \in 0..Len(items) /\ i # 0 /\ items[i].up = current
        BY <1>1, <2>3
      <4> QED
        BY <1>1, <4>1, ChainEquation
    <3>3. \A k \in SqliteTree!Chain(i, items) : ~inBackground =>
            items[k].entry \in DOMAIN rows /\ (~failed => items[k].size = rows[items[k].entry])
      BY <2>2, <3>1, <3>2 DEF ItemIsRow
    <3> QED
      BY <2>0, <2>1, <2>3, <3>3, DrawStep
  <2>4. CASE i # 0 /\ i = items[current].up
    <3>1. SqliteTree!Chain(current, items) = {current} \cup SqliteTree!Chain(i, items)
      <4>1. current # 0
        BY <1>1
      <4> QED
        BY <1>1, <2>4, <4>1, ChainEquation
    <3>2. items[i].entry \in Dirs
      <4>1. current # 1
        BY <1>1, <2>4 DEF ItemsOk
      <4>2. current \in 2..Len(items)
        BY <1>1, <4>1
      <4>3. items[current].entry \in Children(items[i].entry)
        BY <1>1, <2>4, <4>2 DEF ItemsOk
      <4> QED
        BY <4>3, ListingFacts
    <3>3. \A k \in SqliteTree!Chain(i, items) : ~inBackground =>
            items[k].entry \in DOMAIN rows /\ (~failed => items[k].size = rows[items[k].entry])
      BY <2>2, <3>1
    <3> QED
      BY <2>0, <2>1, <3>2, <3>3, DrawStep
  <2> QED
    BY <2>0, <2>3, <2>4
<1>4. ASSUME NEW w \in Workers, SqliteTree!Finish(w) PROVE DatabaseTreeInv'
  <2>0. /\ job[w].stage = "drawing" /\ job' = [job EXCEPT ![w] = SqliteTree!NoJob]
        /\ \/ inBackground /\ UNCHANGED <<current, items, shown>>
           \/ SqliteTree!Draw(current, items, rows)
        /\ UNCHANGED <<inBackground, disk, rows, requests, emptied, failed, stale>>
    BY <1>4 DEF SqliteTree!Finish
  <2>1. job \in [Workers -> JobRecords]
    BY <1>0 DEF JobsInv
  <2>2. job'[w] = SqliteTree!NoJob /\ \A v \in Workers \ {w} : job'[v] = job[v]
    BY <2>0, <2>1
  <2>3. CASE SqliteTree!Draw(current, items, rows)
    <3>1. ASSUME ~inBackground
          PROVE  /\ \A v \in Workers : job'[v].stage = "idle"
                 /\ ~Taking
      <4>1. \A v \in Workers \ {w} : job[v].stage = "idle"
        BY <1>0, <2>0, <3>1 DEF OneJob, AtWork
      <4> QED
        BY <1>2, <2>0, <2>2, <4>1 DEF Taking
    <3>2. \A k \in SqliteTree!Chain(current, items) : ~inBackground =>
            items[k].entry \in DOMAIN rows /\ (~failed => items[k].size = rows[items[k].entry])
      BY <1>0, <3>1 DEF ChainHasRows, ChainIsRows
    <3> QED
      BY <1>1, <2>0, <2>3, <3>1, <3>2, DrawStep
  <2>4. CASE inBackground /\ UNCHANGED <<current, items, shown>>
    <3> DEFINE Kept == UNCHANGED <<inBackground, disk, rows, items, current, shown, emptied, failed, stale>>
    <3>1. Kept /\ inBackground'
      BY <2>0, <2>4
    <3>2. Modal'
      BY <2>4, <3>1 DEF Modal, OneJob, JobOnScreen, TakesItsSize, ScreenIsRows, NeverStale,
         ChainHasRows, ChainIsRows, ChainIsAhead
    <3>3. \A v \in Workers : job'[v] = job[v] \/ (job'[v] = SqliteTree!NoJob /\ job'[v].stage = "idle")
      BY <1>2, <2>2
    <3>4. JobsInv'
      <4>1. SqliteTree!NoJob \in JobRecords
        BY DEF SqliteTree!NoJob, JobRecords
      <4>2. job' \in [Workers -> JobRecords]
        BY <2>0, <2>1, <4>1
      <4> QED
        BY <1>0, <3>1, <3>3, <4>2 DEF JobsInv
    <3>5. ItemsInv' /\ RowsInv'
      BY <3>1 DEF DatabaseTreeInv, ItemsInv, RowsInv, SqliteTree!RowsAreATree
    <3>6. RemovedFirst'
      BY <3>1, <3>3 DEF DatabaseTreeInv, RemovedFirst, SqliteTree!NothingHidden
    <3> QED
      BY <3>1, <3>2, <3>4, <3>5, <3>6 DEF DatabaseTreeInv
  <2> QED
    BY <2>0, <2>3, <2>4
<1> QED
  BY <1>3, <1>4, JobSteps, LoadedStep, WriteStep DEF SqliteTree!Next, SqliteTree!Worker

LEMMA DatabaseTreeStutter ==
  ASSUME DatabaseTreeInv, UNCHANGED SqliteTree!vars
  PROVE  DatabaseTreeInv'
<1>0. UNCHANGED <<inBackground, disk, rows, items, current, shown, requests, job, emptied, failed, stale>>
  BY DEF SqliteTree!vars
<1>1. ItemsInv' /\ RowsInv' /\ JobsInv' /\ RemovedFirst'
  BY <1>0 DEF DatabaseTreeInv, ItemsInv, RowsInv, JobsInv, RemovedFirst,
     SqliteTree!RowsAreATree, SqliteTree!NothingHidden
<1>2. Modal'
  BY <1>0 DEF DatabaseTreeInv, Modal, OneJob, JobOnScreen, TakesItsSize, ScreenIsRows, NeverStale,
     ChainHasRows, ChainIsRows, ChainIsAhead, AtWork, Taking, ItemIsRow
<1> QED
  BY <1>0, <1>1, <1>2 DEF DatabaseTreeInv

\* What the runs check of SqliteTree.
LEMMA DatabaseTreeSafe ==
  ASSUME DatabaseTreeInv
  PROVE  /\ SqliteTree!TypeOK /\ SqliteTree!RowsAreATree /\ SqliteTree!RowsAreSums
         /\ SqliteTree!NothingHidden /\ SqliteTree!ScreenMatchesRows
<1>1. /\ ItemsInv /\ RowsInv /\ RemovedFirst
      /\ (inBackground /\ stale) \/ TableIsSums(rows)
  BY DEF DatabaseTreeInv
<1>2. /\ Len(items) \in Nat /\ DOMAIN items = 1..Len(items) /\ Linked(items)
      /\ \A i \in 1..Len(items) : items[i].entry \in Dirs \cup Files
  BY <1>1, LinkedItems DEF ItemsInv
<1>3. SqliteTree!TypeOK
  <2>1. \A i \in DOMAIN items : items[i].up < i
    <3> TAKE i \in DOMAIN items
    <3>1. items[i].up \in 0..(i - 1) /\ i \in Nat
      BY <1>2 DEF Linked
    <3> QED
      BY <3>1
  <2> QED
    BY <1>1, <1>2, <2>1, SameDatabaseTree DEF SqliteTree!TypeOK, ItemsInv, RowsInv, RemovedFirst
<1>4. SqliteTree!RowsAreSums
  BY <1>1, SameDatabaseTree DEF SqliteTree!RowsAreSums, TableIsSums
<1>5. SqliteTree!ScreenMatchesRows
  <2>1. SqliteTree!Quiet => ~Taking
    BY DEF SqliteTree!Quiet, SqliteTree!Busy, Taking, SqliteTree!NoJob
  <2> QED
    BY <2>1 DEF SqliteTree!ScreenMatchesRows, DatabaseTreeInv, Modal, ChainIsRows
<1> QED
  BY <1>1, <1>3, <1>4, <1>5 DEF RowsInv, RemovedFirst

-----------------------------------------------------------------------------
(* The invariant of SqliteScan *)

Stages == {"idle", "spawned", "queued", "admitted", "scanning", "draining", "sending",
           "sendingNil", "finished"}
ScanTypes ==
  /\ main \in {"down", "scanning", "waiting", "committing", "returned"}
  /\ calls \in 0..MaxCalls
  /\ asked \in Dirs /\ given \in Dirs
  /\ DOMAIN committed \subseteq Dirs \cup Files /\ \A e \in DOMAIN committed : committed[e].size \in Nat
  /\ DOMAIN table \subseteq Dirs \cup Files /\ \A e \in DOMAIN table : table[e].size \in Nat
  /\ worker \in [Dirs -> Stages]
  /\ todo \in [Dirs -> SUBSET Entries]
  /\ looked \in [Dirs -> [file : Files \cup {Root}, counted : BOOLEAN]]
  /\ owed \in [Dirs -> SUBSET (Dirs \ {Root})]
  /\ total \in [Dirs -> Nat]
  /\ flag \in [Dirs -> Flags]
  /\ cancelled \in BOOLEAN /\ partial \in BOOLEAN /\ failed \in BOOLEAN
  /\ bulk \in {"transaction", "direct", "closed"} /\ torn \in BOOLEAN
  /\ waitValue \in Int /\ waitLocked \in BOOLEAN

\* The transaction is open from the first goroutine to the commit; a scan
\* starts on an empty database.
InScan == main \in {"scanning", "waiting", "committing"}
Active(d) == worker[d] \notin {"idle", "finished"}
Transaction ==
  /\ main \in {"down", "returned"} => table = committed
  /\ InScan => DOMAIN committed = {} /\ ~torn
  /\ main = "scanning" <=> Active(Root)
  /\ main \in {"waiting", "committing"} => worker[Root] = "finished"
  /\ \A d \in Dirs \ {Root} : Active(d) => main = "scanning"

\* A directory's goroutine was started by that of the directory above, which
\* waits for its result.
Waiting == {"spawned", "queued", "admitted", "sendingNil"}
Unopened == Waiting \cup {"idle"}
Owes ==
  \A d \in Dirs :
    /\ \A c \in owed[d] : Parent[c] = d /\ Active(c)
    /\ d # Root /\ Active(d) => d \in owed[Parent[d]]
    /\ owed[d] # {} => worker[d] \in {"scanning", "draining"}
    /\ d # Root /\ worker[d] # "idle" => worker[Parent[d]] \notin Unopened

\* The loop of a directory has what it listed before it.
Loops ==
  \A d \in Dirs :
    /\ todo[d] \subseteq Children(d)
    /\ todo[d] # {} => worker[d] = "scanning"
    /\ looked[d].file = Root => looked[d] = SqliteScan!NoFile
    /\ looked[d].file # Root => worker[d] = "scanning" /\ looked[d].file \in Children(d) \ todo[d]
    /\ \A e \in todo[d] \cap Dirs : worker[e] = "idle"

\* Rows appear from the top down, once each.
IsTree(rs) == \A e \in DOMAIN rs \ {Root} : Parent[e] \in DOMAIN rs
ScanRows ==
  InScan =>
    /\ IsTree(table)
    /\ \A d \in Dirs :
         /\ worker[d] \in Unopened => d \notin DOMAIN table
         /\ worker[d] \in {"scanning", "draining", "sending"} => d \in DOMAIN table
         /\ \A e \in todo[d] : e \notin DOMAIN table
         /\ looked[d].file # Root => looked[d].file \notin DOMAIN table

\* What has been added to the totals of a directory: all its rows but those of
\* the sub-directories it still expects.
Added(d) == (Children(d) \cap DOMAIN table) \ owed[d]
Amount(rs, S) == SumOver([e \in S |-> rs[e].size], S)
TotalOk(d) ==
  /\ worker[d] \in {"scanning", "draining"} => total[d] = Amount(table, Added(d))
  /\ worker[d] \in {"sending", "finished"} =>
       /\ table[d].size = total[d] /\ table[d].flag = flag[d]
       /\ total[d] = IF Added(d) = {} THEN EmptyDirSize ELSE Amount(table, Added(d))
Broken == {"!", "."}
ScanTotals ==
  InScan /\ ~failed =>
    /\ \A d \in Dirs : worker[d] \in Unopened => total[d] = 0
    /\ \A d \in Dirs \cap DOMAIN table : TotalOk(d)
ScanFlags ==
  InScan /\ ~failed =>
    \A d \in DOMAIN table \cap (Dirs \ {Root}) :
      worker[d] = "finished" /\ flag[d] \in Broken => flag[Parent[d]] \in Broken

\* Unless it is cancelled or fails, a directory misses nothing.
Reached(e) ==
  \/ e \in DOMAIN table \/ e \in todo[Parent[e]] \/ e = looked[Parent[e]].file
  \/ e \in Dirs /\ worker[e] # "idle"
ScanMisses ==
  InScan /\ ~failed =>
    /\ Root \in DOMAIN table \/ worker[Root] \in Waiting
    /\ ~cancelled =>
      /\ \A d \in Dirs : worker[d] # "sendingNil" /\ (worker[d] = "finished" => d \in DOMAIN table)
      /\ \A e \in Entries \ SqliteSkip :
           Parent[e] \in DOMAIN table /\ flag[Parent[e]] # "!" => Reached(e)

\* What is committed, but for what a process that ended in a scan left.
RowsSumUp(rs) ==
  \A d \in Dirs \cap DOMAIN rs :
    rs[d].size = IF Children(d) \cap DOMAIN rs = {} THEN EmptyDirSize ELSE Amount(rs, Children(d) \cap DOMAIN rs)
FlagsRise(rs) ==
  \A d \in DOMAIN rs \cap (Dirs \ {Root}) : rs[d].flag \in Broken => rs[Parent[d]].flag \in Broken
MissesNothing(rs) ==
  /\ Root \in DOMAIN rs
  /\ \A e \in Entries \ SqliteSkip : Parent[e] \in DOMAIN rs /\ rs[Parent[e]].flag # "!" => e \in DOMAIN rs
CommittedInv ==
  ~torn =>
    /\ IsTree(committed)
    /\ DOMAIN committed # {} /\ ~failed => RowsSumUp(committed) /\ FlagsRise(committed)
    /\ DOMAIN committed # {} /\ ~failed /\ ~partial => MissesNothing(committed)
    /\ main = "returned" /\ ~failed => DOMAIN committed # {}

SqliteScanInv ==
  /\ ScanTypes /\ Transaction /\ Owes /\ Loops /\ ScanRows /\ ScanTotals /\ ScanFlags
  /\ ScanMisses /\ CommittedInv

LEMMA SameSqliteScan ==
  /\ SqliteScan!Entries = Entries /\ \A d : SqliteScan!Children(d) = Children(d)
  /\ \A f, S : SqliteScan!SumOver(f, S) = SumOver(f, S)
  /\ SqliteScan!EmptyDirSize = EmptyDirSize /\ SqliteScan!SubDirs = Dirs \ {Root}
BY DEF SqliteScan!Children, Children, SqliteScan!Entries, Entries, SqliteScan!SumOver, SumOver,
   SqliteScan!FoldSet, FoldSet, SqliteScan!MapThenFoldSet, MapThenFoldSet,
   SqliteScan!EmptyDirSize, EmptyDirSize, SqliteScan!SubDirs

LEMMA PutFacts ==
  ASSUME NEW rs, NEW e, NEW size, NEW f, NEW new, new = SqliteScan!Put(rs, e, size, f)
  PROVE  /\ DOMAIN new = DOMAIN rs \cup {e} /\ new[e] = [size |-> size, flag |-> f]
         /\ new[e].size = size /\ new[e].flag = f
         /\ \A x \in DOMAIN rs \ {e} : new[x] = rs[x]
BY DEF SqliteScan!Put

LEMMA AmountSame ==
  ASSUME NEW S, IsFiniteSet(S), NEW rs, NEW qs, \A x \in S : rs[x].size = qs[x].size
  PROVE  Amount(rs, S) = Amount(qs, S)
<1> DEFINE f == [x \in S |-> rs[x].size]
           g == [x \in S |-> qs[x].size]
<1>1. \A x \in S : f[x] = g[x]
  OBVIOUS
<1>2. Amount(rs, S) = SumOver(f, S) /\ Amount(qs, S) = SumOver(g, S)
  BY DEF Amount
<1> HIDE DEF f, g
<1> QED
  BY <1>1, <1>2, SumSame

\* A summand that comes in adds to the sum.
Joins(f, g, S, e) ==
  /\ IsFiniteSet(S) /\ e \notin S
  /\ \A x \in S : f[x] \in Int /\ f[x] = g[x]
  /\ g[e] \in Int

LEMMA JoinedSum ==
  ASSUME NEW f, NEW g, NEW S, NEW e, Joins(f, g, S, e)
  PROVE  SumOver(g, S \cup {e}) = SumOver(f, S) + g[e]
<1>1. IsFiniteSet(S) /\ e \notin S /\ g[e] \in Int
  BY DEF Joins
<1>2. \A x \in S : f[x] \in Int /\ f[x] = g[x]
  BY DEF Joins
<1>3. SumOver(g, S \cup {e}) = SumOver(f, S) + g[e] /\ SumOver(f, S) \in Int
  BY <1>1, <1>2, SumAdd
<1> QED
  BY <1>3

\* A row that comes in, beside rows that keep their size.
Grafts(rs, qs, S, e) ==
  /\ IsFiniteSet(S) /\ e \notin S /\ qs[e].size \in Nat
  /\ \A x \in S : rs[x].size = qs[x].size /\ rs[x].size \in Nat

LEMMA AmountGrows ==
  ASSUME NEW S, NEW e, NEW rs, NEW qs, Grafts(rs, qs, S, e)
  PROVE  Amount(qs, S \cup {e}) = Amount(rs, S) + qs[e].size
<1> DEFINE f == [x \in S |-> rs[x].size]
           g == [x \in S \cup {e} |-> qs[x].size]
<1>0. /\ IsFiniteSet(S) /\ e \notin S /\ qs[e].size \in Nat
      /\ \A x \in S : rs[x].size = qs[x].size /\ rs[x].size \in Nat
  BY DEF Grafts
<1>1. \A x \in S : f[x] \in Int /\ f[x] = g[x]
  BY <1>0
<1>2. g[e] = qs[e].size /\ g[e] \in Int
  BY <1>0
<1>3. Amount(rs, S) = SumOver(f, S) /\ Amount(qs, S \cup {e}) = SumOver(g, S \cup {e})
  BY DEF Amount
<1> HIDE DEF f, g
<1>4. SumOver(g, S \cup {e}) = SumOver(f, S) + g[e]
  <2>1. Joins(f, g, S, e)
    BY <1>0, <1>1, <1>2 DEF Joins
  <2> QED
    BY <2>1, JoinedSum
<1> QED
  BY <1>2, <1>3, <1>4

LEMMA AmountOfNone == ASSUME NEW rs PROVE Amount(rs, {}) = 0
BY SumEquation, FS_EmptySet DEF Amount

LEMMA SqliteScanStarts == ASSUME SqliteScan!Init PROVE SqliteScanInv
<1>0. /\ main = "down" /\ calls = 0 /\ asked = Root /\ given = Root
      /\ committed = <<>> /\ table = <<>>
      /\ worker = [d \in Dirs |-> "idle"] /\ todo = [d \in Dirs |-> {}]
      /\ looked = [d \in Dirs |-> SqliteScan!NoFile]
      /\ owed = [d \in Dirs |-> {}] /\ total = [d \in Dirs |-> 0] /\ flag = [d \in Dirs |-> " "]
      /\ cancelled = FALSE /\ partial = FALSE /\ failed = FALSE /\ waitValue = 0 /\ waitLocked = TRUE
      /\ bulk = "transaction" /\ torn = FALSE
  BY DEF SqliteScan!Init, SqliteScan!Everywhere, SqliteScan!WaitInit
<1>1. DOMAIN committed = {} /\ DOMAIN table = {} /\ Root \in Dirs /\ MaxCalls \in Nat
  <2>1. DOMAIN committed = {} /\ DOMAIN table = {}
    <3>1. DOMAIN << >> = {}
      OBVIOUS
    <3> QED
      BY <1>0, <3>1
  <2>2. Root \in Dirs /\ MaxCalls \in Nat
    BY TreeAssumption, DatabasesAssumption
  <2> QED
    BY <2>1, <2>2
<1>2. SqliteScan!NoFile \in [file : Files \cup {Root}, counted : BOOLEAN] /\ SqliteScan!NoFile.file = Root
  BY DEF SqliteScan!NoFile
<1>3. ScanTypes
  <2>1. worker \in [Dirs -> Stages] /\ flag \in [Dirs -> Flags]
    BY <1>0 DEF Stages, Flags
  <2>2. /\ todo \in [Dirs -> SUBSET Entries] /\ owed \in [Dirs -> SUBSET (Dirs \ {Root})]
        /\ looked \in [Dirs -> [file : Files \cup {Root}, counted : BOOLEAN]]
    BY <1>0, <1>2
  <2>3. total \in [Dirs -> Nat]
    BY <1>0
  <2>4. calls \in 0..MaxCalls /\ waitValue \in Int
    <3>1. calls = 0 /\ waitValue = 0 /\ MaxCalls \in Nat
      BY <1>0, <1>1
    <3> QED
      BY <3>1
  <2> QED
    BY <1>0, <1>1, <2>1, <2>2, <2>3, <2>4 DEF ScanTypes
<1>4. Transaction
  BY <1>0, <1>1 DEF Transaction, InScan, Active
<1>5. Owes
  BY <1>0, TreeAssumption DEF Owes, Active
<1>6. Loops
  BY <1>0, <1>2 DEF Loops
<1>7. ScanRows /\ ScanTotals /\ ScanFlags /\ ScanMisses
  BY <1>0 DEF ScanRows, ScanTotals, ScanFlags, ScanMisses, InScan
<1>8. CommittedInv
  BY <1>0, <1>1 DEF CommittedInv, IsTree
<1> QED
  BY <1>3, <1>4, <1>5, <1>6, <1>7, <1>8 DEF SqliteScanInv

\* A scan that is over leaves a whole tree in the transaction.
LEMMA ScanLeavesTree ==
  ASSUME SqliteScanInv, main = "committing"
  PROVE  /\ IsTree(table)
         /\ ~failed => DOMAIN table # {} /\ RowsSumUp(table) /\ FlagsRise(table)
         /\ ~failed /\ ~cancelled => MissesNothing(table)
<1>0. /\ ScanTypes /\ Transaction /\ Owes /\ Loops /\ ScanRows /\ ScanTotals /\ ScanFlags /\ ScanMisses
      /\ InScan
  BY DEF SqliteScanInv, InScan
<1>1. \A d \in Dirs : worker[d] \in {"idle", "finished"}
  BY <1>0 DEF Transaction, Active
<1>2. worker[Root] = "finished" /\ Root \in Dirs
  BY <1>0, TreeAssumption DEF Transaction
<1>3. \A d \in Dirs \cap DOMAIN table : worker[d] = "finished"
  BY <1>0, <1>1 DEF ScanRows, Unopened
<1>4. \A d \in Dirs : owed[d] = {} /\ todo[d] = {} /\ looked[d].file = Root
  BY <1>0, <1>1 DEF Owes, Loops
<1>5. \A d \in Dirs : Added(d) = Children(d) \cap DOMAIN table
  BY <1>4 DEF Added
<1>6. IsTree(table)
  BY <1>0 DEF ScanRows
<1>7. ASSUME ~failed PROVE Root \in DOMAIN table /\ RowsSumUp(table) /\ FlagsRise(table)
  <2>1. Root \in DOMAIN table
    BY <1>0, <1>2, <1>7 DEF ScanMisses, Waiting
  <2>2. \A d \in Dirs \cap DOMAIN table : TotalOk(d)
    BY <1>0, <1>7 DEF ScanTotals
  <2>3. RowsSumUp(table)
    BY <1>3, <1>5, <2>2 DEF RowsSumUp, TotalOk
  <2>4. FlagsRise(table)
    <3> SUFFICES ASSUME NEW d \in DOMAIN table \cap (Dirs \ {Root}), table[d].flag \in Broken
                 PROVE  table[Parent[d]].flag \in Broken
      BY DEF FlagsRise
    <3>1. Parent[d] \in DOMAIN table /\ Parent[d] \in Dirs
      BY <1>6, TreeAssumption, ListingFacts DEF IsTree
    <3>2. table[d].flag = flag[d] /\ table[Parent[d]].flag = flag[Parent[d]]
      BY <1>3, <2>2, <3>1 DEF TotalOk
    <3> QED
      BY <1>0, <1>3, <1>7, <3>2 DEF ScanFlags
  <2> QED
    BY <2>1, <2>3, <2>4
<1>8. ASSUME ~failed, ~cancelled PROVE MissesNothing(table)
  <2>1. ASSUME NEW e \in Entries \ SqliteSkip, Parent[e] \in DOMAIN table, table[Parent[e]].flag # "!"
        PROVE  e \in DOMAIN table
    <3>1. Parent[e] \in Dirs /\ e # Root
      BY ListingFacts DEF Entries
    <3>2. table[Parent[e]].flag = flag[Parent[e]]
      BY <1>0, <1>3, <1>8, <2>1, <3>1 DEF ScanTotals, TotalOk
    <3>3. Reached(e)
      BY <1>0, <1>8, <2>1, <3>2 DEF ScanMisses
    <3>4. e \in DOMAIN table \/ (e \in Dirs /\ worker[e] # "idle")
      BY <1>4, <3>1, <3>3 DEF Reached
    <3> QED
      BY <1>0, <1>1, <1>8, <3>4 DEF ScanMisses
  <2> QED
    BY <1>7, <1>8, <2>1 DEF MissesNothing
<1> QED
  BY <1>6, <1>7, <1>8

\* What a scan that is not over has not committed.
LEMMA NothingCommitted ==
  ASSUME SqliteScanInv, InScan, committed' = committed, main' # "returned"
  PROVE  CommittedInv'
BY DEF SqliteScanInv, Transaction, CommittedInv, IsTree

\* Outside a scan nothing but the committed rows matters.
LEMMA RestingInv ==
  ASSUME ScanTypes', main' \in {"down", "returned"}, table' = committed',
         \A d \in Dirs : worker'[d] \in {"idle", "finished"} /\ owed'[d] = {} /\ todo'[d] = {}
                         /\ looked'[d] = SqliteScan!NoFile,
         \A d \in Dirs \ {Root} : worker'[d] # "idle" => worker'[Parent[d]] \notin Unopened,
         CommittedInv'
  PROVE  SqliteScanInv'
<1>1. Transaction'
  BY TreeAssumption DEF Transaction, InScan, Active
<1>2. Owes'
  BY DEF Owes, Active
<1>3. Loops'
  <2>1. SqliteScan!NoFile.file = Root
    BY DEF SqliteScan!NoFile
  <2> QED
    BY <2>1 DEF Loops
<1>4. ScanRows' /\ ScanTotals' /\ ScanFlags' /\ ScanMisses'
  BY DEF ScanRows, ScanTotals, ScanFlags, ScanMisses, InScan
<1> QED
  BY <1>1, <1>2, <1>3, <1>4 DEF SqliteScanInv

\* Nothing of a directory is under way.
LEMMA AtRest ==
  ASSUME SqliteScanInv, main # "scanning"
  PROVE  /\ \A d \in Dirs : worker[d] \in {"idle", "finished"} /\ owed[d] = {} /\ todo[d] = {}
                            /\ looked[d] = SqliteScan!NoFile
         /\ \A d \in Dirs \ {Root} : worker[d] # "idle" => worker[Parent[d]] \notin Unopened
<1>0. Transaction /\ Owes /\ Loops
  BY DEF SqliteScanInv
<1>1. \A d \in Dirs : worker[d] \in {"idle", "finished"}
  BY <1>0 DEF Transaction, Active
<1> QED
  BY <1>0, <1>1 DEF Owes, Loops

LEMMA ScanCallSteps ==
  ASSUME SqliteScanInv,
         \/ \E d \in Dirs : SqliteScan!Load(d)
         \/ SqliteScan!Wait \/ SqliteScan!Commit \/ SqliteScan!CommitFails
         \/ SqliteScan!Stop \/ SqliteScan!RemoveDb \/ SqliteScan!Cancel
  PROVE  SqliteScanInv'
<1>0. /\ ScanTypes /\ Transaction /\ Owes /\ Loops /\ ScanRows /\ ScanTotals /\ ScanFlags /\ ScanMisses
      /\ CommittedInv /\ MaxCalls \in Nat
  BY DatabasesAssumption DEF SqliteScanInv
<1>c. calls \in 0..MaxCalls /\ MaxCalls \in Nat
  BY <1>0 DEF ScanTypes
<1>f. main \in {"down", "returned", "waiting", "committing"} => main # "scanning"
  OBVIOUS
<1>1. ASSUME NEW d \in Dirs, SqliteScan!Load(d) PROVE SqliteScanInv'
  <2>0. /\ main \in {"down", "returned"} /\ main' = "returned" /\ Root \in DOMAIN committed
        /\ calls < MaxCalls /\ calls' = calls + 1 /\ asked' = d /\ given' = Root
        /\ cancelled' = FALSE /\ waitValue' = 0 /\ waitLocked' = TRUE
        /\ UNCHANGED <<bulk, torn, committed, table, worker, todo, looked, owed, total, flag, partial, failed>>
    BY <1>1 DEF SqliteScan!Load, SqliteScan!Call, SqliteScan!WaitReset, SqliteScan!rowVars, SqliteScan!dirVars
  <2>1. calls' \in 0..MaxCalls
    BY <1>c, <2>0
  <2>u. /\ main' = "returned" /\ asked' \in Dirs /\ given' \in Dirs /\ cancelled' \in BOOLEAN
        /\ waitValue' \in Int /\ waitLocked' \in BOOLEAN
        /\ UNCHANGED <<bulk, torn, committed, table, worker, todo, looked, owed, total, flag, partial, failed>>
    <3>1. waitValue' \in Int
      BY <2>0
    <3> QED
      BY <2>0, <3>1, TreeAssumption
  <2>2. ScanTypes'
    BY <1>0, <2>u, <2>1 DEF ScanTypes
  <2>3. CommittedInv'
    BY <1>0, <2>0 DEF CommittedInv
  <2>4. table' = committed'
    BY <1>0, <2>0 DEF Transaction
  <2>5. /\ \A x \in Dirs : worker'[x] \in {"idle", "finished"} /\ owed'[x] = {} /\ todo'[x] = {}
                            /\ looked'[x] = SqliteScan!NoFile
        /\ \A x \in Dirs \ {Root} : worker'[x] # "idle" => worker'[Parent[x]] \notin Unopened
    BY <1>f, <2>0, AtRest
  <2> QED
    BY <2>0, <2>2, <2>3, <2>4, <2>5, RestingInv
<1>2. CASE SqliteScan!Wait
  <2>0. /\ main = "waiting" /\ main' = "committing"
        /\ UNCHANGED <<calls, asked, given, bulk, torn, committed, table, worker, todo, looked, owed, total, flag,
                       waitValue, waitLocked, cancelled, partial, failed>>
    BY <1>2 DEF SqliteScan!Wait, SqliteScan!rowVars, SqliteScan!dirVars, SqliteScan!waitVars
  <2>1. InScan /\ InScan'
    BY <2>0 DEF InScan
  <2>2. ScanTypes' /\ Transaction' /\ Owes' /\ Loops'
    BY <1>0, <2>0 DEF ScanTypes, Transaction, InScan, Active, Owes, Loops
  <2>3. ScanRows' /\ ScanFlags'
    BY <1>0, <2>0, <2>1 DEF ScanRows, ScanFlags
  <2>4. ScanTotals'
    BY <1>0, <2>0, <2>1 DEF ScanTotals, TotalOk, Added
  <2>5. ScanMisses'
    BY <1>0, <2>0, <2>1 DEF ScanMisses, Reached
  <2>6. CommittedInv'
    BY <2>0, <2>1, NothingCommitted
  <2> QED
    BY <2>2, <2>3, <2>4, <2>5, <2>6 DEF SqliteScanInv
<1>3. CASE SqliteScan!Commit
  <2>0. /\ main = "committing" /\ main' = "returned" /\ committed' = table /\ partial' = cancelled
        /\ bulk' = "transaction"
        /\ UNCHANGED <<calls, asked, given, torn, table, worker, todo, looked, owed, total, flag,
                       waitValue, waitLocked, cancelled, failed>>
    BY <1>3 DEF SqliteScan!Commit, SqliteScan!dirVars, SqliteScan!waitVars
  <2>1. ScanTypes'
    BY <1>0, <2>0 DEF ScanTypes
  <2>2. CommittedInv'
    BY <2>0, ScanLeavesTree DEF CommittedInv
  <2>3. /\ \A x \in Dirs : worker'[x] \in {"idle", "finished"} /\ owed'[x] = {} /\ todo'[x] = {}
                            /\ looked'[x] = SqliteScan!NoFile
        /\ \A x \in Dirs \ {Root} : worker'[x] # "idle" => worker'[Parent[x]] \notin Unopened
    BY <1>f, <2>0, AtRest
  <2> QED
    BY <2>0, <2>1, <2>2, <2>3, RestingInv
<1>4. CASE SqliteScan!CommitFails
  <2>0. /\ main = "committing" /\ main' = "returned" /\ table' = committed /\ failed' = TRUE
        /\ bulk' = "transaction"
        /\ UNCHANGED <<calls, asked, given, torn, committed, worker, todo, looked, owed, total, flag,
                       waitValue, waitLocked, cancelled, partial>>
    BY <1>4 DEF SqliteScan!CommitFails, SqliteScan!dirVars, SqliteScan!waitVars
  <2>1. ScanTypes'
    BY <1>0, <2>0 DEF ScanTypes
  <2>2. CommittedInv'
    BY <1>0, <2>0 DEF CommittedInv
  <2>3. /\ \A x \in Dirs : worker'[x] \in {"idle", "finished"} /\ owed'[x] = {} /\ todo'[x] = {}
                            /\ looked'[x] = SqliteScan!NoFile
        /\ \A x \in Dirs \ {Root} : worker'[x] # "idle" => worker'[Parent[x]] \notin Unopened
    BY <1>f, <2>0, AtRest
  <2> QED
    BY <2>0, <2>1, <2>2, <2>3, RestingInv
<1>5. CASE SqliteScan!Stop
  <2>0. /\ main' = "down" /\ table' = committed' /\ bulk' = "transaction"
        /\ worker' = [d \in Dirs |-> "idle"] /\ todo' = [d \in Dirs |-> {}]
        /\ looked' = [d \in Dirs |-> SqliteScan!NoFile]
        /\ owed' = [d \in Dirs |-> {}] /\ total' = [d \in Dirs |-> 0] /\ flag' = [d \in Dirs |-> " "]
        /\ cancelled' = FALSE /\ waitValue' = 0 /\ waitLocked' = TRUE
        /\ UNCHANGED <<calls, asked, given, partial, failed>>
    BY <1>5 DEF SqliteScan!Stop, SqliteScan!Idle, SqliteScan!Everywhere, SqliteScan!WaitReset, SqliteScan!stopped
  <2>1. worker' \in [Dirs -> Stages] /\ flag' \in [Dirs -> Flags]
    BY <2>0 DEF Stages, Flags
  <2>2. /\ todo' \in [Dirs -> SUBSET Entries] /\ owed' \in [Dirs -> SUBSET (Dirs \ {Root})]
        /\ looked' \in [Dirs -> [file : Files \cup {Root}, counted : BOOLEAN]]
    BY <2>0 DEF SqliteScan!NoFile
  <2>3. total' \in [Dirs -> Nat]
    BY <2>0
  <2>9. waitValue' \in Int
    <3>1. waitValue' = 0
      BY <2>0
    <3> QED
      BY <3>1
  <2>a. UNCHANGED <<committed, torn>> \/ (committed' = table /\ torn') \/ (committed' \in SqliteScan!Remains /\ torn')
    BY <1>5 DEF SqliteScan!Stop
  <2>b. torn' \in BOOLEAN
    BY <1>0, <1>5 DEF ScanTypes, SqliteScan!Stop
  <2>c. DOMAIN committed' \subseteq Dirs \cup Files /\ \A e \in DOMAIN committed' : committed'[e].size \in Nat
    <3>1. CASE committed' = committed
      BY <1>0, <3>1 DEF ScanTypes
    <3>2. CASE committed' = table
      BY <1>0, <3>2 DEF ScanTypes
    <3>3. CASE committed' \in SqliteScan!Remains
      <4>1. PICK kept \in SUBSET DOMAIN table : committed' = [e \in kept |-> [size |-> 0, flag |-> " "]]
        BY <3>3 DEF SqliteScan!Remains
      <4>2. DOMAIN committed' = kept /\ kept \subseteq Dirs \cup Files
        BY <1>0, <4>1 DEF ScanTypes
      <4>3. \A e \in kept : committed'[e].size = 0
        BY <4>1
      <4>4. \A e \in kept : committed'[e].size \in Nat
        BY <4>3
      <4> QED
        BY <4>2, <4>4
    <3> QED
      BY <2>a, <3>1, <3>2, <3>3
  <2>4. ScanTypes'
    BY <1>0, <2>0, <2>1, <2>2, <2>3, <2>9, <2>b, <2>c DEF ScanTypes
  <2>5. CommittedInv'
    BY <1>0, <2>0, <2>a DEF CommittedInv
  <2>6. /\ \A x \in Dirs : worker'[x] \in {"idle", "finished"} /\ owed'[x] = {} /\ todo'[x] = {}
                            /\ looked'[x] = SqliteScan!NoFile
        /\ \A x \in Dirs \ {Root} : worker'[x] # "idle" => worker'[Parent[x]] \notin Unopened
    BY <2>0
  <2> QED
    BY <2>0, <2>4, <2>5, <2>6, RestingInv
<1>6. CASE SqliteScan!RemoveDb
  <2>0. /\ main = "down" /\ main' = "down" /\ committed' = <<>> /\ table' = <<>>
        /\ partial' = FALSE /\ failed' = FALSE /\ torn' = FALSE
        /\ UNCHANGED <<calls, asked, given, bulk, worker, todo, looked, owed, total, flag,
                       waitValue, waitLocked, cancelled>>
    BY <1>6 DEF SqliteScan!RemoveDb, SqliteScan!callVars, SqliteScan!dirVars, SqliteScan!waitVars
  <2>1. DOMAIN committed' = {} /\ DOMAIN table' = {}
    <3>1. DOMAIN << >> = {}
      OBVIOUS
    <3> QED
      BY <2>0, <3>1
  <2>2. ScanTypes'
    BY <1>0, <2>0, <2>1 DEF ScanTypes
  <2>3. CommittedInv'
    BY <2>0, <2>1 DEF CommittedInv, IsTree
  <2>4. /\ \A x \in Dirs : worker'[x] \in {"idle", "finished"} /\ owed'[x] = {} /\ todo'[x] = {}
                            /\ looked'[x] = SqliteScan!NoFile
        /\ \A x \in Dirs \ {Root} : worker'[x] # "idle" => worker'[Parent[x]] \notin Unopened
    BY <1>f, <2>0, AtRest
  <2> QED
    BY <2>0, <2>2, <2>3, <2>4, RestingInv
<1>7. CASE SqliteScan!Cancel
  <2>0. /\ main = "scanning" /\ main' = main /\ cancelled' = TRUE
        /\ UNCHANGED <<calls, asked, given, bulk, torn, committed, table, worker, todo, looked, owed, total, flag,
                       waitValue, waitLocked, partial, failed>>
    BY <1>7 DEF SqliteScan!Cancel, SqliteScan!scanVars, SqliteScan!restVars, SqliteScan!rowVars, SqliteScan!dirVars, SqliteScan!waitVars
  <2>1. InScan /\ InScan'
    BY <2>0 DEF InScan
  <2>2. ScanTypes' /\ Transaction' /\ Owes' /\ Loops'
    BY <1>0, <2>0 DEF ScanTypes, Transaction, InScan, Active, Owes, Loops
  <2>3. ScanRows' /\ ScanFlags'
    BY <1>0, <2>0, <2>1 DEF ScanRows, ScanFlags
  <2>4. ScanTotals'
    BY <1>0, <2>0, <2>1 DEF ScanTotals, TotalOk, Added
  <2>5. ScanMisses'
    BY <1>0, <2>0, <2>1 DEF ScanMisses, Reached
  <2>6. CommittedInv'
    BY <2>0, <2>1, NothingCommitted
  <2> QED
    BY <2>2, <2>3, <2>4, <2>5, <2>6 DEF SqliteScanInv
<1> QED
  BY <1>1, <1>2, <1>3, <1>4, <1>5, <1>6, <1>7

LEMMA BeginScanKeeps ==
  ASSUME SqliteScanInv, NEW d \in Dirs, SqliteScan!BeginScan(d)
  PROVE  SqliteScanInv'
<1>0. ScanTypes /\ Transaction /\ CommittedInv /\ MaxCalls \in Nat /\ Root \in Dirs
  BY DatabasesAssumption, TreeAssumption DEF SqliteScanInv
<1>1. /\ main \in {"down", "returned"} /\ main' = "scanning"
      /\ calls < MaxCalls /\ calls' = calls + 1 /\ asked' = d /\ given' = Root
      /\ worker' = [x \in Dirs |-> IF x = Root THEN "spawned" ELSE "idle"]
      /\ todo' = [x \in Dirs |-> {}] /\ looked' = [x \in Dirs |-> SqliteScan!NoFile]
      /\ owed' = [x \in Dirs |-> {}] /\ total' = [x \in Dirs |-> 0] /\ flag' = [x \in Dirs |-> " "]
      /\ cancelled' = FALSE /\ waitValue' = 0 /\ waitLocked' = TRUE /\ failed' = FALSE
      /\ partial' = FALSE /\ torn' = FALSE /\ bulk' \in {"transaction", "direct", "closed"}
      /\ committed' = <<>> /\ table' = <<>>
  BY DEF SqliteScan!BeginScan, SqliteScan!Call, SqliteScan!WaitReset, SqliteScan!rowVars,
     SqliteScan!Everywhere
<1>e. DOMAIN committed' = {} /\ DOMAIN table' = {}
  <2>1. DOMAIN << >> = {}
    OBVIOUS
  <2> QED
    BY <1>1, <2>1
<1>2. /\ DOMAIN table' = {} /\ InScan'
      /\ \A x \in Dirs : /\ worker'[x] = (IF x = Root THEN "spawned" ELSE "idle")
                         /\ todo'[x] = {} /\ looked'[x] = SqliteScan!NoFile
                         /\ looked'[x].file = Root
                         /\ owed'[x] = {} /\ total'[x] = 0 /\ flag'[x] = " "
  BY <1>1, <1>e DEF InScan, SqliteScan!NoFile
<1>3. ScanTypes'
  <2>1. worker' \in [Dirs -> Stages] /\ flag' \in [Dirs -> Flags]
    BY <1>1 DEF Stages, Flags
  <2>2. /\ todo' \in [Dirs -> SUBSET Entries] /\ owed' \in [Dirs -> SUBSET (Dirs \ {Root})]
        /\ looked' \in [Dirs -> [file : Files \cup {Root}, counted : BOOLEAN]]
    BY <1>1 DEF SqliteScan!NoFile
  <2>3. total' \in [Dirs -> Nat]
    BY <1>1
  <2>4. calls' \in 0..MaxCalls
    <3>1. calls \in 0..MaxCalls
      BY <1>0 DEF ScanTypes
    <3>2. calls < MaxCalls /\ calls' = calls + 1 /\ MaxCalls \in Nat
      BY <1>0, <1>1
    <3> QED
      BY <3>1, <3>2
  <2>u. /\ main' = "scanning" /\ asked' \in Dirs /\ given' \in Dirs /\ cancelled' \in BOOLEAN
        /\ waitValue' \in Int /\ waitLocked' \in BOOLEAN /\ failed' \in BOOLEAN
        /\ partial' \in BOOLEAN /\ torn' \in BOOLEAN /\ bulk' \in {"transaction", "direct", "closed"}
    <3>1. waitValue' \in Int
      <4>1. waitValue' = 0
        BY <1>1
      <4> QED
        BY <4>1
    <3> QED
      BY <1>0, <1>1, <3>1
  <2> QED
    BY <1>e, <2>1, <2>2, <2>3, <2>4, <2>u DEF ScanTypes
<1>4. Transaction'
  BY <1>0, <1>1, <1>2, <1>e DEF Transaction, Active
<1>5. Owes'
  BY <1>2 DEF Owes, Active
<1>6. Loops'
  BY <1>2 DEF Loops
<1>7. ScanRows' /\ ScanTotals' /\ ScanFlags'
  BY <1>2 DEF ScanRows, ScanTotals, ScanFlags, IsTree
<1>8. ScanMisses'
  BY <1>0, <1>2 DEF ScanMisses, Waiting
<1>9. CommittedInv'
  BY <1>1, <1>e DEF CommittedInv, IsTree
<1> QED
  BY <1>3, <1>4, <1>5, <1>6, <1>7, <1>8, <1>9 DEF SqliteScanInv

\* Only a scan has goroutines.
LEMMA ActiveScans ==
  ASSUME SqliteScanInv, NEW d \in Dirs, Active(d)
  PROVE  /\ main = "scanning" /\ InScan /\ DOMAIN committed = {} /\ Active(Root)
         /\ d # Root => /\ Parent[d] \in Dirs /\ d \in owed[Parent[d]] /\ d \in Children(Parent[d])
                        /\ worker[Parent[d]] \in {"scanning", "draining"}
<1>1. main = "scanning"
  BY DEF SqliteScanInv, Transaction
<1>2. InScan /\ DOMAIN committed = {} /\ Active(Root)
  BY <1>1 DEF SqliteScanInv, Transaction, InScan
<1>3. ASSUME d # Root PROVE d \in Entries /\ Parent[d] \in Dirs /\ d \in Children(Parent[d])
  BY <1>3, ListingFacts DEF Entries
<1> QED
  BY <1>1, <1>2, <1>3 DEF SqliteScanInv, Owes

\* When the root waits for nobody nobody else is left.
LEMMA RootIsLast ==
  ASSUME SqliteScanInv, owed[Root] = {}
  PROVE  \A d \in Dirs \ {Root} : ~Active(d)
<1> DEFINE S == {d \in Dirs \ {Root} : Active(d)}
<1> SUFFICES ASSUME S # {} PROVE FALSE
  OBVIOUS
<1>1. PICK d \in S : Parent[d] \notin S
  BY AcyclicAssumption
<1>2. Parent[d] \in Dirs /\ d \in owed[Parent[d]] /\ worker[Parent[d]] \in {"scanning", "draining"}
  BY ActiveScans
<1> QED
  BY <1>1, <1>2 DEF Active

LEMMA TotalKept ==
  ASSUME NEW x \in Dirs, TotalOk(x),
         worker'[x] = worker[x] \/ (worker[x] = "scanning" /\ worker'[x] = "draining"),
         total'[x] = total[x], flag'[x] = flag[x], Added(x)' = Added(x),
         table'[x] = table[x], \A e \in Added(x) : table'[e] = table[e]
  PROVE  TotalOk(x)'
<1>1. IsFiniteSet(Added(x))
  BY ListingFacts, FS_Subset DEF Added
<1>2. Amount(table', Added(x)') = Amount(table, Added(x))
  BY <1>1, AmountSame
<1> QED
  BY <1>2 DEF TotalOk

LEMMA OwesKept ==
  ASSUME Owes, owed' = owed,
         \A x \in Dirs :
           /\ Active(x)' <=> Active(x)
           /\ worker'[x] \in Unopened => worker[x] \in Unopened
           /\ worker'[x] # "idle" => worker[x] # "idle"
           /\ worker[x] \in {"scanning", "draining"} => worker'[x] \in {"scanning", "draining"},
         \A x \in Dirs : owed[x] \subseteq Dirs, \A x \in Dirs \ {Root} : Parent[x] \in Dirs
  PROVE  Owes'
<1> SUFFICES ASSUME NEW x \in Dirs
             PROVE  /\ \A c \in owed[x] : Parent[c] = x /\ Active(c)'
                    /\ x # Root /\ Active(x)' => x \in owed[Parent[x]]
                    /\ owed[x] # {} => worker'[x] \in {"scanning", "draining"}
                    /\ x # Root /\ worker'[x] # "idle" => worker'[Parent[x]] \notin Unopened
  BY DEF Owes
<1>1. \A c \in owed[x] : Parent[c] = x /\ Active(c)'
  BY DEF Owes
<1>2. x # Root /\ Active(x)' => x \in owed[Parent[x]]
  BY DEF Owes
<1>3. owed[x] # {} => worker'[x] \in {"scanning", "draining"}
  BY DEF Owes
<1>4. x # Root /\ worker'[x] # "idle" => worker'[Parent[x]] \notin Unopened
  BY DEF Owes
<1> QED
  BY <1>1, <1>2, <1>3, <1>4

LEMMA WaitingMoves ==
  ASSUME SqliteScanInv, NEW d \in Dirs, SqliteScan!Enter(d) \/ SqliteScan!Acquire(d)
  PROVE  SqliteScanInv'
<1>0. /\ ScanTypes /\ Transaction /\ Owes /\ Loops /\ ScanRows /\ ScanTotals /\ ScanFlags /\ ScanMisses
  BY DEF SqliteScanInv
<1>1. /\ worker[d] \in {"spawned", "queued"}
      /\ \E s \in {"queued", "admitted"} : worker' = [worker EXCEPT ![d] = s]
      /\ waitValue' = waitValue \/ waitValue' = waitValue + 1
      /\ UNCHANGED <<main, calls, asked, given, bulk, torn, committed, table, todo, looked, owed, total, flag,
                     waitLocked, cancelled, partial, failed>>
  BY DEF SqliteScan!Enter, SqliteScan!Acquire, SqliteScan!WaitAdd, SqliteScan!scanVars, SqliteScan!restVars,
     SqliteScan!rowVars, SqliteScan!waitVars
<1>2. waitValue' \in Int
  BY <1>0, <1>1 DEF ScanTypes
<1>3. worker \in [Dirs -> Stages]
  BY <1>0 DEF ScanTypes
<1>4. /\ worker' \in [Dirs -> Stages] /\ worker'[d] \in {"queued", "admitted"}
      /\ \A x \in Dirs \ {d} : worker'[x] = worker[x]
  BY <1>1, <1>3 DEF Stages
<1>5. main = "scanning" /\ InScan
  BY <1>1, ActiveScans DEF Active
<1>6. ScanTypes'
  BY <1>0, <1>1, <1>2, <1>4 DEF ScanTypes
<1>7. \A x \in Dirs : Active(x)' <=> Active(x)
  BY <1>1, <1>4 DEF Active
<1>8. Transaction'
  <2>1. worker'[Root] = "finished" <=> worker[Root] = "finished"
    BY <1>1, <1>4, TreeAssumption
  <2> QED
    BY <1>0, <1>1, <1>7, <2>1, TreeAssumption DEF Transaction, InScan
<1>9. \A x \in Dirs : /\ worker'[x] \in Unopened <=> worker[x] \in Unopened
                      /\ worker'[x] = "idle" <=> worker[x] = "idle"
                      /\ worker[x] \in {"scanning", "draining", "sending", "finished", "sendingNil"} => worker'[x] = worker[x]
                      /\ worker'[x] \in {"scanning", "draining", "sending", "finished", "sendingNil"} => worker'[x] = worker[x]
  BY <1>1, <1>4 DEF Unopened, Waiting
<1>10. Owes'
  <2>1. (\A x \in Dirs \ {Root} : Parent[x] \in Dirs) /\ \A x \in Dirs : owed[x] \subseteq Dirs
    BY <1>0, ListingFacts DEF Entries, ScanTypes
  <2> QED
    BY <1>0, <1>1, <1>7, <1>9, <2>1, OwesKept
<1>11. Loops'
  BY <1>0, <1>1, <1>9 DEF Loops
<1>12. ScanRows'
  BY <1>0, <1>1, <1>5, <1>9 DEF ScanRows, InScan
<1>13. ScanTotals'
  BY <1>0, <1>1, <1>5, <1>9 DEF ScanTotals, InScan, TotalOk, Added
<1>14. ScanFlags'
  BY <1>0, <1>1, <1>5, <1>9 DEF ScanFlags, InScan
<1>15. ScanMisses'
  <2>1. worker[Root] \in Waiting <=> worker'[Root] \in Waiting
    BY <1>1, <1>4, TreeAssumption DEF Waiting
  <2> QED
    BY <1>0, <1>1, <1>5, <1>9, <2>1 DEF ScanMisses, InScan, Reached
<1>16. CommittedInv'
  BY <1>1, <1>5, NothingCommitted
<1> QED
  BY <1>6, <1>8, <1>10, <1>11, <1>12, <1>13, <1>14, <1>15, <1>16 DEF SqliteScanInv

\* What moves the loop of a directory on without a row.
LEMMA LoopMoves ==
  ASSUME SqliteScanInv, NEW d \in Dirs, worker[d] = "scanning",
         NEW s \in {"scanning", "draining"}, worker' = [worker EXCEPT ![d] = s],
         NEW T \in SUBSET todo[d], todo' = [todo EXCEPT ![d] = T],
         NEW l \in [file : Files \cup {Root}, counted : BOOLEAN], looked' = [looked EXCEPT ![d] = l],
         \/ l = SqliteScan!NoFile
         \/ l = looked[d]
         \/ l.file \in Files /\ l.file \in todo[d] \ T,
         s = "draining" => T = {} /\ l = SqliteScan!NoFile,
         failed' \in BOOLEAN, failed => failed',
         ~failed' /\ ~cancelled => /\ \A e \in todo[d] \ T : e \in SqliteSkip \/ e = l.file
                                   /\ looked[d] = SqliteScan!NoFile \/ looked[d] = l,
         UNCHANGED <<main, calls, asked, given, bulk, torn, committed, table, owed, total, flag,
                     waitValue, waitLocked, cancelled, partial>>
  PROVE  SqliteScanInv'
<1>0. /\ ScanTypes /\ Transaction /\ Owes /\ Loops /\ ScanRows /\ ScanTotals /\ ScanFlags /\ ScanMisses
  BY DEF SqliteScanInv
<1>1. /\ worker \in [Dirs -> Stages] /\ todo \in [Dirs -> SUBSET Entries]
      /\ looked \in [Dirs -> [file : Files \cup {Root}, counted : BOOLEAN]]
  BY <1>0 DEF ScanTypes
<1>2. /\ worker' \in [Dirs -> Stages] /\ worker'[d] = s
      /\ \A x \in Dirs \ {d} : worker'[x] = worker[x]
  BY <1>1 DEF Stages
<1>3. /\ todo' \in [Dirs -> SUBSET Entries] /\ todo'[d] = T
      /\ \A x \in Dirs \ {d} : todo'[x] = todo[x]
  BY <1>1
<1>4. /\ looked' \in [Dirs -> [file : Files \cup {Root}, counted : BOOLEAN]] /\ looked'[d] = l
      /\ \A x \in Dirs \ {d} : looked'[x] = looked[x]
  BY <1>1
<1>5. main = "scanning" /\ InScan
  BY ActiveScans DEF Active
<1>6. ScanTypes'
  BY <1>0, <1>2, <1>3, <1>4 DEF ScanTypes
<1>7. \A x \in Dirs : /\ Active(x)' <=> Active(x)
                      /\ worker'[x] = worker[x] \/ (worker[x] = "scanning" /\ worker'[x] = "draining")
  BY <1>2 DEF Active
<1>8. Transaction'
  BY <1>0, <1>5, <1>7, TreeAssumption DEF Transaction, InScan
<1>9. (\A x \in Dirs \ {Root} : Parent[x] \in Dirs) /\ \A x \in Dirs : owed[x] \subseteq Dirs
  BY <1>0, ListingFacts DEF Entries, ScanTypes
<1>10. Owes'
  <2>1. \A x \in Dirs :
          /\ worker'[x] \in Unopened => worker[x] \in Unopened
          /\ worker'[x] # "idle" => worker[x] # "idle"
          /\ worker[x] \in {"scanning", "draining"} => worker'[x] \in {"scanning", "draining"}
    BY <1>7 DEF Unopened, Waiting
  <2> QED
    BY <1>0, <1>7, <1>9, <2>1, OwesKept
<1>11. Loops'
  <2>1. SqliteScan!NoFile.file = Root /\ Root \notin Files
    BY TreeAssumption DEF SqliteScan!NoFile
  <2>2. \A e \in Dirs : worker'[e] = "idle" <=> worker[e] = "idle"
    BY <1>7
  <2>3. /\ T \subseteq Children(d)
        /\ T # {} => s = "scanning"
        /\ l.file = Root => l = SqliteScan!NoFile
        /\ l.file # Root => s = "scanning" /\ l.file \in Children(d) \ T
        /\ \A e \in T \cap Dirs : worker[e] = "idle"
    <3>1. /\ todo[d] \subseteq Children(d)
          /\ looked[d].file = Root => looked[d] = SqliteScan!NoFile
          /\ looked[d].file # Root => looked[d].file \in Children(d) \ todo[d]
          /\ \A e \in todo[d] \cap Dirs : worker[e] = "idle"
      BY <1>0 DEF Loops
    <3> QED
      BY <2>1, <3>1
  <2>4. \A x \in Dirs \ {d} :
          /\ worker'[x] = worker[x] /\ todo'[x] = todo[x] /\ looked'[x] = looked[x]
    BY <1>2, <1>3, <1>4
  <2> QED
    BY <1>0, <1>2, <1>3, <1>4, <2>2, <2>3, <2>4 DEF Loops
<1>12. ScanRows'
  <2>1. \A x \in Dirs : \A e \in todo'[x] : e \in todo[x]
    BY <1>3
  <2>2. \A x \in Dirs : looked'[x].file # Root =>
          looked'[x] = looked[x] \/ looked'[x].file \in todo[x]
    BY <1>4 DEF SqliteScan!NoFile
  <2> QED
    BY <1>0, <1>5, <1>7, <2>1, <2>2 DEF ScanRows, InScan, Unopened, Waiting
<1>13. ScanTotals'
  <2>1. \A x \in Dirs : Added(x)' = Added(x)
    BY DEF Added
  <2>2. ASSUME ~failed, NEW x \in Dirs \cap DOMAIN table PROVE TotalOk(x)'
    <3>1. TotalOk(x)
      BY <1>0, <1>5, <2>2 DEF ScanTotals
    <3> QED
      BY <1>7, <2>1, <3>1, TotalKept
  <2> QED
    BY <1>0, <1>5, <1>7, <2>2 DEF ScanTotals, InScan, Unopened, Waiting
<1>14. ScanFlags'
  BY <1>0, <1>5, <1>7 DEF ScanFlags, InScan
<1>15. ScanMisses'
  <2>1. ASSUME ~failed', ~cancelled, NEW e \in Entries \ SqliteSkip, Parent[e] \in DOMAIN table,
               flag[Parent[e]] # "!"
        PROVE  Reached(e)'
    <3>1. Reached(e)
      BY <1>0, <1>5, <2>1 DEF ScanMisses
    <3>2. Parent[e] \in Dirs /\ e # Root
      BY ListingFacts DEF Entries
    <3>3. CASE Parent[e] = d
      <4>1. looked[d] = SqliteScan!NoFile \/ looked[d] = l
        BY <2>1
      <4>2. e # SqliteScan!NoFile.file
        BY <3>2 DEF SqliteScan!NoFile
      <4>3. e = looked[d].file => e = l.file
        BY <4>1, <4>2
      <4>4. e \in todo[d] => e \in T \/ e = l.file
        BY <2>1
      <4>5. e \in Dirs /\ worker[e] # "idle" => worker'[e] # "idle"
        BY <1>7
      <4> QED
        BY <1>3, <1>4, <3>1, <3>3, <4>3, <4>4, <4>5 DEF Reached
    <3>4. CASE Parent[e] # d
      BY <1>3, <1>4, <1>7, <3>1, <3>2, <3>4 DEF Reached
    <3> QED
      BY <3>3, <3>4
  <2> QED
    BY <1>0, <1>5, <1>7, <2>1, TreeAssumption DEF ScanMisses, InScan, Waiting
<1>16. CommittedInv'
  BY <1>5, NothingCommitted
<1> QED
  BY <1>6, <1>8, <1>10, <1>11, <1>12, <1>13, <1>14, <1>15, <1>16 DEF SqliteScanInv

LEMMA LoopSteps ==
  ASSUME SqliteScanInv, NEW d \in Dirs,
         \/ \E e \in Entries : SqliteScan!SkipEntry(d, e) \/ SqliteScan!LookUp(d, e) \/ SqliteScan!FileFails(d, e)
         \/ SqliteScan!InsertFails(d) \/ SqliteScan!EndLoop(d)
  PROVE  SqliteScanInv'
<1>0. /\ todo \in [Dirs -> SUBSET Entries] /\ worker \in [Dirs -> Stages]
      /\ looked \in [Dirs -> [file : Files \cup {Root}, counted : BOOLEAN]]
      /\ failed \in BOOLEAN
      /\ looked[d].file = Root => looked[d] = SqliteScan!NoFile
      /\ looked[d].file # Root => worker[d] = "scanning"
  BY DEF SqliteScanInv, ScanTypes, Loops
<1>1. /\ SqliteScan!NoFile \in [file : Files \cup {Root}, counted : BOOLEAN] /\ SqliteScan!NoFile.file = Root
      /\ looked[d] \in [file : Files \cup {Root}, counted : BOOLEAN]
  BY <1>0 DEF SqliteScan!NoFile
<1>2. looked' = looked => looked' = [looked EXCEPT ![d] = looked[d]]
  BY <1>0
<1>3. worker' = worker => worker' = [worker EXCEPT ![d] = worker[d]]
  BY <1>0
<1>4. todo' = todo => todo' = [todo EXCEPT ![d] = todo[d]]
  BY <1>0
<1>5. ASSUME NEW e \in Entries, SqliteScan!SkipEntry(d, e) \/ SqliteScan!LookUp(d, e) \/ SqliteScan!FileFails(d, e)
      PROVE SqliteScanInv'
  <2>0. /\ worker[d] = "scanning" /\ looked[d] = SqliteScan!NoFile /\ e \in todo[d]
        /\ todo' = [todo EXCEPT ![d] = todo[d] \ {e}]
        /\ UNCHANGED <<main, calls, asked, given, bulk, torn, committed, table, worker, owed, total, flag,
                       waitValue, waitLocked, cancelled, partial>>
    BY <1>0, <1>5 DEF SqliteScan!SkipEntry, SqliteScan!LookUp, SqliteScan!FileFails, SqliteScan!Take,
       SqliteScan!scanVars, SqliteScan!restVars, SqliteScan!rowVars, SqliteScan!waitVars
  <2> DEFINE T == todo[d] \ {e}
  <2>1. worker' = [worker EXCEPT ![d] = "scanning"] /\ T \in SUBSET todo[d]
    BY <1>3, <2>0
  <2>2. todo' = [todo EXCEPT ![d] = T] /\ \A x \in todo[d] \ T : x = e
    BY <2>0
  <2>3. e \in todo[d] \ T
    BY <2>0
  <2>7. looked' = looked => looked' = [looked EXCEPT ![d] = SqliteScan!NoFile]
    BY <1>2, <2>0
  <2> HIDE DEF T
  <2>4. CASE SqliteScan!SkipEntry(d, e)
    <3>1. e \in SqliteSkip /\ failed' = failed /\ looked' = looked
      BY <2>4 DEF SqliteScan!SkipEntry
    <3>2. looked' = [looked EXCEPT ![d] = SqliteScan!NoFile] /\ failed' \in BOOLEAN /\ (failed => failed')
      BY <1>0, <2>7, <3>1
    <3>3. \A x \in todo[d] \ T : ~failed' => x \in SqliteSkip
      BY <2>2, <3>1
    <3> QED
      BY <1>1, <2>0, <2>1, <2>2, <3>2, <3>3, LoopMoves
  <2>5. CASE SqliteScan!FileFails(d, e)
    <3>1. failed' = TRUE /\ looked' = looked
      BY <2>5 DEF SqliteScan!FileFails
    <3>2. looked' = [looked EXCEPT ![d] = SqliteScan!NoFile] /\ failed' \in BOOLEAN /\ (failed => failed')
      BY <1>0, <2>7, <3>1
    <3>3. \A x \in todo[d] \ T : ~failed' => x \in SqliteSkip
      BY <2>2, <3>1
    <3> QED
      BY <1>1, <2>0, <2>1, <2>2, <3>2, <3>3, LoopMoves
  <2>6. CASE SqliteScan!LookUp(d, e)
    <3> DEFINE l == [file |-> e, counted |-> Inode[e] # NoInode /\ \E x \in Files \cap DOMAIN table : Inode[x] = Inode[e]]
    <3>1. e \in Files /\ failed' = failed /\ looked' = [looked EXCEPT ![d] = l]
      BY <2>6 DEF SqliteScan!LookUp
    <3>2. l \in [file : Files \cup {Root}, counted : BOOLEAN] /\ l.file = e
      BY <3>1
    <3> HIDE DEF l
    <3> QED
      BY <1>0, <1>1, <2>0, <2>1, <2>2, <2>3, <3>1, <3>2, LoopMoves
  <2> QED
    BY <1>5, <2>4, <2>5, <2>6
<1>6. CASE SqliteScan!InsertFails(d)
  <2>0. /\ looked[d] # SqliteScan!NoFile /\ looked' = [looked EXCEPT ![d] = SqliteScan!NoFile] /\ failed' = TRUE
        /\ UNCHANGED <<main, calls, asked, given, bulk, torn, committed, table, worker, todo, owed, total, flag,
                       waitValue, waitLocked, cancelled, partial>>
    BY <1>6 DEF SqliteScan!InsertFails, SqliteScan!scanVars, SqliteScan!restVars, SqliteScan!rowVars, SqliteScan!waitVars
  <2>1. worker[d] = "scanning"
    BY <1>0, <2>0
  <2> QED
    BY <1>0, <1>1, <1>3, <1>4, <2>0, <2>1, LoopMoves
<1>7. CASE SqliteScan!EndLoop(d)
  <2>0. /\ worker[d] = "scanning" /\ looked[d] = SqliteScan!NoFile /\ (cancelled \/ todo[d] = {})
        /\ worker' = [worker EXCEPT ![d] = "draining"] /\ todo' = [todo EXCEPT ![d] = {}]
        /\ UNCHANGED <<main, calls, asked, given, bulk, torn, committed, table, looked, owed, total, flag,
                       waitValue, waitLocked, cancelled, partial, failed>>
    BY <1>7 DEF SqliteScan!EndLoop, SqliteScan!scanVars, SqliteScan!restVars, SqliteScan!rowVars, SqliteScan!waitVars
  <2>1. {} \in SUBSET todo[d]
    OBVIOUS
  <2>2. ~cancelled => \A x \in todo[d] \ {} : FALSE
    BY <2>0
  <2> QED
    BY <1>0, <1>1, <1>2, <2>0, <2>1, <2>2, LoopMoves
<1> QED
  BY <1>5, <1>6, <1>7

LEMMA SpawnKeeps ==
  ASSUME SqliteScanInv, NEW d \in Dirs, NEW e \in Entries, SqliteScan!Spawn(d, e)
  PROVE  SqliteScanInv'
<1>0. /\ ScanTypes /\ Transaction /\ Owes /\ Loops /\ ScanRows /\ ScanTotals /\ ScanFlags /\ ScanMisses
  BY DEF SqliteScanInv
<1>1. /\ worker[d] = "scanning" /\ looked[d] = SqliteScan!NoFile /\ e \in todo[d] /\ e \in Dirs
      /\ todo' = [todo EXCEPT ![d] = todo[d] \ {e}]
      /\ worker' = [worker EXCEPT ![e] = "spawned"]
      /\ owed' = [owed EXCEPT ![d] = owed[d] \cup {e}]
      /\ UNCHANGED <<main, calls, asked, given, bulk, torn, committed, table, looked, total, flag,
                     waitValue, waitLocked, cancelled, partial, failed>>
  BY <1>0 DEF ScanTypes, SqliteScan!Spawn, SqliteScan!Take, SqliteScan!scanVars, SqliteScan!restVars, SqliteScan!rowVars, SqliteScan!waitVars
<1>2. /\ e \in Children(d) /\ Parent[e] = d /\ e # Root /\ e # d /\ worker[e] = "idle"
      /\ (\A x \in Dirs \ {Root} : Parent[x] \in Dirs)
  <2>1. e \in Children(d) /\ worker[e] = "idle"
    BY <1>0, <1>1 DEF Loops
  <2> QED
    BY <1>1, <2>1, ListingFacts DEF Entries
<1>3. main = "scanning" /\ InScan /\ InScan'
  BY <1>1, ActiveScans DEF Active, InScan
<1>4. /\ worker \in [Dirs -> Stages] /\ todo \in [Dirs -> SUBSET Entries]
      /\ owed \in [Dirs -> SUBSET (Dirs \ {Root})]
  BY <1>0 DEF ScanTypes
<1>5. /\ worker' \in [Dirs -> Stages] /\ worker'[e] = "spawned"
      /\ \A x \in Dirs \ {e} : worker'[x] = worker[x]
  BY <1>1, <1>4 DEF Stages
<1>6. /\ todo' \in [Dirs -> SUBSET Entries] /\ todo'[d] = todo[d] \ {e}
      /\ \A x \in Dirs \ {d} : todo'[x] = todo[x]
  BY <1>1, <1>4
<1>7. /\ owed' \in [Dirs -> SUBSET (Dirs \ {Root})] /\ owed'[d] = owed[d] \cup {e}
      /\ \A x \in Dirs \ {d} : owed'[x] = owed[x]
  BY <1>1, <1>2, <1>4
<1>8. ScanTypes'
  BY <1>0, <1>1, <1>5, <1>6, <1>7 DEF ScanTypes
<1>9. Transaction'
  BY <1>0, <1>1, <1>2, <1>3, <1>5, TreeAssumption DEF Transaction, Active
<1>10. Owes'
  <2> SUFFICES ASSUME NEW x \in Dirs
               PROVE  /\ \A c \in owed'[x] : Parent[c] = x /\ Active(c)'
                      /\ x # Root /\ Active(x)' => x \in owed'[Parent[x]]
                      /\ owed'[x] # {} => worker'[x] \in {"scanning", "draining"}
                      /\ x # Root /\ worker'[x] # "idle" => worker'[Parent[x]] \notin Unopened
    BY DEF Owes
  <2>1. \A c \in owed'[x] : Parent[c] = x /\ Active(c)'
    <3> TAKE c \in owed'[x]
    <3>1. CASE c = e
      BY <1>0, <1>2, <1>4, <1>5, <1>7, <3>1 DEF Active, Owes
    <3>2. CASE c # e
      <4>1. c \in owed[x] /\ c \in Dirs
        BY <1>4, <1>7, <3>2
      <4> QED
        BY <1>0, <1>5, <3>2, <4>1 DEF Owes, Active
    <3> QED
      BY <3>1, <3>2
  <2>2. x # Root /\ Active(x)' => x \in owed'[Parent[x]]
    <3>1. CASE x = e
      BY <1>2, <1>7, <3>1
    <3>2. CASE x # e /\ x # Root /\ Active(x)'
      <4>1. x \in owed[Parent[x]] /\ Parent[x] \in Dirs
        BY <1>0, <1>2, <1>5, <3>2 DEF Owes, Active
      <4> QED
        BY <1>7, <4>1
    <3> QED
      BY <3>1, <3>2
  <2>3. owed'[x] # {} => worker'[x] \in {"scanning", "draining"}
    <3>1. CASE x = d
      BY <1>1, <1>2, <1>5, <3>1
    <3>2. CASE x # d /\ owed'[x] # {}
      <4>1. worker[x] \in {"scanning", "draining"}
        BY <1>0, <1>7, <3>2 DEF Owes
      <4> QED
        BY <1>2, <1>5, <4>1
    <3> QED
      BY <3>1, <3>2
  <2>4. x # Root /\ worker'[x] # "idle" => worker'[Parent[x]] \notin Unopened
    <3>1. CASE x = e
      BY <1>1, <1>2, <1>5, <3>1 DEF Unopened, Waiting
    <3>2. CASE x # e /\ x # Root /\ worker'[x] # "idle"
      <4>1. worker[Parent[x]] \notin Unopened /\ Parent[x] \in Dirs
        BY <1>0, <1>2, <1>5, <3>2 DEF Owes
      <4>2. Parent[x] # e
        BY <1>2, <4>1 DEF Unopened
      <4> QED
        BY <1>5, <4>1, <4>2
    <3> QED
      BY <3>1, <3>2
  <2> QED
    BY <2>1, <2>2, <2>3, <2>4
<1>11. Loops'
  <2> SUFFICES ASSUME NEW x \in Dirs
               PROVE  /\ todo'[x] \subseteq Children(x)
                      /\ todo'[x] # {} => worker'[x] = "scanning"
                      /\ looked[x].file = Root => looked[x] = SqliteScan!NoFile
                      /\ looked[x].file # Root => worker'[x] = "scanning" /\ looked[x].file \in Children(x) \ todo'[x]
                      /\ \A c \in todo'[x] \cap Dirs : worker'[c] = "idle"
    BY <1>1 DEF Loops
  <2>1. /\ todo[x] \subseteq Children(x)
        /\ todo[x] # {} => worker[x] = "scanning"
        /\ looked[x].file = Root => looked[x] = SqliteScan!NoFile
        /\ looked[x].file # Root => worker[x] = "scanning" /\ looked[x].file \in Children(x) \ todo[x]
        /\ \A c \in todo[x] \cap Dirs : worker[c] = "idle"
    BY <1>0 DEF Loops
  <2>2. todo'[x] = todo[x] \ {e}
    BY <1>2, <1>6, <2>1, ListingFacts
  <2>3. worker[x] = "scanning" => worker'[x] = "scanning"
    BY <1>2, <1>5
  <2> QED
    BY <1>5, <2>1, <2>2, <2>3
<1>12. e \notin DOMAIN table
  BY <1>0, <1>1, <1>3 DEF ScanRows
<1>13. ScanRows'
  <2>1. \A x \in Dirs : \A c \in todo'[x] : c \in todo[x]
    BY <1>6
  <2> QED
    BY <1>0, <1>1, <1>3, <1>5, <1>12, <2>1 DEF ScanRows, Unopened, Waiting
<1>14. ScanTotals'
  <2>1. \A x \in Dirs : Added(x)' = Added(x)
    BY <1>1, <1>7, <1>12 DEF Added
  <2>2. ASSUME ~failed, NEW x \in Dirs \cap DOMAIN table PROVE TotalOk(x)'
    <3>1. TotalOk(x) /\ x # e
      BY <1>0, <1>3, <1>12, <2>2 DEF ScanTotals
    <3> QED
      BY <1>1, <1>5, <2>1, <3>1, TotalKept
  <2> QED
    BY <1>0, <1>1, <1>2, <1>3, <1>5, <2>2 DEF ScanTotals, Unopened, Waiting
<1>15. ScanFlags'
  BY <1>0, <1>1, <1>3, <1>5, <1>12 DEF ScanFlags
<1>16. ScanMisses'
  <2>1. ASSUME NEW c \in Entries, Reached(c) PROVE Reached(c)'
    <3>1. Parent[c] \in Dirs
      BY ListingFacts
    <3>2. c = e \/ (c \in todo[Parent[c]] => c \in todo'[Parent[c]])
      BY <1>6, <3>1
    <3>3. c = e => c \in Dirs /\ worker'[c] # "idle"
      BY <1>1, <1>5
    <3>4. c \in Dirs /\ worker[c] # "idle" => worker'[c] # "idle"
      BY <1>2, <1>5
    <3> QED
      BY <1>1, <2>1, <3>2, <3>3, <3>4 DEF Reached
  <2>2. worker[Root] \in Waiting => worker'[Root] \in Waiting
    BY <1>2, <1>5, TreeAssumption
  <2>3. \A x \in Dirs : /\ worker[x] # "sendingNil" => worker'[x] # "sendingNil"
                        /\ worker'[x] = "finished" => worker[x] = "finished"
    BY <1>5
  <2> QED
    BY <1>0, <1>1, <1>3, <2>1, <2>2, <2>3 DEF ScanMisses
<1>17. CommittedInv'
  BY <1>1, <1>3, NothingCommitted
<1> QED
  BY <1>8, <1>9, <1>10, <1>11, <1>13, <1>14, <1>15, <1>16, <1>17 DEF SqliteScanInv

\* A directory that is given up before it has a row.
LEMMA ReturnNilKeeps ==
  ASSUME SqliteScanInv, NEW d \in Dirs, SqliteScan!Refuse(d) \/ SqliteScan!OpenDirFails(d)
  PROVE  SqliteScanInv'
<1>0. /\ ScanTypes /\ Transaction /\ Owes /\ Loops /\ ScanRows /\ ScanTotals /\ ScanFlags /\ ScanMisses
  BY DEF SqliteScanInv
<1>1. /\ worker[d] = "admitted"
      /\ worker' = [worker EXCEPT ![d] = IF d = Root THEN "finished" ELSE "sendingNil"]
      /\ main' = IF d = Root THEN "waiting" ELSE main
      /\ waitValue' = waitValue - 1 /\ waitLocked' = (waitLocked /\ waitValue' # 0)
      /\ failed' \in BOOLEAN /\ (failed => failed') /\ (~failed' => cancelled /\ d # Root)
      /\ UNCHANGED <<calls, asked, given, bulk, torn, committed, table, todo, looked, owed, total, flag, cancelled, partial>>
  BY <1>0 DEF ScanTypes, SqliteScan!Refuse, SqliteScan!OpenDirFails, SqliteScan!ReturnNil, SqliteScan!restVars,
     SqliteScan!WaitDone, SqliteScan!rowVars
<1>2. waitValue' \in Int /\ waitLocked' \in BOOLEAN
  <2>1. waitValue \in Int /\ waitLocked \in BOOLEAN
    BY <1>0 DEF ScanTypes
  <2>2. waitValue' \in Int
    BY <1>1, <2>1
  <2>3. waitLocked' \in BOOLEAN
    BY <1>1
  <2> QED
    BY <2>2, <2>3
<1>3. main = "scanning" /\ InScan /\ InScan' /\ main' \in {"scanning", "waiting"}
  BY <1>1, ActiveScans DEF Active, InScan
<1>4. /\ worker \in [Dirs -> Stages] /\ (\A x \in Dirs \ {Root} : Parent[x] \in Dirs)
      /\ \A x \in Dirs : owed[x] \subseteq Dirs
  BY <1>0, ListingFacts DEF ScanTypes, Entries
<1>5. /\ worker' \in [Dirs -> Stages] /\ worker'[d] = (IF d = Root THEN "finished" ELSE "sendingNil")
      /\ \A x \in Dirs \ {d} : worker'[x] = worker[x]
  BY <1>1, <1>4 DEF Stages
<1>6. owed[d] = {} /\ todo[d] = {} /\ looked[d].file = Root
  BY <1>0, <1>1 DEF Owes, Loops
<1>7. ScanTypes'
  BY <1>0, <1>1, <1>2, <1>3, <1>5 DEF ScanTypes
<1>8. d = Root => \A x \in Dirs \ {Root} : ~Active(x)
  BY <1>6, RootIsLast
<1>9. Transaction'
  <2>1. CASE d = Root
    BY <1>0, <1>1, <1>3, <1>5, <1>8, <2>1 DEF Transaction, Active
  <2>2. CASE d # Root
    BY <1>0, <1>1, <1>3, <1>5, <2>2, TreeAssumption DEF Transaction, Active
  <2> QED
    BY <2>1, <2>2
<1>10. Owes'
  <2> SUFFICES ASSUME NEW x \in Dirs
               PROVE  /\ \A c \in owed[x] : Parent[c] = x /\ Active(c)'
                      /\ x # Root /\ Active(x)' => x \in owed[Parent[x]]
                      /\ owed[x] # {} => worker'[x] \in {"scanning", "draining"}
                      /\ x # Root /\ worker'[x] # "idle" => worker'[Parent[x]] \notin Unopened
    BY <1>1 DEF Owes
  <2>1. \A c \in owed[x] : Parent[c] = x /\ Active(c)'
    <3> TAKE c \in owed[x]
    <3>1. Parent[c] = x /\ Active(c) /\ c \in Dirs \ {Root}
      BY <1>0 DEF Owes, ScanTypes
    <3> QED
      BY <1>5, <3>1 DEF Active
  <2>2. x # Root /\ Active(x)' => x \in owed[Parent[x]]
    BY <1>0, <1>1, <1>5 DEF Owes, Active
  <2>3. owed[x] # {} => worker'[x] \in {"scanning", "draining"}
    BY <1>0, <1>5, <1>6 DEF Owes
  <2>4. ASSUME x # Root, worker'[x] # "idle" PROVE worker'[Parent[x]] \notin Unopened
    <3>1. worker[Parent[x]] \notin Unopened /\ Parent[x] \in Dirs
      BY <1>0, <1>1, <1>4, <1>5, <2>4 DEF Owes
    <3>2. Parent[x] # d
      BY <1>1, <3>1 DEF Unopened, Waiting
    <3> QED
      BY <1>5, <3>1, <3>2
  <2> QED
    BY <2>1, <2>2, <2>3, <2>4
<1>11. Loops'
  <2>1. \A x \in Dirs : /\ worker[x] = "scanning" => worker'[x] = "scanning"
                        /\ worker[x] = "idle" => worker'[x] = "idle"
    BY <1>1, <1>5
  <2> QED
    BY <1>0, <1>1, <2>1 DEF Loops
<1>12. d \notin DOMAIN table
  BY <1>0, <1>1, <1>3 DEF ScanRows, Unopened, Waiting
<1>13. ScanRows'
  BY <1>0, <1>1, <1>3, <1>5, <1>12 DEF ScanRows, Unopened, Waiting
<1>14. ScanTotals'
  <2>1. \A x \in Dirs : Added(x)' = Added(x)
    BY <1>1 DEF Added
  <2>2. ASSUME ~failed, NEW x \in Dirs \cap DOMAIN table PROVE TotalOk(x)'
    <3>1. TotalOk(x) /\ x # d
      BY <1>0, <1>3, <1>12, <2>2 DEF ScanTotals
    <3> QED
      BY <1>1, <1>5, <2>1, <3>1, TotalKept
  <2>3. \A x \in Dirs : worker'[x] \in Unopened => worker[x] \in Unopened
    BY <1>1, <1>5 DEF Unopened, Waiting
  <2> QED
    BY <1>0, <1>1, <1>3, <2>2, <2>3 DEF ScanTotals
<1>15. ScanFlags'
  BY <1>0, <1>1, <1>3, <1>5, <1>12 DEF ScanFlags
<1>16. ScanMisses'
  <2>1. ~failed' => cancelled' /\ (Root \in DOMAIN table \/ worker'[Root] \in Waiting)
    <3>1. ~failed' => worker'[Root] = worker[Root]
      BY <1>1, <1>5, TreeAssumption
    <3> QED
      BY <1>0, <1>1, <1>3, <3>1 DEF ScanMisses
  <2> QED
    BY <1>1, <2>1 DEF ScanMisses
<1>17. CommittedInv'
  BY <1>1, <1>3, NothingCommitted
<1> QED
  BY <1>7, <1>9, <1>10, <1>11, <1>13, <1>14, <1>15, <1>16, <1>17 DEF SqliteScanInv

LEMMA OpenDirKeeps ==
  ASSUME SqliteScanInv, NEW d \in Dirs, SqliteScan!OpenDir(d)
  PROVE  SqliteScanInv'
<1>0. /\ ScanTypes /\ Transaction /\ Owes /\ Loops /\ ScanRows /\ ScanTotals /\ ScanFlags /\ ScanMisses
  BY DEF SqliteScanInv
<1>1. PICK listed \in SUBSET Children(d), broken \in BOOLEAN :
        /\ broken \/ listed = Children(d)
        /\ todo' = [todo EXCEPT ![d] = listed]
        /\ flag' = [flag EXCEPT ![d] = IF broken THEN "!" ELSE IF listed = {} THEN "e" ELSE " "]
  BY SameSqliteScan DEF SqliteScan!OpenDir
<1> DEFINE f == IF broken THEN "!" ELSE IF listed = {} THEN "e" ELSE " "
<1>2. /\ worker[d] = "admitted"
      /\ worker' = [worker EXCEPT ![d] = "scanning"]
      /\ table' = SqliteScan!Put(table, d, 0, flag'[d])
      /\ UNCHANGED <<main, calls, asked, given, bulk, torn, committed, looked, owed, total,
                     waitValue, waitLocked, cancelled, partial, failed>>
  BY DEF SqliteScan!OpenDir, SqliteScan!scanVars, SqliteScan!restVars, SqliteScan!waitVars
<1>3. main = "scanning" /\ InScan /\ InScan'
  BY <1>2, ActiveScans DEF Active, InScan
<1>4. /\ worker \in [Dirs -> Stages] /\ todo \in [Dirs -> SUBSET Entries] /\ flag \in [Dirs -> Flags]
      /\ owed \in [Dirs -> SUBSET (Dirs \ {Root})] /\ (\A x \in Dirs \ {Root} : Parent[x] \in Dirs)
      /\ listed \subseteq Entries
  BY <1>0, ListingFacts DEF ScanTypes, Entries
<1>5. /\ worker' \in [Dirs -> Stages] /\ worker'[d] = "scanning"
      /\ \A x \in Dirs \ {d} : worker'[x] = worker[x]
  BY <1>2, <1>4 DEF Stages
<1>6. /\ todo' \in [Dirs -> SUBSET Entries] /\ todo'[d] = listed
      /\ \A x \in Dirs \ {d} : todo'[x] = todo[x]
  BY <1>1, <1>4
<1>7. /\ f \in Flags /\ flag' \in [Dirs -> Flags] /\ flag'[d] = f
      /\ \A x \in Dirs \ {d} : flag'[x] = flag[x]
  BY <1>1, <1>4 DEF Flags
<1>8. f # "!" => listed = Children(d)
  BY <1>1
<1> HIDE DEF f
<1>9. /\ DOMAIN table' = DOMAIN table \cup {d} /\ table'[d].size = 0 /\ table'[d].flag = f
      /\ \A x \in DOMAIN table \ {d} : table'[x] = table[x]
  <2>1. PICK new : new = table'
    OBVIOUS
  <2>2. new = SqliteScan!Put(table, d, 0, f)
    BY <1>2, <1>7, <2>1
  <2>3. /\ DOMAIN new = DOMAIN table \cup {d} /\ new[d].size = 0 /\ new[d].flag = f
        /\ \A x \in DOMAIN table \ {d} : new[x] = table[x]
    BY <2>2 DEF SqliteScan!Put
  <2> QED
    BY <2>1, <2>3
<1>10. /\ d \notin DOMAIN table /\ owed[d] = {} /\ looked[d].file = Root /\ todo[d] = {}
  BY <1>0, <1>2, <1>3 DEF ScanRows, Owes, Loops, Unopened, Waiting
<1>11. /\ Children(d) \cap DOMAIN table = {}
       /\ \A c \in Children(d) \cap Dirs : worker[c] = "idle"
       /\ \A c \in Children(d) : c # d /\ c # Root /\ Parent[c] = d
  <2>1. \A c \in Children(d) : c # d /\ c # Root /\ Parent[c] = d
    BY ListingFacts, NoLoop DEF Entries
  <2>2. Children(d) \cap DOMAIN table = {}
    BY <1>0, <1>3, <1>10, <2>1 DEF ScanRows, IsTree
  <2>3. \A c \in Children(d) \cap Dirs : worker[c] = "idle"
    BY <1>0, <1>2, <2>1 DEF Owes, Unopened, Waiting
  <2> QED
    BY <2>1, <2>2, <2>3
<1>12. d # Root => d \in owed[Parent[d]] /\ Parent[d] \in Dirs /\ Parent[d] \in DOMAIN table /\ Parent[d] # d
  <2>1. d # Root => d \in owed[Parent[d]] /\ Parent[d] \in Dirs /\ worker[Parent[d]] \in {"scanning", "draining"}
    BY <1>2, ActiveScans DEF Active
  <2> QED
    BY <1>0, <1>3, <1>10, <2>1 DEF ScanRows
<1>13. ScanTypes'
  <2>1. DOMAIN table' \subseteq Dirs \cup Files /\ \A x \in DOMAIN table' : table'[x].size \in Nat
    <3>1. \A x \in DOMAIN table' : table'[x].size \in Nat
      <4> TAKE x \in DOMAIN table'
      <4>1. CASE x = d
        BY <1>9, <4>1
      <4>2. CASE x # d
        BY <1>0, <1>9, <4>2 DEF ScanTypes
      <4> QED
        BY <4>1, <4>2
    <3> QED
      BY <1>0, <1>9, <3>1 DEF ScanTypes
  <2> QED
    BY <1>0, <1>2, <1>5, <1>6, <1>7, <2>1 DEF ScanTypes
<1>14. Transaction'
  BY <1>0, <1>2, <1>3, <1>5, TreeAssumption DEF Transaction, Active
<1>15. Owes'
  <2>1. \A x \in Dirs :
          /\ Active(x)' <=> Active(x)
          /\ worker'[x] \in Unopened => worker[x] \in Unopened
          /\ worker'[x] # "idle" => worker[x] # "idle"
          /\ worker[x] \in {"scanning", "draining"} => worker'[x] \in {"scanning", "draining"}
    BY <1>2, <1>5 DEF Active, Unopened, Waiting
  <2>2. \A x \in Dirs : owed[x] \subseteq Dirs
    BY <1>4
  <2> QED
    BY <1>0, <1>2, <1>4, <2>1, <2>2, OwesKept
<1>16. Loops'
  <2>1. \A x \in Dirs \ {d} :
          /\ todo'[x] = todo[x] /\ worker'[x] = worker[x] /\ looked'[x] = looked[x]
          /\ \A e \in todo[x] \cap Dirs : worker'[e] = "idle"
    BY <1>0, <1>2, <1>5, <1>6 DEF Loops
  <2>2. \A e \in listed \cap Dirs : worker'[e] = "idle"
    BY <1>5, <1>11
  <2>3. looked'[d] = SqliteScan!NoFile /\ looked'[d].file = Root
    BY <1>0, <1>2, <1>10 DEF Loops
  <2> QED
    BY <1>0, <1>1, <1>5, <1>6, <2>1, <2>2, <2>3 DEF Loops
<1>17. ScanRows'
  <2>1. IsTree(table)'
    BY <1>0, <1>3, <1>9, <1>12 DEF ScanRows, IsTree
  <2>2. ASSUME NEW x \in Dirs
        PROVE  /\ worker'[x] \in Unopened => x \notin DOMAIN table'
               /\ worker'[x] \in {"scanning", "draining", "sending"} => x \in DOMAIN table'
    BY <1>0, <1>3, <1>5, <1>9 DEF ScanRows, Unopened, Waiting
  <2>3. ASSUME NEW x \in Dirs, NEW e \in todo'[x] PROVE e \notin DOMAIN table'
    <3>1. CASE x = d
      BY <1>6, <1>9, <1>11, <2>3, <3>1
    <3>2. CASE x # d
      <4>1. e \in todo[x] /\ e \notin DOMAIN table
        BY <1>0, <1>3, <1>6, <2>3, <3>2 DEF ScanRows
      <4>2. e # d
        BY <1>0, <1>2, <4>1 DEF Loops
      <4> QED
        BY <1>9, <4>1, <4>2
    <3> QED
      BY <3>1, <3>2
  <2>4. ASSUME NEW x \in Dirs, looked'[x].file # Root PROVE looked'[x].file \notin DOMAIN table'
    <3>1. looked[x].file \notin DOMAIN table /\ looked[x].file \in Files
      BY <1>0, <1>2, <1>3, <2>4 DEF ScanRows, ScanTypes
    <3> QED
      BY <1>2, <1>9, <3>1, TreeAssumption
  <2> QED
    BY <2>1, <2>2, <2>3, <2>4 DEF ScanRows
<1>18. ScanTotals'
  <2>1. \A x \in Dirs : Added(x)' = Added(x)
    <3> TAKE x \in Dirs
    <3>1. d \in Children(x) => d \in owed[x]
      BY <1>12, ListingFacts DEF Entries
    <3> QED
      BY <1>2, <1>9, <3>1 DEF Added
  <2>2. Added(d) = {}
    BY <1>11 DEF Added
  <2>3. ASSUME ~failed, NEW x \in Dirs \cap DOMAIN table, x # d PROVE TotalOk(x)'
    <3>1. TotalOk(x)
      BY <1>0, <1>3, <2>3 DEF ScanTotals
    <3>2. \A e \in Added(x) : table'[e] = table[e]
      BY <1>9, <1>10 DEF Added
    <3> QED
      BY <1>2, <1>5, <1>7, <1>9, <2>1, <2>3, <3>1, <3>2, TotalKept
  <2>4. ASSUME ~failed PROVE TotalOk(d)'
    <3>1. total[d] = 0
      BY <1>0, <1>2, <1>3, <2>4 DEF ScanTotals, Unopened, Waiting
    <3>2. Amount(table', {}) = 0
      BY AmountOfNone
    <3> QED
      BY <1>2, <1>5, <2>1, <2>2, <3>1, <3>2 DEF TotalOk
  <2>5. \A x \in Dirs : worker'[x] \in Unopened => worker[x] \in Unopened
    BY <1>5 DEF Unopened, Waiting
  <2> QED
    BY <1>0, <1>2, <1>3, <1>9, <2>3, <2>4, <2>5 DEF ScanTotals
<1>19. ScanFlags'
  <2> SUFFICES ASSUME ~failed, NEW x \in DOMAIN table' \cap (Dirs \ {Root}),
                      worker'[x] = "finished", flag'[x] \in Broken
               PROVE  flag'[Parent[x]] \in Broken
    BY <1>2 DEF ScanFlags
  <2>1. x # d
    BY <1>5
  <2>2. x \in DOMAIN table
    BY <1>9, <2>1
  <2>3. flag[Parent[x]] \in Broken /\ Parent[x] \in DOMAIN table /\ Parent[x] \in Dirs
    BY <1>0, <1>3, <1>4, <1>5, <1>7, <2>1, <2>2 DEF ScanFlags, ScanRows, IsTree
  <2> QED
    BY <1>7, <1>10, <2>3
<1>20. ScanMisses'
  <2>1. ASSUME ~failed, ~cancelled, NEW e \in Entries \ SqliteSkip, Parent[e] \in DOMAIN table',
               flag'[Parent[e]] # "!"
        PROVE  Reached(e)'
    <3>0. Parent[e] \in Dirs /\ e \in Children(Parent[e])
      BY ListingFacts
    <3>1. CASE Parent[e] = d
      <4>1. e \in listed
        BY <1>7, <1>8, <2>1, <3>0, <3>1
      <4> QED
        BY <1>6, <3>1, <4>1 DEF Reached
    <3>2. CASE Parent[e] # d
      <4>1. Reached(e)
        BY <1>0, <1>3, <1>7, <1>9, <2>1, <3>0, <3>2 DEF ScanMisses
      <4>2. todo'[Parent[e]] = todo[Parent[e]]
        BY <1>6, <3>0, <3>2
      <4>3. e \in Dirs /\ worker[e] # "idle" => worker'[e] # "idle"
        BY <1>5
      <4> QED
        BY <1>2, <1>9, <4>1, <4>2, <4>3 DEF Reached
    <3> QED
      BY <3>1, <3>2
  <2>2. ~failed => Root \in DOMAIN table' \/ worker'[Root] \in Waiting
    BY <1>0, <1>3, <1>5, <1>9, TreeAssumption DEF ScanMisses
  <2>3. ASSUME ~failed, ~cancelled, NEW x \in Dirs
        PROVE worker'[x] # "sendingNil" /\ (worker'[x] = "finished" => x \in DOMAIN table')
    BY <1>0, <1>3, <1>5, <1>9, <2>3 DEF ScanMisses
  <2> QED
    BY <1>2, <2>1, <2>2, <2>3 DEF ScanMisses
<1>21. CommittedInv'
  BY <1>2, <1>3, NothingCommitted
<1> QED
  BY <1>13, <1>14, <1>15, <1>16, <1>17, <1>18, <1>19, <1>20, <1>21 DEF SqliteScanInv

LEMMA InsertKeeps ==
  ASSUME SqliteScanInv, NEW d \in Dirs, SqliteScan!Insert(d)
  PROVE  SqliteScanInv'
<1> DEFINE e == looked[d].file
           n == IF looked[d].counted THEN 0 ELSE Bytes[looked[d].file]
           f == IF looked[d].counted THEN "H" ELSE " "
<1>0. /\ ScanTypes /\ Transaction /\ Owes /\ Loops /\ ScanRows /\ ScanTotals /\ ScanFlags /\ ScanMisses
  BY DEF SqliteScanInv
<1>1. /\ looked[d] # SqliteScan!NoFile
      /\ looked' = [looked EXCEPT ![d] = SqliteScan!NoFile]
      /\ table' = SqliteScan!Put(table, e, n, f)
      /\ total' = [total EXCEPT ![d] = total[d] + n]
      /\ UNCHANGED <<main, calls, asked, given, bulk, torn, committed, worker, todo, owed, flag,
                     waitValue, waitLocked, cancelled, partial, failed>>
  BY <1>0 DEF ScanTypes, SqliteScan!Insert, SqliteScan!scanVars, SqliteScan!restVars, SqliteScan!waitVars
<1>2. /\ looked \in [Dirs -> [file : Files \cup {Root}, counted : BOOLEAN]] /\ total \in [Dirs -> Nat]
      /\ SqliteScan!NoFile \in [file : Files \cup {Root}, counted : BOOLEAN] /\ SqliteScan!NoFile.file = Root
  BY <1>0 DEF ScanTypes, SqliteScan!NoFile
<1>3. /\ worker[d] = "scanning" /\ e \in Files /\ e # Root /\ e \notin Dirs /\ e \in Children(d) /\ e \notin todo[d]
      /\ Parent[e] = d /\ e \in Entries
  <2>1. e # Root
    BY <1>0, <1>1 DEF Loops
  <2>2. worker[d] = "scanning" /\ e \in Children(d) \ todo[d]
    BY <1>0, <2>1 DEF Loops
  <2> QED
    BY <1>2, <2>1, <2>2, ListingFacts, TreeAssumption
<1>4. n \in Nat
  BY <1>2, <1>3, BytesAssumption
<1>5. main = "scanning" /\ InScan /\ InScan'
  BY <1>1, <1>3, ActiveScans DEF Active, InScan
<1>6. /\ looked' \in [Dirs -> [file : Files \cup {Root}, counted : BOOLEAN]]
      /\ looked'[d] = SqliteScan!NoFile /\ looked'[d].file = Root
      /\ \A x \in Dirs \ {d} : looked'[x] = looked[x]
  BY <1>1, <1>2
<1>7. /\ DOMAIN table' = DOMAIN table \cup {e} /\ table'[e].size = n
      /\ \A x \in DOMAIN table \ {e} : table'[x] = table[x]
  <2>1. PICK new : new = table'
    OBVIOUS
  <2> HIDE DEF n, f, e
  <2>2. new = SqliteScan!Put(table, e, n, f)
    BY <1>1, <2>1
  <2>3. /\ DOMAIN new = DOMAIN table \cup {e} /\ new[e].size = n
        /\ \A x \in DOMAIN table \ {e} : new[x] = table[x]
    BY <2>2 DEF SqliteScan!Put
  <2> QED
    BY <2>1, <2>3
<1>8. /\ e \notin DOMAIN table /\ d \in DOMAIN table
  BY <1>0, <1>3, <1>5 DEF ScanRows
<1> HIDE DEF n, f
<1>9. /\ total' \in [Dirs -> Nat] /\ total'[d] = total[d] + n
      /\ \A x \in Dirs \ {d} : total'[x] = total[x]
  <2>1. total[d] + n \in Nat
    BY <1>2, <1>4
  <2> QED
    BY <1>1, <1>2, <2>1
<1> HIDE DEF e
<1>10. \A x \in DOMAIN table' : table'[x].size \in Nat
  <2> TAKE x \in DOMAIN table'
  <2>1. CASE x = e
    BY <1>4, <1>7, <2>1
  <2>2. CASE x # e
    BY <1>0, <1>7, <2>2 DEF ScanTypes
  <2> QED
    BY <2>1, <2>2
<1>11. ScanTypes'
  BY <1>0, <1>1, <1>3, <1>6, <1>7, <1>9, <1>10 DEF ScanTypes
<1>12. Transaction'
  BY <1>0, <1>1, <1>5 DEF Transaction, Active
<1>13. Owes'
  BY <1>0, <1>1 DEF Owes, Active
<1>14. Loops'
  BY <1>0, <1>1, <1>6 DEF Loops
<1>15. ScanRows'
  <2>1. IsTree(table)'
    BY <1>0, <1>3, <1>5, <1>7, <1>8 DEF ScanRows, IsTree
  <2>2. ASSUME NEW x \in Dirs
        PROVE  /\ worker[x] \in Unopened => x \notin DOMAIN table'
               /\ worker[x] \in {"scanning", "draining", "sending"} => x \in DOMAIN table'
    BY <1>0, <1>3, <1>5, <1>7 DEF ScanRows
  <2>3. ASSUME NEW x \in Dirs, NEW c \in todo[x] PROVE c \notin DOMAIN table'
    <3>1. c \in Children(x) /\ c \notin DOMAIN table
      BY <1>0, <1>5 DEF ScanRows, Loops
    <3>2. c # e
      BY <1>3, <3>1, ListingFacts
    <3> QED
      BY <1>7, <3>1, <3>2
  <2>4. ASSUME NEW x \in Dirs, looked'[x].file # Root PROVE looked'[x].file \notin DOMAIN table'
    <3>1. x # d /\ looked'[x] = looked[x]
      BY <1>6, <2>4
    <3>2. looked[x].file \in Children(x) /\ looked[x].file \notin DOMAIN table
      BY <1>0, <1>5, <2>4, <3>1 DEF ScanRows, Loops
    <3>3. looked[x].file # e
      BY <1>3, <3>1, <3>2, ListingFacts
    <3> QED
      BY <1>7, <3>1, <3>2, <3>3
  <2> QED
    BY <1>1, <2>1, <2>2, <2>3, <2>4 DEF ScanRows
<1>16. e \notin owed[d] /\ Added(d)' = Added(d) \cup {e} /\ e \notin Added(d)
  <2>1. e \notin owed[d]
    BY <1>0, <1>3 DEF ScanTypes
  <2> QED
    BY <1>1, <1>3, <1>7, <1>8, <2>1 DEF Added
<1>17. ScanTotals'
  <2>1. \A x \in Dirs \ {d} : Added(x)' = Added(x)
    BY <1>1, <1>3, <1>7, ListingFacts DEF Added
  <2>2. ASSUME ~failed, NEW x \in Dirs \cap DOMAIN table, x # d PROVE TotalOk(x)'
    <3>1. TotalOk(x)
      BY <1>0, <1>5, <2>2 DEF ScanTotals
    <3>2. (\A c \in Added(x) : table'[c] = table[c]) /\ table'[x] = table[x]
      BY <1>3, <1>7, <1>8 DEF Added
    <3> QED
      BY <1>1, <1>9, <2>1, <2>2, <3>1, <3>2, TotalKept
  <2>3. ASSUME ~failed PROVE TotalOk(d)'
    <3>1. total[d] = Amount(table, Added(d))
      BY <1>0, <1>3, <1>5, <1>8, <2>3 DEF ScanTotals, TotalOk
    <3>2. IsFiniteSet(Added(d))
      BY ListingFacts, FS_Subset DEF Added
    <3>3. \A c \in Added(d) : table[c].size = table'[c].size /\ table[c].size \in Nat
      BY <1>0, <1>7, <1>8 DEF Added, ScanTypes
    <3>4. table'[e].size \in Nat
      BY <1>4, <1>7
    <3>5. Amount(table', Added(d) \cup {e}) = Amount(table, Added(d)) + table'[e].size
      <4>1. Grafts(table, table', Added(d), e)
        BY <1>16, <3>2, <3>3, <3>4 DEF Grafts
      <4> QED
        BY <4>1, AmountGrows
    <3>6. total'[d] = Amount(table', Added(d)')
      BY <1>7, <1>9, <1>16, <3>1, <3>5
    <3> QED
      BY <1>1, <1>3, <3>6 DEF TotalOk
  <2>4. \A x \in Dirs : worker[x] \in Unopened => x # d
    BY <1>3 DEF Unopened, Waiting
  <2>5. \A x \in Dirs \cap DOMAIN table' : x \in DOMAIN table
    BY <1>3, <1>7
  <2> QED
    BY <1>0, <1>1, <1>5, <1>9, <2>2, <2>3, <2>4, <2>5 DEF ScanTotals
<1>18. ScanFlags'
  BY <1>0, <1>1, <1>3, <1>5, <1>7 DEF ScanFlags
<1>19. ScanMisses'
  <2>1. ASSUME NEW c \in Entries, Reached(c) PROVE Reached(c)'
    <3>1. c = looked[Parent[c]].file => c = looked'[Parent[c]].file \/ c \in DOMAIN table'
      <4>1. Parent[c] \in Dirs
        BY ListingFacts
      <4>2. Parent[c] = d /\ c = looked[Parent[c]].file => c = e
        BY DEF e
      <4> QED
        BY <1>6, <1>7, <4>1, <4>2
    <3> QED
      BY <1>1, <1>7, <2>1, <3>1 DEF Reached
  <2>2. \A x \in Dirs : x \in DOMAIN table' <=> x \in DOMAIN table
    BY <1>3, <1>7
  <2>3. \A c \in Entries : Parent[c] \in DOMAIN table' => Parent[c] \in DOMAIN table
    BY <2>2, ListingFacts
  <2> QED
    BY <1>0, <1>1, <1>5, <2>1, <2>2, <2>3, TreeAssumption DEF ScanMisses
<1>20. CommittedInv'
  BY <1>1, <1>5, NothingCommitted
<1> QED
  BY <1>11, <1>12, <1>13, <1>14, <1>15, <1>17, <1>18, <1>19, <1>20 DEF SqliteScanInv

LEMMA ReceiveKeeps ==
  ASSUME SqliteScanInv, NEW p \in Dirs, NEW c \in Dirs \ {Root}, SqliteScan!Receive(p, c)
  PROVE  SqliteScanInv'
<1>0. /\ ScanTypes /\ Transaction /\ Owes /\ Loops /\ ScanRows /\ ScanTotals /\ ScanFlags /\ ScanMisses
  BY DEF SqliteScanInv
<1> DEFINE n == IF worker[c] = "sending" THEN total[p] + total[c] ELSE total[p]
           f == IF worker[c] = "sending" /\ flag[c] \in {"!", "."} /\ flag[p] # "!" THEN "." ELSE flag[p]
<1>1. /\ worker[p] = "draining" /\ c \in owed[p] /\ worker[c] \in {"sending", "sendingNil"}
      /\ owed' = [owed EXCEPT ![p] = owed[p] \ {c}]
      /\ worker' = [worker EXCEPT ![c] = "finished"]
      /\ total' = [total EXCEPT ![p] = n]
      /\ flag' = [flag EXCEPT ![p] = f]
      /\ UNCHANGED <<main, calls, asked, given, bulk, torn, committed, table, todo, looked,
                     waitValue, waitLocked, cancelled, partial, failed>>
  BY <1>0 DEF ScanTypes, SqliteScan!Receive, SqliteScan!scanVars, SqliteScan!restVars, SqliteScan!rowVars, SqliteScan!waitVars
<1>2. /\ worker \in [Dirs -> Stages] /\ total \in [Dirs -> Nat] /\ flag \in [Dirs -> Flags]
      /\ owed \in [Dirs -> SUBSET (Dirs \ {Root})] /\ (\A x \in Dirs \ {Root} : Parent[x] \in Dirs)
  BY <1>0, ListingFacts DEF ScanTypes, Entries
<1>3. /\ Parent[c] = p /\ c # p /\ c \in Children(p) /\ c \in Entries
  <2>1. Parent[c] = p /\ c \in Entries
    BY <1>0, <1>1 DEF Owes, Entries
  <2> QED
    BY <2>1, ListingFacts, NoLoop
<1>4. n \in Nat /\ f \in Flags
  <2>1. total[p] \in Nat /\ total[c] \in Nat
    BY <1>2
  <2>2. n \in Nat
    BY <2>1
  <2>3. f \in Flags
    BY <1>2 DEF Flags
  <2> QED
    BY <2>2, <2>3
<1>5. main = "scanning" /\ InScan /\ InScan'
  BY <1>1, ActiveScans DEF Active, InScan
<1>6. /\ worker' \in [Dirs -> Stages] /\ worker'[c] = "finished"
      /\ \A x \in Dirs \ {c} : worker'[x] = worker[x]
  BY <1>1, <1>2 DEF Stages
<1>7. /\ owed' \in [Dirs -> SUBSET (Dirs \ {Root})] /\ owed'[p] = owed[p] \ {c}
      /\ \A x \in Dirs \ {p} : owed'[x] = owed[x]
  BY <1>1, <1>2
<1> HIDE DEF n, f
<1>8. /\ total' \in [Dirs -> Nat] /\ total'[p] = n /\ \A x \in Dirs \ {p} : total'[x] = total[x]
  BY <1>1, <1>2, <1>4
<1>9. /\ flag' \in [Dirs -> Flags] /\ flag'[p] = f /\ \A x \in Dirs \ {p} : flag'[x] = flag[x]
  BY <1>1, <1>2, <1>4
<1>10. \A x \in Dirs : c \in owed[x] => x = p
  BY <1>0, <1>3 DEF Owes
<1>11. ScanTypes'
  BY <1>0, <1>1, <1>6, <1>7, <1>8, <1>9 DEF ScanTypes
<1>12. Transaction'
  BY <1>0, <1>1, <1>5, <1>6, TreeAssumption DEF Transaction, Active
<1>13. Owes'
  <2> SUFFICES ASSUME NEW x \in Dirs
               PROVE  /\ \A b \in owed'[x] : Parent[b] = x /\ Active(b)'
                      /\ x # Root /\ Active(x)' => x \in owed'[Parent[x]]
                      /\ owed'[x] # {} => worker'[x] \in {"scanning", "draining"}
                      /\ x # Root /\ worker'[x] # "idle" => worker'[Parent[x]] \notin Unopened
    BY DEF Owes
  <2>1. \A b \in owed'[x] : b \in owed[x] /\ b # c /\ b \in Dirs
    BY <1>2, <1>7, <1>10
  <2>2. \A b \in owed'[x] : Parent[b] = x /\ Active(b)'
    BY <1>0, <1>6, <2>1 DEF Owes, Active
  <2>3. ASSUME x # Root, Active(x)' PROVE x \in owed'[Parent[x]]
    <3>1. x # c
      BY <1>6, <2>3 DEF Active
    <3>2. x \in owed[Parent[x]] /\ Parent[x] \in Dirs
      BY <1>0, <1>2, <1>6, <2>3, <3>1 DEF Owes, Active
    <3> QED
      BY <1>7, <3>1, <3>2
  <2>4. ASSUME owed'[x] # {} PROVE worker'[x] \in {"scanning", "draining"}
    <3>1. worker[x] \in {"scanning", "draining"}
      BY <1>0, <2>1, <2>4 DEF Owes
    <3> QED
      BY <1>1, <1>6, <3>1
  <2>5. ASSUME x # Root, worker'[x] # "idle" PROVE worker'[Parent[x]] \notin Unopened
    <3>1. worker[Parent[x]] \notin Unopened /\ Parent[x] \in Dirs
      BY <1>0, <1>1, <1>2, <1>6, <2>5 DEF Owes
    <3> QED
      BY <1>6, <3>1 DEF Unopened, Waiting
  <2> QED
    BY <2>2, <2>3, <2>4, <2>5
<1>14. Loops'
  <2>1. \A x \in Dirs : /\ worker[x] = "scanning" => worker'[x] = "scanning"
                        /\ worker[x] = "idle" => worker'[x] = "idle"
    BY <1>1, <1>6
  <2> QED
    BY <1>0, <1>1, <2>1 DEF Loops
<1>15. ScanRows'
  <2>1. \A x \in Dirs : worker'[x] \in {"scanning", "draining", "sending"} \cup Unopened => worker'[x] = worker[x]
    BY <1>6 DEF Unopened, Waiting
  <2> QED
    BY <1>0, <1>1, <1>5, <2>1 DEF ScanRows
<1>16. /\ worker[c] = "sending" => c \in DOMAIN table
       /\ worker[c] = "sendingNil" => c \notin DOMAIN table
       /\ p \in DOMAIN table
  BY <1>0, <1>1, <1>5 DEF ScanRows, Unopened, Waiting
<1>17. ScanTotals'
  <2>1. \A x \in Dirs \ {p} : Added(x)' = Added(x)
    BY <1>1, <1>7 DEF Added
  <2>2. ASSUME ~failed, NEW x \in Dirs \cap DOMAIN table, x # p PROVE TotalOk(x)'
    <3>1. TotalOk(x)
      BY <1>0, <1>5, <2>2 DEF ScanTotals
    <3>2. CASE x # c
      BY <1>1, <1>6, <1>8, <1>9, <2>1, <2>2, <3>1, <3>2, TotalKept
    <3>3. CASE x = c
      <4>1. worker[c] = "sending"
        BY <1>1, <1>16, <2>2, <3>3
      <4>2. total'[c] = total[c] /\ flag'[c] = flag[c]
        BY <1>3, <1>8, <1>9
      <4> QED
        BY <1>1, <1>3, <1>6, <2>1, <3>1, <3>3, <4>1, <4>2 DEF TotalOk
    <3> QED
      BY <3>2, <3>3
  <2>3. ASSUME ~failed PROVE TotalOk(p)'
    <3>1. total[p] = Amount(table, Added(p))
      BY <1>0, <1>1, <1>5, <1>16, <2>3 DEF ScanTotals, TotalOk
    <3>2. CASE worker[c] = "sendingNil"
      <4>1. Added(p)' = Added(p)
        BY <1>1, <1>7, <1>16, <3>2 DEF Added
      <4>2. n = total[p]
        BY <3>2 DEF n
      <4> QED
        BY <1>1, <1>3, <1>6, <1>8, <3>1, <4>1, <4>2 DEF TotalOk
    <3>3. CASE worker[c] = "sending"
      <4>1. Added(p)' = Added(p) \cup {c} /\ c \notin Added(p)
        BY <1>1, <1>3, <1>7, <1>16, <3>3 DEF Added
      <4>2. IsFiniteSet(Added(p))
        BY ListingFacts, FS_Subset DEF Added
      <4>3. \A b \in Added(p) : table[b].size = table[b].size /\ table[b].size \in Nat
        BY <1>0 DEF Added, ScanTypes
      <4>4. table[c].size \in Nat /\ table[c].size = total[c]
        BY <1>0, <1>5, <1>16, <2>3, <3>3 DEF ScanTypes, ScanTotals, TotalOk
      <4>5. Amount(table, Added(p) \cup {c}) = Amount(table, Added(p)) + table[c].size
        <5>1. Grafts(table, table, Added(p), c)
          BY <4>1, <4>2, <4>3, <4>4 DEF Grafts
        <5> QED
          BY <5>1, AmountGrows
      <4>6. n = total[p] + total[c]
        BY <3>3 DEF n
      <4>7. total'[p] = Amount(table, Added(p)')
        BY <1>8, <3>1, <4>1, <4>4, <4>5, <4>6
      <4> QED
        BY <1>1, <1>3, <1>6, <4>7 DEF TotalOk
    <3> QED
      BY <1>1, <3>2, <3>3
  <2>4. \A x \in Dirs : worker'[x] \in Unopened => worker[x] \in Unopened /\ x # p
    BY <1>1, <1>3, <1>6 DEF Unopened, Waiting
  <2> QED
    BY <1>0, <1>1, <1>5, <1>8, <2>2, <2>3, <2>4 DEF ScanTotals
<1>18. ScanFlags'
  <2> SUFFICES ASSUME ~failed, NEW x \in DOMAIN table \cap (Dirs \ {Root}),
                      worker'[x] = "finished", flag'[x] \in Broken
               PROVE  flag'[Parent[x]] \in Broken
    BY <1>1 DEF ScanFlags
  <2>1. x # p /\ flag'[x] = flag[x] /\ Parent[x] \in Dirs
    BY <1>1, <1>2, <1>3, <1>6, <1>9
  <2>2. flag[p] \in Broken => f \in Broken
    BY DEF f, Broken
  <2>3. CASE x = c
    <3>1. worker[c] = "sending"
      BY <1>1, <1>16, <2>3
    <3> QED
      BY <1>3, <1>9, <2>1, <2>3, <3>1 DEF f, Broken
  <2>4. CASE x # c
    <3>1. flag[Parent[x]] \in Broken
      BY <1>0, <1>5, <1>6, <2>1, <2>4 DEF ScanFlags
    <3> QED
      BY <1>9, <2>1, <2>2, <3>1
  <2> QED
    BY <2>3, <2>4
<1>19. ScanMisses'
  <2>1. ASSUME NEW e \in Entries, Reached(e) PROVE Reached(e)'
    BY <1>1, <1>6, <2>1 DEF Reached
  <2>2. \A x \in Dirs : flag'[x] # "!" => flag[x] # "!"
    BY <1>9 DEF f
  <2>3. \A e \in Entries : Parent[e] \in Dirs
    BY ListingFacts
  <2>4. worker'[Root] = worker[Root]
    BY <1>6, TreeAssumption
  <2>5. ASSUME ~failed, ~cancelled, NEW x \in Dirs
        PROVE worker'[x] # "sendingNil" /\ (worker'[x] = "finished" => x \in DOMAIN table)
    BY <1>0, <1>1, <1>5, <1>6, <1>16, <2>5 DEF ScanMisses
  <2> QED
    BY <1>0, <1>1, <1>5, <2>1, <2>2, <2>3, <2>4, <2>5 DEF ScanMisses
<1>20. CommittedInv'
  BY <1>1, <1>5, NothingCommitted
<1> QED
  BY <1>11, <1>12, <1>13, <1>14, <1>15, <1>17, <1>18, <1>19, <1>20 DEF SqliteScanInv

LEMMA LeaveKeeps ==
  ASSUME SqliteScanInv, NEW d \in Dirs, SqliteScan!Finalize(d) \/ SqliteScan!FinalizeFails(d)
  PROVE  SqliteScanInv'
<1>0. /\ ScanTypes /\ Transaction /\ Owes /\ Loops /\ ScanRows /\ ScanTotals /\ ScanFlags /\ ScanMisses
  BY DEF SqliteScanInv
<1> DEFINE n == IF Children(d) \cap DOMAIN table = {} THEN total[d] + EmptyDirSize ELSE total[d]
<1>1. /\ worker[d] = "draining" /\ owed[d] = {}
      /\ total' = [total EXCEPT ![d] = n]
      /\ worker' = [worker EXCEPT ![d] = IF d = Root THEN "finished" ELSE "sending"]
      /\ main' = IF d = Root THEN "waiting" ELSE main
      /\ waitValue' = waitValue - 1 /\ waitLocked' = (waitLocked /\ waitValue' # 0)
      /\ \/ table' = SqliteScan!Put(table, d, n, flag[d]) /\ failed' = failed
         \/ table' = table /\ failed' = TRUE
      /\ UNCHANGED <<calls, asked, given, bulk, torn, committed, todo, looked, owed, flag, cancelled, partial>>
  BY SameSqliteScan DEF SqliteScan!Finalize, SqliteScan!FinalizeFails, SqliteScan!Leave, SqliteScan!restVars,
     SqliteScan!WaitDone, SqliteScan!Resolved
<1>2. waitValue' \in Int /\ waitLocked' \in BOOLEAN
  <2>1. waitValue \in Int /\ waitLocked \in BOOLEAN
    BY <1>0 DEF ScanTypes
  <2>2. waitValue' \in Int
    BY <1>1, <2>1
  <2>3. waitLocked' \in BOOLEAN
    BY <1>1
  <2> QED
    BY <2>2, <2>3
<1>3. /\ main = "scanning" /\ InScan /\ InScan' /\ main' \in {"scanning", "waiting"}
      /\ d # Root => d \in owed[Parent[d]]
  BY <1>1, ActiveScans DEF Active, InScan
<1>4. /\ worker \in [Dirs -> Stages] /\ (\A x \in Dirs \ {Root} : Parent[x] \in Dirs)
      /\ \A x \in Dirs : owed[x] \subseteq Dirs
      /\ total \in [Dirs -> Nat]
  BY <1>0, ListingFacts DEF ScanTypes, Entries
<1>5. /\ worker' \in [Dirs -> Stages] /\ worker'[d] = (IF d = Root THEN "finished" ELSE "sending")
      /\ \A x \in Dirs \ {d} : worker'[x] = worker[x]
  BY <1>1, <1>4 DEF Stages
<1>6. todo[d] = {} /\ looked[d].file = Root /\ d \in DOMAIN table
  BY <1>0, <1>1, <1>3 DEF Loops, ScanRows
<1>7. n \in Nat
  <2>1. total[d] \in Nat /\ EmptyDirSize \in Nat
    BY <1>4 DEF EmptyDirSize
  <2> QED
    BY <2>1
<1>8. n = (IF Children(d) \cap DOMAIN table = {} THEN total[d] + EmptyDirSize ELSE total[d])
  OBVIOUS
<1> HIDE DEF n
<1>9. /\ total' \in [Dirs -> Nat] /\ total'[d] = n
      /\ \A x \in Dirs \ {d} : total'[x] = total[x]
  BY <1>1, <1>4, <1>7
<1>10. /\ DOMAIN table' = DOMAIN table
       /\ \A x \in DOMAIN table \ {d} : table'[x] = table[x]
       /\ table'[d] = table[d] \/ table'[d].size = n
       /\ ~failed' => table'[d].size = n /\ table'[d].flag = flag[d]
  <2>1. PICK new : new = table'
    OBVIOUS
  <2>2. CASE new = SqliteScan!Put(table, d, n, flag[d])
    <3>1. /\ DOMAIN new = DOMAIN table \cup {d} /\ new[d].size = n /\ new[d].flag = flag[d]
          /\ \A x \in DOMAIN table \ {d} : new[x] = table[x]
      BY <2>2 DEF SqliteScan!Put
    <3> QED
      BY <1>6, <2>1, <3>1
  <2>3. CASE new = table /\ failed' = TRUE
    BY <2>1, <2>3
  <2> QED
    BY <1>1, <2>1, <2>2, <2>3
<1>11. failed' \in BOOLEAN /\ (failed => failed')
  BY <1>0, <1>1 DEF ScanTypes
<1>12. \A x \in DOMAIN table' : table'[x].size \in Nat
  <2> TAKE x \in DOMAIN table'
  <2>1. table[x].size \in Nat /\ x \in DOMAIN table
    BY <1>0, <1>10 DEF ScanTypes
  <2> QED
    BY <1>7, <1>10, <2>1
<1>13. ScanTypes'
  BY <1>0, <1>1, <1>2, <1>3, <1>5, <1>9, <1>10, <1>11, <1>12 DEF ScanTypes
<1>14. d = Root => \A x \in Dirs \ {Root} : ~Active(x)
  BY <1>1, RootIsLast
<1>15. Transaction'
  <2>1. CASE d = Root
    BY <1>0, <1>1, <1>3, <1>5, <1>14, <2>1 DEF Transaction, Active
  <2>2. CASE d # Root
    BY <1>0, <1>1, <1>3, <1>5, <2>2, TreeAssumption DEF Transaction, Active
  <2> QED
    BY <2>1, <2>2
<1>16. Owes'
  <2> SUFFICES ASSUME NEW x \in Dirs
               PROVE  /\ \A c \in owed[x] : Parent[c] = x /\ Active(c)'
                      /\ x # Root /\ Active(x)' => x \in owed[Parent[x]]
                      /\ owed[x] # {} => worker'[x] \in {"scanning", "draining"}
                      /\ x # Root /\ worker'[x] # "idle" => worker'[Parent[x]] \notin Unopened
    BY <1>1 DEF Owes
  <2>1. \A c \in owed[x] : Parent[c] = x /\ Active(c)'
    <3> TAKE c \in owed[x]
    <3>1. Parent[c] = x /\ Active(c) /\ c \in Dirs \ {Root}
      BY <1>0 DEF Owes, ScanTypes
    <3> QED
      BY <1>5, <3>1 DEF Active
  <2>2. x # Root /\ Active(x)' => x \in owed[Parent[x]]
    BY <1>0, <1>1, <1>5 DEF Owes, Active
  <2>3. owed[x] # {} => worker'[x] \in {"scanning", "draining"}
    BY <1>0, <1>1, <1>5 DEF Owes
  <2>4. ASSUME x # Root, worker'[x] # "idle" PROVE worker'[Parent[x]] \notin Unopened
    <3>1. worker[Parent[x]] \notin Unopened /\ Parent[x] \in Dirs
      BY <1>0, <1>1, <1>4, <1>5, <2>4 DEF Owes
    <3> QED
      BY <1>5, <3>1 DEF Unopened, Waiting
  <2> QED
    BY <2>1, <2>2, <2>3, <2>4
<1>17. Loops'
  <2>1. \A x \in Dirs : /\ worker[x] = "scanning" => worker'[x] = "scanning"
                        /\ worker[x] = "idle" => worker'[x] = "idle"
    BY <1>1, <1>5
  <2> QED
    BY <1>0, <1>1, <2>1 DEF Loops
<1>18. ScanRows'
  <2>1. \A x \in Dirs \ {d} : worker'[x] = worker[x]
    BY <1>5
  <2>2. worker'[d] \notin Unopened /\ d \in DOMAIN table'
    BY <1>5, <1>6, <1>10 DEF Unopened, Waiting
  <2> QED
    BY <1>0, <1>1, <1>3, <1>10, <2>1, <2>2 DEF ScanRows, IsTree
<1>19. ScanTotals'
  <2>1. \A x \in Dirs : Added(x)' = Added(x)
    BY <1>1, <1>10 DEF Added
  <2>2. \A x \in Dirs : d \notin Added(x)
    BY <1>3, ListingFacts DEF Added, Entries
  <2>3. ASSUME ~failed, NEW x \in Dirs \cap DOMAIN table, x # d PROVE TotalOk(x)'
    <3>1. TotalOk(x)
      BY <1>0, <1>3, <2>3 DEF ScanTotals
    <3>2. table'[x] = table[x] /\ \A e \in Added(x) : table'[e] = table[e]
      BY <1>10, <2>2, <2>3 DEF Added
    <3> QED
      BY <1>1, <1>5, <1>9, <2>1, <2>3, <3>1, <3>2, TotalKept
  <2>4. ASSUME ~failed' PROVE TotalOk(d)'
    <3>1. total[d] = Amount(table, Added(d))
      BY <1>0, <1>1, <1>3, <1>6, <1>11, <2>4 DEF ScanTotals, TotalOk
    <3>2. Added(d) = Children(d) \cap DOMAIN table
      BY <1>1 DEF Added
    <3>3. CASE Added(d) = {}
      <4>1. total[d] = 0
        BY <3>1, <3>3, AmountOfNone
      <4>2. n = total[d] + EmptyDirSize /\ EmptyDirSize \in Nat
        BY <1>8, <3>2, <3>3 DEF EmptyDirSize
      <4>3. n = EmptyDirSize
        BY <4>1, <4>2
      <4> QED
        BY <1>1, <1>5, <1>9, <1>10, <2>1, <2>4, <3>3, <4>3 DEF TotalOk
    <3>4. CASE Added(d) # {}
      <4>1. IsFiniteSet(Added(d))
        BY ListingFacts, FS_Subset DEF Added
      <4>2. \A c \in Added(d) : table[c].size = table'[c].size
        BY <1>10, <2>2 DEF Added
      <4>3. Amount(table, Added(d)) = Amount(table', Added(d))
        <5>1. PICK new : new = table'
          OBVIOUS
        <5>2. PICK S : S = Added(d)
          OBVIOUS
        <5>3. Amount(table, S) = Amount(new, S)
          BY <4>1, <4>2, <5>1, <5>2, AmountSame
        <5> QED
          BY <5>1, <5>2, <5>3
      <4>4. n = total[d]
        BY <1>8, <3>2, <3>4
      <4> QED
        BY <1>1, <1>5, <1>9, <1>10, <2>1, <2>4, <3>1, <3>4, <4>3, <4>4 DEF TotalOk
    <3> QED
      BY <3>3, <3>4
  <2>5. \A x \in Dirs : worker'[x] \in Unopened => worker[x] \in Unopened /\ x # d
    BY <1>5 DEF Unopened, Waiting
  <2> QED
    BY <1>0, <1>1, <1>3, <1>9, <1>10, <1>11, <2>3, <2>4, <2>5 DEF ScanTotals
<1>20. ScanFlags'
  BY <1>0, <1>1, <1>3, <1>5, <1>10, <1>11 DEF ScanFlags
<1>21. ScanMisses'
  <2>1. ASSUME NEW e \in Entries, Reached(e) PROVE Reached(e)'
    BY <1>1, <1>5, <1>10, <2>1 DEF Reached
  <2>2. ASSUME ~failed, ~cancelled, NEW x \in Dirs
        PROVE worker'[x] # "sendingNil" /\ (worker'[x] = "finished" => x \in DOMAIN table)
    BY <1>0, <1>3, <1>5, <1>6, <2>2 DEF ScanMisses
  <2>3. Root \in DOMAIN table \/ worker[Root] \in Waiting => Root \in DOMAIN table' \/ worker'[Root] \in Waiting
    BY <1>5, <1>6, <1>10, TreeAssumption
  <2> QED
    BY <1>0, <1>1, <1>3, <1>10, <1>11, <2>1, <2>2, <2>3 DEF ScanMisses
<1>22. CommittedInv'
  BY <1>1, <1>3, NothingCommitted
<1> QED
  BY <1>13, <1>15, <1>16, <1>17, <1>18, <1>19, <1>20, <1>21, <1>22 DEF SqliteScanInv

LEMMA SqliteScanStep == ASSUME SqliteScanInv, SqliteScan!Next PROVE SqliteScanInv'
<1>1. CASE \/ \E d \in Dirs : SqliteScan!Load(d)
           \/ SqliteScan!Wait \/ SqliteScan!Commit \/ SqliteScan!CommitFails
           \/ SqliteScan!Stop \/ SqliteScan!RemoveDb \/ SqliteScan!Cancel
  BY <1>1, ScanCallSteps
<1>2. CASE \E d \in Dirs : SqliteScan!BeginScan(d)
  BY <1>2, BeginScanKeeps
<1>3. ASSUME NEW d \in Dirs, SqliteScan!Worker(d) PROVE SqliteScanInv'
  <2>1. CASE SqliteScan!Enter(d) \/ SqliteScan!Acquire(d)
    BY <2>1, WaitingMoves
  <2>2. CASE SqliteScan!Refuse(d) \/ SqliteScan!OpenDirFails(d)
    BY <2>2, ReturnNilKeeps
  <2>3. CASE SqliteScan!OpenDir(d)
    BY <2>3, OpenDirKeeps
  <2>4. CASE \/ \E e \in Entries : SqliteScan!SkipEntry(d, e) \/ SqliteScan!LookUp(d, e) \/ SqliteScan!FileFails(d, e)
             \/ SqliteScan!InsertFails(d) \/ SqliteScan!EndLoop(d)
    BY <2>4, LoopSteps
  <2>5. CASE \E e \in Entries : SqliteScan!Spawn(d, e)
    BY <2>5, SpawnKeeps
  <2>6. CASE SqliteScan!Insert(d)
    BY <2>6, InsertKeeps
  <2>7. CASE \E c \in Dirs \ {Root} : SqliteScan!Receive(d, c)
    BY <2>7, ReceiveKeeps
  <2>8. CASE SqliteScan!Finalize(d) \/ SqliteScan!FinalizeFails(d)
    BY <2>8, LeaveKeeps
  <2> QED
    BY <1>3, <2>1, <2>2, <2>3, <2>4, <2>5, <2>6, <2>7, <2>8, SameSqliteScan DEF SqliteScan!Worker
<1> QED
  BY <1>1, <1>2, <1>3 DEF SqliteScan!Next, SqliteScan!AnalyzeDir

LEMMA SqliteScanStutter == ASSUME SqliteScanInv, UNCHANGED SqliteScan!vars PROVE SqliteScanInv'
<1>1. UNCHANGED <<main, calls, asked, given, bulk, torn, committed, table, worker, todo, looked, owed, total,
                  flag, waitValue, waitLocked, cancelled, partial, failed>>
  BY DEF SqliteScan!vars, SqliteScan!callVars, SqliteScan!rowVars, SqliteScan!dirVars, SqliteScan!waitVars
<1>2. /\ ScanTypes /\ Transaction /\ Owes /\ Loops /\ ScanRows /\ ScanTotals /\ ScanFlags /\ ScanMisses
      /\ CommittedInv
  BY DEF SqliteScanInv
<1>3. ScanTypes' /\ Transaction' /\ Owes' /\ Loops'
  BY <1>1, <1>2 DEF ScanTypes, Transaction, InScan, Active, Owes, Loops
<1>4. InScan' = InScan
  BY <1>1 DEF InScan
<1>5. ScanRows' /\ ScanFlags'
  BY <1>1, <1>2, <1>4 DEF ScanRows, ScanFlags
<1>6. ScanTotals'
  BY <1>1, <1>2, <1>4 DEF ScanTotals, TotalOk, Added
<1>7. ScanMisses'
  BY <1>1, <1>2, <1>4 DEF ScanMisses, Reached
<1>8. CommittedInv'
  BY <1>1, <1>2 DEF CommittedInv
<1> QED
  BY <1>3, <1>5, <1>6, <1>7, <1>8 DEF SqliteScanInv

LEMMA SqliteScanSafe ==
  ASSUME SqliteScanInv
  PROVE  /\ SqliteScan!TypeOK /\ SqliteScan!RowsAreATree /\ SqliteScan!RowsAreSums
         /\ SqliteScan!ErrorsReachTheRoot /\ SqliteScan!LoadsWholeScans
<1>0. ScanTypes /\ CommittedInv /\ SqliteScan!SubDirs = Dirs \ {Root} /\ SqliteScan!Entries = Entries
  BY SameSqliteScan DEF SqliteScanInv
<1>1. SqliteScan!TypeOK
  BY <1>0 DEF ScanTypes, SqliteScan!TypeOK, SqliteScan!WaitTypeOK, Stages, Flags
<1>2. SqliteScan!RowsAreATree
  BY <1>0 DEF CommittedInv, SqliteScan!RowsAreATree, IsTree
<1>3. SqliteScan!RowsAreSums
  <2> SUFFICES ASSUME ~failed, ~torn, NEW d \in Dirs \cap DOMAIN committed
               PROVE  committed[d].size =
                        IF SqliteScan!Children(d) \cap DOMAIN committed = {} THEN SqliteScan!EmptyDirSize
                        ELSE SqliteScan!SumOver([e \in SqliteScan!Children(d) \cap DOMAIN committed |-> committed[e].size],
                                            SqliteScan!Children(d) \cap DOMAIN committed)
    BY DEF SqliteScan!RowsAreSums
  <2>1. RowsSumUp(committed)
    BY <1>0 DEF CommittedInv
  <2> QED
    BY <2>1, SameSqliteScan DEF RowsSumUp, Amount
<1>4. SqliteScan!ErrorsReachTheRoot
  BY <1>0 DEF CommittedInv, FlagsRise, Broken, SqliteScan!ErrorsReachTheRoot
<1>5. SqliteScan!LoadsWholeScans
  BY <1>0 DEF CommittedInv, MissesNothing, SqliteScan!LoadsWholeScans
<1> QED
  BY <1>1, <1>2, <1>3, <1>4, <1>5

-----------------------------------------------------------------------------
(* The theorems *)

DatabasesInv ==
  /\ which = "sqlite scan" => SqliteScanInv
  /\ which = "sqlite tree" => DatabaseTreeInv
  /\ which = "stored scan" => StoredInv
  /\ which = "stored tree" => BrowsingInv

\* A behaviour is that of one component to its end.
LEMMA OneComponent ==
  ASSUME DatabasesNext
  PROVE  /\ which' = which
         /\ \/ which = "sqlite scan" /\ SqliteScan!Next
            \/ which = "sqlite tree" /\ SqliteTree!Next
            \/ which = "stored scan" /\ StoredScan!Next
            \/ which = "stored tree" /\ StoredTree!Next
<1>1. ASSUME OfSqliteScan,
             \/ SqliteScan!Wait \/ SqliteScan!Commit \/ SqliteScan!CommitFails
             \/ SqliteScan!Stop \/ SqliteScan!RemoveDb \/ SqliteScan!Cancel
             \/ \E d \in Dirs :
                  \/ SqliteScan!Load(d) \/ SqliteScan!BeginScan(d)
                  \/ SqliteScan!Enter(d) \/ SqliteScan!Acquire(d) \/ SqliteScan!Refuse(d)
                  \/ SqliteScan!OpenDir(d) \/ SqliteScan!OpenDirFails(d)
                  \/ SqliteScan!Insert(d) \/ SqliteScan!InsertFails(d) \/ SqliteScan!EndLoop(d)
                  \/ SqliteScan!Finalize(d) \/ SqliteScan!FinalizeFails(d)
                  \/ \E e \in Entries : \/ SqliteScan!SkipEntry(d, e) \/ SqliteScan!Spawn(d, e)
                                        \/ SqliteScan!LookUp(d, e) \/ SqliteScan!FileFails(d, e)
                  \/ \E c \in Dirs \ {Root} : SqliteScan!Receive(d, c)
      PROVE  which' = which /\ which = "sqlite scan" /\ SqliteScan!Next
  <2>1. which' = which /\ which = "sqlite scan"
    BY <1>1 DEF OfSqliteScan
  <2>2. SqliteScan!Next
    BY <1>1, SameSqliteScan DEF SqliteScan!Next, SqliteScan!AnalyzeDir, SqliteScan!Worker
  <2> QED
    BY <2>1, <2>2
<1>2. ASSUME OfSqliteTree,
             \/ \E i \in 1..Len(items) : SqliteTree!Browse(i)
             \/ \E w \in Workers :
                  \/ \E i \in 1..Len(items) : SqliteTree!Request(w, i)
                  \/ SqliteTree!Begin(w) \/ SqliteTree!RemoveFromDisk(w) \/ SqliteTree!Truncate(w)
                  \/ SqliteTree!RemoveFails(w) \/ SqliteTree!SubtractLoaded(w)
                  \/ SqliteTree!Write(w) \/ SqliteTree!WriteFails(w) \/ SqliteTree!Finish(w)
      PROVE  which' = which /\ which = "sqlite tree" /\ SqliteTree!Next
  <2>1. which' = which /\ which = "sqlite tree"
    BY <1>2 DEF OfSqliteTree
  <2>2. SqliteTree!Next
    BY <1>2 DEF SqliteTree!Next, SqliteTree!Worker
  <2> QED
    BY <2>1, <2>2
<1>3. ASSUME OfStoredScan,
             \/ StoredScan!Start \/ StoredScan!WaitRead \/ StoredScan!WaitLock \/ StoredScan!Close
             \/ StoredScan!Stop \/ StoredScan!RemoveDb \/ StoredScan!Cancel \/ StoredScan!BeginUpdate
             \/ \E d \in Dirs :
                  \/ StoredScan!Acquire(d) \/ StoredScan!ReadDir(d) \/ StoredScan!Store(d)
                  \/ StoredScan!StoreFails(d) \/ StoredScan!StorePanics(d) \/ StoredScan!Leave(d)
                  \/ StoredScan!Expand(d) \/ StoredScan!Commit(d) \/ StoredScan!CommitFails(d)
      PROVE  which' = which /\ which = "stored scan" /\ StoredScan!Next
  <2>1. which' = which /\ which = "stored scan"
    BY <1>3 DEF OfStoredScan
  <2>2. StoredScan!Next
    BY <1>3 DEF StoredScan!Next, StoredScan!AnalyzeDir, StoredScan!UpdateStats, StoredScan!Worker
  <2> QED
    BY <2>1, <2>2
<1>4. ASSUME OfStoredTree,
             \/ \E d \in Dirs : StoredTree!Browse(d)
             \/ \E e \in Entries : StoredTree!Remove(e) \/ StoredTree!RemoveFails(e) \/ StoredTree!Empty(e)
      PROVE  which' = which /\ which = "stored tree" /\ StoredTree!Next
  <2>1. which' = which /\ which = "stored tree"
    BY <1>4 DEF OfStoredTree
  <2>2. StoredTree!Entries = Entries
    BY DEF StoredTree!Entries, Entries
  <2>3. StoredTree!Next
    BY <1>4, <2>2 DEF StoredTree!Next
  <2> QED
    BY <2>1, <2>3
<1> QED
  BY <1>1, <1>2, <1>3, <1>4 DEF DatabasesNext

LEMMA DatabasesStart == DatabasesInit => DatabasesInv
BY SqliteScanStarts, DatabaseTreeStarts, StoredStarts, BrowsingStarts DEF DatabasesInit, DatabasesInv

LEMMA DatabasesStep == ASSUME DatabasesInv, [DatabasesNext]_allVars PROVE DatabasesInv'
<1>1. CASE DatabasesNext
  <2>1. ASSUME which = "sqlite scan", SqliteScan!Next, which' = which PROVE DatabasesInv'
    BY <2>1, SqliteScanStep DEF DatabasesInv
  <2>2. ASSUME which = "sqlite tree", SqliteTree!Next, which' = which PROVE DatabasesInv'
    BY <2>2, DatabaseTreeStep DEF DatabasesInv
  <2>3. ASSUME which = "stored scan", StoredScan!Next, which' = which PROVE DatabasesInv'
    BY <2>3, StoredStep DEF DatabasesInv
  <2>4. ASSUME which = "stored tree", StoredTree!Next, which' = which PROVE DatabasesInv'
    BY <2>4, BrowsingStep DEF DatabasesInv
  <2> QED
    BY <1>1, <2>1, <2>2, <2>3, <2>4, OneComponent
<1>2. CASE UNCHANGED allVars
  <2>1. /\ UNCHANGED which
        /\ UNCHANGED <<main, calls, asked, given, bulk, torn, committed, table, worker, todo, looked, owed, total,
                       flag, cancelled, partial, failed, waitValue, waitLocked>>
        /\ UNCHANGED <<inBackground, disk, rows, items, current, shown, requests, job, emptied, stale>>
        /\ UNCHANGED <<scans, listing, records, loaded, expanded, updated, opens, db, ops, overslept,
                       whole, ghosts>>
    BY <1>2 DEF allVars, scanningVars, browsingVars, sqliteScanVars, sqliteTreeVars, storedScanVars
  <2>2. UNCHANGED SqliteScan!vars
    BY <2>1 DEF SqliteScan!vars, SqliteScan!callVars, SqliteScan!rowVars, SqliteScan!dirVars,
       SqliteScan!waitVars
  <2>3. UNCHANGED SqliteTree!vars
    BY <2>1 DEF SqliteTree!vars
  <2>4. UNCHANGED StoredScan!vars
    BY <2>1 DEF StoredScan!vars, StoredScan!scanVars, StoredScan!updateVars, StoredScan!storeVars,
       StoredScan!waitVars
  <2>5. UNCHANGED StoredTree!vars
    BY <2>1 DEF StoredTree!vars
  <2> QED
    BY <2>1, <2>2, <2>3, <2>4, <2>5, SqliteScanStutter, DatabaseTreeStutter, StoredStutter,
       BrowsingStutter DEF DatabasesInv
<1> QED
  BY <1>1, <1>2

LEMMA DatabasesAlways == DatabasesSpec => []DatabasesInv
<1>1. DatabasesInit => DatabasesInv
  BY DatabasesStart
<1>2. DatabasesInv /\ [DatabasesNext]_allVars => DatabasesInv'
  BY DatabasesStep
<1> QED
  BY <1>1, <1>2, PTL DEF DatabasesSpec

\* Both databases hold one whole tree, of one scan: every row has the row of its
\* directory, and no record of an earlier scan is left, however many directories
\* are scanned at once and whatever statement fails (Storage.StoreDir,
\* SqliteStorage.InsertItem).  A process may end at any moment; excepted is an
\* SQLite file in which one that ended in a scan left part of its transaction,
\* or rows it had inserted without one, until it is scanned again or removed.
THEOREM TreesStayWhole == DatabasesSpec => []TreesAreWhole
<1>1. DatabasesInv => TreesAreWhole
  BY SqliteScanSafe, DatabaseTreeSafe, StoredSafe, BrowsingSafe DEF DatabasesInv, TreesAreWhole
<1> QED
  BY <1>1, DatabasesAlways, PTL

\* The totals a directory has in a database are the sum of what is stored below
\* it, or those of an empty directory when nothing is, and it carries the error
\* flag of what is: after a scan, complete, cancelled or loaded, after
\* UpdateStats, and after every removal, as long as no statement failed, no
\* removal started from an item older than its row, and the rows are not what a
\* process that ended in a scan left in the SQLite file.
THEOREM TotalsStaySums == DatabasesSpec => []TotalsAreSums
<1>1. DatabasesInv => TotalsAreSums
  BY SqliteScanSafe, DatabaseTreeSafe, StoredSafe DEF DatabasesInv, BrowsingInv, TotalsAreSums
<1> QED
  BY <1>1, DatabasesAlways, PTL

\* What exists on disk is listed by the database it was scanned into, whichever
\* half of a removal failed (ItemFromDatabase.RemoveFile, ParentDir.RemoveFile).
THEOREM NothingGetsHidden == DatabasesSpec => []NothingHidden
<1>1. DatabasesInv => NothingHidden
  BY DatabaseTreeSafe, BrowsingSafe DEF DatabasesInv, NothingHidden
<1> QED
  BY <1>1, DatabasesAlways, PTL

\* After a removal behind the modal the items on the screen and the rows in the
\* database agree, whatever items other visits have loaded for the same rows, as
\* long as no removal failed.
THEOREM ScreensStayTrue == DatabasesSpec => []ScreensAgree
<1>1. DatabasesInv => ScreensAgree
  BY DatabaseTreeSafe DEF DatabasesInv, BrowsingInv, ScreensAgree
<1> QED
  BY <1>1, DatabasesAlways, PTL

\* What SqliteAnalyzer returns from the database, scanned or loaded, lacks nothing
\* of a directory that could be read, unless the user had stopped the scan or a
\* statement failed, or a process that ended in a scan left rows in the file: of
\* an open transaction by writing pages early or half-way through the commit, or
\* by inserting without one.
THEOREM WholeScansAreLoaded == DatabasesSpec => []LoadsWholeScans
<1>1. DatabasesInv => LoadsWholeScans
  BY SqliteScanSafe DEF DatabasesInv, LoadsWholeScans
<1> QED
  BY <1>1, DatabasesAlways, PTL

\* Storage.Open and the functions it returns balance: the badger store is open
\* exactly while someone holds a reference, through AnalyzeDir, the recursion
\* of UpdateStats and the periodic reopening.
THEOREM ReferencesBalance == DatabasesSpec => []ReferencesAreBalanced
<1>1. DatabasesInv => ReferencesAreBalanced
  BY StoredSafe DEF DatabasesInv, ReferencesAreBalanced
<1> QED
  BY <1>1, DatabasesAlways, PTL
=============================================================================
