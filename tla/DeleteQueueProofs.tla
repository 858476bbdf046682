-------------------------- MODULE DeleteQueueProofs --------------------------
(***************************************************************************)
(* Deletions from the terminal interface, for any tree, any number of        *)
(* workers and requests.  In both modes: nothing on disk disappears from the *)
(* tree and nothing leaves the disk that was not queued by a dialog.  Behind  *)
(* the modal, until a deletion fails: sizes are sums, what is deleted is          *)
(* unlinked, only agreed items are deleted and nobody panics.                 *)
(*                                                                           *)
(* The argument for the modal: one goroutine works at a time and the user     *)
(* waits, so the directory on screen is still the one the items were chosen  *)
(* in; every queued item is listed there, once; unlinking one leaves the     *)
(* others and the way up to the root in the tree; and the rows are those of   *)
(* the directory again when the user gets the keys back.                     *)
(***************************************************************************)
EXTENDS DeleteQueue, TreeFacts

Stages == {"idle", "removing", "unlinking", "reading", "subtracting"}

Jobs == [stage : Stages, item : Items, action : Actions \cup {"none"}, from : Dirs,
         todo : SUBSET Items, now : Items, amount : Int, at : Dirs]

Dialogs == [action : Actions, marked : BOOLEAN, names : Items]

TreeType == disk \subseteq Entries /\ Listings(files) /\ size \in [Dirs -> Int]

\* A worker is at rest, or has its item or the entries of its item still to
\* remove; the one it is at is among them.
JobType ==
  /\ job \in [Workers -> Jobs]
  /\ \A w \in Workers :
       /\ job[w].stage = "idle" => job[w] = NoJob
       /\ job[w].stage \in {"unlinking", "reading", "subtracting"} => job[w].now \in job[w].todo
  /\ active = Cardinality(Working)

RequestType ==
  /\ inBackground \in BOOLEAN
  /\ pending \subseteq [item : Items, action : Actions, nth : Nat]
  /\ \A r \in pending : r.action = "empty" => r.item \in Dirs
  /\ requested \in [Items -> Nat]

ScreenType ==
  /\ current \in Dirs
  /\ rows \in Seq(Entries) /\ Len(rows) <= Cardinality(Entries)
  /\ cursor \in 0..Cardinality(Entries) \cup {1}
  /\ marked \subseteq 1..Cardinality(Entries)
  /\ dialog \in {NoDialog} \cup Dialogs
  /\ agreed \subseteq Entries

OnDiskIsListed == \A e \in disk : e \in files[Parent[e]]
UnlinkedIsGone == \A w \in Workers : job[w].stage = "unlinking" => job[w].now \notin disk

\* Whatever is queued or in work was queued by a dialog, and a job stays below its item.
WorkIsRequested ==
  /\ \A r \in pending : requested[r.item] > 0
  /\ \A w \in Working : /\ requested[job[w].item] > 0
                        /\ \A e \in job[w].todo : Below(e) \subseteq Below(job[w].item)

\* What holds in both modes, whatever fails.
QueueInv ==
  /\ TreeType /\ JobType /\ RequestType /\ ScreenType
  /\ OnDiskIsListed /\ UnlinkedIsGone
  /\ WorkIsRequested /\ OnlyRequestedIsGone

-----------------------------------------------------------------------------
(* Behind the modal, until a deletion fails *)

\* What can be reached by descending from the top.
Reached[e \in Entries] ==
  e \in files[Parent[e]] /\ (Parent[e] = Root \/ Reached[Parent[e]])

OneJob == \A v, w \in Working : v = w

\* Whenever the user has the keys, the rows are those of the directory on
\* screen and the marks are on agreed items.
ScreenIsCurrent ==
  /\ dialog # NoDialog => Quiet
  /\ Quiet => /\ rows = RowsOf(files[current])
              /\ marked \subseteq DOMAIN rows
              /\ \A r \in marked : rows[r] \in agreed
  /\ dialog # NoDialog /\ ~dialog.marked => cursor \in DOMAIN rows /\ rows[cursor] \in agreed

\* The directory on screen is in the tree; what is queued is listed in it, once.
QueueIsListed ==
  /\ current # Root => Reached[current]
  /\ \A r \in pending : r.item \in files[current]
  /\ \A r, s \in pending : r.item = s.item => r = s

\* So is what the worker has still to do, and the way it goes up.
JobIsListed ==
  \A w \in Working :
    /\ job[w].from = current \/ job[w].from \in files[current]
    /\ \A r \in pending : r.item \notin job[w].todo
    /\ job[w].stage \in {"removing", "unlinking"} => job[w].todo \subseteq files[job[w].from]
    /\ job[w].stage \in {"reading", "subtracting"} =>
         /\ job[w].todo \ {job[w].now} \subseteq files[job[w].from]
         /\ job[w].now \in Children(job[w].from) \ files[job[w].from]
    /\ job[w].stage = "subtracting" /\ job[w].at # Root => Reached[job[w].at]

\* By how much the size of d is off while w corrects the totals.
Off(w, d) ==
  CASE job[w].stage = "reading" /\ d = job[w].from -> SizeOf(job[w].now)
    [] job[w].stage = "subtracting" /\ d = job[w].at -> job[w].amount
    [] OTHER -> 0

SizesAreOff ==
  /\ Working = {} => \A d \in Dirs : size[d] = Total(files, size, d)
  /\ \A w \in Working : \A d \in Dirs : size[d] = Total(files, size, d) + Off(w, d)

\* What is gone and not below something else that is gone is not listed, once
\* it is unlinked.
GoneIsUnlinked ==
  \A e \in Entries \ disk :
    (Parent[e] = Root \/ Parent[e] \in disk) /\ e \in files[Parent[e]] =>
      \E w \in Workers : job[w].stage = "unlinking" /\ job[w].now = e

ModalInv ==
  /\ OneJob /\ ScreenIsCurrent /\ QueueIsListed /\ JobIsListed
  /\ SizesAreOff /\ GoneIsUnlinked /\ ~panicked

\* The inductive invariant.
DeleteInv == QueueInv /\ (~inBackground /\ ~failed => ModalInv)

-----------------------------------------------------------------------------
(* The rows of a directory *)

\* Every entry of a directory has one row and every row one entry.
LEMMA RowsFacts ==
  ASSUME NEW d \in Dirs, NEW fs, fs \subseteq Children(d)
  PROVE  /\ RowsOf(fs) \in Seq(fs)
         /\ Len(RowsOf(fs)) = Cardinality(fs) /\ Cardinality(fs) <= Cardinality(Entries)
         /\ \A i, j \in DOMAIN RowsOf(fs) : RowsOf(fs)[i] = RowsOf(fs)[j] => i = j
<1> DEFINE n == Cardinality(fs)
           Above(e) == Cardinality(Before(fs, e))
           count == [e \in fs |-> Above(e)]
<1>1. IsFiniteSet(fs) /\ n \in Nat /\ n <= Cardinality(Entries) /\ Cardinality(Entries) \in Nat
  <2>1. fs \in SUBSET Entries
    BY ListingFacts
  <2> QED
    BY <2>1, ListingFacts, FS_Subset, FS_CardinalityType
<1>2. \A e \in fs : /\ Before(fs, e) \subseteq fs \ {e} /\ IsFiniteSet(Before(fs, e))
                    /\ Above(e) \in 0..(n - 1)
  <2> TAKE e \in fs
  <2>1. Before(fs, e) \in SUBSET fs /\ e \notin Before(fs, e)
    BY ListingFacts, DeleteAssumption DEF Before
  <2>2. /\ IsFiniteSet(Before(fs, e)) /\ Above(e) <= n /\ Above(e) # n
        /\ Above(e) \in Nat
    BY <1>1, <2>1, FS_Subset, FS_CardinalityType
  <2> HIDE DEF Above, n
  <2> QED
    BY <1>1, <2>1, <2>2
<1>3. ASSUME NEW x \in fs, NEW y \in fs, Rank[x] < Rank[y]
      PROVE  Above(x) # Above(y)
  <2>1. Before(fs, x) \in SUBSET Before(fs, y) /\ x \in Before(fs, y)
    BY <1>3, ListingFacts, DeleteAssumption DEF Before
  <2>2. Before(fs, x) # Before(fs, y)
    BY <1>2, <2>1
  <2> QED
    BY <1>2, <2>1, <2>2, FS_Subset
<1>4. count \in Injection(fs, 0..(n - 1))
  <2>1. ASSUME NEW x \in fs, NEW y \in fs, x # y PROVE Above(x) # Above(y)
    <3>1. Rank[x] \in Nat /\ Rank[y] \in Nat /\ Rank[x] # Rank[y]
      BY <2>1, NamesAssumption, DeleteAssumption, ListingFacts
    <3>2. Rank[x] < Rank[y] \/ Rank[y] < Rank[x]
      BY <3>1
    <3> HIDE DEF Above
    <3> QED
      BY <1>3, <3>2
  <2>2. count \in [fs -> 0..(n - 1)]
    BY <1>2
  <2>3. \A x, y \in fs : count[x] = count[y] => x = y
    BY <2>1
  <2> HIDE DEF count
  <2> QED
    BY <2>2, <2>3 DEF Injection, IsInjective
<1>5. \A i \in 0..(n - 1) : \E e \in fs : Above(e) = i
  <2>1. IsFiniteSet(0..(n - 1)) /\ Cardinality(0..(n - 1)) = n
    <3>1. 0 \in Int /\ n - 1 \in Int /\ n \in Nat
      BY <1>1
    <3> HIDE DEF n
    <3>2. IsFiniteSet(0..(n - 1)) /\ Cardinality(0..(n - 1)) = IF 0 > n - 1 THEN 0 ELSE (n - 1) - 0 + 1
      BY <3>1, FS_Interval
    <3> QED
      BY <3>1, <3>2
  <2>2. count \in Surjection(fs, 0..(n - 1))
    <3> HIDE DEF count
    <3> QED
      BY <1>4, <2>1, FS_Injection
  <2> QED
    BY <2>2 DEF Surjection
<1> DEFINE r == RowsOf(fs)
<1>6. r = [i \in 1..n |-> CHOOSE e \in fs : Above(e) = i - 1]
  BY DEF RowsOf
<1> HIDE DEF r, n, Above
<1>7. \A i \in 1..n : r[i] \in fs /\ Above(r[i]) = i - 1
  BY <1>1, <1>5, <1>6
<1>8. r \in Seq(fs) /\ Len(r) = n /\ DOMAIN r = 1..n
  BY <1>1, <1>6, <1>7
<1>9. \A i, j \in DOMAIN r : r[i] = r[j] => i = j
  BY <1>1, <1>7, <1>8
<1> QED
  BY <1>1, <1>8, <1>9 DEF r, n

\* What can be reached in the tree, and in the tree after a step.
LEMMA ReachedEquation ==
  /\ IsFound(files, Reached) /\ IsFound(files', Reached')
  /\ \A e \in Entries :
       Reached[e] = (e \in files[Parent[e]] /\ (Parent[e] = Root \/ Reached[Parent[e]]))
  /\ \A e \in Entries :
       Reached'[e] = (e \in files'[Parent[e]] /\ (Parent[e] = Root \/ Reached'[Parent[e]]))
<1>1. Reached = CHOOSE f : IsFound(files, f)
  BY DEF Reached, IsFound
<1>2. Reached' = CHOOSE f : IsFound(files', f)
  BY DEF Reached, IsFound
<1>3. IsFound(files, Reached) /\ IsFound(files', Reached')
  BY <1>1, <1>2, FoundExists
<1>4. \A e \in Entries :
        Reached[e] = (e \in files[Parent[e]] /\ (Parent[e] = Root \/ Reached[Parent[e]]))
  BY <1>3 DEF IsFound
<1>5. \A e \in Entries :
        Reached'[e] = (e \in files'[Parent[e]] /\ (Parent[e] = Root \/ Reached'[Parent[e]]))
  BY <1>3 DEF IsFound
<1> QED
  BY <1>3, <1>4, <1>5

-----------------------------------------------------------------------------
(* What holds in both modes *)

\* What a row may refer to, and what lies below it.
LEMMA ItemFacts ==
  /\ Root \in Items /\ Entries \subseteq Items /\ Dirs \subseteq Items
  /\ Items \subseteq Entries \cup {Root}
  /\ \A e \in Entries : Below(e) = SubtreeOf[e]
  /\ \A e \in Items : Below(e) \subseteq Entries /\ (e \in Entries => e \in Below(e))
<1>1. /\ Root \in Items /\ Entries \subseteq Items /\ Dirs \subseteq Items
      /\ Items \subseteq Entries \cup {Root} /\ Root \notin Entries
  BY TreeAssumption DEF Items, Entries
<1>2. \A e \in Entries : SubtreeOf[e] \subseteq Entries /\ e \in SubtreeOf[e]
  BY SubtreeFacts
<1> QED
  BY <1>1, <1>2 DEF Below

\* A worker is at work when it has got past "idle".
LEMMA WorkingFacts ==
  ASSUME JobType
  PROVE  /\ \A w \in Workers : w \in Working <=> job[w].stage # "idle"
         /\ Working \subseteq Workers /\ IsFiniteSet(Working)
<1>1. \A w \in Workers : w \in Working <=> job[w].stage # "idle"
  BY DEF JobType, Working, NoJob
<1>2. Working \in SUBSET Workers
  BY DEF Working
<1> QED
  BY <1>1, <1>2, DeleteAssumption, FS_Subset

LEMMA QueueStarts ==
  ASSUME Init
  PROVE  QueueInv
<1>1. TreeType /\ OnDiskIsListed
  BY ListingFacts, ScannedSizeEquation DEF Init, TreeType, Listings, OnDiskIsListed
<1>2. NoJob \in Jobs /\ NoJob.stage = "idle"
  BY TreeAssumption, ItemFacts DEF NoJob, Jobs, Stages, Actions
<1>3. Working = {}
  BY DEF Init, Working
<1>4. JobType
  BY <1>2, <1>3, FS_EmptySet DEF Init, JobType
<1>5. RequestType
  BY DeleteAssumption DEF Init, RequestType
<1>6. ScreenType
  <2>1. /\ RowsOf(Children(Root)) \in Seq(Entries)
        /\ Len(RowsOf(Children(Root))) <= Cardinality(Entries)
    <3>1. Seq(Children(Root)) \subseteq Seq(Entries)
      BY ListingFacts
    <3> QED
      BY <3>1, TreeAssumption, RowsFacts
  <2> QED
    BY <2>1, TreeAssumption DEF Init, ScreenType
<1>7. UnlinkedIsGone /\ WorkIsRequested /\ OnlyRequestedIsGone
  BY <1>2, <1>3 DEF Init, UnlinkedIsGone, WorkIsRequested, OnlyRequestedIsGone
<1> QED
  BY <1>1, <1>4, <1>5, <1>6, <1>7 DEF QueueInv

\* What the user does without confirming concerns only the screen.
LEMMA WorldKeeps ==
  ASSUME QueueInv, UNCHANGED <<worldVars, inBackground>>, ScreenType'
  PROVE  QueueInv'
<1>1. Working' = Working
  BY DEF Working, worldVars
<1> QED
  BY <1>1 DEF QueueInv, worldVars, TreeType, Listings, JobType, RequestType, OnDiskIsListed, UnlinkedIsGone,
              WorkIsRequested, OnlyRequestedIsGone

\* The rows after a refresh are a directory's.
LEMMA RowsType ==
  ASSUME TreeType, NEW d \in Dirs
  PROVE  /\ RowsOf(files[d]) \in Seq(Entries)
         /\ Len(RowsOf(files[d])) \in 0..Cardinality(Entries)
         /\ DOMAIN RowsOf(files[d]) \subseteq 1..Cardinality(Entries)
         /\ Cardinality(Entries) \in Nat
<1>1. files[d] \subseteq Children(d) /\ files[d] \subseteq Entries
  BY DEF TreeType, Listings
<1>2. Seq(files[d]) \subseteq Seq(Entries)
  BY <1>1
<1>3. Cardinality(Entries) \in Nat
  BY ListingFacts, FS_CardinalityType
<1>4. RowsOf(files[d]) \in Seq(Entries) /\ Len(RowsOf(files[d])) <= Cardinality(Entries)
  BY <1>1, <1>2, RowsFacts
<1> HIDE DEF RowsOf
<1> QED
  BY <1>3, <1>4

LEMMA BrowseKeeps ==
  ASSUME QueueInv, inBackground' = inBackground,
         (\E d \in Dirs : Navigate(d)) \/ (\E r \in Readable : MoveCursor(r))
           \/ Mark \/ (\E a \in Actions : Ask(a)) \/ Refuse
  PROVE  QueueInv'
<1>0. ScreenType /\ TreeType /\ Cardinality(Entries) \in Nat
  BY RowsType DEF QueueInv, ScreenType
<1>1. ASSUME NEW d \in Dirs, Navigate(d) PROVE ScreenType'
  <2>1. /\ current' = d /\ rows' = RowsOf(files[d]) /\ marked' = {} /\ agreed' = {}
        /\ dialog' = dialog
    BY <1>1 DEF Navigate
  <2>2. /\ rows' \in Seq(Entries) /\ Len(rows') \in 0..Cardinality(Entries)
        /\ DOMAIN rows' \subseteq 1..Cardinality(Entries)
    BY <1>0, <2>1, RowsType
  <2>3. cursor' \in DOMAIN rows' \cup {0, 1}
    BY <1>1 DEF Navigate, Range
  <2>4. cursor' \in 0..Cardinality(Entries) \cup {1}
    BY <1>0, <2>2, <2>3
  <2> QED
    BY <1>0, <1>1, <2>1, <2>2, <2>4 DEF ScreenType
<1>2. ASSUME NEW r \in Readable, MoveCursor(r) PROVE ScreenType'
  <2>1. r \in 0..Cardinality(Entries)
    BY <1>0 DEF Readable, ScreenType
  <2> QED
    BY <1>0, <1>2, <2>1 DEF MoveCursor, ScreenType
<1>3. ASSUME Mark PROVE ScreenType'
  <2>1. /\ rows' = RowsOf(files[current]) /\ UNCHANGED <<current, dialog>>
        /\ rows' \in Seq(Entries) /\ Len(rows') \in 0..Cardinality(Entries)
    BY <1>0, <1>3, RowsType DEF Mark, ScreenType
  <2>2. cursor \in 1..Cardinality(Entries) /\ rows[cursor] \in Entries
    BY <1>0, <1>3 DEF Mark, ScreenType
  <2>3. cursor' \in 0..Cardinality(Entries)
    BY <1>0, <1>3, <2>1 DEF Mark
  <2>4. marked' \subseteq 1..Cardinality(Entries) /\ agreed' \subseteq Entries
    BY <1>0, <1>3, <2>2 DEF Mark, ScreenType
  <2> QED
    BY <1>0, <2>1, <2>3, <2>4 DEF ScreenType
<1>4. ASSUME NEW a \in Actions, Ask(a) PROVE ScreenType'
  <2>1. marked = {} => rows[cursor] \in Entries
    BY <1>0, <1>4 DEF Ask, ScreenType
  <2>2. dialog' \in Dialogs
    BY <1>4, <2>1, ItemFacts DEF Ask, Dialogs
  <2>3. agreed' \subseteq Entries
    BY <1>0, <1>4, <2>1 DEF Ask, ScreenType
  <2> QED
    BY <1>0, <1>4, <2>2, <2>3 DEF Ask, ScreenType
<1>5. ASSUME Refuse PROVE ScreenType'
  BY <1>0, <1>5 DEF Refuse, ScreenType
<1>6. UNCHANGED worldVars
  BY DEF Navigate, MoveCursor, Mark, Ask, Refuse
<1> QED
  BY <1>1, <1>2, <1>3, <1>4, <1>5, <1>6, WorldKeeps

\* The rows that a confirmed dialog reads.
ReadRows == IF dialog.marked THEN marked ELSE {cursor}

\* They refer to items: entries, or the directory above.
LEMMA ConfirmFacts ==
  ASSUME ScreenType, Confirm
  PROVE  \/ /\ UNCHANGED <<pending, requested>>
            /\ ~(ReadRows \subseteq Readable)
         \/ /\ panicked' = panicked
            /\ {ItemAt(r) : r \in ReadRows} \in SUBSET Items
            /\ Request({ItemAt(r) : r \in ReadRows}, dialog.action)
<1> SUFFICES ASSUME ReadRows \subseteq Readable
             PROVE  /\ panicked' = panicked
                    /\ {ItemAt(r) : r \in ReadRows} \in SUBSET Items
                    /\ Request({ItemAt(r) : r \in ReadRows}, dialog.action)
  BY DEF Confirm, ReadRows
<1>1. ASSUME NEW r \in Readable PROVE ItemAt(r) \in Items
  <2>1. CASE r = 0
    <3>1. current \in Entries
      BY <2>1, ListingFacts DEF ScreenType, Readable
    <3> QED
      BY <2>1, <3>1, ListingFacts, ItemFacts DEF ItemAt
  <2>2. CASE r # 0
    <3>1. r \in DOMAIN rows /\ rows[r] \in Entries
      BY <2>2 DEF ScreenType, Readable
    <3> QED
      BY <2>2, <3>1, ItemFacts DEF ItemAt
  <2> QED
    BY <2>1, <2>2
<1>2. panicked' = panicked /\ Request({ItemAt(r) : r \in ReadRows}, dialog.action)
  BY DEF Confirm, ReadRows
<1> QED
  BY <1>1, <1>2

\* What a request adds to the queue.
LEMMA RequestFacts ==
  ASSUME RequestType, NEW items \in SUBSET Items, NEW action \in Actions,
         Request(items, action)
  PROVE  /\ requested' \in [Items -> Nat]
         /\ \A e \in Items : requested'[e] = IF e \in items THEN requested[e] + 1 ELSE requested[e]
         /\ pending \subseteq pending'
         /\ \A r \in pending' : r \in pending \/ (r.item \in items /\ r.action = action)
         /\ \A r \in pending' :
              r \in pending \/ r = [item |-> r.item, action |-> action, nth |-> requested[r.item]]
         /\ pending' \ pending \subseteq [item : Items, action : Actions, nth : Nat]
         /\ action = "empty" => items \subseteq Dirs
<1> DEFINE new == {[item |-> e, action |-> action, nth |-> requested[e]] : e \in items}
<1>1. /\ requested' = [e \in Items |-> IF e \in items THEN requested[e] + 1 ELSE requested[e]]
      /\ pending' = pending \cup new
      /\ action = "empty" => items \subseteq Dirs
  BY DEF Request
<1>2. \A e \in Items : requested[e] \in Nat
  BY DEF RequestType
<1>3. ASSUME NEW r \in new
      PROVE  /\ r = [item |-> r.item, action |-> action, nth |-> requested[r.item]]
             /\ r.item \in items /\ r.action = action
             /\ r \in [item : Items, action : Actions, nth : Nat]
  <2>1. PICK e \in items : r = [item |-> e, action |-> action, nth |-> requested[e]]
    OBVIOUS
  <2> QED
    BY <1>2, <2>1
<1> HIDE DEF new
<1>4. \A r \in pending' : r \in pending \/ r \in new
  BY <1>1
<1>5. \A r \in pending' : r \in pending \/ (r.item \in items /\ r.action = action)
  BY <1>3, <1>4
<1>8. pending' \ pending \subseteq [item : Items, action : Actions, nth : Nat]
  <2> SUFFICES ASSUME NEW r \in pending', r \notin pending
               PROVE  r \in [item : Items, action : Actions, nth : Nat]
    OBVIOUS
  <2>1. r \in new
    BY <1>4
  <2> QED
    BY <1>3, <2>1
<1>6. \A r \in pending' :
        r \in pending \/ r = [item |-> r.item, action |-> action, nth |-> requested[r.item]]
  BY <1>3, <1>4
<1>7. requested' \in [Items -> Nat]
  BY <1>1, <1>2
<1> QED
  BY <1>1, <1>5, <1>6, <1>7, <1>8

LEMMA ConfirmKeeps ==
  ASSUME QueueInv, Confirm, inBackground' = inBackground
  PROVE  QueueInv'
<1>1. /\ UNCHANGED <<disk, files, size, current, rows, cursor, job, active, agreed, failed>>
      /\ dialog \in Dialogs /\ dialog' = NoDialog
      /\ marked' \subseteq marked
  BY DEF Confirm, QueueInv, ScreenType
<1>2. ScreenType'
  BY <1>1 DEF QueueInv, ScreenType
<1>3. CASE UNCHANGED <<pending, requested>>
  <2>1. UNCHANGED <<worldVars, inBackground>>
    BY <1>1, <1>3 DEF worldVars
  <2> QED
    BY <1>2, <2>1, WorldKeeps
<1>4. ASSUME NEW items \in SUBSET Items, Request(items, dialog.action)
      PROVE  QueueInv'
  <2>1. PICK action \in Actions : Request(items, action)
    BY <1>1, <1>4 DEF Dialogs
  <2>2. /\ requested' \in [Items -> Nat]
        /\ \A e \in Items : requested'[e] = IF e \in items THEN requested[e] + 1 ELSE requested[e]
        /\ pending' \ pending \subseteq [item : Items, action : Actions, nth : Nat]
        /\ \A r \in pending' : r \in pending \/ (r.item \in items /\ r.action = action)
        /\ action = "empty" => items \subseteq Dirs
    <3>1. RequestType
      BY DEF QueueInv
    <3> QED
      BY <2>1, <3>1, RequestFacts
  <2>3. RequestType'
    BY <2>2 DEF QueueInv, RequestType
  <2>4. \A e \in Items : /\ requested[e] > 0 => requested'[e] > 0
                         /\ e \in items => requested'[e] > 0
    BY <2>2 DEF QueueInv, RequestType
  <2>5. Working' = Working
    BY <1>1 DEF Working
  <2>6. WorkIsRequested'
    <3>1. \A r \in pending : r.item \in Items
      BY DEF QueueInv, RequestType
    <3>2. \A w \in Working : job[w].item \in Items
      BY WorkingFacts DEF QueueInv, JobType, Jobs
    <3> QED
      BY <1>1, <2>2, <2>4, <2>5, <3>1, <3>2 DEF QueueInv, WorkIsRequested
  <2>7. OnlyRequestedIsGone'
    BY <1>1, <2>4 DEF QueueInv, OnlyRequestedIsGone
  <2> QED
    BY <1>1, <1>2, <2>3, <2>5, <2>6, <2>7
       DEF QueueInv, TreeType, Listings, JobType, OnDiskIsListed, UnlinkedIsGone
<1> QED
  BY <1>3, <1>4, ConfirmFacts DEF QueueInv

\* A step of worker w gives it the job j; others keep theirs.
Consistent(j) ==
  /\ j.stage = "idle" => j = NoJob
  /\ j.stage \in {"unlinking", "reading", "subtracting"} => j.now \in j.todo

LEMMA JobMoves ==
  ASSUME JobType, NEW w \in Workers, NEW j \in Jobs, Consistent(j), job' = [job EXCEPT ![w] = j],
         active' = IF job[w].stage = "idle"
                   THEN IF j.stage = "idle" THEN active ELSE active + 1
                   ELSE IF j.stage = "idle" THEN active - 1 ELSE active
  PROVE  /\ JobType'
         /\ job'[w] = j
         /\ \A v \in Workers : v # w => job'[v] = job[v]
         /\ Working' = IF j.stage = "idle" THEN Working \ {w} ELSE Working \cup {w}
<1>1. /\ job' \in [Workers -> Jobs] /\ job'[w] = j
      /\ \A v \in Workers : v # w => job'[v] = job[v]
  BY DEF JobType
<1>2. /\ \A v \in Workers : v \in Working <=> job[v].stage # "idle"
      /\ Working \subseteq Workers /\ IsFiniteSet(Working)
  BY WorkingFacts
<1>3. NoJob.stage = "idle"
  BY DEF NoJob
<1>4. Working' = {v \in Workers : job'[v] # NoJob}
  BY DEF Working
<1>5. j # NoJob <=> j.stage # "idle"
  BY <1>3 DEF Consistent
<1>6. \A v \in Workers : v \in Working <=> job[v] # NoJob
  BY DEF Working
<1>7. Working' = IF j.stage = "idle" THEN Working \ {w} ELSE Working \cup {w}
  BY <1>1, <1>2, <1>4, <1>5, <1>6
<1>8. active' = Cardinality(Working')
  <2>1. active = Cardinality(Working) /\ Cardinality(Working) \in Nat
    BY <1>2, FS_CardinalityType DEF JobType
  <2>2. /\ Cardinality(Working \cup {w}) = IF w \in Working THEN active ELSE active + 1
        /\ Cardinality(Working \ {w}) = IF w \in Working THEN active - 1 ELSE active
    BY <1>2, <2>1, FS_AddElement, FS_RemoveElement
  <2> QED
    BY <1>2, <1>7, <2>2
<1>9. \A v \in Workers : Consistent(job'[v])
  BY <1>1 DEF JobType, Consistent
<1> QED
  BY <1>1, <1>7, <1>8, <1>9 DEF JobType, Consistent

LEMMA WorkKeeps ==
  ASSUME QueueInv, NEW w \in Workers, NEW j \in Jobs, Consistent(j), job' = [job EXCEPT ![w] = j],
         active' = IF job[w].stage = "idle"
                   THEN IF j.stage = "idle" THEN active ELSE active + 1
                   ELSE IF j.stage = "idle" THEN active - 1 ELSE active,
         j.stage # "idle" => /\ requested[j.item] > 0
                             /\ \A e \in j.todo : Below(e) \subseteq Below(j.item),
         j.stage = "unlinking" => j.now \notin disk',
         UNCHANGED <<inBackground, requested>>, pending' \subseteq pending, disk' \subseteq disk,
         TreeType', ScreenType', OnDiskIsListed', OnlyRequestedIsGone'
  PROVE  QueueInv'
<1>1. /\ JobType'
      /\ job'[w] = j
      /\ \A v \in Workers : v # w => job'[v] = job[v]
      /\ Working' = IF j.stage = "idle" THEN Working \ {w} ELSE Working \cup {w}
  BY JobMoves DEF QueueInv
<1>2. RequestType'
  BY DEF QueueInv, RequestType
<1>3. UnlinkedIsGone'
  BY <1>1 DEF QueueInv, UnlinkedIsGone
<1>4. WorkIsRequested'
  <2>1. \A v \in Working : v \in Workers
    BY DEF Working
  <2> QED
    BY <1>1, <2>1 DEF QueueInv, WorkIsRequested
<1> QED
  BY <1>1, <1>2, <1>3, <1>4 DEF QueueInv

\* What a worker removes lies at or below a requested item.
LEMMA RemovalIsRequested ==
  ASSUME QueueInv, NEW w \in Working, NEW e \in job[w].todo, disk \ Below(e) \subseteq disk',
         requested' = requested
  PROVE  OnlyRequestedIsGone'
<1>1. job[w].item \in Items
  BY WorkingFacts DEF QueueInv, JobType, Jobs
<1>2. requested[job[w].item] > 0 /\ Below(e) \subseteq Below(job[w].item)
  BY DEF QueueInv, WorkIsRequested
<1>3. Below(e) \subseteq UNION {Below(x) : x \in {y \in Items : requested[y] > 0}}
  BY <1>1, <1>2
<1> HIDE DEF Below
<1> QED
  BY <1>3 DEF QueueInv, OnlyRequestedIsGone

LEMMA DequeueKeeps ==
  ASSUME QueueInv, NEW w \in Workers, Dequeue(w), inBackground' = inBackground
  PROVE  QueueInv'
<1>1. PICK r \in pending :
        /\ pending' = pending \ {r}
        /\ job' = [job EXCEPT ![w] =
                     Removal(r, IF r.action = "empty" THEN r.item ELSE current,
                                IF r.action = "empty" THEN files[r.item] ELSE {r.item})]
  BY DEF Dequeue
<1> DEFINE from == IF r.action = "empty" THEN r.item ELSE current
           todo == IF r.action = "empty" THEN files[r.item] ELSE {r.item}
           j == Removal(r, from, todo)
<1>2. /\ job[w].stage = "idle" /\ active' = active + 1
      /\ UNCHANGED <<disk, files, size, uiVars, requested, failed>>
  BY DEF Dequeue, MayStart, NoJob
<1>3. /\ r.item \in Items /\ r.action \in Actions
      /\ r.action = "empty" => r.item \in Dirs
      /\ requested[r.item] > 0
  BY DEF QueueInv, RequestType, WorkIsRequested
<1>4. j.stage = "removing" /\ j.item = r.item /\ j.todo = todo
  BY DEF Removal
<1>5. /\ current \in Dirs
      /\ \A d \in Dirs : files[d] \subseteq Children(d) /\ files[d] \subseteq Entries
  BY DEF QueueInv, ScreenType, TreeType, Listings
<1>6. j \in Jobs
  <2>1. from \in Dirs /\ todo \in SUBSET Items
    BY <1>3, <1>5, ItemFacts
  <2>2. Root \in Dirs /\ Root \in Items
    BY TreeAssumption, ItemFacts
  <2> HIDE DEF from, todo
  <2> QED
    BY <1>3, <2>1, <2>2 DEF Removal, Jobs, Stages
<1>7. \A e \in j.todo : Below(e) \subseteq Below(r.item)
  <2>1. CASE r.action # "empty"
    BY <1>4, <2>1
  <2>2. CASE r.action = "empty"
    <3>1. r.item \in Dirs /\ j.todo \subseteq Children(r.item) /\ j.todo \subseteq Entries
      BY <1>3, <1>4, <1>5, <2>2
    <3>2. CASE r.item = Root
      BY <3>1, <3>2, ItemFacts DEF Below
    <3>3. CASE r.item # Root
      <4>1. r.item \in Entries /\ \A e \in j.todo : SubtreeOf[e] \subseteq SubtreeOf[r.item]
        BY <3>1, <3>3, SubtreeFacts, ListingFacts DEF Entries
      <4> QED
        BY <3>1, <4>1, ItemFacts
    <3> QED
      BY <3>2, <3>3
  <2> QED
    BY <2>1, <2>2
<1> HIDE DEF j
<1>8. TreeType' /\ ScreenType' /\ OnDiskIsListed' /\ OnlyRequestedIsGone'
  BY <1>2 DEF uiVars, QueueInv, TreeType, Listings, ScreenType, OnDiskIsListed, OnlyRequestedIsGone
<1>9. job' = [job EXCEPT ![w] = j]
  BY <1>1 DEF j
<1>10. Consistent(j)
  BY <1>3, <1>4 DEF Consistent
<1> QED
  BY <1>1, <1>2, <1>3, <1>4, <1>6, <1>7, <1>8, <1>9, <1>10, WorkKeeps

\* The job of a worker at work.
LEMMA WorkerFacts ==
  ASSUME QueueInv, NEW w \in Workers, job[w].stage # "idle"
  PROVE  /\ w \in Working /\ job[w] \in Jobs /\ Consistent(job[w])
         /\ requested[job[w].item] > 0
         /\ \A e \in job[w].todo : e \in Items /\ Below(e) \subseteq Below(job[w].item)
<1>1. w \in Working /\ job[w] \in Jobs /\ Consistent(job[w])
  BY WorkingFacts DEF QueueInv, JobType, Consistent
<1> QED
  BY <1>1 DEF QueueInv, WorkIsRequested, Jobs

LEMMA RemoveKeeps ==
  ASSUME QueueInv, NEW w \in Workers, NEW e \in Items, RemoveFromDisk(w, e),
         inBackground' = inBackground
  PROVE  QueueInv'
<1> DEFINE j == [job[w] EXCEPT !.stage = "unlinking", !.now = e]
<1>1. /\ job[w].stage = "removing" /\ e \in job[w].todo
      /\ disk' = disk \ Below(e)
      /\ UNCHANGED <<files, size, uiVars, pending, active, requested, failed>>
  BY DEF RemoveFromDisk
<1>2. /\ w \in Working /\ job[w] \in Jobs /\ Consistent(job[w])
      /\ requested[job[w].item] > 0
      /\ \A x \in job[w].todo : x \in Items /\ Below(x) \subseteq Below(job[w].item)
  BY <1>1, WorkerFacts
<1>3. /\ j \in Jobs /\ j.stage = "unlinking" /\ j.now = e
      /\ j.item = job[w].item /\ j.todo = job[w].todo
  BY <1>2 DEF Jobs, Stages
<1>4. job' = [job EXCEPT ![w] = j]
  BY DEF RemoveFromDisk
<1> HIDE DEF j
<1>5. Consistent(j)
  BY <1>1, <1>2, <1>3 DEF Consistent
<1>6. disk' \subseteq disk /\ e \notin disk'
  BY <1>1, ItemFacts DEF QueueInv, TreeType
<1>7. TreeType' /\ ScreenType' /\ OnDiskIsListed'
  BY <1>1, <1>6 DEF uiVars, QueueInv, TreeType, Listings, ScreenType, OnDiskIsListed
<1>8. OnlyRequestedIsGone'
  BY <1>1, <1>2, RemovalIsRequested
<1> QED
  BY <1>1, <1>2, <1>3, <1>4, <1>5, <1>6, <1>7, <1>8, WorkKeeps

\* A job that ends leaves its worker at rest.
LEMMA RestFacts == NoJob \in Jobs /\ NoJob.stage = "idle" /\ Consistent(NoJob)
  BY TreeAssumption, ItemFacts DEF NoJob, Jobs, Stages, Actions, Consistent

LEMMA FailKeeps ==
  ASSUME QueueInv, NEW w \in Workers, NEW e \in Items, Fail(w, e), inBackground' = inBackground
  PROVE  QueueInv'
<1>1. /\ job[w].stage = "removing" /\ e \in job[w].todo
      /\ disk \ Below(e) \subseteq disk' /\ disk' \subseteq disk
      /\ job' = [job EXCEPT ![w] = NoJob] /\ active' = active - 1
      /\ pending' \subseteq pending
      /\ UNCHANGED <<files, size, uiVars, requested>>
  BY ItemFacts DEF Fail, FailOnDisk, PartsOf, QueueInv, TreeType, Below
<1>2. w \in Working
  BY <1>1, WorkerFacts
<1>3. TreeType' /\ ScreenType' /\ OnDiskIsListed'
  BY <1>1 DEF uiVars, QueueInv, TreeType, Listings, ScreenType, OnDiskIsListed
<1>4. OnlyRequestedIsGone'
  BY <1>1, <1>2, RemovalIsRequested
<1> QED
  BY <1>1, <1>3, <1>4, RestFacts, WorkKeeps

LEMMA UnlinkKeeps ==
  ASSUME QueueInv, NEW w \in Workers, Unlink(w), inBackground' = inBackground
  PROVE  QueueInv'
<1> DEFINE j == [job[w] EXCEPT !.stage = "reading"]
<1>1. /\ job[w].stage = "unlinking" /\ job[w].now \notin disk
      /\ files' = [files EXCEPT ![job[w].from] = @ \ {job[w].now}]
      /\ UNCHANGED <<disk, size, uiVars, pending, active, requested, failed>>
  BY DEF Unlink, QueueInv, UnlinkedIsGone
<1>2. /\ job[w] \in Jobs /\ Consistent(job[w])
      /\ requested[job[w].item] > 0
      /\ \A x \in job[w].todo : Below(x) \subseteq Below(job[w].item)
  BY <1>1, WorkerFacts
<1>3. /\ j \in Jobs /\ j.stage = "reading" /\ j.now = job[w].now
      /\ j.item = job[w].item /\ j.todo = job[w].todo
  BY <1>2 DEF Jobs, Stages
<1>4. job' = [job EXCEPT ![w] = j]
  BY DEF Unlink
<1> HIDE DEF j
<1>5. Consistent(j)
  BY <1>1, <1>2, <1>3 DEF Consistent
<1>6. TreeType' /\ OnDiskIsListed'
  BY <1>1, <1>2 DEF Jobs, QueueInv, TreeType, Listings, OnDiskIsListed
<1>7. ScreenType' /\ OnlyRequestedIsGone'
  BY <1>1 DEF uiVars, QueueInv, ScreenType, OnlyRequestedIsGone
<1> QED
  BY <1>1, <1>2, <1>3, <1>4, <1>5, <1>6, <1>7, WorkKeeps

LEMMA ReadTotalsKeeps ==
  ASSUME QueueInv, NEW w \in Workers, ReadTotals(w), inBackground' = inBackground
  PROVE  QueueInv'
<1> DEFINE j == [job[w] EXCEPT !.stage = "subtracting", !.amount = SizeOf(job[w].now),
                               !.at = job[w].from]
<1>1. /\ job[w].stage = "reading"
      /\ UNCHANGED <<disk, files, size, uiVars, pending, active, requested, failed>>
  BY DEF ReadTotals
<1>2. /\ job[w] \in Jobs /\ Consistent(job[w])
      /\ requested[job[w].item] > 0
      /\ \A x \in job[w].todo : Below(x) \subseteq Below(job[w].item)
  BY <1>1, WorkerFacts
<1>3. SizeOf(job[w].now) \in Int
  BY <1>2, BytesAssumption DEF Jobs, Items, SizeOf, QueueInv, TreeType
<1>4. /\ j \in Jobs /\ j.stage = "subtracting" /\ j.now = job[w].now
      /\ j.item = job[w].item /\ j.todo = job[w].todo
  BY <1>2, <1>3 DEF Jobs, Stages
<1>5. job' = [job EXCEPT ![w] = j]
  BY DEF ReadTotals
<1> HIDE DEF j
<1>6. Consistent(j)
  BY <1>1, <1>2, <1>4 DEF Consistent
<1>7. TreeType' /\ OnDiskIsListed' /\ ScreenType' /\ OnlyRequestedIsGone'
  BY <1>1 DEF uiVars, QueueInv, TreeType, OnDiskIsListed, Listings, ScreenType, OnlyRequestedIsGone
<1> QED
  BY <1>1, <1>2, <1>4, <1>5, <1>6, <1>7, WorkKeeps

LEMMA SubtractKeeps ==
  ASSUME QueueInv, NEW w \in Workers, Subtract(w), inBackground' = inBackground
  PROVE  QueueInv'
<1> DEFINE last == [job[w] EXCEPT !.stage = "removing", !.todo = @ \ {job[w].now}]
           up == [job[w] EXCEPT !.at = Parent[@]]
           j == IF job[w].at = Root THEN last ELSE up
<1>1. /\ job[w].stage = "subtracting"
      /\ size' = [size EXCEPT ![job[w].at] = @ - job[w].amount]
      /\ UNCHANGED <<disk, files, uiVars, pending, active, requested, failed>>
  BY DEF Subtract
<1>2. /\ job[w] \in Jobs /\ Consistent(job[w])
      /\ requested[job[w].item] > 0
      /\ \A x \in job[w].todo : Below(x) \subseteq Below(job[w].item)
  BY <1>1, WorkerFacts
<1>3. /\ last \in Jobs /\ last.stage = "removing" /\ last.item = job[w].item
      /\ last.todo \subseteq job[w].todo
  BY <1>2 DEF Jobs, Stages
<1>4. job[w].at # Root => /\ up \in Jobs /\ up.stage = "subtracting" /\ up.item = job[w].item
                          /\ up.todo = job[w].todo /\ up.now = job[w].now
  <2>1. job[w].at # Root => Parent[job[w].at] \in Dirs
    BY <1>2, ListingFacts DEF Jobs
  <2> QED
    BY <1>1, <1>2, <2>1 DEF Jobs
<1>5. job' = [job EXCEPT ![w] = j]
  BY DEF Subtract
<1> HIDE DEF last, up
<1>6. /\ j \in Jobs /\ j.stage \in {"removing", "subtracting"} /\ j.item = job[w].item
      /\ j.todo \subseteq job[w].todo /\ Consistent(j)
  BY <1>1, <1>2, <1>3, <1>4 DEF Consistent
<1> HIDE DEF j
<1>7. TreeType' /\ OnDiskIsListed' /\ ScreenType' /\ OnlyRequestedIsGone'
  BY <1>1, <1>2 DEF Jobs, uiVars, QueueInv, TreeType, OnDiskIsListed, Listings, ScreenType,
                    OnlyRequestedIsGone
<1> QED
  BY <1>1, <1>2, <1>5, <1>6, <1>7, WorkKeeps

LEMMA FinishKeeps ==
  ASSUME QueueInv, NEW w \in Workers, Finish(w), inBackground' = inBackground
  PROVE  QueueInv'
<1>1. /\ job[w].stage = "removing"
      /\ job' = [job EXCEPT ![w] = NoJob] /\ active' = active - 1
      /\ UNCHANGED <<disk, files, size, current, dialog, agreed, pending, requested>>
  BY DEF Finish, EndJob, finishRest
<1>2. TreeType' /\ OnDiskIsListed' /\ OnlyRequestedIsGone'
  BY <1>1 DEF QueueInv, TreeType, OnDiskIsListed, Listings, OnlyRequestedIsGone
<1>3. ScreenType'
  <2>1. \/ UNCHANGED <<rows, cursor, marked>>
        \/ Refresh /\ (marked' = {} \/ marked' = marked)
    BY DEF Finish
  <2>2. CASE UNCHANGED <<rows, cursor, marked>>
    BY <1>1, <2>2 DEF QueueInv, ScreenType
  <2>3. CASE Refresh /\ (marked' = {} \/ marked' = marked)
    <3>1. /\ TreeType /\ current \in Dirs
          /\ rows' = RowsOf(files[current])
      BY <2>3 DEF QueueInv, ScreenType, Refresh
    <3>2. /\ rows' \in Seq(Entries) /\ Len(rows') \in 0..Cardinality(Entries)
          /\ Len(rows') <= Cardinality(Entries)
      BY <3>1, RowsType
    <3>3. cursor' \in 0..Cardinality(Entries) \cup {1}
      BY <2>3, <3>2 DEF QueueInv, ScreenType, Refresh
    <3> QED
      BY <1>1, <2>3, <3>2, <3>3 DEF QueueInv, ScreenType
  <2> QED
    BY <2>1, <2>2, <2>3
<1> QED
  BY <1>1, <1>2, <1>3, RestFacts, WorkKeeps

LEMMA QueueKeeps ==
  ASSUME QueueInv, [Next]_vars
  PROVE  QueueInv'
<1>1. CASE User
  BY <1>1, BrowseKeeps, ConfirmKeeps DEF User
<1>2. ASSUME NEW w \in Workers, Worker(w) PROVE QueueInv'
  BY <1>2, DequeueKeeps, RemoveKeeps, FailKeeps, UnlinkKeeps, ReadTotalsKeeps, SubtractKeeps,
     FinishKeeps DEF Worker
<1>3. CASE UNCHANGED vars
  <2>1. UNCHANGED <<worldVars, inBackground>> /\ ScreenType'
    BY <1>3 DEF vars, uiVars, worldVars, QueueInv, ScreenType
  <2> QED
    BY <2>1, WorldKeeps
<1> QED
  BY <1>1, <1>2, <1>3 DEF Next

-----------------------------------------------------------------------------
(* Behind the modal *)

LEMMA ModalStarts ==
  ASSUME Init
  PROVE  ModalInv
<1>1. Working = {} /\ pending = {} /\ dialog = NoDialog
  BY DEF Init, Working
<1>2. OneJob /\ ScreenIsCurrent /\ QueueIsListed /\ JobIsListed /\ ~panicked
  BY <1>1, TreeAssumption DEF Init, OneJob, ScreenIsCurrent, QueueIsListed, JobIsListed
<1>3. SizesAreOff
  BY <1>1, ScannedTotals DEF Init, SizesAreOff
<1>4. GoneIsUnlinked
  BY DEF Init, GoneIsUnlinked
<1> QED
  BY <1>2, <1>3, <1>4 DEF ModalInv

\* What the user does while everything is at rest.
LEMMA ModalScreenKeeps ==
  ASSUME QueueInv, ModalInv, Quiet, UNCHANGED <<worldVars, panicked>>, ScreenIsCurrent',
         current' # Root => Reached[current']
  PROVE  ModalInv'
<1>1. Working' = {} /\ Working = {} /\ pending' = {}
  BY DEF Working, Quiet, worldVars
<1>2. Reached' = Reached
  BY DEF Reached, worldVars
<1>3. OneJob' /\ QueueIsListed' /\ JobIsListed'
  BY <1>1, <1>2 DEF OneJob, QueueIsListed, JobIsListed
<1>4. SizesAreOff'
  BY <1>1 DEF ModalInv, SizesAreOff, worldVars
<1>5. GoneIsUnlinked'
  BY DEF ModalInv, GoneIsUnlinked, worldVars
<1> QED
  BY <1>3, <1>4, <1>5 DEF ModalInv

\* The rows while the user has the keys.
LEMMA RowsAreListed ==
  ASSUME QueueInv, ModalInv, Quiet
  PROVE  /\ rows = RowsOf(files[current])
         /\ \A r \in DOMAIN rows : rows[r] \in files[current] /\ rows[r] \in Children(current)
         /\ \A q, r \in DOMAIN rows : rows[q] = rows[r] => q = r
<1>1. rows = RowsOf(files[current]) /\ current \in Dirs /\ files[current] \subseteq Children(current)
  BY DEF ModalInv, ScreenIsCurrent, QueueInv, ScreenType, TreeType, Listings
<1>2. /\ RowsOf(files[current]) \in Seq(files[current])
      /\ \A i, j \in DOMAIN RowsOf(files[current]) :
           RowsOf(files[current])[i] = RowsOf(files[current])[j] => i = j
  BY <1>1, RowsFacts
<1> HIDE DEF RowsOf
<1> QED
  BY <1>1, <1>2

LEMMA ModalBrowseKeeps ==
  ASSUME QueueInv, ModalInv, ~inBackground,
         (\E d \in Dirs : Navigate(d)) \/ (\E r \in Readable : MoveCursor(r))
           \/ Mark \/ (\E a \in Actions : Ask(a)) \/ Refuse
  PROVE  ModalInv'
<1>0. /\ ScreenIsCurrent /\ ScreenType
      /\ current # Root => Reached[current]
  BY DEF ModalInv, QueueIsListed, QueueInv
<1>1. ASSUME NEW d \in Dirs, Navigate(d) PROVE ModalInv'
  <2>1. Quiet /\ dialog = NoDialog /\ UNCHANGED <<worldVars, panicked, dialog>>
    BY <1>1 DEF Navigate, Browsing
  <2>2. current' = d /\ rows' = RowsOf(files[d]) /\ marked' = {}
    BY <1>1 DEF Navigate
  <2>3. ScreenIsCurrent'
    BY <2>1, <2>2 DEF ScreenIsCurrent, worldVars
  <2>4. d # Root => Reached[d]
    <3>1. CASE cursor \in DOMAIN rows /\ d = rows[cursor]
      <4>1. d \in files[current] /\ d \in Entries /\ Parent[d] = current
        BY <2>1, <3>1, RowsAreListed, ListingFacts
      <4> QED
        BY <1>0, <4>1, ReachedEquation
    <3>2. CASE current # Root /\ d = Parent[current]
      <4>1. current \in Entries
        BY <1>0, <3>2, ListingFacts DEF ScreenType
      <4> QED
        BY <1>0, <3>2, <4>1, ReachedEquation
    <3> QED
      BY <1>1, <3>1, <3>2 DEF Navigate
  <2> QED
    BY <2>1, <2>2, <2>3, <2>4, ModalScreenKeeps
<1>2. ASSUME NEW r \in Readable, MoveCursor(r) PROVE ModalInv'
  <2>1. /\ Quiet /\ dialog = NoDialog
        /\ UNCHANGED <<worldVars, panicked, dialog, current, rows, marked, agreed>>
    BY <1>2 DEF MoveCursor, Browsing
  <2>2. Quiet'
    BY <2>1 DEF Quiet, Working, worldVars
  <2>3. ScreenIsCurrent'
    BY <1>0, <2>1, <2>2 DEF ScreenIsCurrent, worldVars
  <2> QED
    BY <1>0, <2>1, <2>3, ModalScreenKeeps
<1>3. ASSUME Mark PROVE ModalInv'
  <2>1. /\ Quiet /\ dialog = NoDialog /\ cursor \in DOMAIN rows
        /\ UNCHANGED <<worldVars, panicked, dialog, current>>
        /\ rows' = RowsOf(files[current])
    BY <1>3 DEF Mark, Browsing
  <2>2. rows' = rows /\ \A q, r \in DOMAIN rows : rows[q] = rows[r] => q = r
    BY <2>1, RowsAreListed
  <2>3. marked \subseteq DOMAIN rows /\ \A r \in marked : rows[r] \in agreed
    BY <1>0, <2>1 DEF ScreenIsCurrent
  <2>4. marked' \subseteq DOMAIN rows /\ \A r \in marked' : rows[r] \in agreed'
    <3>1. CASE cursor \in marked
      <4>1. marked' = marked \ {cursor} /\ agreed' = agreed \ {rows[cursor]}
        BY <1>3, <3>1 DEF Mark
      <4> QED
        BY <2>1, <2>2, <2>3, <4>1
    <3>2. CASE cursor \notin marked
      <4>1. marked' = marked \cup {cursor} /\ agreed' = agreed \cup {rows[cursor]}
        BY <1>3, <3>2 DEF Mark
      <4> QED
        BY <2>1, <2>3, <4>1
    <3> QED
      BY <3>1, <3>2
  <2>5. ScreenIsCurrent'
    BY <2>1, <2>2, <2>4 DEF ScreenIsCurrent, worldVars
  <2> QED
    BY <1>0, <2>1, <2>5, ModalScreenKeeps
<1>4. ASSUME NEW a \in Actions, Ask(a) PROVE ModalInv'
  <2>1. /\ Quiet
        /\ UNCHANGED <<worldVars, panicked, current, rows, marked, cursor>>
        /\ dialog'.marked = (marked # {})
        /\ agreed \subseteq agreed'
        /\ cursor \in DOMAIN rows /\ (marked = {} => rows[cursor] \in agreed')
    BY <1>4 DEF Ask, Browsing
  <2>2. Quiet'
    BY <2>1 DEF Quiet, Working, worldVars
  <2>3. ScreenIsCurrent'
    BY <1>0, <2>1, <2>2 DEF ScreenIsCurrent, worldVars
  <2> QED
    BY <1>0, <2>1, <2>3, ModalScreenKeeps
<1>5. ASSUME Refuse PROVE ModalInv'
  <2>1. /\ Quiet /\ dialog' = NoDialog
        /\ UNCHANGED <<worldVars, panicked, current, rows, marked, cursor, agreed>>
    BY <1>0, <1>5 DEF Refuse, ScreenIsCurrent
  <2>2. Quiet'
    BY <2>1 DEF Quiet, Working, worldVars
  <2>3. ScreenIsCurrent'
    BY <1>0, <2>1, <2>2 DEF ScreenIsCurrent, worldVars
  <2> QED
    BY <1>0, <2>1, <2>3, ModalScreenKeeps
<1> QED
  BY <1>1, <1>2, <1>3, <1>4, <1>5

\* A confirmed dialog asks for agreed items of the directory on screen, and does
\* not panic.
LEMMA ModalConfirmFacts ==
  ASSUME QueueInv, ModalInv, Confirm
  PROVE  /\ Quiet /\ panicked' = panicked
         /\ \E items \in SUBSET (files[current] \cap agreed) :
              \E action \in Actions : Request(items, action)
<1>1. ScreenType /\ ScreenIsCurrent
  BY DEF QueueInv, ModalInv
<1>2. Quiet
  BY <1>1 DEF Confirm, ScreenIsCurrent
<1>3. /\ ReadRows \subseteq DOMAIN rows /\ 0 \notin DOMAIN rows
      /\ \A r \in ReadRows : rows[r] \in agreed
      /\ dialog.action \in Actions
  BY <1>1, <1>2 DEF Confirm, ScreenIsCurrent, ScreenType, Dialogs, ReadRows
<1>4. /\ Request({ItemAt(r) : r \in ReadRows}, dialog.action)
      /\ panicked' = panicked
  BY <1>1, <1>3, ConfirmFacts DEF Readable
<1>5. {ItemAt(r) : r \in ReadRows} \in SUBSET (files[current] \cap agreed)
  BY <1>2, <1>3, RowsAreListed DEF ItemAt
<1> QED
  BY <1>2, <1>3, <1>4, <1>5

LEMMA ModalConfirmKeeps ==
  ASSUME QueueInv, ModalInv, ~inBackground, Confirm
  PROVE  ModalInv'
<1>1. Quiet /\ panicked' = panicked
  BY ModalConfirmFacts
<1>2. PICK items \in SUBSET (files[current] \cap agreed) :
        \E action \in Actions : Request(items, action)
  BY ModalConfirmFacts
<1>3. PICK action \in Actions : Request(items, action)
  BY <1>2
<1>4. /\ UNCHANGED <<disk, files, size, current, rows, cursor, job, agreed, marked>>
      /\ dialog' = NoDialog
  BY DEF Confirm
<1>5. items \in SUBSET Items
  BY ItemFacts DEF QueueInv, TreeType, Listings, ScreenType
<1>6. RequestType
  BY DEF QueueInv
<1>7. /\ \A r \in pending' : r \in pending \/ (r.item \in items /\ r.action = action)
      /\ \A r \in pending' :
           r \in pending \/ r = [item |-> r.item, action |-> action, nth |-> requested[r.item]]
  BY <1>3, <1>5, <1>6, RequestFacts
<1>8. pending = {} /\ Working = {} /\ Working' = {}
  BY <1>1, <1>4 DEF Quiet, Working
<1>9. /\ \A r \in pending' : r.item \in files[current]
      /\ \A r, s \in pending' : r.item = s.item => r = s
  <2>1. \A r \in pending' : r = [item |-> r.item, action |-> action, nth |-> requested[r.item]]
    BY <1>7, <1>8
  <2>2. \A r \in pending' : r.item \in items
    BY <1>7, <1>8
  <2> QED
    BY <2>1, <2>2
<1>10. Reached' = Reached
  BY <1>4 DEF Reached
<1>11. OneJob' /\ QueueIsListed' /\ JobIsListed'
  BY <1>4, <1>8, <1>9, <1>10 DEF OneJob, QueueIsListed, JobIsListed, ModalInv
<1>12. ScreenIsCurrent'
  BY <1>1, <1>4 DEF ScreenIsCurrent, ModalInv
<1>13. SizesAreOff' /\ GoneIsUnlinked'
  BY <1>4, <1>8 DEF SizesAreOff, GoneIsUnlinked, ModalInv
<1> QED
  BY <1>1, <1>11, <1>12, <1>13 DEF ModalInv

-----------------------------------------------------------------------------
(* Behind the modal: the worker *)

\* One goroutine is at work, and the user waits.
LEMMA ModalWork ==
  ASSUME QueueInv, ModalInv, NEW w \in Workers, NEW j \in Jobs, Consistent(j), j.stage # "idle",
         job' = [job EXCEPT ![w] = j], UNCHANGED uiVars,
         active' = IF job[w].stage = "idle" THEN active + 1 ELSE active,
         job[w].stage = "idle" => Working = {} /\ pending # {}
  PROVE  /\ Working' = {w} /\ job'[w] = j
         /\ job[w].stage # "idle" => Working = {w}
         /\ \A v \in Workers : v # w => job'[v].stage = "idle" /\ job[v].stage = "idle"
         /\ UNCHANGED <<current, panicked, agreed>>
         /\ OneJob' /\ ScreenIsCurrent' /\ ~panicked'
<1>1. /\ JobType /\ OneJob /\ ScreenIsCurrent /\ ~panicked
      /\ UNCHANGED <<current, dialog, panicked, agreed>>
  BY DEF QueueInv, ModalInv, uiVars
<1>2. /\ job'[w] = j
      /\ \A v \in Workers : v # w => job'[v] = job[v]
      /\ Working' = Working \cup {w}
  BY <1>1, JobMoves
<1>3. /\ \A v \in Workers : v \in Working <=> job[v].stage # "idle"
      /\ Working \subseteq Workers
  BY <1>1, WorkingFacts
<1>4. Working' = {w} /\ (job[w].stage # "idle" => Working = {w})
  BY <1>1, <1>2, <1>3 DEF OneJob
<1>5. OneJob'
  BY <1>4 DEF OneJob
<1>6. ~Quiet /\ ~Quiet'
  BY <1>3, <1>4 DEF Quiet
<1>7. ScreenIsCurrent'
  BY <1>1, <1>6 DEF ScreenIsCurrent
<1>8. \A v \in Workers : v # w => job'[v].stage = "idle" /\ job[v].stage = "idle"
  BY <1>2, <1>3, <1>4
<1> QED
  BY <1>1, <1>2, <1>4, <1>5, <1>7, <1>8

\* The job that a worker behind the modal is at.
LEMMA ModalJobFacts ==
  ASSUME QueueInv, ModalInv, NEW w \in Workers, job[w].stage # "idle"
  PROVE  /\ Working = {w} /\ job[w] \in Jobs /\ Consistent(job[w])
         /\ current \in Dirs /\ job[w].from \in Dirs /\ job[w].now \in Dirs \cup Files
         /\ job[w].from = current \/ (job[w].from \in files[current] /\ job[w].from # current)
         /\ \A r \in pending : r.item \notin job[w].todo
         /\ job[w].stage \in {"removing", "unlinking"} => job[w].todo \subseteq files[job[w].from]
         /\ job[w].stage \in {"reading", "subtracting"} =>
              /\ \A e \in job[w].todo : e = job[w].now \/ e \in files[job[w].from]
              /\ job[w].now \in Children(job[w].from) /\ job[w].now \notin files[job[w].from]
         /\ job[w].stage = "subtracting" /\ job[w].at # Root => Reached[job[w].at]
         /\ \A d \in Dirs : size[d] = Total(files, size, d) + Off(w, d)
<1>1. w \in Working /\ job[w] \in Jobs /\ Consistent(job[w])
  BY WorkerFacts
<1>2. Working = {w}
  BY <1>1 DEF ModalInv, OneJob
<1>3. /\ current \in Dirs /\ job[w].from \in Dirs /\ job[w].now \in Dirs \cup Files
      /\ files[current] \subseteq Children(current)
  BY <1>1 DEF QueueInv, ScreenType, Jobs, Items, TreeType, Listings
<1>4. job[w].from = current \/ (job[w].from \in files[current] /\ job[w].from # current)
  BY <1>1, <1>3, NoLoop, ListingFacts DEF ModalInv, JobIsListed
<1> QED
  BY <1>1, <1>2, <1>3, <1>4 DEF ModalInv, JobIsListed, SizesAreOff

\* What it removes from is in the tree.
LEMMA FromIsReached ==
  ASSUME QueueInv, ModalInv, NEW w \in Workers, job[w].stage # "idle"
  PROVE  job[w].from # Root => Reached[job[w].from]
<1>1. /\ current \in Dirs /\ job[w].from \in Dirs
      /\ job[w].from = current \/ job[w].from \in files[current]
      /\ current # Root => Reached[current]
      /\ files[current] \subseteq Children(current)
  BY ModalJobFacts DEF ModalInv, QueueIsListed, QueueInv, TreeType, Listings
<1>2. CASE job[w].from = current
  BY <1>1, <1>2
<1>3. CASE job[w].from \in files[current]
  <2>1. job[w].from \in Entries /\ Parent[job[w].from] = current
    BY <1>1, <1>3, ListingFacts
  <2> QED
    BY <1>1, <1>3, <2>1, ReachedEquation
<1> QED
  BY <1>1, <1>2, <1>3

LEMMA ModalDequeueKeeps ==
  ASSUME QueueInv, ModalInv, NEW w \in Workers, Dequeue(w), ~inBackground
  PROVE  ModalInv'
<1>1. PICK r \in pending :
        /\ pending' = pending \ {r}
        /\ job' = [job EXCEPT ![w] =
                     Removal(r, IF r.action = "empty" THEN r.item ELSE current,
                                IF r.action = "empty" THEN files[r.item] ELSE {r.item})]
  BY DEF Dequeue
<1> DEFINE from == IF r.action = "empty" THEN r.item ELSE current
           todo == IF r.action = "empty" THEN files[r.item] ELSE {r.item}
           j == Removal(r, from, todo)
<1>2. /\ job[w].stage = "idle" /\ active' = active + 1 /\ Working = {}
      /\ UNCHANGED <<disk, files, size, uiVars, requested, failed>>
  BY DEF Dequeue, MayStart, NoJob
<1>3. /\ r.item \in Items /\ r.action \in Actions
      /\ r.action = "empty" => r.item \in Dirs
      /\ r.item \in files[current]
      /\ \A s \in pending' : s \in pending /\ s.item \in files[current] /\ s.item # r.item
  BY <1>1 DEF QueueInv, RequestType, ModalInv, QueueIsListed
<1>4. j.stage = "removing" /\ j.item = r.item /\ j.todo = todo /\ j.from = from
  BY DEF Removal
<1>5. /\ current \in Dirs
      /\ \A d \in Dirs : files[d] \subseteq Children(d) /\ files[d] \subseteq Entries
  BY DEF QueueInv, ScreenType, TreeType, Listings
<1>6. from \in Dirs /\ todo \in SUBSET Items /\ todo \subseteq files[from]
  BY <1>3, <1>5, ItemFacts
<1>7. \A s \in pending' : s.item \notin todo
  <2>1. CASE r.action # "empty"
    BY <1>3, <2>1
  <2>2. CASE r.action = "empty"
    BY <1>3, <1>5, <2>2, NoLoop, ListingFacts
  <2> QED
    BY <2>1, <2>2
<1>8. from = current \/ from \in files[current]
  BY <1>3
<1>9. j \in Jobs
  <2>2. Root \in Dirs /\ Root \in Items
    BY TreeAssumption, ItemFacts
  <2> HIDE DEF from, todo
  <2> QED
    BY <1>3, <1>6, <2>2 DEF Removal, Jobs, Stages
<1> HIDE DEF from, todo
<1>10. Consistent(j)
  BY <1>3, <1>4 DEF Consistent
<1>11. job' = [job EXCEPT ![w] = j]
  BY <1>1 DEF from, todo
<1> HIDE DEF j
<1>12. /\ Working' = {w} /\ job'[w] = j
       /\ \A v \in Workers : v # w => job'[v].stage = "idle" /\ job[v].stage = "idle"
       /\ UNCHANGED <<current, panicked, agreed>>
       /\ OneJob' /\ ScreenIsCurrent' /\ ~panicked'
  BY <1>1, <1>2, <1>4, <1>9, <1>10, <1>11, ModalWork
<1>13. QueueIsListed'
  <2>1. Reached' = Reached
    BY <1>2 DEF Reached
  <2> QED
    BY <1>2, <1>3, <1>12, <2>1 DEF QueueIsListed, ModalInv
<1>14. JobIsListed'
  BY <1>2, <1>4, <1>6, <1>7, <1>8, <1>12 DEF JobIsListed
<1>15. SizesAreOff'
  <2>1. \A d \in Dirs : size'[d] = Total(files', size', d) + 0
    BY <1>2, TotalType DEF ModalInv, SizesAreOff, QueueInv, TreeType
  <2> QED
    BY <1>4, <1>12, <2>1 DEF SizesAreOff, Off
<1>16. GoneIsUnlinked'
  <2>1. \A v \in Workers : job[v].stage # "unlinking"
    BY <1>2, <1>12
  <2> QED
    BY <1>2, <2>1 DEF GoneIsUnlinked, ModalInv
<1> QED
  BY <1>12, <1>13, <1>14, <1>15, <1>16 DEF ModalInv

LEMMA ModalRemoveKeeps ==
  ASSUME QueueInv, ModalInv, NEW w \in Workers, NEW e \in Items, RemoveFromDisk(w, e),
         ~inBackground
  PROVE  ModalInv'
<1> DEFINE j == [job[w] EXCEPT !.stage = "unlinking", !.now = e]
<1>1. /\ job[w].stage = "removing" /\ e \in job[w].todo
      /\ disk' = disk \ Below(e)
      /\ UNCHANGED <<files, size, uiVars, pending, active, requested, failed>>
  BY DEF RemoveFromDisk
<1>2. /\ Working = {w} /\ job[w] \in Jobs /\ Consistent(job[w])
      /\ job[w].from = current \/ job[w].from \in files[current]
      /\ \A r \in pending : r.item \notin job[w].todo
      /\ job[w].todo \subseteq files[job[w].from]
      /\ \A d \in Dirs : size[d] = Total(files, size, d) + Off(w, d)
  BY <1>1, ModalJobFacts
<1>3. /\ j \in Jobs /\ j.stage = "unlinking" /\ j.now = e /\ j.from = job[w].from
      /\ j.item = job[w].item /\ j.todo = job[w].todo
  BY <1>2 DEF Jobs, Stages
<1>4. job' = [job EXCEPT ![w] = j]
  BY DEF RemoveFromDisk
<1> HIDE DEF j
<1>5. Consistent(j)
  BY <1>1, <1>2, <1>3 DEF Consistent
<1>6. /\ Working' = {w} /\ job'[w] = j
      /\ \A v \in Workers : v # w => job'[v].stage = "idle" /\ job[v].stage = "idle"
      /\ UNCHANGED <<current, panicked, agreed>>
      /\ OneJob' /\ ScreenIsCurrent' /\ ~panicked'
  BY <1>1, <1>3, <1>4, <1>5, ModalWork
<1>7. QueueIsListed'
  <2>1. Reached' = Reached
    BY <1>1 DEF Reached
  <2> QED
    BY <1>1, <1>6, <2>1 DEF QueueIsListed, ModalInv
<1>8. JobIsListed'
  BY <1>1, <1>2, <1>3, <1>6 DEF JobIsListed
<1>9. SizesAreOff'
  <2>1. \A d \in Dirs : Off(w, d) = 0 /\ Off(w, d)' = 0
    BY <1>1, <1>3, <1>6 DEF Off
  <2> QED
    BY <1>1, <1>2, <1>6, <2>1 DEF SizesAreOff
<1>10. disk' = disk \ SubtreeOf[e] /\ e \in Entries
  <2>1. e \in Entries
    BY <1>1, <1>2 DEF QueueInv, TreeType, Listings, Jobs
  <2> QED
    BY <1>1, <2>1, ItemFacts
<1>11. GoneIsUnlinked'
  <2> SUFFICES ASSUME NEW x \in Entries, x \notin disk',
                      Parent[x] = Root \/ Parent[x] \in disk', x \in files[Parent[x]]
               PROVE  x = e
    BY <1>1, <1>3, <1>6 DEF GoneIsUnlinked
  <2>1. CASE x \in disk
    <3>1. x \in SubtreeOf[e]
      BY <1>10, <2>1
    <3> QED
      BY <1>10, <3>1, BelowFacts
  <2>2. CASE x \notin disk
    <3>1. Parent[x] = Root \/ Parent[x] \in disk
      BY <1>10
    <3>2. \A v \in Workers : job[v].stage # "unlinking"
      BY <1>1, <1>6
    <3> QED
      BY <2>2, <3>1, <3>2 DEF ModalInv, GoneIsUnlinked
  <2> QED
    BY <2>1, <2>2
<1> QED
  BY <1>6, <1>7, <1>8, <1>9, <1>11 DEF ModalInv

LEMMA ModalUnlinkKeeps ==
  ASSUME QueueInv, ModalInv, NEW w \in Workers, Unlink(w), ~inBackground
  PROVE  ModalInv'
<1> DEFINE j == [job[w] EXCEPT !.stage = "reading"]
           from == job[w].from
           now == job[w].now
<1>1. /\ job[w].stage = "unlinking"
      /\ files' = [files EXCEPT ![from] = @ \ {now}]
      /\ UNCHANGED <<disk, size, uiVars, pending, active, requested, failed>>
  BY DEF Unlink
<1>2. /\ Working = {w} /\ job[w] \in Jobs /\ Consistent(job[w])
      /\ current \in Dirs /\ from \in Dirs
      /\ from = current \/ (from \in files[current] /\ from # current)
      /\ \A r \in pending : r.item \notin job[w].todo
      /\ job[w].todo \subseteq files[from]
      /\ \A d \in Dirs : size[d] = Total(files, size, d) + Off(w, d)
  BY <1>1, ModalJobFacts
<1>3. /\ j \in Jobs /\ j.stage = "reading" /\ j.now = now /\ j.from = from
      /\ j.item = job[w].item /\ j.todo = job[w].todo
  BY <1>2 DEF Jobs, Stages
<1>4. job' = [job EXCEPT ![w] = j]
  BY DEF Unlink
<1> HIDE DEF j
<1>5. Consistent(j) /\ now \in job[w].todo
  BY <1>1, <1>2, <1>3 DEF Consistent
<1>6. /\ Working' = {w} /\ job'[w] = j
      /\ \A v \in Workers : v # w => job'[v].stage = "idle" /\ job[v].stage = "idle"
      /\ UNCHANGED <<current, panicked, agreed>>
      /\ OneJob' /\ ScreenIsCurrent' /\ ~panicked'
  BY <1>1, <1>3, <1>4, <1>5, ModalWork
<1>7. /\ Listings(files) /\ size \in [Dirs -> Int] /\ files \in [Dirs -> SUBSET Entries]
      /\ \A d \in Dirs : files[d] \subseteq Children(d)
  BY DEF QueueInv, TreeType, Listings
<1>8. /\ now \in Entries /\ now \in files[from] /\ Parent[now] = from
      /\ now \in Children(from)
  BY <1>2, <1>5, <1>7, ListingFacts
<1>10. from # Root => Reached[from]
  BY <1>1, FromIsReached
<1>11. Reached[now]
  BY <1>8, <1>10, ReachedEquation
<1>12. files' = [files EXCEPT ![Parent[now]] = @ \ {now}]
  BY <1>1, <1>8
<1>13. from # Root => Reached'[from]
  <2>1. IsFound(files, Reached) /\ IsFound(files', Reached')
    BY ReachedEquation
  <2> HIDE DEF now, from
  <2> QED
    BY <1>7, <1>8, <1>11, <1>12, <2>1, FoundWithoutItem
<1>14. current # Root => Reached'[current]
  <2>1. CASE from = current
    BY <1>13, <2>1
  <2>2. CASE from \in files[current] /\ from # current
    <3>1. from \in Entries /\ Parent[from] = current /\ from # Root
      BY <1>2, <1>7, <2>2, ListingFacts, TreeAssumption DEF Entries
    <3> QED
      BY <1>13, <3>1, ReachedEquation
  <2> QED
    BY <1>2, <2>1, <2>2
<1>15. QueueIsListed'
  <2>1. \A r \in pending : r.item \in files'[current]
    <3>1. \A r \in pending : r.item \in files[current] /\ r.item # now
      BY <1>2, <1>5 DEF ModalInv, QueueIsListed
    <3> QED
      BY <1>1, <1>2, <1>7, <3>1
  <2> QED
    BY <1>1, <1>6, <1>14, <2>1 DEF QueueIsListed, ModalInv
<1>16. JobIsListed'
  <2>1. /\ files'[from] = files[from] \ {now}
        /\ from # current => files'[current] = files[current]
    BY <1>1, <1>2, <1>7
  <2> QED
    BY <1>1, <1>2, <1>3, <1>6, <1>8, <2>1 DEF JobIsListed
<1>17. SizesAreOff'
  <2>1. \A d \in Dirs : Off(w, d) = 0
    BY <1>1 DEF Off
  <2>2. \A d \in Dirs : Off(w, d)' = IF d = from THEN SizeOf(now) ELSE 0
    BY <1>1, <1>3, <1>6 DEF Off, SizeOf
  <2>3. \A d \in Dirs : /\ Total(files, size, d) \in Int
                        /\ Total(files', size, d) = Total(files, size, d) - IF d = from THEN SizeOf(now) ELSE 0
    <3> HIDE DEF now, from
    <3> QED
      BY <1>7, <1>8, <1>12, TotalType, TotalUnlink DEF SizeOf
  <2>4. SizeOf(now) \in Int
    BY <1>7, <1>8, BytesAssumption DEF SizeOf, Entries
  <2>5. \A d \in Dirs : size'[d] = Total(files', size', d) + Off(w, d)'
    <3> TAKE d \in Dirs
    <3>1. size'[d] = Total(files, size, d) + 0 /\ Total(files', size', d) = Total(files', size, d)
      BY <1>1, <1>2, <2>1
    <3>2. Off(w, d)' = IF d = from THEN SizeOf(now) ELSE 0
      BY <2>2
    <3>3. /\ Total(files, size, d) \in Int
          /\ Total(files', size, d) = Total(files, size, d) - IF d = from THEN SizeOf(now) ELSE 0
      BY <2>3
    <3> QED
      BY <2>4, <3>1, <3>2, <3>3
  <2> QED
    BY <1>6, <2>5 DEF SizesAreOff
<1>18. GoneIsUnlinked'
  <2> SUFFICES ASSUME NEW x \in Entries, x \notin disk,
                      Parent[x] = Root \/ Parent[x] \in disk, x \in files'[Parent[x]]
               PROVE  FALSE
    BY <1>1 DEF GoneIsUnlinked
  <2>1. x \in files[Parent[x]] /\ x # now
    BY <1>1, <1>2, <1>7, <1>8
  <2>2. \A v \in Workers : job[v].stage = "unlinking" => v = w
    BY <1>6
  <2> QED
    BY <2>1, <2>2 DEF ModalInv, GoneIsUnlinked
<1> QED
  BY <1>6, <1>15, <1>16, <1>17, <1>18 DEF ModalInv

LEMMA ModalReadTotalsKeeps ==
  ASSUME QueueInv, ModalInv, NEW w \in Workers, ReadTotals(w), ~inBackground
  PROVE  ModalInv'
<1> DEFINE j == [job[w] EXCEPT !.stage = "subtracting", !.amount = SizeOf(job[w].now),
                               !.at = job[w].from]
           from == job[w].from
           now == job[w].now
<1>1. /\ job[w].stage = "reading"
      /\ UNCHANGED <<disk, files, size, uiVars, pending, active, requested, failed>>
  BY DEF ReadTotals
<1>2. /\ job[w] \in Jobs /\ Consistent(job[w])
      /\ now \in Dirs \cup Files
      /\ from = current \/ from \in files[current]
      /\ \A r \in pending : r.item \notin job[w].todo
      /\ \A e \in job[w].todo : e = now \/ e \in files[from]
      /\ now \in Children(from) /\ now \notin files[from]
      /\ \A d \in Dirs : size[d] = Total(files, size, d) + Off(w, d)
  BY <1>1, ModalJobFacts
<1>3. SizeOf(now) \in Int
  BY <1>2, BytesAssumption DEF SizeOf, QueueInv, TreeType
<1>4. /\ j \in Jobs /\ j.stage = "subtracting" /\ j.now = now /\ j.from = from
      /\ j.item = job[w].item /\ j.todo = job[w].todo /\ j.at = from /\ j.amount = SizeOf(now)
  BY <1>2, <1>3 DEF Jobs, Stages
<1>5. job' = [job EXCEPT ![w] = j]
  BY DEF ReadTotals
<1> HIDE DEF j
<1>6. Consistent(j)
  BY <1>1, <1>2, <1>4 DEF Consistent
<1>7. /\ Working' = {w} /\ job'[w] = j
      /\ \A v \in Workers : v # w => job'[v].stage = "idle" /\ job[v].stage = "idle"
      /\ UNCHANGED <<current, panicked, agreed>>
      /\ OneJob' /\ ScreenIsCurrent' /\ ~panicked'
  BY <1>1, <1>4, <1>5, <1>6, ModalWork
<1>8. Reached' = Reached
  BY <1>1 DEF Reached
<1>9. QueueIsListed'
  BY <1>1, <1>7, <1>8 DEF QueueIsListed, ModalInv
<1>10. JobIsListed'
  <2>1. from # Root => Reached[from]
    BY <1>1, FromIsReached
  <2> QED
    BY <1>1, <1>2, <1>4, <1>7, <1>8, <2>1 DEF JobIsListed
<1>11. SizesAreOff'
  <2>1. \A d \in Dirs : Off(w, d) = IF d = from THEN SizeOf(now) ELSE 0
    BY <1>1 DEF Off
  <2>2. \A d \in Dirs : Off(w, d)' = IF d = from THEN SizeOf(now) ELSE 0
    BY <1>1, <1>4, <1>7 DEF Off
  <2>3. \A d \in Dirs : size'[d] = Total(files', size', d) + Off(w, d)'
    BY <1>1, <1>2, <2>1, <2>2
  <2> QED
    BY <1>7, <2>3 DEF SizesAreOff
<1>12. GoneIsUnlinked'
  <2>1. \A v \in Workers : job[v].stage # "unlinking"
    BY <1>1, <1>7
  <2> QED
    BY <1>1, <2>1 DEF GoneIsUnlinked, ModalInv
<1> QED
  BY <1>7, <1>9, <1>10, <1>11, <1>12 DEF ModalInv

LEMMA ModalSubtractKeeps ==
  ASSUME QueueInv, ModalInv, NEW w \in Workers, Subtract(w), ~inBackground
  PROVE  ModalInv'
<1> DEFINE last == [job[w] EXCEPT !.stage = "removing", !.todo = @ \ {job[w].now}]
           up == [job[w] EXCEPT !.at = Parent[@]]
           j == IF job[w].at = Root THEN last ELSE up
           from == job[w].from
           now == job[w].now
           at == job[w].at
           amount == job[w].amount
<1>1. /\ job[w].stage = "subtracting"
      /\ size' = [size EXCEPT ![at] = @ - amount]
      /\ UNCHANGED <<disk, files, uiVars, pending, active, requested, failed>>
  BY DEF Subtract
<1>2. /\ job[w] \in Jobs /\ Consistent(job[w])
      /\ from = current \/ from \in files[current]
      /\ \A r \in pending : r.item \notin job[w].todo
      /\ \A e \in job[w].todo : e = now \/ e \in files[from]
      /\ now \in Children(from) /\ now \notin files[from]
      /\ at # Root => Reached[at]
      /\ \A d \in Dirs : size[d] = Total(files, size, d) + Off(w, d)
  BY <1>1, ModalJobFacts
<1>3. /\ last \in Jobs /\ last.stage = "removing" /\ last.from = from
      /\ last.todo = job[w].todo \ {now}
  BY <1>2 DEF Jobs, Stages
<1>4. at \in Dirs /\ amount \in Int
  BY <1>2 DEF Jobs
<1>5. at # Root => at \in Entries /\ Parent[at] \in Dirs /\ Parent[at] # at /\ at \in files[Parent[at]]
                   /\ (Parent[at] # Root => Reached[Parent[at]])
  <2> SUFFICES ASSUME at # Root
               PROVE  /\ at \in Entries /\ Parent[at] \in Dirs /\ Parent[at] # at
                      /\ at \in files[Parent[at]]
                      /\ Parent[at] # Root => Reached[Parent[at]]
    OBVIOUS
  <2>1. at \in Entries /\ Parent[at] \in Dirs /\ Parent[at] # at
    BY <1>4, ListingFacts, NoLoop
  <2> QED
    BY <1>2, <2>1, ReachedEquation
<1>6. at # Root => /\ up \in Jobs /\ up.stage = "subtracting" /\ up.from = from
                   /\ up.todo = job[w].todo /\ up.now = now
                   /\ up.at = Parent[at] /\ up.amount = amount
  BY <1>1, <1>2, <1>5 DEF Jobs
<1>7. job' = [job EXCEPT ![w] = j]
  BY DEF Subtract
<1>8. /\ j.item = job[w].item
      /\ at = Root => j = last
      /\ at # Root => j = up
  BY <1>2 DEF Jobs
<1> HIDE DEF last, up, j
<1>9. j \in Jobs /\ j.stage # "idle" /\ Consistent(j)
  BY <1>1, <1>2, <1>3, <1>6, <1>8 DEF Consistent
<1>10. /\ Working' = {w} /\ job'[w] = j
       /\ \A v \in Workers : v # w => job'[v].stage = "idle" /\ job[v].stage = "idle"
       /\ UNCHANGED <<current, panicked, agreed>>
       /\ OneJob' /\ ScreenIsCurrent' /\ ~panicked'
  BY <1>1, <1>7, <1>9, ModalWork
<1>11. Reached' = Reached
  BY <1>1 DEF Reached
<1>12. QueueIsListed'
  BY <1>1, <1>10, <1>11 DEF QueueIsListed, ModalInv
<1>13. JobIsListed'
  <2>1. CASE at = Root
    <3>1. j.stage = "removing" /\ j.from = from /\ j.todo = job[w].todo \ {now}
      BY <1>3, <1>8, <2>1
    <3> QED
      BY <1>1, <1>2, <1>10, <3>1 DEF JobIsListed
  <2>2. CASE at # Root
    <3>1. /\ j.stage = "subtracting" /\ j.from = from /\ j.todo = job[w].todo /\ j.now = now
          /\ j.at # Root => Reached[j.at]
      BY <1>5, <1>6, <1>8, <2>2
    <3> QED
      BY <1>1, <1>2, <1>10, <1>11, <3>1 DEF JobIsListed
  <2> QED
    BY <2>1, <2>2
<1>14. SizesAreOff'
  <2> SUFFICES ASSUME NEW d \in Dirs
               PROVE  size'[d] = Total(files, size', d) + Off(w, d)'
    BY <1>1, <1>10 DEF SizesAreOff
  <2>1. Off(w, d) = IF d = at THEN amount ELSE 0
    BY <1>1 DEF Off
  <2>2. Off(w, d)' = IF at # Root /\ d = Parent[at] THEN amount ELSE 0
    BY <1>3, <1>6, <1>8, <1>10 DEF Off
  <2>3. Listings(files) /\ size \in [Dirs -> Int]
    BY DEF QueueInv, TreeType
  <2>4. Total(files, size, d) \in Int
    BY <2>3, TotalType
  <2>5. Total(files, [size EXCEPT ![at] = @ - amount], d) =
          Total(files, size, d) - IF at # Root /\ d = Parent[at] THEN amount ELSE 0
    <3> HIDE DEF at, amount
    <3> QED
      BY <1>4, <1>5, <2>3, TotalSubtract
  <2>6. size'[d] = size[d] - IF d = at THEN amount ELSE 0
    BY <1>1, <1>4, <2>3
  <2>7. size[d] = Total(files, size, d) + Off(w, d)
    BY <1>2
  <2>8. Total(files, size', d) = Total(files, [size EXCEPT ![at] = @ - amount], d)
    BY <1>1
  <2> HIDE DEF at, amount
  <2> QED
    BY <1>4, <2>1, <2>2, <2>4, <2>5, <2>6, <2>7, <2>8
<1>15. GoneIsUnlinked'
  <2>1. \A v \in Workers : job[v].stage # "unlinking"
    BY <1>1, <1>10
  <2> QED
    BY <1>1, <2>1 DEF GoneIsUnlinked, ModalInv
<1> QED
  BY <1>10, <1>12, <1>13, <1>14, <1>15 DEF ModalInv

LEMMA ModalFinishKeeps ==
  ASSUME QueueInv, ModalInv, NEW w \in Workers, Finish(w), ~inBackground
  PROVE  ModalInv'
<1>1. /\ job[w].stage = "removing"
      /\ job' = [job EXCEPT ![w] = NoJob] /\ active' = active - 1
      /\ UNCHANGED <<disk, files, size, current, dialog, agreed, pending, requested>>
      /\ ~panicked'
      /\ pending = {} => rows' = RowsOf(files[current]) /\ marked' = {}
  BY DEF Finish, EndJob, finishRest, Refresh
<1>2. /\ Working = {w}
      /\ \A d \in Dirs : size[d] = Total(files, size, d) + Off(w, d)
  BY <1>1, ModalJobFacts
<1>3. JobType
  BY DEF QueueInv
<1>4. Working' = {} /\ \A v \in Workers : v # w => job'[v] = job[v]
  BY <1>1, <1>2, <1>3, RestFacts, JobMoves
<1>5. OneJob' /\ JobIsListed'
  BY <1>4 DEF OneJob, JobIsListed
<1>6. QueueIsListed'
  <2>1. Reached' = Reached
    BY <1>1 DEF Reached
  <2> QED
    BY <1>1, <2>1 DEF QueueIsListed, ModalInv
<1>7. ScreenIsCurrent'
  <2>1. dialog = NoDialog
    BY <1>2 DEF Quiet, ModalInv, ScreenIsCurrent
  <2> QED
    BY <1>1, <2>1 DEF ScreenIsCurrent, Quiet
<1>8. SizesAreOff'
  <2>1. \A d \in Dirs : Off(w, d) = 0 /\ Total(files, size, d) \in Int
    BY <1>1, TotalType DEF Off, QueueInv, TreeType
  <2> QED
    BY <1>1, <1>2, <1>4, <2>1 DEF SizesAreOff
<1>9. GoneIsUnlinked'
  <2>1. \A v \in Workers : job[v].stage # "unlinking"
    BY <1>1, <1>2, <1>3, WorkingFacts
  <2> QED
    BY <1>1, <2>1 DEF GoneIsUnlinked, ModalInv
<1> QED
  BY <1>1, <1>5, <1>6, <1>7, <1>8, <1>9 DEF ModalInv

-----------------------------------------------------------------------------
(* The results *)

LEMMA InvKeeps ==
  ASSUME DeleteInv, [Next]_vars
  PROVE  DeleteInv'
<1>1. QueueInv /\ QueueInv'
  BY QueueKeeps DEF DeleteInv
<1> SUFFICES ASSUME ~inBackground', ~failed' PROVE ModalInv'
  BY <1>1 DEF DeleteInv
<1>2. CASE UNCHANGED vars
  <2>1. ~inBackground /\ ~failed /\ ModalInv
    BY <1>2 DEF vars, DeleteInv
  <2>2. Working' = Working /\ Reached' = Reached
    BY <1>2 DEF vars, Working, Reached
  <2> QED
    BY <1>2, <2>1, <2>2
       DEF vars, uiVars, ModalInv, OneJob, ScreenIsCurrent, Quiet, QueueIsListed, JobIsListed,
           SizesAreOff, Off, SizeOf, GoneIsUnlinked
<1>3. CASE User
  <2>1. ~inBackground /\ ~failed
    BY <1>3 DEF User, Mark, Refuse, Confirm, Navigate, MoveCursor, Ask, worldVars
  <2>2. ModalInv
    BY <2>1 DEF DeleteInv
  <2> QED
    BY <1>1, <1>3, <2>1, <2>2, ModalBrowseKeeps, ModalConfirmKeeps DEF User
<1>4. ASSUME NEW w \in Workers, Worker(w) PROVE ModalInv'
  <2>1. ~inBackground /\ ~failed
    BY <1>4 DEF Worker, Dequeue, Unlink, ReadTotals, Subtract, Finish, finishRest, RemoveFromDisk,
                Fail, FailOnDisk
  <2>2. ModalInv
    BY <2>1 DEF DeleteInv
  <2>3. \A e \in Items : ~Fail(w, e)
    BY DEF Fail, FailOnDisk
  <2> QED
    BY <1>1, <1>4, <2>1, <2>2, <2>3, ModalDequeueKeeps, ModalRemoveKeeps, ModalUnlinkKeeps,
       ModalReadTotalsKeeps, ModalSubtractKeeps, ModalFinishKeeps DEF Worker
<1> QED
  BY <1>2, <1>3, <1>4 DEF Next

\* Deleting keeps the invariant, whatever the tree, the number of workers and
\* of requests, and in both modes.
THEOREM DeleteIsSound == Spec => []DeleteInv
<1>1. Init => DeleteInv
  BY QueueStarts, ModalStarts DEF DeleteInv
<1>2. DeleteInv /\ [Next]_vars => DeleteInv'
  BY InvKeeps
<1> QED
  BY <1>1, <1>2, PTL DEF Spec

\* What is still on disk is still shown where it is, in both modes and whatever
\* fails: the interface unlinks an item after it removed it.
THEOREM NothingIsHidden == Spec => []NothingHidden
<1>1. ASSUME DeleteInv PROVE NothingHidden
  <2>1. TreeType /\ JobType /\ ScreenType /\ OnDiskIsListed
    BY <1>1 DEF DeleteInv, QueueInv
  <2>2. \A w \in Working : job[w].from \in Dirs /\ job[w].todo \subseteq Items
    BY <2>1, WorkingFacts DEF JobType, Jobs
  <2>3. TypeOK
    BY <2>1, <2>2 DEF TypeOK, TreeType, Listings, JobType, ScreenType
  <2> QED
    BY <2>1, <2>3 DEF NothingHidden, OnDiskIsListed
<1> QED
  BY <1>1, DeleteIsSound, PTL

\* Nothing leaves the disk that does not lie at or below an item that was queued
\* when a dialog was confirmed, in both modes, whatever fails and whatever the
\* workers do at the same time.  That the dialog named the item is not said: in
\* the background it may be another row, or the directory above.
THEOREM OnlyRequestedLeaves == Spec => []OnlyRequestedIsGone
<1>1. DeleteInv => OnlyRequestedIsGone
  BY DEF DeleteInv, QueueInv
<1> QED
  BY <1>1, DeleteIsSound, PTL

\* Until a deletion behind the modal fails, the size of every directory is the
\* sum of what it lists, and 512 more if the scan found it empty, whenever
\* nothing is being deleted.
THEOREM SizesStaySums == Spec => []SizesMatchUntilFailure
<1>1. ASSUME DeleteInv PROVE SizesMatchUntilFailure
  <2> SUFFICES ASSUME ~inBackground, ~failed, Quiet, NEW d \in Dirs
               PROVE  size[d] = EmptySize(d) + SumOver([e \in files[d] |-> SizeOf(e)], files[d])
    BY DEF SizesMatchUntilFailure, SizesMatchTree
  <2>1. size[d] = Total(files, size, d)
    BY <1>1 DEF DeleteInv, ModalInv, SizesAreOff, Quiet
  <2> QED
    BY <2>1 DEF Total, Listed, SizeOf
<1> QED
  BY <1>1, DeleteIsSound, PTL

\* Behind the modal, until a deletion fails, what left the disk has left its
\* directory when the user gets the keys back, and nobody panics.
THEOREM ModalKeepsTheTree == Spec => []ModalKeepsTree
<1>1. ASSUME DeleteInv PROVE ModalKeepsTree
  <2> SUFFICES ASSUME ~inBackground, ~failed
               PROVE  DeletedIsUnlinked /\ ~panicked
    BY DEF ModalKeepsTree, DeletedIsUnlinked
  <2>1. ModalInv /\ JobType
    BY <1>1 DEF DeleteInv, QueueInv
  <2>2. Quiet => \A w \in Workers : job[w].stage # "unlinking"
    BY <2>1, WorkingFacts DEF Quiet
  <2> QED
    BY <2>1, <2>2 DEF ModalInv, GoneIsUnlinked, DeletedIsUnlinked
<1> QED
  BY <1>1, DeleteIsSound, PTL

\* Behind the modal, until a deletion fails, only items the user marked or was
\* asked about are requested: the table cannot change between the question and
\* the answer.
THEOREM AgreedItemsOnly == Spec => AgreedUntilFailure
<1> DEFINE Agreed == \A e \in Items :
             ~inBackground /\ ~failed /\ requested'[e] > requested[e] => e \in agreed
<1>1. ASSUME DeleteInv, [Next]_vars PROVE Agreed
  <2> SUFFICES ASSUME NEW e \in Items, ~inBackground, ~failed, requested'[e] > requested[e]
               PROVE  e \in agreed
    OBVIOUS
  <2>1. QueueInv /\ ModalInv /\ RequestType /\ TreeType /\ ScreenType
    BY <1>1 DEF DeleteInv, QueueInv
  <2>2. requested[e] \in Nat
    BY <2>1 DEF RequestType
  <2>3. CASE requested' = requested
    BY <2>2, <2>3
  <2>4. CASE Confirm
    <3>1. PICK items \in SUBSET (files[current] \cap agreed) :
            \E action \in Actions : Request(items, action)
      BY <2>1, <2>4, ModalConfirmFacts
    <3>2. PICK action \in Actions : Request(items, action)
      BY <3>1
    <3>3. items \in SUBSET Items
      BY <2>1, ItemFacts DEF ScreenType
    <3>4. requested'[e] = IF e \in items THEN requested[e] + 1 ELSE requested[e]
      BY <2>1, <3>2, <3>3, RequestFacts
    <3> QED
      BY <2>2, <3>4
  <2>5. requested' = requested \/ Confirm
    BY <1>1 DEF Next, User, Worker, Mark, Refuse, Navigate, MoveCursor, Ask, worldVars, Dequeue,
                Unlink, ReadTotals, Subtract, Finish, finishRest, RemoveFromDisk, Fail, vars
  <2> QED
    BY <2>3, <2>4, <2>5
<1>2. [][Agreed]_vars => AgreedUntilFailure
  BY DEF AgreedUntilFailure
<1> HIDE DEF Agreed
<1> QED
  BY <1>1, <1>2, DeleteIsSound, PTL DEF Spec
=============================================================================
