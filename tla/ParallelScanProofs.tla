------------------------- MODULE ParallelScanProofs -------------------------
(***************************************************************************)
(* Proofs about ParallelScan for every tree and every number of slots: the   *)
(* inductive invariant IInv, the safety properties the runs check, and the   *)
(* implementation of ScanContract.  One lemma per action shows that the       *)
(* action keeps IInv: first the action's guards and its effect point by point, *)
(* then the conjuncts of IInv from those facts alone.                         *)
(***************************************************************************)
EXTENDS ParallelScan, FiniteSetTheorems, TLAPS

\* The root and the sub-directories as directories and as entries.
LEMMA DirFacts ==
  /\ Root \in Dirs /\ Root \notin SubDirs /\ Root \notin Entries
  /\ \A d \in SubDirs : d \in Dirs /\ d \in Entries /\ d # Root /\ Parent[d] \in Dirs
  /\ \A d \in Dirs : d # Root => d \in SubDirs
  BY TreeAssumption DEF SubDirs, Entries

\* Listings and parents agree.
LEMMA EntryFacts ==
  /\ \A e \in Entries : Parent[e] \in Dirs /\ e \in Children(Parent[e])
  /\ \A d \in Dirs : \A e \in Children(d) : e \in Entries /\ Parent[e] = d
  /\ \A e \in Files : e \notin Dirs
  BY TreeAssumption DEF SubDirs, Entries, Children

\* Sets of directories can be counted.
LEMMA FiniteDirs ==
  ASSUME NEW S \in SUBSET Dirs
  PROVE  IsFiniteSet(S) /\ Cardinality(S) \in Nat
  BY TreeAssumption, FS_Subset, FS_CardinalityType

\* A subset of a set that fits the semaphore fits it.
LEMMA SmallerSet ==
  ASSUME NEW T \in SUBSET Dirs, NEW S \in SUBSET T, Cardinality(T) <= Slots
  PROVE  Cardinality(S) <= Slots
<1>1. IsFiniteSet(T) /\ Cardinality(T) \in Nat
  BY FiniteDirs
<1>2. Cardinality(S) <= Cardinality(T) /\ Cardinality(S) \in Nat
  BY <1>1, FS_Subset, FS_CardinalityType
<1> QED
  BY <1>1, <1>2, SlotsAssumption

\* AnalyzeDir starts: the root's worker is about to open its directory.
LEMMA StartPreserves ==
  ASSUME IInv, Start
  PROVE  IInv'
<1>0. TypeOK /\ RootInv /\ ProcInv /\ SlotInv /\ AwaitedInv /\ OwedInv
      /\ TodoInv /\ FilesInv /\ LinkInv /\ WaitInv /\ LossInv /\ LateInv
  BY DEF IInv
<1>1. /\ main = "idle"
  BY DEF Start
<1>2. main' = "scanning"
  BY <1>0 DEF TypeOK, Start
<1>3. \A x \in Dirs : worker'[x] = IF x = Root THEN "entering" ELSE worker[x]
  BY <1>0 DEF TypeOK, Start
<1>4. progress' = "running"
  BY <1>0 DEF TypeOK, Start
<1>5. UNCHANGED <<proc, todo, owed, files, flag, holders, cancelled, update,
   late, waitValue, waitLocked>>
  BY DEF Start, scanVars, waitVars
<1>6. TypeOK'
  BY <1>0, DirFacts DEF TypeOK, MainStates, WorkerStates, ProcStates,
     WaitTypeOK, Start, scanVars, waitVars
<1>7. RootInv'
  BY <1>0, <1>1, <1>2, <1>3, <1>5, DirFacts DEF RootInv
<1>8. ProcInv'
  BY <1>0, <1>1, <1>3, <1>5, DirFacts DEF ProcInv, RootInv
<1>9. SlotInv'
  BY <1>0, <1>1, <1>3, <1>5, DirFacts DEF SlotInv, Holding
<1>10. AwaitedInv'
  BY <1>0, <1>1, <1>3, <1>5, DirFacts DEF AwaitedInv, RootInv
<1>11. OwedInv'
  BY <1>0, <1>5 DEF OwedInv
<1>12. TodoInv'
  BY <1>0, <1>1, <1>3, <1>5, DirFacts DEF TodoInv, ProcInv, RootInv
<1>13. FilesInv'
  BY <1>0, <1>5 DEF FilesInv
<1>14. LinkInv'
  BY <1>0, <1>1, <1>3, <1>5, DirFacts DEF LinkInv
<1>15. WaitInv'
  BY <1>0, <1>1, <1>2, <1>5 DEF WaitInv, Live, Handover
<1>16. LossInv'
  BY <1>0, <1>1, <1>3, <1>5 DEF LossInv
<1>17. LateInv'

  <2>1. Entering' = Entering
    BY <1>0, <1>1, <1>3, <1>5, DirFacts DEF Entering
  <2> QED
    BY <1>0, <1>1, <1>3, <1>5, <2>1 DEF LateInv
<1> QED
  BY <1>6, <1>7, <1>8, <1>9, <1>10, <1>11, <1>12, <1>13, <1>14, <1>15, <1>16,
     <1>17 DEF IInv

\* setCurrentDir touches nothing the invariant speaks of but main.
LEMMA PublishPreserves ==
  ASSUME IInv, Publish
  PROVE  IInv'
<1>0. TypeOK /\ RootInv /\ ProcInv /\ SlotInv /\ AwaitedInv /\ OwedInv
      /\ TodoInv /\ FilesInv /\ LinkInv /\ WaitInv /\ LossInv /\ LateInv
  BY DEF IInv
<1>1. /\ main = "publishing"
  BY DEF Publish
<1>2. main' = "waiting"
  BY <1>0 DEF TypeOK, Publish
<1>3. UNCHANGED <<worker, proc, todo, owed, files, flag, holders, cancelled,
   progress, update, late, waitValue, waitLocked>>
  BY DEF Publish, scanVars, waitVars
<1>4. TypeOK'
  BY <1>0, DirFacts DEF TypeOK, MainStates, WorkerStates, ProcStates,
     WaitTypeOK, Publish, scanVars, waitVars
<1>5. RootInv'
  BY <1>0, <1>1, <1>2, <1>3, DirFacts DEF RootInv
<1>6. ProcInv'
  BY <1>0, <1>3 DEF ProcInv
<1>7. SlotInv'
  BY <1>0, <1>3 DEF SlotInv, Holding
<1>8. AwaitedInv'
  BY <1>0, <1>3 DEF AwaitedInv
<1>9. OwedInv'
  BY <1>0, <1>3 DEF OwedInv
<1>10. TodoInv'
  BY <1>0, <1>3 DEF TodoInv
<1>11. FilesInv'
  BY <1>0, <1>3 DEF FilesInv
<1>12. LinkInv'
  BY <1>0, <1>3 DEF LinkInv
<1>13. WaitInv'
  BY <1>0, <1>1, <1>2, <1>3 DEF WaitInv, Live, Handover
<1>14. LossInv'
  BY <1>0, <1>3 DEF LossInv
<1>15. LateInv'
  BY <1>0, <1>3 DEF LateInv, Entering
<1> QED
  BY <1>4, <1>5, <1>6, <1>7, <1>8, <1>9, <1>10, <1>11, <1>12, <1>13, <1>14,
     <1>15 DEF IInv

\* The progress rendezvous.
LEMMA StopProgressPreserves ==
  ASSUME IInv, StopProgress
  PROVE  IInv'
<1>0. TypeOK /\ RootInv /\ ProcInv /\ SlotInv /\ AwaitedInv /\ OwedInv
      /\ TodoInv /\ FilesInv /\ LinkInv /\ WaitInv /\ LossInv /\ LateInv
  BY DEF IInv
<1>1. /\ main = "stopping"
  BY DEF StopProgress
<1>2. main' = "broadcasting"
  BY <1>0 DEF TypeOK, StopProgress
<1>3. progress' = "off"
  BY <1>0 DEF TypeOK, StopProgress
<1>4. UNCHANGED <<worker, proc, todo, owed, files, flag, holders, cancelled,
   update, late, waitValue, waitLocked>>
  BY DEF StopProgress, scanVars, waitVars
<1>5. TypeOK'
  BY <1>0, DirFacts DEF TypeOK, MainStates, WorkerStates, ProcStates,
     WaitTypeOK, StopProgress, scanVars, waitVars
<1>6. RootInv'
  BY <1>0, <1>1, <1>2, <1>4, DirFacts DEF RootInv
<1>7. ProcInv'
  BY <1>0, <1>4 DEF ProcInv
<1>8. SlotInv'
  BY <1>0, <1>4 DEF SlotInv, Holding
<1>9. AwaitedInv'
  BY <1>0, <1>4 DEF AwaitedInv
<1>10. OwedInv'
  BY <1>0, <1>4 DEF OwedInv
<1>11. TodoInv'
  BY <1>0, <1>4 DEF TodoInv
<1>12. FilesInv'
  BY <1>0, <1>4 DEF FilesInv
<1>13. LinkInv'
  BY <1>0, <1>4 DEF LinkInv
<1>14. WaitInv'
  BY <1>0, <1>1, <1>2, <1>4 DEF WaitInv, Live, Handover
<1>15. LossInv'
  BY <1>0, <1>4 DEF LossInv
<1>16. LateInv'
  BY <1>0, <1>4 DEF LateInv, Entering
<1> QED
  BY <1>5, <1>6, <1>7, <1>8, <1>9, <1>10, <1>11, <1>12, <1>13, <1>14, <1>15,
     <1>16 DEF IInv

\* The broadcast.
LEMMA ReturnPreserves ==
  ASSUME IInv, Return
  PROVE  IInv'
<1>0. TypeOK /\ RootInv /\ ProcInv /\ SlotInv /\ AwaitedInv /\ OwedInv
      /\ TodoInv /\ FilesInv /\ LinkInv /\ WaitInv /\ LossInv /\ LateInv
  BY DEF IInv
<1>1. /\ main = "broadcasting"
  BY DEF Return
<1>2. main' = "returned"
  BY <1>0 DEF TypeOK, Return
<1>3. UNCHANGED <<worker, proc, todo, owed, files, flag, holders, cancelled,
   progress, update, late, waitValue, waitLocked>>
  BY DEF Return, scanVars, waitVars
<1>4. TypeOK'
  BY <1>0, DirFacts DEF TypeOK, MainStates, WorkerStates, ProcStates,
     WaitTypeOK, Return, scanVars, waitVars
<1>5. RootInv'
  BY <1>0, <1>1, <1>2, <1>3, DirFacts DEF RootInv
<1>6. ProcInv'
  BY <1>0, <1>3 DEF ProcInv
<1>7. SlotInv'
  BY <1>0, <1>3 DEF SlotInv, Holding
<1>8. AwaitedInv'
  BY <1>0, <1>3 DEF AwaitedInv
<1>9. OwedInv'
  BY <1>0, <1>3 DEF OwedInv
<1>10. TodoInv'
  BY <1>0, <1>3 DEF TodoInv
<1>11. FilesInv'
  BY <1>0, <1>3 DEF FilesInv
<1>12. LinkInv'
  BY <1>0, <1>3 DEF LinkInv
<1>13. WaitInv'
  BY <1>0, <1>1, <1>2, <1>3 DEF WaitInv, Live, Handover
<1>14. LossInv'
  BY <1>0, <1>3 DEF LossInv
<1>15. LateInv'
  BY <1>0, <1>3 DEF LateInv, Entering
<1> QED
  BY <1>4, <1>5, <1>6, <1>7, <1>8, <1>9, <1>10, <1>11, <1>12, <1>13, <1>14,
     <1>15 DEF IInv

\* A progress update.
LEMMA TickPreserves ==
  ASSUME IInv, Tick
  PROVE  IInv'
<1>0. TypeOK /\ RootInv /\ ProcInv /\ SlotInv /\ AwaitedInv /\ OwedInv
      /\ TodoInv /\ FilesInv /\ LinkInv /\ WaitInv /\ LossInv /\ LateInv
  BY DEF IInv
<1>1. update' = TRUE
  BY <1>0 DEF TypeOK, Tick
<1>2. UNCHANGED <<main, worker, proc, todo, owed, files, flag, holders,
   cancelled, progress, late, waitValue, waitLocked>>
  BY DEF Tick, scanVars, waitVars
<1>3. TypeOK'
  BY <1>0, DirFacts DEF TypeOK, MainStates, WorkerStates, ProcStates,
     WaitTypeOK, Tick, scanVars, waitVars
<1>4. RootInv'
  BY <1>0, <1>2 DEF RootInv
<1>5. ProcInv'
  BY <1>0, <1>2 DEF ProcInv
<1>6. SlotInv'
  BY <1>0, <1>2 DEF SlotInv, Holding
<1>7. AwaitedInv'
  BY <1>0, <1>2 DEF AwaitedInv
<1>8. OwedInv'
  BY <1>0, <1>2 DEF OwedInv
<1>9. TodoInv'
  BY <1>0, <1>2 DEF TodoInv
<1>10. FilesInv'
  BY <1>0, <1>2 DEF FilesInv
<1>11. LinkInv'
  BY <1>0, <1>2 DEF LinkInv
<1>12. WaitInv'
  BY <1>0, <1>2 DEF WaitInv, Live, Handover
<1>13. LossInv'
  BY <1>0, <1>2 DEF LossInv
<1>14. LateInv'
  BY <1>0, <1>2 DEF LateInv, Entering
<1> QED
  BY <1>3, <1>4, <1>5, <1>6, <1>7, <1>8, <1>9, <1>10, <1>11, <1>12, <1>13,
     <1>14 DEF IInv

\* The interface reads an update.
LEMMA ReadProgressPreserves ==
  ASSUME IInv, ReadProgress
  PROVE  IInv'
<1>0. TypeOK /\ RootInv /\ ProcInv /\ SlotInv /\ AwaitedInv /\ OwedInv
      /\ TodoInv /\ FilesInv /\ LinkInv /\ WaitInv /\ LossInv /\ LateInv
  BY DEF IInv
<1>1. update' = FALSE
  BY <1>0 DEF TypeOK, ReadProgress
<1>2. UNCHANGED <<main, worker, proc, todo, owed, files, flag, holders,
   cancelled, progress, late, waitValue, waitLocked>>
  BY DEF ReadProgress, scanVars, waitVars
<1>3. TypeOK'
  BY <1>0, DirFacts DEF TypeOK, MainStates, WorkerStates, ProcStates,
     WaitTypeOK, ReadProgress, scanVars, waitVars
<1>4. RootInv'
  BY <1>0, <1>2 DEF RootInv
<1>5. ProcInv'
  BY <1>0, <1>2 DEF ProcInv
<1>6. SlotInv'
  BY <1>0, <1>2 DEF SlotInv, Holding
<1>7. AwaitedInv'
  BY <1>0, <1>2 DEF AwaitedInv
<1>8. OwedInv'
  BY <1>0, <1>2 DEF OwedInv
<1>9. TodoInv'
  BY <1>0, <1>2 DEF TodoInv
<1>10. FilesInv'
  BY <1>0, <1>2 DEF FilesInv
<1>11. LinkInv'
  BY <1>0, <1>2 DEF LinkInv
<1>12. WaitInv'
  BY <1>0, <1>2 DEF WaitInv, Live, Handover
<1>13. LossInv'
  BY <1>0, <1>2 DEF LossInv
<1>14. LateInv'
  BY <1>0, <1>2 DEF LateInv, Entering
<1> QED
  BY <1>3, <1>4, <1>5, <1>6, <1>7, <1>8, <1>9, <1>10, <1>11, <1>12, <1>13,
     <1>14 DEF IInv

\* A cancel: the workers already entering hold slots, so they are few.
LEMMA CancelPreserves ==
  ASSUME IInv, Cancel
  PROVE  IInv'
<1>0. TypeOK /\ RootInv /\ ProcInv /\ SlotInv /\ AwaitedInv /\ OwedInv
      /\ TodoInv /\ FilesInv /\ LinkInv /\ WaitInv /\ LossInv /\ LateInv
  BY DEF IInv
<1>1. cancelled' = TRUE
  BY <1>0 DEF TypeOK, Cancel
<1>2. UNCHANGED <<main, worker, proc, todo, owed, files, flag, holders,
   progress, update, late, waitValue, waitLocked>>
  BY DEF Cancel, scanVars, waitVars
<1>3. TypeOK'
  BY <1>0, DirFacts DEF TypeOK, MainStates, WorkerStates, ProcStates,
     WaitTypeOK, Cancel, scanVars, waitVars
<1>4. RootInv'
  BY <1>0, <1>2 DEF RootInv
<1>5. ProcInv'
  BY <1>0, <1>2 DEF ProcInv
<1>6. SlotInv'
  BY <1>0, <1>2 DEF SlotInv, Holding
<1>7. AwaitedInv'
  BY <1>0, <1>2 DEF AwaitedInv
<1>8. OwedInv'
  BY <1>0, <1>2 DEF OwedInv
<1>9. TodoInv'
  BY <1>0, <1>2 DEF TodoInv
<1>10. FilesInv'
  BY <1>0, <1>2 DEF FilesInv
<1>11. LinkInv'
  BY <1>0, <1>2 DEF LinkInv
<1>12. WaitInv'
  BY <1>0, <1>2 DEF WaitInv, Live, Handover
<1>13. LossInv'
  BY <1>0, <1>1, <1>2 DEF LossInv
<1>14. LateInv'
  BY <1>0, <1>1, <1>2, DirFacts DEF LateInv, Entering, SlotInv
<1> QED
  BY <1>3, <1>4, <1>5, <1>6, <1>7, <1>8, <1>9, <1>10, <1>11, <1>12, <1>13,
     <1>14 DEF IInv

\* The look at the cancel flag: nobody enters after a cancel.
LEMMA CheckCancelledPreserves ==
  ASSUME IInv, NEW d \in Dirs, CheckCancelled(d)
  PROVE  IInv'
<1>0. TypeOK /\ RootInv /\ ProcInv /\ SlotInv /\ AwaitedInv /\ OwedInv
      /\ TodoInv /\ FilesInv /\ LinkInv /\ WaitInv /\ LossInv /\ LateInv
  BY DEF IInv
<1>1. /\ worker[d] = "admitted"
  BY DEF CheckCancelled
<1>2. \A x \in Dirs : worker'[x] = IF x = d THEN IF cancelled THEN "refused" ELSE "entering" ELSE worker[x]
  BY <1>0 DEF TypeOK, CheckCancelled
<1>3. UNCHANGED <<main, proc, todo, owed, files, flag, holders, cancelled,
   progress, update, late, waitValue, waitLocked>>
  BY DEF CheckCancelled, scanVars, waitVars
<1>4. TypeOK'
  BY <1>0, DirFacts DEF TypeOK, MainStates, WorkerStates, ProcStates,
     WaitTypeOK, CheckCancelled, scanVars, waitVars
<1>5. RootInv'
  BY <1>0, <1>1, <1>2, <1>3, DirFacts DEF RootInv
<1>6. ProcInv'
  BY <1>0, <1>1, <1>2, <1>3 DEF ProcInv
<1>7. SlotInv'
  BY <1>0, <1>1, <1>2, <1>3, DirFacts DEF SlotInv, Holding
<1>8. AwaitedInv'
  BY <1>0, <1>1, <1>2, <1>3, DirFacts DEF AwaitedInv
<1>9. OwedInv'
  BY <1>0, <1>3 DEF OwedInv
<1>10. TodoInv'
  BY <1>0, <1>1, <1>2, <1>3 DEF TodoInv
<1>11. FilesInv'
  BY <1>0, <1>3 DEF FilesInv
<1>12. LinkInv'
  BY <1>0, <1>1, <1>2, <1>3, DirFacts DEF LinkInv
<1>13. WaitInv'
  BY <1>0, <1>3 DEF WaitInv, Live, Handover
<1>14. LossInv'
  BY <1>0, <1>1, <1>2, <1>3 DEF LossInv
<1>15. LateInv'

  <2>1. CASE cancelled
    <3>1. Entering' = Entering
      BY <1>0, <1>1, <1>2, <1>3, <2>1, DirFacts DEF Entering
    <3> QED
      BY <1>0, <1>1, <1>2, <1>3, <3>1 DEF LateInv
  <2>2. CASE ~cancelled
    <3>1. Entering' \subseteq holders
      BY <1>0, <1>1, <1>2, <1>3, <2>2, DirFacts DEF Entering, SlotInv, Holding
    <3>2. ((late \ {Root}) \cup Entering)' \subseteq holders /\ late' = {}
      BY <1>0, <1>1, <1>2, <1>3, <2>2, <3>1 DEF LateInv
    <3>3. holders \in SUBSET Dirs /\ Cardinality(holders) <= Slots
      BY <1>0, DirFacts DEF TypeOK, SlotInv
    <3> QED
      BY <3>2, <3>3, SmallerSet DEF LateInv
  <2> QED
    BY <2>1, <2>2
<1> QED
  BY <1>4, <1>5, <1>6, <1>7, <1>8, <1>9, <1>10, <1>11, <1>12, <1>13, <1>14,
     <1>15 DEF IInv

\* A slot is taken while fewer than Slots are held.
LEMMA AcquirePreserves ==
  ASSUME IInv, NEW d \in Dirs, Acquire(d)
  PROVE  IInv'
<1>0. TypeOK /\ RootInv /\ ProcInv /\ SlotInv /\ AwaitedInv /\ OwedInv
      /\ TodoInv /\ FilesInv /\ LinkInv /\ WaitInv /\ LossInv /\ LateInv
  BY DEF IInv
<1>1. /\ worker[d] = "queued"
      /\ Cardinality(holders) < Slots
  BY DEF Acquire
<1>2. d \in SubDirs
  BY <1>1, <1>0, DirFacts DEF RootInv
<1>3. \A x \in Dirs : worker'[x] = IF x = d THEN "admitted" ELSE worker[x]
  BY <1>0 DEF TypeOK, Acquire
<1>4. holders' = holders \cup {d}
  BY <1>0 DEF TypeOK, Acquire
<1>5. UNCHANGED <<main, proc, todo, owed, files, flag, cancelled, progress,
   update, late, waitValue, waitLocked>>
  BY DEF Acquire, scanVars, waitVars
<1>6. TypeOK'

  <2>1. worker' \in [Dirs -> WorkerStates]
    BY <1>0 DEF TypeOK, Acquire, WorkerStates
  <2>2. holders' \subseteq SubDirs
    BY <1>0, <1>1, <1>2, <1>3, <1>4, <1>5 DEF TypeOK
  <2> QED
    BY <1>0, <1>1, <1>2, <1>3, <1>4, <1>5, <2>1, <2>2 DEF TypeOK, WaitTypeOK
<1>7. RootInv'
  BY <1>0, <1>1, <1>2, <1>3, <1>5, DirFacts DEF RootInv
<1>8. ProcInv'
  BY <1>0, <1>1, <1>2, <1>3, <1>5 DEF ProcInv
<1>9. SlotInv'

  <2>1. \A x \in SubDirs : x \in holders' <=> worker'[x] \in Holding
    BY <1>0, <1>1, <1>2, <1>3, <1>4, <1>5, DirFacts DEF SlotInv, Holding
  <2>2. holders \in SUBSET Dirs
    BY <1>0, DirFacts DEF TypeOK
  <2>3. IsFiniteSet(holders) /\ Cardinality(holders) \in Nat
    BY <2>2, FiniteDirs
  <2>4. Cardinality(holders') <= Slots
    <3>1. Cardinality(holders') = IF d \in holders THEN Cardinality(holders)
                                ELSE Cardinality(holders) + 1
      BY <1>0, <1>1, <1>2, <1>3, <1>4, <1>5, <2>3, FS_AddElement
    <3>2. Cardinality(holders) < Slots
      BY <1>0, <1>1, <1>2, <1>3, <1>4, <1>5
    <3> QED
      BY <3>1, <3>2, <2>3, SlotsAssumption
  <2> QED
    BY <2>1, <2>4 DEF SlotInv
<1>10. AwaitedInv'
  BY <1>0, <1>1, <1>2, <1>3, <1>5, DirFacts DEF AwaitedInv
<1>11. OwedInv'
  BY <1>0, <1>5 DEF OwedInv
<1>12. TodoInv'
  BY <1>0, <1>1, <1>2, <1>3, <1>5 DEF TodoInv
<1>13. FilesInv'
  BY <1>0, <1>5 DEF FilesInv
<1>14. LinkInv'
  BY <1>0, <1>1, <1>2, <1>3, <1>5, DirFacts DEF LinkInv
<1>15. WaitInv'
  BY <1>0, <1>5 DEF WaitInv, Live, Handover
<1>16. LossInv'
  BY <1>0, <1>1, <1>2, <1>3, <1>5 DEF LossInv
<1>17. LateInv'

  <2>1. Entering' = Entering
    BY <1>0, <1>1, <1>2, <1>3, <1>5, DirFacts DEF Entering
  <2> QED
    BY <1>0, <1>1, <1>2, <1>3, <1>5, <2>1 DEF LateInv
<1> QED
  BY <1>6, <1>7, <1>8, <1>9, <1>10, <1>11, <1>12, <1>13, <1>14, <1>15, <1>16,
     <1>17 DEF IInv

\* A slot is given back.
LEMMA ReleasePreserves ==
  ASSUME IInv, NEW d \in Dirs, Release(d)
  PROVE  IInv'
<1>0. TypeOK /\ RootInv /\ ProcInv /\ SlotInv /\ AwaitedInv /\ OwedInv
      /\ TodoInv /\ FilesInv /\ LinkInv /\ WaitInv /\ LossInv /\ LateInv
  BY DEF IInv
<1>1. /\ worker[d] \in {"leaving", "refused"}
  BY DEF Release
<1>2. \A x \in Dirs : worker'[x] = IF x = d THEN IF worker[d] = "leaving" THEN "sending" ELSE "sendingNil" ELSE worker[x]
  BY <1>0 DEF TypeOK, Release
<1>3. holders' = holders \ {d}
  BY <1>0 DEF TypeOK, Release
<1>4. UNCHANGED <<main, proc, todo, owed, files, flag, cancelled, progress,
   update, late, waitValue, waitLocked>>
  BY DEF Release, scanVars, waitVars
<1>5. TypeOK'
  BY <1>0, DirFacts DEF TypeOK, MainStates, WorkerStates, ProcStates,
     WaitTypeOK, Release, scanVars, waitVars
<1>6. RootInv'
  BY <1>0, <1>1, <1>2, <1>4, DirFacts DEF RootInv
<1>7. ProcInv'
  BY <1>0, <1>1, <1>2, <1>4 DEF ProcInv
<1>8. SlotInv'

  <2>1. \A x \in SubDirs : x \in holders' <=> worker'[x] \in Holding
    BY <1>0, <1>1, <1>2, <1>3, <1>4, DirFacts DEF SlotInv, Holding
  <2>2. holders \in SUBSET Dirs /\ holders' \subseteq holders
    BY <1>0, <1>1, <1>2, <1>3, <1>4, DirFacts DEF TypeOK
  <2>3. Cardinality(holders') <= Slots
    BY <1>0, <2>2, SmallerSet DEF SlotInv
  <2> QED
    BY <2>1, <2>3 DEF SlotInv
<1>9. AwaitedInv'
  BY <1>0, <1>1, <1>2, <1>4, DirFacts DEF AwaitedInv
<1>10. OwedInv'
  BY <1>0, <1>4 DEF OwedInv
<1>11. TodoInv'
  BY <1>0, <1>1, <1>2, <1>4 DEF TodoInv
<1>12. FilesInv'
  BY <1>0, <1>4 DEF FilesInv
<1>13. LinkInv'
  BY <1>0, <1>1, <1>2, <1>4, DirFacts DEF LinkInv
<1>14. WaitInv'
  BY <1>0, <1>4 DEF WaitInv, Live, Handover
<1>15. LossInv'
  BY <1>0, <1>1, <1>2, <1>4 DEF LossInv
<1>16. LateInv'

  <2>1. Entering' = Entering
    BY <1>0, <1>1, <1>2, <1>4, DirFacts DEF Entering
  <2> QED
    BY <1>0, <1>1, <1>2, <1>4, <2>1 DEF LateInv
<1> QED
  BY <1>5, <1>6, <1>7, <1>8, <1>9, <1>10, <1>11, <1>12, <1>13, <1>14, <1>15,
     <1>16 DEF IInv

\* An entry left out.
LEMMA SkipEntryPreserves ==
  ASSUME IInv, NEW d \in Dirs, NEW e \in Entries, SkipEntry(d, e)
  PROVE  IInv'
<1>0. TypeOK /\ RootInv /\ ProcInv /\ SlotInv /\ AwaitedInv /\ OwedInv
      /\ TodoInv /\ FilesInv /\ LinkInv /\ WaitInv /\ LossInv /\ LateInv
  BY DEF IInv
<1>1. /\ worker[d] = "scanning"
      /\ ~cancelled
      /\ e \in todo[d]
      /\ e \in Skip
  BY DEF SkipEntry, TakeEntry
<1>2. \A x \in Dirs : todo'[x] = IF x = d THEN todo[d] \ {e} ELSE todo[x]
  BY <1>0 DEF TypeOK, SkipEntry, TakeEntry
<1>3. UNCHANGED <<main, worker, proc, owed, files, flag, holders, cancelled,
   progress, update, late, waitValue, waitLocked>>
  BY DEF SkipEntry, TakeEntry, scanVars, waitVars
<1>4. TypeOK'
  BY <1>0, DirFacts DEF TypeOK, MainStates, WorkerStates, ProcStates,
     WaitTypeOK, SkipEntry, TakeEntry, scanVars, waitVars
<1>5. RootInv'
  BY <1>0, <1>3 DEF RootInv
<1>6. ProcInv'
  BY <1>0, <1>3 DEF ProcInv
<1>7. SlotInv'
  BY <1>0, <1>3 DEF SlotInv, Holding
<1>8. AwaitedInv'
  BY <1>0, <1>3 DEF AwaitedInv
<1>9. OwedInv'
  BY <1>0, <1>3 DEF OwedInv
<1>10. TodoInv'
  BY <1>0, <1>1, <1>2, <1>3 DEF TodoInv
<1>11. FilesInv'
  BY <1>0, <1>3 DEF FilesInv
<1>12. LinkInv'
  BY <1>0, <1>3 DEF LinkInv
<1>13. WaitInv'
  BY <1>0, <1>3 DEF WaitInv, Live, Handover
<1>14. LossInv'
  BY <1>0, <1>1, <1>2, <1>3 DEF LossInv
<1>15. LateInv'
  BY <1>0, <1>3 DEF LateInv, Entering
<1> QED
  BY <1>4, <1>5, <1>6, <1>7, <1>8, <1>9, <1>10, <1>11, <1>12, <1>13, <1>14,
     <1>15 DEF IInv

\* A file is linked.
LEMMA AddFilePreserves ==
  ASSUME IInv, NEW d \in Dirs, NEW e \in Entries, AddFile(d, e)
  PROVE  IInv'
<1>0. TypeOK /\ RootInv /\ ProcInv /\ SlotInv /\ AwaitedInv /\ OwedInv
      /\ TodoInv /\ FilesInv /\ LinkInv /\ WaitInv /\ LossInv /\ LateInv
  BY DEF IInv
<1>1. /\ worker[d] = "scanning"
      /\ ~cancelled
      /\ e \in todo[d]
      /\ e \in Files \ Skip
  BY DEF AddFile, TakeEntry
<1>2. \A x \in Dirs : todo'[x] = IF x = d THEN todo[d] \ {e} ELSE todo[x]
  BY <1>0 DEF TypeOK, AddFile, TakeEntry
<1>3. \A x \in Dirs : files'[x] = IF x = d THEN files[d] \cup {e} ELSE files[x]
  BY <1>0 DEF TypeOK, AddFile, TakeEntry
<1>4. UNCHANGED <<main, worker, proc, owed, flag, holders, cancelled, progress,
   update, late, waitValue, waitLocked>>
  BY DEF AddFile, TakeEntry, scanVars, waitVars
<1>5. TypeOK'
  BY <1>0, DirFacts DEF TypeOK, MainStates, WorkerStates, ProcStates,
     WaitTypeOK, AddFile, TakeEntry, scanVars, waitVars
<1>6. RootInv'
  BY <1>0, <1>4 DEF RootInv
<1>7. ProcInv'
  BY <1>0, <1>4 DEF ProcInv
<1>8. SlotInv'
  BY <1>0, <1>4 DEF SlotInv, Holding
<1>9. AwaitedInv'
  BY <1>0, <1>4 DEF AwaitedInv
<1>10. OwedInv'
  BY <1>0, <1>4 DEF OwedInv
<1>11. TodoInv'
  BY <1>0, <1>1, <1>2, <1>3, <1>4 DEF TodoInv
<1>12. FilesInv'

  <2>1. e \in Children(d) \ Skip /\ proc[d] # "unread"
    BY <1>0, <1>1, <1>3, <1>4 DEF TodoInv, ProcInv
  <2>2. \A x \in Dirs : files'[x] \subseteq Children(x) \ Skip
    BY <1>0, <1>1, <1>3, <1>4, <2>1 DEF FilesInv
  <2>3. \A x \in Dirs : proc[x] = "unread" => files'[x] = {} /\ flag[x] = " "
    BY <1>0, <1>1, <1>3, <1>4, <2>1 DEF FilesInv
  <2> QED
    BY <1>0, <1>1, <1>3, <1>4, <2>2, <2>3 DEF FilesInv
<1>13. LinkInv'
  BY <1>0, <1>1, <1>3, <1>4, DirFacts, EntryFacts DEF LinkInv
<1>14. WaitInv'
  BY <1>0, <1>4 DEF WaitInv, Live, Handover
<1>15. LossInv'
  BY <1>0, <1>1, <1>2, <1>3, <1>4 DEF LossInv
<1>16. LateInv'
  BY <1>0, <1>4 DEF LateInv, Entering
<1> QED
  BY <1>5, <1>6, <1>7, <1>8, <1>9, <1>10, <1>11, <1>12, <1>13, <1>14, <1>15,
     <1>16 DEF IInv

\* A file is missing and its directory flagged.
LEMMA FailFilePreserves ==
  ASSUME IInv, NEW d \in Dirs, NEW e \in Entries, FailFile(d, e)
  PROVE  IInv'
<1>0. TypeOK /\ RootInv /\ ProcInv /\ SlotInv /\ AwaitedInv /\ OwedInv
      /\ TodoInv /\ FilesInv /\ LinkInv /\ WaitInv /\ LossInv /\ LateInv
  BY DEF IInv
<1>1. /\ worker[d] = "scanning"
      /\ ~cancelled
      /\ e \in todo[d]
      /\ e \in Files \ Skip
  BY DEF FailFile, TakeEntry
<1>2. \A x \in Dirs : todo'[x] = IF x = d THEN todo[d] \ {e} ELSE todo[x]
  BY <1>0 DEF TypeOK, FailFile, TakeEntry
<1>3. \A x \in Dirs : flag'[x] = IF x = d THEN "!" ELSE flag[x]
  BY <1>0 DEF TypeOK, FailFile, TakeEntry
<1>4. UNCHANGED <<main, worker, proc, owed, files, holders, cancelled,
   progress, update, late, waitValue, waitLocked>>
  BY DEF FailFile, TakeEntry, scanVars, waitVars
<1>5. TypeOK'
  BY <1>0, DirFacts DEF TypeOK, MainStates, WorkerStates, ProcStates,
     WaitTypeOK, FailFile, TakeEntry, scanVars, waitVars
<1>6. RootInv'
  BY <1>0, <1>4 DEF RootInv
<1>7. ProcInv'
  BY <1>0, <1>4 DEF ProcInv
<1>8. SlotInv'
  BY <1>0, <1>4 DEF SlotInv, Holding
<1>9. AwaitedInv'
  BY <1>0, <1>4 DEF AwaitedInv
<1>10. OwedInv'
  BY <1>0, <1>4 DEF OwedInv
<1>11. TodoInv'
  BY <1>0, <1>1, <1>2, <1>4 DEF TodoInv
<1>12. FilesInv'
  BY <1>0, <1>1, <1>3, <1>4 DEF FilesInv, ProcInv
<1>13. LinkInv'
  BY <1>0, <1>4 DEF LinkInv
<1>14. WaitInv'
  BY <1>0, <1>4 DEF WaitInv, Live, Handover
<1>15. LossInv'
  BY <1>0, <1>1, <1>2, <1>3, <1>4 DEF LossInv
<1>16. LateInv'
  BY <1>0, <1>4 DEF LateInv, Entering
<1> QED
  BY <1>5, <1>6, <1>7, <1>8, <1>9, <1>10, <1>11, <1>12, <1>13, <1>14, <1>15,
     <1>16 DEF IInv

\* The new worker is expected by the directory that started it.
LEMMA SpawnSubDirPreserves ==
  ASSUME IInv, NEW d \in Dirs, NEW e \in Entries, SpawnSubDir(d, e)
  PROVE  IInv'
<1>0. TypeOK /\ RootInv /\ ProcInv /\ SlotInv /\ AwaitedInv /\ OwedInv
      /\ TodoInv /\ FilesInv /\ LinkInv /\ WaitInv /\ LossInv /\ LateInv
  BY DEF IInv
<1>1. /\ worker[d] = "scanning"
      /\ ~cancelled
      /\ e \in todo[d]
  BY DEF SpawnSubDir, TakeEntry
<1>2. e \in SubDirs \ Skip
  BY <1>1, <1>0, DirFacts DEF SpawnSubDir, Entries, SubDirs
<1>3. worker[e] = "idle"
  BY <1>1, <1>2, <1>0, DirFacts DEF TodoInv
<1>4. Parent[e] = d
  BY <1>1, <1>2, <1>3, <1>0, EntryFacts DEF TodoInv
<1>5. \A x \in Dirs : worker'[x] = IF x = e THEN "queued" ELSE worker[x]
  BY <1>0 DEF TypeOK, SpawnSubDir, TakeEntry
<1>6. \A x \in Dirs : todo'[x] = IF x = d THEN todo[d] \ {e} ELSE todo[x]
  BY <1>0 DEF TypeOK, SpawnSubDir, TakeEntry
<1>7. \A x \in Dirs : owed'[x] = IF x = d THEN owed[d] \cup {e} ELSE owed[x]
  BY <1>0 DEF TypeOK, SpawnSubDir, TakeEntry
<1>8. UNCHANGED <<main, proc, files, flag, holders, cancelled, progress,
   update, late, waitValue, waitLocked>>
  BY DEF SpawnSubDir, TakeEntry, scanVars, waitVars
<1>9. TypeOK'
  BY <1>0, DirFacts DEF TypeOK, MainStates, WorkerStates, ProcStates,
     WaitTypeOK, SpawnSubDir, TakeEntry, scanVars, waitVars
<1>10. RootInv'
  BY <1>0, <1>1, <1>2, <1>3, <1>4, <1>5, <1>8, DirFacts DEF RootInv
<1>11. ProcInv'
  BY <1>0, <1>1, <1>2, <1>3, <1>4, <1>5, <1>8 DEF ProcInv
<1>12. SlotInv'
  BY <1>0, <1>1, <1>2, <1>3, <1>4, <1>5, <1>8, DirFacts DEF SlotInv, Holding
<1>13. AwaitedInv'
  BY <1>0, <1>1, <1>2, <1>3, <1>4, <1>5, <1>7, <1>8, DirFacts, EntryFacts
     DEF AwaitedInv, ProcInv
<1>14. OwedInv'
  BY <1>0, <1>1, <1>2, <1>3, <1>4, <1>7, <1>8 DEF OwedInv, TodoInv, ProcInv
<1>15. TodoInv'
  BY <1>0, <1>1, <1>2, <1>3, <1>4, <1>5, <1>6, <1>8, EntryFacts DEF TodoInv
<1>16. FilesInv'
  BY <1>0, <1>8 DEF FilesInv
<1>17. LinkInv'
  BY <1>0, <1>1, <1>2, <1>3, <1>4, <1>5, <1>8, DirFacts DEF LinkInv
<1>18. WaitInv'
  BY <1>0, <1>8 DEF WaitInv, Live, Handover
<1>19. LossInv'
  BY <1>0, <1>1, <1>2, <1>3, <1>4, <1>5, <1>6, <1>7, <1>8 DEF LossInv
<1>20. LateInv'

  <2>1. Entering' = Entering
    BY <1>0, <1>1, <1>2, <1>3, <1>4, <1>5, <1>8, DirFacts DEF Entering
  <2> QED
    BY <1>0, <1>1, <1>2, <1>3, <1>4, <1>5, <1>8, <2>1 DEF LateInv
<1> QED
  BY <1>9, <1>10, <1>11, <1>12, <1>13, <1>14, <1>15, <1>16, <1>17, <1>18,
     <1>19, <1>20 DEF IInv

\* The listing is walked; the collector takes over and the directory stays live.
LEMMA EndLoopPreserves ==
  ASSUME IInv, NEW d \in Dirs, EndLoop(d)
  PROVE  IInv'
<1>0. TypeOK /\ RootInv /\ ProcInv /\ SlotInv /\ AwaitedInv /\ OwedInv
      /\ TodoInv /\ FilesInv /\ LinkInv /\ WaitInv /\ LossInv /\ LateInv
  BY DEF IInv
<1>1. /\ worker[d] = "scanning"
      /\ cancelled \/ todo[d] = {}
  BY DEF EndLoop
<1>2. main' = IF d = Root THEN "publishing" ELSE main
  BY <1>0 DEF TypeOK, EndLoop
<1>3. \A x \in Dirs : worker'[x] = IF x = d THEN IF d = Root THEN "finished" ELSE "leaving" ELSE worker[x]
  BY <1>0 DEF TypeOK, EndLoop
<1>4. \A x \in Dirs : proc'[x] = IF x = d THEN "collecting" ELSE proc[x]
  BY <1>0 DEF TypeOK, EndLoop
<1>5. \A x \in Dirs : todo'[x] = IF x = d THEN {} ELSE todo[x]
  BY <1>0 DEF TypeOK, EndLoop
<1>6. UNCHANGED <<owed, files, flag, holders, cancelled, progress, update,
   late, waitValue, waitLocked>>
  BY DEF EndLoop, scanVars, waitVars
<1>7. TypeOK'
  BY <1>0, DirFacts DEF TypeOK, MainStates, WorkerStates, ProcStates,
     WaitTypeOK, EndLoop, scanVars, waitVars
<1>8. RootInv'
  BY <1>0, <1>1, <1>2, <1>3, <1>4, <1>6, DirFacts DEF RootInv
<1>9. ProcInv'
  BY <1>0, <1>1, <1>3, <1>4, <1>6 DEF ProcInv
<1>10. SlotInv'
  BY <1>0, <1>1, <1>3, <1>6, DirFacts DEF SlotInv, Holding
<1>11. AwaitedInv'
  BY <1>0, <1>1, <1>3, <1>4, <1>6, DirFacts DEF AwaitedInv
<1>12. OwedInv'
  BY <1>0, <1>1, <1>4, <1>6, DirFacts DEF OwedInv
<1>13. TodoInv'
  BY <1>0, <1>1, <1>3, <1>4, <1>5, <1>6 DEF TodoInv
<1>14. FilesInv'
  BY <1>0, <1>1, <1>4, <1>6 DEF FilesInv, ProcInv
<1>15. LinkInv'
  BY <1>0, <1>1, <1>3, <1>4, <1>6, DirFacts DEF LinkInv
<1>16. WaitInv'

  <2>1. Live' = Live
    BY <1>0, <1>1, <1>2, <1>4, <1>6 DEF Live, ProcInv
  <2>2. ~waitLocked \/ Handover => d # Root
    BY <1>0, <1>1, <1>2, <1>4, <1>6 DEF WaitInv, ProcInv
  <2> QED
    BY <1>0, <1>1, <1>2, <1>4, <1>6, <2>1, <2>2, DirFacts DEF WaitInv, Handover
<1>17. LossInv'

  <2> SUFFICES ASSUME ~cancelled
               PROVE  /\ \A x \in Dirs : worker'[x] \notin {"refused", "sendingNil"}
                      /\ \A x \in Dirs : proc'[x] # "unread" =>
                           \A e \in Children(x) \ Skip :
                             e \in todo'[x] \cup owed[x] \cup files[x] \/ flag[x] = "!"
    BY <1>0, <1>1, <1>3, <1>4, <1>5, <1>6 DEF LossInv
  <2>1. \A x \in Dirs : worker'[x] \notin {"refused", "sendingNil"}
    BY <1>0, <1>1, <1>3, <1>4, <1>5, <1>6 DEF LossInv
  <2>2. \A x \in Dirs : todo'[x] = todo[x]
    BY <1>0, <1>1, <1>3, <1>4, <1>5, <1>6
  <2>3. \A x \in Dirs : proc'[x] # "unread" => proc[x] # "unread"
    BY <1>0, <1>1, <1>3, <1>4, <1>5, <1>6 DEF ProcInv
  <2> QED
    BY <1>0, <2>1, <2>2, <2>3 DEF LossInv
<1>18. LateInv'

  <2>1. Entering' = Entering
    BY <1>0, <1>1, <1>3, <1>6, DirFacts DEF Entering
  <2> QED
    BY <1>0, <1>1, <1>3, <1>6, <2>1 DEF LateInv
<1> QED
  BY <1>7, <1>8, <1>9, <1>10, <1>11, <1>12, <1>13, <1>14, <1>15, <1>16, <1>17,
     <1>18 DEF IInv

\* A result is collected: it is linked, or it is nil after a cancel.
LEMMA ReceivePreserves ==
  ASSUME IInv, NEW p \in Dirs, NEW c \in SubDirs, Receive(p, c)
  PROVE  IInv'
<1>0. TypeOK /\ RootInv /\ ProcInv /\ SlotInv /\ AwaitedInv /\ OwedInv
      /\ TodoInv /\ FilesInv /\ LinkInv /\ WaitInv /\ LossInv /\ LateInv
  BY DEF IInv
<1>1. /\ proc[p] = "collecting"
      /\ c \in owed[p]
      /\ worker[c] \in {"sending", "sendingNil"}
  BY DEF Receive
<1>2. Parent[c] = p
  BY <1>1, <1>0, EntryFacts DEF OwedInv
<1>3. \A x \in Dirs : worker'[x] = IF x = c THEN "finished" ELSE worker[x]
  BY <1>0 DEF TypeOK, Receive
<1>4. \A x \in Dirs : owed'[x] = IF x = p THEN owed[p] \ {c} ELSE owed[x]
  BY <1>0 DEF TypeOK, Receive
<1>5. \A x \in Dirs : files'[x] = IF x = p THEN IF worker[c] = "sending" THEN files[p] \cup {c} ELSE files[p] ELSE files[x]
  BY <1>0 DEF TypeOK, Receive
<1>6. UNCHANGED <<main, proc, todo, flag, holders, cancelled, progress, update,
   late, waitValue, waitLocked>>
  BY DEF Receive, scanVars, waitVars
<1>7. TypeOK'
  BY <1>0, DirFacts DEF TypeOK, MainStates, WorkerStates, ProcStates,
     WaitTypeOK, Receive, scanVars, waitVars
<1>8. RootInv'
  BY <1>0, <1>1, <1>2, <1>3, <1>6, DirFacts DEF RootInv
<1>9. ProcInv'
  BY <1>0, <1>1, <1>2, <1>3, <1>6 DEF ProcInv
<1>10. SlotInv'
  BY <1>0, <1>1, <1>2, <1>3, <1>6, DirFacts DEF SlotInv, Holding
<1>11. AwaitedInv'
  BY <1>0, <1>1, <1>2, <1>3, <1>4, <1>6, DirFacts DEF AwaitedInv
<1>12. OwedInv'
  BY <1>0, <1>1, <1>2, <1>4, <1>6, DirFacts DEF OwedInv
<1>13. TodoInv'
  BY <1>0, <1>1, <1>2, <1>3, <1>5, <1>6 DEF TodoInv
<1>14. FilesInv'

  <2>1. c \in Children(p) \ Skip
    BY <1>0, <1>1, <1>2, <1>5, <1>6 DEF OwedInv
  <2>2. \A x \in Dirs : files'[x] \subseteq Children(x) \ Skip
    <3>1. files'[p] \subseteq files[p] \cup {c}
      BY <1>5
    <3>2. \A x \in Dirs : x # p => files'[x] = files[x]
      BY <1>5
    <3> QED
      BY <1>0, <2>1, <3>1, <3>2 DEF FilesInv
  <2>3. \A x \in Dirs : proc[x] = "unread" => files'[x] = {} /\ flag[x] = " "
    BY <1>0, <1>1, <1>2, <1>5, <1>6 DEF FilesInv
  <2> QED
    BY <1>0, <1>1, <1>2, <1>5, <1>6, <2>2, <2>3 DEF FilesInv
<1>15. LinkInv'
  BY <1>0, <1>1, <1>2, <1>3, <1>5, <1>6, DirFacts DEF LinkInv, ProcInv
<1>16. WaitInv'
  BY <1>0, <1>6 DEF WaitInv, Live, Handover
<1>17. LossInv'

  <2> SUFFICES ASSUME ~cancelled
               PROVE  /\ \A x \in Dirs : worker'[x] \notin {"refused", "sendingNil"}
                      /\ \A x \in Dirs : proc[x] # "unread" =>
                           \A e \in Children(x) \ Skip :
                             e \in todo[x] \cup owed'[x] \cup files'[x] \/ flag[x] = "!"
    BY <1>0, <1>1, <1>2, <1>3, <1>4, <1>5, <1>6 DEF LossInv
  <2>1. worker[c] = "sending"
    BY <1>0, <1>1, <1>2, <1>3, <1>4, <1>5, <1>6, DirFacts DEF LossInv
  <2>2. \A x \in Dirs : worker'[x] \notin {"refused", "sendingNil"}
    BY <1>0, <1>1, <1>2, <1>3, <1>4, <1>5, <1>6 DEF LossInv
  <2>3. \A x \in Dirs : owed[x] \cup files[x] \subseteq owed'[x] \cup files'[x]
    BY <1>0, <1>1, <1>2, <1>3, <1>4, <1>5, <1>6, <2>1
  <2> QED
    BY <1>0, <2>2, <2>3 DEF LossInv
<1>18. LateInv'

  <2>1. Entering' = Entering
    BY <1>0, <1>1, <1>2, <1>3, <1>6, DirFacts DEF Entering
  <2> QED
    BY <1>0, <1>1, <1>2, <1>3, <1>6, <2>1 DEF LateInv
<1> QED
  BY <1>7, <1>8, <1>9, <1>10, <1>11, <1>12, <1>13, <1>14, <1>15, <1>16, <1>17,
     <1>18 DEF IInv

\* wait.Done: when the counter reaches 0 the root was the last live directory.
LEMMA CollectorDonePreserves ==
  ASSUME IInv, NEW p \in Dirs, CollectorDone(p)
  PROVE  IInv'
<1>0. TypeOK /\ RootInv /\ ProcInv /\ SlotInv /\ AwaitedInv /\ OwedInv
      /\ TodoInv /\ FilesInv /\ LinkInv /\ WaitInv /\ LossInv /\ LateInv
  BY DEF IInv
<1>1. /\ proc[p] = "collecting"
      /\ owed[p] = {}
  BY DEF CollectorDone, WaitDone
<1>2. \A x \in Dirs : proc'[x] = IF x = p THEN "done" ELSE proc[x]
  BY <1>0 DEF TypeOK, CollectorDone, WaitDone
<1>3. waitValue' = waitValue - 1
  BY <1>0 DEF TypeOK, CollectorDone, WaitDone
<1>4. waitLocked' = (waitLocked /\ waitValue - 1 # 0)
  BY <1>0 DEF TypeOK, CollectorDone, WaitDone
<1>5. UNCHANGED <<main, worker, todo, owed, files, flag, holders, cancelled,
   progress, update, late>>
  BY DEF CollectorDone, WaitDone, scanVars, waitVars
<1>6. TypeOK'

  <2>1. waitLocked' \in BOOLEAN
    BY <1>0, <1>1, <1>2, <1>3, <1>4, <1>5, Zenon
  <2>2. waitValue' \in Int
    <3>1. waitValue \in Int
      BY <1>0 DEF TypeOK, WaitTypeOK
    <3> QED
      BY <3>1, <1>3
  <2>3. proc' \in [Dirs -> ProcStates]
    BY <1>0 DEF TypeOK, ProcStates, CollectorDone
  <2> QED
    BY <1>0, <1>1, <1>2, <1>3, <1>4, <1>5, <2>1, <2>2, <2>3 DEF TypeOK, WaitTypeOK
<1>7. RootInv'
  BY <1>0, <1>1, <1>2, <1>5, DirFacts DEF RootInv
<1>8. ProcInv'
  BY <1>0, <1>1, <1>2, <1>5 DEF ProcInv
<1>9. SlotInv'
  BY <1>0, <1>5 DEF SlotInv, Holding
<1>10. AwaitedInv'
  BY <1>0, <1>1, <1>2, <1>5, DirFacts DEF AwaitedInv
<1>11. OwedInv'
  BY <1>0, <1>1, <1>2, <1>5, DirFacts DEF OwedInv
<1>12. TodoInv'
  BY <1>0, <1>1, <1>2, <1>5 DEF TodoInv
<1>13. FilesInv'
  BY <1>0, <1>1, <1>2, <1>5 DEF FilesInv
<1>14. LinkInv'
  BY <1>0, <1>1, <1>2, <1>5, DirFacts DEF LinkInv
<1>15. WaitInv'

  <2>1. Live \in SUBSET Dirs /\ p \in Live /\ Live' = Live \ {p}
    BY <1>0, <1>1, <1>2, <1>3, <1>4, <1>5 DEF Live
  <2>2. IsFiniteSet(Live) /\ Cardinality(Live) \in Nat
    BY <2>1, FiniteDirs
  <2>3. Cardinality(Live') = Cardinality(Live) - 1 /\ IsFiniteSet(Live')
    BY <2>1, <2>2, FS_RemoveElement
  <2>4. waitLocked /\ ~Handover
    BY <1>0, <2>1 DEF WaitInv
  <2>5. waitValue' = Cardinality(Live')
    BY <1>0, <1>1, <1>2, <1>3, <1>4, <1>5, <2>3 DEF WaitInv
  <2>6. ASSUME ~waitLocked'
        PROVE  Live' = {} /\ proc'[Root] = "done"
    <3>1. waitValue' = 0
      BY <1>0, <1>1, <1>2, <1>3, <1>4, <1>5, <2>4, <2>6
    <3>2. Live' = {}
      BY <3>1, <2>3, <2>5, FS_EmptySet
    <3>3. proc'[Root] \notin {"reading", "collecting"}
      BY <3>2, DirFacts DEF Live
    <3>4. proc[Root] # "unread"
      BY <1>0, <1>1, <1>2, <1>3, <1>4, <1>5, DirFacts DEF RootInv, ProcInv
    <3> QED
      BY <1>0, <1>1, <1>2, <1>3, <1>4, <1>5, <3>2, <3>3, <3>4, DirFacts
         DEF TypeOK, ProcStates
  <2> QED
    BY <1>0, <1>1, <1>2, <1>3, <1>4, <1>5, <2>4, <2>5, <2>6 DEF WaitInv, Handover
<1>16. LossInv'
  BY <1>0, <1>1, <1>2, <1>5 DEF LossInv
<1>17. LateInv'
  BY <1>0, <1>5 DEF LateInv, Entering
<1> QED
  BY <1>6, <1>7, <1>8, <1>9, <1>10, <1>11, <1>12, <1>13, <1>14, <1>15, <1>16,
     <1>17 DEF IInv

\* Wait gets the mutex only after the last Done opened it.
LEMMA WaitLockPreserves ==
  ASSUME IInv, WaitLock
  PROVE  IInv'
<1>0. TypeOK /\ RootInv /\ ProcInv /\ SlotInv /\ AwaitedInv /\ OwedInv
      /\ TodoInv /\ FilesInv /\ LinkInv /\ WaitInv /\ LossInv /\ LateInv
  BY DEF IInv
<1>1. /\ main = "locking"
      /\ ~waitLocked
  BY DEF WaitLock, WaitAcquire
<1>2. main' = "stopping"
  BY <1>0 DEF TypeOK, WaitLock, WaitAcquire
<1>3. waitLocked' = TRUE
  BY <1>0 DEF TypeOK, WaitLock, WaitAcquire
<1>4. UNCHANGED <<worker, proc, todo, owed, files, flag, holders, cancelled,
   progress, update, late, waitValue>>
  BY DEF WaitLock, WaitAcquire, scanVars, waitVars
<1>5. TypeOK'
  BY <1>0, DirFacts DEF TypeOK, MainStates, WorkerStates, ProcStates,
     WaitTypeOK, WaitLock, WaitAcquire, scanVars, waitVars
<1>6. RootInv'
  BY <1>0, <1>1, <1>2, <1>4, DirFacts DEF RootInv
<1>7. ProcInv'
  BY <1>0, <1>4 DEF ProcInv
<1>8. SlotInv'
  BY <1>0, <1>4 DEF SlotInv, Holding
<1>9. AwaitedInv'
  BY <1>0, <1>4 DEF AwaitedInv
<1>10. OwedInv'
  BY <1>0, <1>4 DEF OwedInv
<1>11. TodoInv'
  BY <1>0, <1>4 DEF TodoInv
<1>12. FilesInv'
  BY <1>0, <1>4 DEF FilesInv
<1>13. LinkInv'
  BY <1>0, <1>4 DEF LinkInv
<1>14. WaitInv'
  BY <1>0, <1>1, <1>2, <1>3, <1>4 DEF WaitInv, Live, Handover
<1>15. LossInv'
  BY <1>0, <1>4 DEF LossInv
<1>16. LateInv'
  BY <1>0, <1>4 DEF LateInv, Entering
<1> QED
  BY <1>5, <1>6, <1>7, <1>8, <1>9, <1>10, <1>11, <1>12, <1>13, <1>14, <1>15,
     <1>16 DEF IInv

\* Wait reads a counter that is 0 only when no directory is live.
LEMMA WaitReadPreserves ==
  ASSUME IInv, WaitRead
  PROVE  IInv'
<1>0. TypeOK /\ RootInv /\ ProcInv /\ SlotInv /\ AwaitedInv /\ OwedInv
      /\ TodoInv /\ FilesInv /\ LinkInv /\ WaitInv /\ LossInv /\ LateInv
  BY DEF IInv
<1>1. /\ main = "waiting"
  BY DEF WaitRead, MustBlock
<1>2. main' = IF waitValue > 0 THEN "locking" ELSE "stopping"
  BY <1>0 DEF TypeOK, WaitRead, MustBlock
<1>3. UNCHANGED <<worker, proc, todo, owed, files, flag, holders, cancelled,
   progress, update, late, waitValue, waitLocked>>
  BY DEF WaitRead, MustBlock, scanVars, waitVars
<1>4. TypeOK'
  BY <1>0, DirFacts DEF TypeOK, MainStates, WorkerStates, ProcStates,
     WaitTypeOK, WaitRead, MustBlock, scanVars, waitVars
<1>5. RootInv'
  BY <1>0, <1>1, <1>2, <1>3, DirFacts DEF RootInv
<1>6. ProcInv'
  BY <1>0, <1>3 DEF ProcInv
<1>7. SlotInv'
  BY <1>0, <1>3 DEF SlotInv, Holding
<1>8. AwaitedInv'
  BY <1>0, <1>3 DEF AwaitedInv
<1>9. OwedInv'
  BY <1>0, <1>3 DEF OwedInv
<1>10. TodoInv'
  BY <1>0, <1>3 DEF TodoInv
<1>11. FilesInv'
  BY <1>0, <1>3 DEF FilesInv
<1>12. LinkInv'
  BY <1>0, <1>3 DEF LinkInv
<1>13. WaitInv'

  <2>1. CASE waitValue > 0
    BY <1>0, <1>1, <1>2, <1>3, <2>1 DEF WaitInv, Live, Handover
  <2>2. CASE ~(waitValue > 0)
    <3>1. Live \in SUBSET Dirs
      BY DEF Live
    <3>2. IsFiniteSet(Live) /\ Cardinality(Live) \in Nat
      BY <3>1, FiniteDirs
    <3>3. Live = {}
      BY <1>0, <2>2, <3>2, FS_EmptySet DEF WaitInv
    <3>4. proc[Root] = "done"
      BY <1>0, <1>1, <1>2, <1>3, <3>3, DirFacts DEF RootInv, Live, TypeOK,
         ProcStates
    <3> QED
      BY <1>0, <1>1, <1>2, <1>3, <3>3, <3>4 DEF WaitInv, Live
  <2> QED
    BY <2>1, <2>2
<1>14. LossInv'
  BY <1>0, <1>3 DEF LossInv
<1>15. LateInv'
  BY <1>0, <1>3 DEF LateInv, Entering
<1> QED
  BY <1>4, <1>5, <1>6, <1>7, <1>8, <1>9, <1>10, <1>11, <1>12, <1>13, <1>14,
     <1>15 DEF IInv

\* wait.Add happens below a live parent, so the counter was not 0 before.
LEMMA OpenDirPreserves ==
  ASSUME IInv, NEW d \in Dirs, OpenDir(d)
  PROVE  IInv'
<1>0. TypeOK /\ RootInv /\ ProcInv /\ SlotInv /\ AwaitedInv /\ OwedInv
      /\ TodoInv /\ FilesInv /\ LinkInv /\ WaitInv /\ LossInv /\ LateInv
  BY DEF IInv
<1>1. /\ worker[d] = "entering"
  BY DEF OpenDir, WaitAdd
<1>2. proc[d] = "unread"
  BY <1>1, <1>0 DEF ProcInv
<1>3. d # Root => (d \in owed[Parent[d]] /\ proc[Parent[d]] \in {"reading",
   "collecting"} /\ proc[Root] # "unread")
  <2>1. CASE d # Root
    <3>1. d \in owed[Parent[d]] /\ Parent[d] \in Dirs
      BY <1>0, <1>1, <2>1, DirFacts DEF AwaitedInv
    <3>2. proc[Parent[d]] \in {"reading", "collecting"}
      BY <1>0, <3>1 DEF OwedInv
    <3>3. worker[Root] \notin {"idle", "entering"}
      BY <1>0, <1>1, <2>1, DirFacts DEF RootInv
    <3>4. proc[Root] # "unread"
      BY <1>0, <3>3, DirFacts DEF RootInv, ProcInv
    <3> QED
      BY <3>1, <3>2, <3>4
  <2> QED
    BY <2>1
<1>4. \A x \in Dirs : worker'[x] = IF x = d THEN "scanning" ELSE worker[x]
  BY <1>0 DEF TypeOK, OpenDir, WaitAdd
<1>5. \A x \in Dirs : proc'[x] = IF x = d THEN "reading" ELSE proc[x]
  BY <1>0 DEF TypeOK, OpenDir, WaitAdd
<1>6. \A x \in Dirs : x # d => todo'[x] = todo[x]
  BY <1>0 DEF TypeOK, OpenDir, WaitAdd
<1>7. todo'[d] \subseteq Children(d)
  BY <1>0 DEF TypeOK, OpenDir, WaitAdd
<1>8. \A x \in Dirs : x # d => flag'[x] = flag[x]
  BY <1>0 DEF TypeOK, OpenDir, WaitAdd
<1>9. flag'[d] = "!" \/ todo'[d] = Children(d)
  BY <1>0 DEF TypeOK, OpenDir, WaitAdd
<1>10. late' = IF cancelled THEN late \cup {d} ELSE late
  BY <1>0 DEF TypeOK, OpenDir, WaitAdd
<1>11. waitValue' = waitValue + 1
  BY <1>0 DEF TypeOK, OpenDir, WaitAdd
<1>12. UNCHANGED <<main, owed, files, holders, cancelled, progress, update,
   waitLocked>>
  BY DEF OpenDir, WaitAdd, scanVars, waitVars
<1>13. TypeOK'

  <2>1. proc' \in [Dirs -> ProcStates] /\ worker' \in [Dirs -> WorkerStates]
    BY <1>0 DEF TypeOK, ProcStates, WorkerStates, OpenDir
  <2>2. flag' \in [Dirs -> {" ", "e", "!"}]
    BY <1>0 DEF TypeOK, OpenDir
  <2>3. Children(d) \subseteq Entries
    BY DEF Children
  <2>4. todo' \in [Dirs -> SUBSET Entries]
    BY <1>0, <2>3 DEF TypeOK, OpenDir
  <2>5. late' \subseteq Dirs /\ waitValue' \in Int
    <3>1. late \subseteq Dirs /\ waitValue \in Int
      BY <1>0 DEF TypeOK, WaitTypeOK
    <3> QED
      BY <3>1, <1>11, <1>10
  <2> QED
    BY <1>0, <1>1, <1>2, <1>3, <1>4, <1>5, <1>6, <1>7, <1>8, <1>9, <1>10,
       <1>11, <1>12, <2>1, <2>2, <2>4, <2>5 DEF TypeOK, WaitTypeOK
<1>14. RootInv'
  BY <1>0, <1>1, <1>2, <1>3, <1>4, <1>5, <1>12, DirFacts DEF RootInv
<1>15. ProcInv'
  BY <1>0, <1>1, <1>2, <1>3, <1>4, <1>5, <1>12 DEF ProcInv
<1>16. SlotInv'
  BY <1>0, <1>1, <1>2, <1>3, <1>4, <1>12, DirFacts DEF SlotInv, Holding
<1>17. AwaitedInv'
  BY <1>0, <1>1, <1>2, <1>3, <1>4, <1>5, <1>12, DirFacts DEF AwaitedInv, ProcInv
<1>18. OwedInv'
  BY <1>0, <1>1, <1>2, <1>3, <1>5, <1>12 DEF OwedInv
<1>19. TodoInv'

  <2>1. \A e \in todo'[d] : e \in Dirs => worker[e] = "idle"
    <3> SUFFICES ASSUME NEW e \in todo'[d], e \in Dirs
                 PROVE  worker[e] = "idle"
      OBVIOUS
    <3>1. e \in SubDirs /\ Parent[e] = d
      BY <1>0, <1>1, <1>2, <1>3, <1>4, <1>5, <1>6, <1>7, <1>12, EntryFacts, DirFacts
    <3> QED
      BY <1>0, <1>1, <1>2, <1>3, <1>4, <1>5, <1>6, <1>7, <1>12, <3>1 DEF AwaitedInv
  <2>2. files[d] = {}
    BY <1>0, <1>1, <1>2, <1>3, <1>4, <1>5, <1>6, <1>7, <1>12 DEF FilesInv
  <2>3. \A x \in Dirs : \A e \in todo'[x] : e \in Dirs => worker'[e] = "idle"
    <3> SUFFICES ASSUME NEW x \in Dirs, NEW e \in todo'[x], e \in Dirs
                 PROVE  worker'[e] = "idle"
      OBVIOUS
    <3>1. worker[e] = "idle"
      BY <1>0, <1>1, <1>2, <1>3, <1>4, <1>5, <1>6, <1>7, <1>12, <2>1 DEF TodoInv
    <3> QED
      BY <1>0, <1>1, <1>2, <1>3, <1>4, <1>5, <1>6, <1>7, <1>12, <3>1
  <2>4. \A x \in Dirs : \A e \in todo'[x] : e \notin files[x]
    BY <1>0, <1>1, <1>2, <1>3, <1>4, <1>5, <1>6, <1>7, <1>12, <2>2 DEF TodoInv
  <2>5. \A x \in Dirs : todo'[x] \subseteq Children(x) /\ (todo'[x] # {} => proc'[x] = "reading")
    BY <1>0, <1>1, <1>2, <1>3, <1>4, <1>5, <1>6, <1>7, <1>12 DEF TodoInv
  <2> QED
    BY <1>0, <1>1, <1>2, <1>3, <1>4, <1>5, <1>6, <1>7, <1>12, <2>3, <2>4,
       <2>5 DEF TodoInv
<1>20. FilesInv'
  BY <1>0, <1>1, <1>2, <1>3, <1>5, <1>8, <1>9, <1>12 DEF FilesInv
<1>21. LinkInv'
  BY <1>0, <1>1, <1>2, <1>3, <1>4, <1>5, <1>12, DirFacts DEF LinkInv
<1>22. WaitInv'

  <2>1. Live \in SUBSET Dirs /\ d \notin Live /\ Live' = Live \cup {d}
    BY <1>0, <1>1, <1>2, <1>3, <1>5, <1>11, <1>12 DEF Live
  <2>2. IsFiniteSet(Live) /\ Cardinality(Live) \in Nat
    BY <2>1, FiniteDirs
  <2>3. Cardinality(Live') = Cardinality(Live) + 1
    BY <2>1, <2>2, FS_AddElement
  <2>4. Live # {} \/ proc[Root] = "unread"
    BY <1>0, <1>1, <1>2, <1>3, <1>5, <1>11, <1>12, DirFacts DEF Live
  <2>5. waitLocked /\ ~Handover
    BY <1>0, <2>4 DEF WaitInv
  <2> QED
    BY <1>0, <1>1, <1>2, <1>3, <1>5, <1>11, <1>12, <2>3, <2>5 DEF WaitInv, Handover
<1>23. LossInv'

  <2>1. \A e \in Children(d) : e \in todo'[d] \/ flag'[d] = "!"
    BY <1>0, <1>1, <1>2, <1>3, <1>4, <1>5, <1>6, <1>7, <1>8, <1>9, <1>12
  <2>2. \A x \in Dirs : x # d => todo'[x] = todo[x] /\ flag'[x] = flag[x] /\ proc'[x] = proc[x]
    BY <1>0, <1>1, <1>2, <1>3, <1>4, <1>5, <1>6, <1>7, <1>8, <1>9, <1>12
  <2>3. ~cancelled => \A x \in Dirs : worker'[x] \notin {"refused", "sendingNil"}
    BY <1>0, <1>1, <1>2, <1>3, <1>4, <1>5, <1>6, <1>7, <1>8, <1>9, <1>12 DEF LossInv
  <2> QED
    BY <1>0, <1>1, <1>2, <1>3, <1>4, <1>5, <1>6, <1>7, <1>8, <1>9, <1>12, <2>1,
       <2>2, <2>3 DEF LossInv
<1>24. LateInv'

  <2>1. ((late \ {Root}) \cup Entering)' \subseteq (late \ {Root}) \cup Entering
    BY <1>0, <1>1, <1>2, <1>3, <1>4, <1>10, <1>12, DirFacts DEF Entering
  <2>2. (late \ {Root}) \cup Entering \in SUBSET Dirs
    BY <1>0, DirFacts DEF TypeOK, Entering
  <2>3. Cardinality(((late \ {Root}) \cup Entering)') <= Slots
    BY <1>0, <2>1, <2>2, SmallerSet DEF LateInv
  <2> QED
    BY <1>0, <1>1, <1>2, <1>3, <1>4, <1>10, <1>12, <2>3 DEF LateInv
<1> QED
  BY <1>13, <1>14, <1>15, <1>16, <1>17, <1>18, <1>19, <1>20, <1>21, <1>22,
     <1>23, <1>24 DEF IInv

\* A constant function on the directories.
LEMMA EverywhereType ==
  ASSUME NEW S, NEW v \in S
  PROVE  Everywhere(v) \in [Dirs -> S]
  BY DEF Everywhere

\* The initial values have the right types.
LEMMA FreshTypes ==
  /\ Everywhere("idle") \in [Dirs -> WorkerStates]
  /\ Everywhere("unread") \in [Dirs -> ProcStates]
  /\ Everywhere({}) \in [Dirs -> SUBSET Entries]
  /\ Everywhere({}) \in [Dirs -> SUBSET SubDirs]
  /\ Everywhere(" ") \in [Dirs -> {" ", "e", "!"}]
<1>1. "idle" \in WorkerStates /\ "unread" \in ProcStates /\ " " \in {" ", "e", "!"}
  BY DEF WorkerStates, ProcStates
<1>2. {} \in SUBSET Entries /\ {} \in SUBSET SubDirs
  OBVIOUS
<1> QED
  BY <1>1, <1>2, EverywhereType

\* ResetProgress: everything is fresh again and the semaphore is empty.
LEMMA ResetProgressPreserves ==
  ASSUME IInv, ResetProgress
  PROVE  IInv'
<1>1. /\ \A d \in Dirs : worker'[d] = "idle" /\ proc'[d] = "unread" /\ flag'[d] = " "
      /\ \A d \in Dirs : todo'[d] = {} /\ owed'[d] = {} /\ files'[d] = {}
  BY DEF ResetProgress, Everywhere
<1>2. /\ main' = "idle" /\ cancelled' = FALSE /\ late' = {}
      /\ waitValue' = 0 /\ waitLocked' = TRUE /\ holders' = holders
  BY DEF ResetProgress, WaitReset
<1>3. holders = {}
  <2>1. Live = {} /\ worker[Root] = "finished"
    BY DEF IInv, ResetProgress, WaitInv, Handover, RootInv
  <2>2. \A d \in SubDirs : worker[d] \notin Holding
    BY <2>1, DirFacts DEF IInv, AwaitedInv, OwedInv, Live, Holding
  <2> QED
    BY <2>2 DEF IInv, TypeOK, SlotInv
<1>4. TypeOK'
  <2>1. /\ worker' = Everywhere("idle") /\ proc' = Everywhere("unread")
        /\ todo' = Everywhere({}) /\ owed' = Everywhere({}) /\ files' = Everywhere({})
        /\ flag' = Everywhere(" ")
    BY DEF ResetProgress
  <2>2. /\ worker' \in [Dirs -> WorkerStates] /\ proc' \in [Dirs -> ProcStates]
        /\ todo' \in [Dirs -> SUBSET Entries] /\ owed' \in [Dirs -> SUBSET SubDirs]
        /\ files' \in [Dirs -> SUBSET Entries] /\ flag' \in [Dirs -> {" ", "e", "!"}]
    BY <2>1, FreshTypes
  <2>3. /\ progress' \in {"off", "running"} /\ update' \in BOOLEAN
        /\ cancelled' \in BOOLEAN /\ waitLocked' \in BOOLEAN
    BY DEF IInv, TypeOK, ResetProgress, WaitReset
  <2>4. late' \subseteq Dirs /\ holders' \subseteq SubDirs /\ waitValue' \in Int
        /\ main' \in MainStates
    BY <1>2, <1>3 DEF MainStates
  <2> QED
    BY <2>2, <2>3, <2>4 DEF TypeOK, WaitTypeOK
<1>5. RootInv' /\ ProcInv' /\ AwaitedInv' /\ OwedInv' /\ TodoInv'
  BY <1>1, <1>2, DirFacts DEF RootInv, ProcInv, AwaitedInv, OwedInv, TodoInv
<1>6. FilesInv' /\ LinkInv' /\ LossInv'
  BY <1>1, <1>2, DirFacts DEF FilesInv, LinkInv, LossInv
<1>7. SlotInv'
  <2>1. \A d \in SubDirs : worker'[d] \notin Holding
    BY <1>1, DirFacts DEF Holding
  <2>2. holders' = {} /\ Cardinality(holders') = 0
    BY <1>2, <1>3, FS_EmptySet
  <2> QED
    BY <2>1, <2>2, SlotsAssumption DEF SlotInv
<1>8. WaitInv'
  BY <1>1, <1>2, FS_EmptySet DEF WaitInv, Live, Handover
<1>9. LateInv'
  <2>1. ((late \ {Root}) \cup Entering)' = {}
    BY <1>1, <1>2, DirFacts DEF Entering
  <2> QED
    BY <1>2, <2>1, FS_EmptySet, SlotsAssumption DEF LateInv
<1> QED
  BY <1>4, <1>5, <1>6, <1>7, <1>8, <1>9 DEF IInv

\* A scan begins in a state of the invariant.
LEMMA InitEstablishes == Init => IInv
<1> SUFFICES ASSUME Init
             PROVE  IInv
  OBVIOUS
<1>1. /\ \A d \in Dirs : worker[d] = "idle" /\ proc[d] = "unread" /\ flag[d] = " "
      /\ \A d \in Dirs : todo[d] = {} /\ owed[d] = {} /\ files[d] = {}
  BY DEF Init, Everywhere
<1>2. /\ main = "idle" /\ cancelled = FALSE /\ late = {}
      /\ waitValue = 0 /\ waitLocked = TRUE /\ holders = {}
  BY DEF Init, WaitInit
<1>3. TypeOK
  <2>1. /\ worker = Everywhere("idle") /\ proc = Everywhere("unread")
        /\ todo = Everywhere({}) /\ owed = Everywhere({}) /\ files = Everywhere({})
        /\ flag = Everywhere(" ")
    BY DEF Init
  <2>2. /\ worker \in [Dirs -> WorkerStates] /\ proc \in [Dirs -> ProcStates]
        /\ todo \in [Dirs -> SUBSET Entries] /\ owed \in [Dirs -> SUBSET SubDirs]
        /\ files \in [Dirs -> SUBSET Entries] /\ flag \in [Dirs -> {" ", "e", "!"}]
    BY <2>1, FreshTypes
  <2>3. /\ progress \in {"off", "running"} /\ update \in BOOLEAN
        /\ cancelled \in BOOLEAN /\ waitLocked \in BOOLEAN
    BY DEF Init, WaitInit
  <2>4. late \subseteq Dirs /\ holders \subseteq SubDirs /\ waitValue \in Int
        /\ main \in MainStates
    BY <1>2 DEF MainStates
  <2> QED
    BY <2>2, <2>3, <2>4 DEF TypeOK, WaitTypeOK
<1>4. RootInv /\ ProcInv /\ AwaitedInv /\ OwedInv /\ TodoInv
  BY <1>1, <1>2, DirFacts DEF RootInv, ProcInv, AwaitedInv, OwedInv, TodoInv
<1>5. FilesInv /\ LinkInv /\ LossInv
  BY <1>1, <1>2, DirFacts DEF FilesInv, LinkInv, LossInv
<1>6. SlotInv
  <2>1. \A d \in SubDirs : worker[d] \notin Holding
    BY <1>1, DirFacts DEF Holding
  <2>2. holders = {} /\ Cardinality(holders) = 0
    BY <1>2, FS_EmptySet
  <2> QED
    BY <2>1, <2>2, SlotsAssumption DEF SlotInv
<1>7. WaitInv
  BY <1>1, <1>2, FS_EmptySet DEF WaitInv, Live, Handover
<1>8. LateInv
  <2>1. (late \ {Root}) \cup Entering = {}
    BY <1>1, <1>2, DirFacts DEF Entering
  <2> QED
    BY <1>2, <2>1, FS_EmptySet, SlotsAssumption DEF LateInv
<1> QED
  BY <1>3, <1>4, <1>5, <1>6, <1>7, <1>8 DEF IInv

\* Every step, the stuttering one included, keeps the invariant.
LEMMA NextPreserves == IInv /\ [Next]_vars => IInv'
<1> SUFFICES ASSUME IInv, [Next]_vars
             PROVE  IInv'
  OBVIOUS
<1>1. CASE Start \/ AnalyzeDir \/ ResetProgress
  BY <1>1, StartPreserves, PublishPreserves, WaitReadPreserves, WaitLockPreserves,
     StopProgressPreserves, ReturnPreserves, ResetProgressPreserves DEF AnalyzeDir
<1>2. CASE Tick \/ User
  BY <1>2, TickPreserves, CancelPreserves, ReadProgressPreserves DEF User
<1>3. ASSUME NEW d \in Dirs, Worker(d)
      PROVE  IInv'
  BY <1>3, AcquirePreserves, CheckCancelledPreserves, ReleasePreserves,
     OpenDirPreserves, EndLoopPreserves, SkipEntryPreserves, SpawnSubDirPreserves,
     AddFilePreserves, FailFilePreserves DEF Worker
<1>4. ASSUME NEW p \in Dirs, Collector(p)
      PROVE  IInv'
  BY <1>4, ReceivePreserves, CollectorDonePreserves DEF Collector
<1>5. CASE UNCHANGED vars
  <2>1. UNCHANGED <<main, worker, proc, todo, owed, files, flag, holders, cancelled,
                    progress, update, late, waitValue, waitLocked>>
    BY <1>5 DEF vars, waitVars
  <2>2. TypeOK' /\ RootInv' /\ ProcInv' /\ SlotInv'
    BY <2>1 DEF IInv, TypeOK, WaitTypeOK, RootInv, ProcInv, SlotInv
  <2>3. AwaitedInv' /\ OwedInv' /\ TodoInv' /\ FilesInv' /\ LinkInv'
    BY <2>1 DEF IInv, AwaitedInv, OwedInv, TodoInv, FilesInv, LinkInv
  <2>4. WaitInv' /\ LossInv' /\ LateInv'
    BY <2>1 DEF IInv, WaitInv, Live, Handover, LossInv, LateInv, Entering
  <2> QED
    BY <2>2, <2>3, <2>4 DEF IInv
<1> QED
  BY <1>1, <1>2, <1>3, <1>4, <1>5 DEF Next

\* The inductive invariant holds in every reachable state, whatever the tree.
THEOREM Invariance == Spec => []IInv
  BY InitEstablishes, NextPreserves, PTL DEF Spec

\* Type correctness of ParallelScan's variables.
THEOREM TypeCorrect == Spec => []TypeOK
<1>1. IInv => TypeOK
  BY DEF IInv
<1> QED
  BY <1>1, Invariance, PTL

\* When AnalyzeDir is past wait.Wait() no goroutine of the scan is left and no
\* slot of concurrencyLimit is held: the hand-made WaitGroup is used so that its
\* counter touches 0 only once.
THEOREM QuietHandover == Spec => []NothingRunsAfterHandover
<1>1. ASSUME IInv, Handover
      PROVE  /\ \A d \in Dirs : worker[d] \in {"idle", "finished"}
             /\ \A d \in Dirs : proc[d] \in {"unread", "done"}
             /\ holders = {}
  <2>1. Live = {} /\ worker[Root] = "finished"
    BY <1>1 DEF IInv, WaitInv, Handover, RootInv
  <2>2. \A d \in SubDirs : worker[d] \in {"idle", "finished"}
    BY <2>1, <1>1, DirFacts DEF IInv, AwaitedInv, OwedInv, Live
  <2>3. \A d \in Dirs : proc[d] \in {"unread", "done"}
    BY <2>1, <1>1 DEF IInv, TypeOK, ProcStates, Live
  <2>4. holders = {}
    BY <2>2, <1>1 DEF IInv, TypeOK, SlotInv, Holding
  <2> QED
    BY <2>1, <2>2, <2>3, <2>4, DirFacts
<1>2. IInv => NothingRunsAfterHandover
  BY <1>1 DEF NothingRunsAfterHandover
<1> QED
  BY <1>2, Invariance, PTL

\* A linked directory was read, and a read directory is linked, at hand-over.
LEMMA PartialTree == IInv => PartialTreeIsWhole
<1> SUFFICES ASSUME IInv, Handover, NEW d \in SubDirs
             PROVE  proc[d] = "done" <=> d \in files[Parent[d]]
  BY DEF PartialTreeIsWhole
<1>1. Live = {}
  BY DEF IInv, WaitInv
<1>2. worker[d] \in {"idle", "finished"} /\ proc[d] \in {"unread", "done"}
  BY <1>1, DirFacts DEF IInv, AwaitedInv, OwedInv, Live, TypeOK, ProcStates
<1> QED
  BY <1>2, DirFacts DEF IInv, LinkInv, ProcInv

\* The tree handed over, complete or cut short by a cancel, contains every
\* directory that was read.
THEOREM PartialTreeWhole == Spec => []PartialTreeIsWhole
  BY PartialTree, Invariance, PTL

\* An uncancelled scan loses no entry without flagging its directory.
LEMMA Lossless == IInv => NoSilentLoss
<1> SUFFICES ASSUME IInv, Handover, ~cancelled, NEW d \in Dirs, proc[d] = "done",
                    NEW e \in Children(d) \ Skip
             PROVE  e \in files[d] \/ flag[d] = "!"
  BY DEF NoSilentLoss
<1>1. todo[d] = {} /\ owed[d] = {}
  BY DEF IInv, TodoInv, OwedInv
<1> QED
  BY <1>1 DEF IInv, LossInv

\* Every entry of a directory that was read is in the tree or accounted for by
\* the '!' flag.
THEOREM NothingLost == Spec => []NoSilentLoss
  BY Lossless, Invariance, PTL

\* After a cancel at most Slots directories besides the root are still opened.
THEOREM PromptCancel == Spec => []CancelIsPrompt
<1>1. ASSUME IInv
      PROVE  CancelIsPrompt
  <2>1. (late \ {Root}) \cup Entering \in SUBSET Dirs
    BY <1>1, DirFacts DEF IInv, TypeOK, Entering
  <2>2. Cardinality((late \ {Root}) \cup Entering) <= Slots
    BY <1>1 DEF IInv, LateInv
  <2> QED
    BY <2>1, <2>2, SmallerSet DEF CancelIsPrompt
<1> QED
  BY <1>1, Invariance, PTL

-----------------------------------------------------------------------------
(* The implementation of ScanContract *)

\* The contract's variables, as functions of ParallelScan's.
Phase == IF main = "idle" THEN "idle"
         ELSE IF main = "returned" THEN "finished" ELSE "running"
Linked == UNION {files[d] : d \in Dirs}
Broken == {d \in Dirs : flag[d] = "!"}

\* An entry is linked in its own directory or nowhere.
LEMMA LinkedInParent ==
  ASSUME IInv, NEW e
  PROVE  e \in Linked <=> e \in Entries /\ e \in files[Parent[e]]
<1>1. ASSUME e \in Linked
      PROVE  e \in Entries /\ e \in files[Parent[e]]
  <2>1. PICK d \in Dirs : e \in files[d]
    BY <1>1 DEF Linked
  <2>2. e \in Children(d)
    BY <2>1 DEF IInv, FilesInv
  <2> QED
    BY <2>1, <2>2, EntryFacts
<1>2. ASSUME e \in Entries, e \in files[Parent[e]]
      PROVE  e \in Linked
  BY <1>2, EntryFacts DEF Linked
<1> QED
  BY <1>1, <1>2

\* A step that leaves the tree, the flags, the cancel flag and the phase alone
\* is a stuttering step of the contract.
LEMMA Stutters ==
  ASSUME UNCHANGED <<files, cancelled>>, Phase' = Phase, Broken' = Broken
  PROVE  UNCHANGED Contract!contractVars
  BY DEF Contract!contractVars, Phase, Broken

\* One more entry of one directory is one more linked entry.
LEMMA LinkStep ==
  ASSUME IInv, NEW p \in Dirs, NEW e \in Entries \ Skip, Parent[e] = p, e \notin files[p],
         \A x \in Dirs : files'[x] = IF x = p THEN files[p] \cup {e} ELSE files[x],
         main \notin {"idle", "returned"}, UNCHANGED <<main, flag, cancelled>>
  PROVE  Contract!Link(e)
<1>1. e \notin Linked
  BY LinkedInParent
<1>2. Linked' = Linked \cup {e}
  BY DEF Linked
<1> QED
  BY <1>1, <1>2 DEF Contract!Link, Linked

\* At hand-over what is linked hangs from the root and, without a cancel, is
\* complete.
LEMMA ReturnFinishes ==
  ASSUME IInv, Return
  PROVE  Contract!Finish
<1>1. Handover /\ main = "broadcasting"
  BY DEF Return, Handover
<1>2. PartialTreeIsWhole /\ NoSilentLoss /\ Live = {} /\ proc[Root] = "done"
  BY <1>1, PartialTree, Lossless DEF IInv, WaitInv
<1>3. \A d \in Dirs : proc[d] \in {"unread", "done"}
  BY <1>2 DEF IInv, TypeOK, ProcStates, Live
<1>4. ASSUME NEW e \in Linked
      PROVE  Parent[e] = Root \/ Parent[e] \in Linked
  <2>1. e \in Entries /\ e \in files[Parent[e]] /\ Parent[e] \in Dirs
    BY LinkedInParent, EntryFacts
  <2>2. proc[Parent[e]] = "done"
    BY <1>3, <2>1 DEF IInv, FilesInv
  <2>3. CASE Parent[e] # Root
    <3>1. Parent[e] \in SubDirs
      BY <2>1, <2>3, DirFacts
    <3>2. Parent[e] \in files[Parent[Parent[e]]]
      BY <1>1, <1>2, <2>2, <3>1 DEF PartialTreeIsWhole
    <3> QED
      BY <3>1, <3>2, DirFacts, LinkedInParent
  <2> QED
    BY <2>3
<1>5. ASSUME ~cancelled, NEW e \in Entries \ Skip, Parent[e] \in Linked \cup {Root}
      PROVE  e \in Linked \/ Parent[e] \in Broken
  <2>1. Parent[e] \in Dirs /\ e \in Children(Parent[e])
    BY EntryFacts
  <2>2. proc[Parent[e]] = "done"
    <3>1. CASE Parent[e] = Root
      BY <1>2, <3>1
    <3>2. CASE Parent[e] # Root
      <4>1. Parent[e] \in SubDirs /\ Parent[e] \in Linked
        BY <1>5, <2>1, <3>2, DirFacts
      <4>2. Parent[e] \in files[Parent[Parent[e]]]
        BY <4>1, LinkedInParent
      <4> QED
        BY <1>1, <1>2, <4>1, <4>2 DEF PartialTreeIsWhole
    <3> QED
      BY <3>1, <3>2
  <2>3. e \in files[Parent[e]] \/ flag[Parent[e]] = "!"
    BY <1>1, <1>2, <1>5, <2>1, <2>2 DEF NoSilentLoss
  <2> QED
    BY <2>1, <2>3, LinkedInParent DEF Broken
<1>6. Contract!HangsFromRoot
  BY <1>4 DEF Contract!HangsFromRoot, Linked
<1>7. cancelled \/ Contract!Complete
  BY <1>5 DEF Contract!Complete, Contract!Entries, Entries, Linked, Broken
<1> QED
  BY <1>1, <1>6, <1>7 DEF Contract!Finish, Return, scanVars

\* Every step of the scan is a step of the contract, or leaves it alone.
LEMMA StepRefines ==
  ASSUME IInv, [Next]_vars
  PROVE  [Contract!Next]_(Contract!contractVars)
<1>0. TypeOK /\ ProcInv
  BY DEF IInv
<1>1. CASE Start
  <2>1. Contract!Begin
    BY <1>1 DEF Start, Contract!Begin
  <2> QED
    BY <2>1 DEF Contract!Next
<1>2. CASE Publish \/ WaitRead \/ WaitLock \/ StopProgress
  <2>1. UNCHANGED <<files, flag, cancelled>> /\ Phase' = Phase
    BY <1>2 DEF Publish, WaitRead, WaitLock, StopProgress, scanVars, Phase
  <2> QED
    BY <2>1, Stutters DEF Broken
<1>3. CASE Return
  BY <1>3, ReturnFinishes DEF Contract!Next
<1>4. CASE ResetProgress
  <2>1. \A d \in Dirs : files'[d] = {} /\ flag'[d] = " "
    BY <1>4 DEF ResetProgress, Everywhere
  <2>2. Linked' = {} /\ Broken' = {}
    BY <2>1 DEF Linked, Broken
  <2>3. Contract!Reset
    BY <1>4, <2>2 DEF ResetProgress, Contract!Reset, Linked, Broken
  <2> QED
    BY <2>3 DEF Contract!Next
<1>5. CASE Cancel
  <2>1. Contract!Cancel
    BY <1>5 DEF Cancel, scanVars, Contract!Cancel
  <2> QED
    BY <2>1 DEF Contract!Next
<1>6. CASE Tick \/ ReadProgress
  <2>1. UNCHANGED <<files, flag, cancelled, main>>
    BY <1>6 DEF Tick, ReadProgress, scanVars
  <2> QED
    BY <2>1, Stutters DEF Phase, Broken
<1>7. ASSUME NEW d \in Dirs, Worker(d)
      PROVE  [Contract!Next]_(Contract!contractVars)
  <2>1. CASE Acquire(d) \/ CheckCancelled(d) \/ Release(d)
    <3>1. UNCHANGED <<files, flag, cancelled, main>>
      BY <2>1 DEF Acquire, CheckCancelled, Release
    <3> QED
      BY <3>1, Stutters DEF Phase, Broken
  <2>2. CASE OpenDir(d)
    <3>1. UNCHANGED <<files, cancelled, main>>
      BY <2>2 DEF OpenDir
    <3>2. main \notin {"idle", "returned"}
      BY <2>2, DirFacts DEF IInv, RootInv, OpenDir, Handover, AwaitedInv, OwedInv, WaitInv, Live
    <3>3. \A x \in Dirs : flag'[x] = IF x = d THEN flag'[d] ELSE flag[x]
      BY <1>0, <2>2 DEF OpenDir, TypeOK
    <3>4. CASE flag'[d] = "!"
      <4>1. Broken' = Broken \cup {d}
        BY <3>3, <3>4 DEF Broken
      <4>2. Contract!Break(d)
        BY <3>1, <3>2, <4>1 DEF Contract!Break, Broken
      <4> QED
        BY <4>2 DEF Contract!Next
    <3>5. CASE flag'[d] # "!"
      <4>1. flag[d] # "!"
        BY <2>2, <1>0 DEF IInv, FilesInv, ProcInv, OpenDir
      <4>2. Broken' = Broken
        BY <3>3, <3>5, <4>1 DEF Broken
      <4> QED
        BY <3>1, <4>2, Stutters DEF Phase
    <3> QED
      BY <3>4, <3>5
  <2>3. CASE EndLoop(d)
    <3>1. UNCHANGED <<files, flag, cancelled>>
      BY <2>3 DEF EndLoop
    <3>2. Phase' = Phase
      BY <2>3 DEF EndLoop, Phase, IInv, RootInv
    <3> QED
      BY <3>1, <3>2, Stutters DEF Broken
  <2>4. ASSUME NEW e \in Entries,
               SkipEntry(d, e) \/ SpawnSubDir(d, e) \/ AddFile(d, e) \/ FailFile(d, e)
        PROVE  [Contract!Next]_(Contract!contractVars)
    <3>1. /\ UNCHANGED <<cancelled, main>> /\ e \in todo[d] /\ worker[d] = "scanning"
      BY <2>4 DEF SkipEntry, SpawnSubDir, AddFile, FailFile, TakeEntry
    <3>2. main \notin {"idle", "returned"}
      BY <3>1, DirFacts DEF IInv, RootInv, Handover, AwaitedInv, OwedInv, WaitInv, Live
    <3>3. CASE SkipEntry(d, e) \/ SpawnSubDir(d, e)
      <4>1. UNCHANGED <<files, flag>>
        BY <3>3 DEF SkipEntry, SpawnSubDir
      <4> QED
        BY <3>1, <4>1, Stutters DEF Phase, Broken
    <3>4. CASE AddFile(d, e)
      <4>1. \A x \in Dirs : files'[x] = IF x = d THEN files[d] \cup {e} ELSE files[x]
        BY <1>0, <3>4 DEF AddFile, TypeOK
      <4>2. Parent[e] = d /\ e \notin files[d] /\ e \notin Skip /\ flag' = flag
        BY <3>1, <3>4, EntryFacts DEF IInv, TodoInv, AddFile
      <4>3. Contract!Link(e)
        BY <3>1, <3>2, <4>1, <4>2, LinkStep
      <4> QED
        BY <4>2, <4>3 DEF Contract!Next, Contract!Entries, Entries
    <3>5. CASE FailFile(d, e)
      <4>1. \A x \in Dirs : flag'[x] = IF x = d THEN "!" ELSE flag[x]
        BY <1>0, <3>5 DEF FailFile, TypeOK
      <4>2. Broken' = Broken \cup {d} /\ files' = files
        BY <3>5, <4>1 DEF Broken, FailFile
      <4>3. Contract!Break(d)
        BY <3>1, <3>2, <4>2 DEF Contract!Break, Broken
      <4> QED
        BY <4>3 DEF Contract!Next
    <3> QED
      BY <2>4, <3>3, <3>4, <3>5
  <2> QED
    BY <1>7, <2>1, <2>2, <2>3, <2>4 DEF Worker
<1>8. ASSUME NEW p \in Dirs, Collector(p)
      PROVE  [Contract!Next]_(Contract!contractVars)
  <2>1. CASE CollectorDone(p)
    <3>1. UNCHANGED <<files, flag, cancelled, main>>
      BY <2>1 DEF CollectorDone
    <3> QED
      BY <3>1, Stutters DEF Phase, Broken
  <2>2. ASSUME NEW c \in SubDirs, Receive(p, c)
        PROVE  [Contract!Next]_(Contract!contractVars)
    <3>1. /\ UNCHANGED <<flag, cancelled, main>> /\ c \in owed[p]
          /\ worker[c] \in {"sending", "sendingNil"}
      BY <2>2 DEF Receive
    <3>2. Parent[c] = p /\ c \in Entries \ Skip /\ c \notin files[p]
      BY <3>1, DirFacts, EntryFacts DEF IInv, OwedInv, LinkInv
    <3>3. main \notin {"idle", "returned"}
      BY <3>1, DirFacts DEF IInv, RootInv, Handover, OwedInv, WaitInv, Live
    <3>4. CASE worker[c] = "sending"
      <4>1. \A x \in Dirs : files'[x] = IF x = p THEN files[p] \cup {c} ELSE files[x]
        BY <1>0, <2>2, <3>4 DEF Receive, TypeOK
      <4>2. Contract!Link(c)
        BY <3>1, <3>2, <3>3, <4>1, LinkStep
      <4> QED
        BY <3>2, <4>2 DEF Contract!Next, Contract!Entries, Entries
    <3>5. CASE worker[c] # "sending"
      <4>1. files' = files
        BY <1>0, <2>2, <3>5 DEF Receive, TypeOK
      <4> QED
        BY <3>1, <4>1, Stutters DEF Phase, Broken
    <3> QED
      BY <3>4, <3>5
  <2> QED
    BY <1>8, <2>1, <2>2 DEF Collector
<1>9. CASE UNCHANGED vars
  <2>1. UNCHANGED <<files, flag, cancelled, main>>
    BY <1>9 DEF vars
  <2> QED
    BY <2>1, Stutters DEF Phase, Broken
<1> QED
  BY <1>1, <1>2, <1>3, <1>4, <1>5, <1>6, <1>7, <1>8, <1>9 DEF Next, AnalyzeDir, User

\* The parallel analyzer, with all its goroutines, implements the contract the
\* interfaces rely on.
THEOREM ImplementsContract == Spec => KeepsContract
<1>1. Init => Contract!Init
  <2> SUFFICES ASSUME Init
               PROVE  Contract!Init
    OBVIOUS
  <2>1. \A d \in Dirs : files[d] = {} /\ flag[d] = " "
    BY DEF Init, Everywhere
  <2>2. Linked = {} /\ Broken = {}
    BY <2>1 DEF Linked, Broken
  <2> QED
    BY <2>2 DEF Init, Contract!Init, Linked, Broken
<1>2. IInv /\ [Next]_vars => [Contract!Next]_(Contract!contractVars)
  BY StepRefines
<1> QED
  BY <1>1, <1>2, Invariance, PTL DEF Spec, KeepsContract, Contract!Spec
=============================================================================
