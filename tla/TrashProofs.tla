---------------------------- MODULE TrashProofs ----------------------------
(***************************************************************************)
(* Moving to the trash, for any number of items, parts and candidate names   *)
(* (Parts, its part Trash): whatever fails and whenever the process ends,    *)
(* every part of an item is where it was or in the trash, what was moved can *)
(* be restored, no .trashinfo file is left over that could be removed, and   *)
(* the tree follows.                                                         *)
(*                                                                           *)
(* The argument: until its source is removed an item is whole; whoever has   *)
(* got as far as moving holds the .trashinfo file of its name, and what is   *)
(* in the way at that name is no item's; so the roll-back of one move never  *)
(* takes away what another has put into the trash.                           *)
(***************************************************************************)
EXTENDS Parts, TLAPS

Before == {"idle", "looking", "reserving"}
Holding == {"checking", "moving", "copying"}
After == {"moved", "done", "failed", "commanded"}

MoverType ==
  mover \in [Items -> [stage : Before \cup Holding \cup After, name : Trash!Names, try : 0..Tries]]

WholeUntilMoved == \A i \in Items : mover[i].stage \in Before \cup Holding => source[i] = ItemParts

\* A reserved name is its mover's.
Reserved ==
  \A i \in Items :
    mover[i].stage \in Holding => mover[i].name \in DOMAIN info /\ info[mover[i].name] = i

\* What is at the name of a move that has not begun is no item's, and
\* afterwards it is the item's own.
NameIsFree ==
  \A i \in Items :
    /\ mover[i].stage = "moving" /\ mover[i].name \in DOMAIN trashed => trashed[mover[i].name].owner \notin Items
    /\ mover[i].stage = "copying" => mover[i].name \in DOMAIN trashed /\ trashed[mover[i].name].owner = i

\* What is in the trash, and on the file system's side the names.
FilesType ==
  /\ DOMAIN trashed \subseteq Trash!Names
  /\ \A n \in DOMAIN trashed : trashed[n] \in [owner : Items \cup {Trash!Other}, parts : SUBSET ItemParts]
  /\ DOMAIN info \subseteq Trash!Names
  /\ \A n \in DOMAIN info : info[n] \in Items \cup {Trash!Other}

\* Until the process ends, the .trashinfo file of an item is that of a move
\* under way or of an entry, or could not be removed.
InfoExplained ==
  ended \/ \A n \in DOMAIN info \ unremoved : info[n] \in Items =>
    \/ mover[info[n]].stage \in Holding /\ mover[info[n]].name = n
    \/ n \in DOMAIN trashed /\ trashed[n].owner = info[n]

\* Only what was moved or commanded away is off the tree, and it has left its
\* place, unless lstat could not see it there.
TreeListed ==
  /\ tree \subseteq Items
  /\ \A i \in Items :
       /\ mover[i].stage \notin {"done", "commanded"} => i \in tree
       /\ mover[i].stage = "moved" => source[i] = {}
       /\ i \notin tree => source[i] = {} \/ i \in unseen

DeviceKnown == \A i \in Items : mover[i].stage = "copying" => otherDevice

\* The inductive invariant: nothing is lost ...
TrashInv ==
  /\ MoverType
  /\ source \in [Items -> SUBSET ItemParts]
  /\ WholeUntilMoved
  /\ Reserved
  /\ NameIsFree
  /\ Trash!NothingLost

\* ... and what is kept besides.
KeptInv ==
  /\ FilesType
  /\ InfoExplained
  /\ TreeListed
  /\ DeviceKnown
  /\ Trash!MovedCanBeRestored
  /\ Trash!OthersAreKept

-----------------------------------------------------------------------------
(* What the history and the places of parts need *)

\* Taking away of what belongs to no item, or to one that is whole, loses nothing.
LEMMA RemovalLosesNothing ==
  ASSUME Trash!NothingLost, source' = source, taken' = taken, NEW n,
         \A x \in DOMAIN trashed \ {n} : x \in DOMAIN trashed' /\ trashed'[x] = trashed[x],
         n \in DOMAIN trashed => trashed[n].owner \notin Items \/ source[trashed[n].owner] = ItemParts
  PROVE  Trash!NothingLost'
  BY DEF Trash!NothingLost, Trash!InTrash

\* What a roll-back of a copy leaves was there, and nothing else changes.
LEMMA RemoveCopyFacts ==
  ASSUME NEW n, Trash!RemoveCopy(n)
  PROVE  /\ \A x : x # n => /\ x \in DOMAIN trashed' <=> x \in DOMAIN trashed
                            /\ x \in DOMAIN trashed => trashed'[x] = trashed[x]
         /\ n \in DOMAIN trashed' =>
              /\ n \in DOMAIN trashed
              /\ \E rest \in SUBSET trashed[n].parts : trashed'[n] = [owner |-> trashed[n].owner, parts |-> rest]
BY DEF Trash!RemoveCopy, Trash!Drop, Trash!With

LEMMA RemoveCopyTyped ==
  ASSUME FilesType, NEW n, Trash!RemoveCopy(n), DOMAIN info' \subseteq DOMAIN info,
         \A x \in DOMAIN info' : info'[x] = info[x]
  PROVE  FilesType'
<1>1. /\ DOMAIN trashed' \subseteq Trash!Names
      /\ \A x \in DOMAIN trashed' \ {n} : trashed'[x] \in [owner : Items \cup {Trash!Other}, parts : SUBSET ItemParts]
  BY RemoveCopyFacts DEF FilesType
<1>2. ASSUME n \in DOMAIN trashed'
      PROVE  trashed'[n] \in [owner : Items \cup {Trash!Other}, parts : SUBSET ItemParts]
  <2>1. n \in DOMAIN trashed /\ \E rest \in SUBSET trashed[n].parts : trashed'[n] = [owner |-> trashed[n].owner, parts |-> rest]
    BY <1>2, RemoveCopyFacts
  <2>2. trashed[n] \in [owner : Items \cup {Trash!Other}, parts : SUBSET ItemParts]
    BY <2>1 DEF FilesType
  <2> QED
    BY <2>1, <2>2
<1> QED
  BY <1>1, <1>2 DEF FilesType

\* The roll-back of a .trashinfo file takes away that file, or says that it
\* could not.
LEMMA RollBackFacts ==
  ASSUME NEW n, Trash!RollBack(n)
  PROVE  /\ DOMAIN info' \subseteq DOMAIN info /\ \A x \in DOMAIN info' : info'[x] = info[x]
         /\ \A x : x # n => (x \in DOMAIN info' <=> x \in DOMAIN info)
         /\ n \in DOMAIN info' => n \in unremoved'
         /\ unremoved \subseteq unremoved'
BY DEF Trash!RollBack, Trash!Drop

\* Nor does putting something at a free name or adding to what is there.
LEMMA GrowthLosesNothing ==
  ASSUME Trash!NothingLost, source' = source, taken \subseteq taken',
         \A n \in DOMAIN trashed : /\ n \in DOMAIN trashed' /\ trashed'[n].owner = trashed[n].owner
                                 /\ trashed[n].parts \subseteq trashed'[n].parts
  PROVE  Trash!NothingLost'
  BY DEF Trash!NothingLost, Trash!InTrash

\* Two movers never hold one name.
LEMMA NamesDiffer ==
  ASSUME Reserved, NEW i \in Items, NEW j \in Items, i # j,
         mover[i].stage \in Holding, mover[j].stage \in Holding
  PROVE  mover[i].name # mover[j].name
  BY DEF Reserved

\* A step of one mover is one record of the function.
LEMMA OneMover ==
  ASSUME MoverType, NEW i \in Items, NEW s \in Before \cup Holding \cup After, Trash!Goes(i, s)
  PROVE  /\ MoverType'
         /\ mover'[i].stage = s /\ mover'[i].name = mover[i].name
         /\ \A j \in Items : j # i => mover'[j] = mover[j]
  BY DEF MoverType, Trash!Goes, Before, Holding, After

LEMMA OneNext ==
  ASSUME MoverType, NEW i \in Items, Trash!NextName(i) \/ Trash!Retry(i)
  PROVE  /\ MoverType'
         /\ mover'[i].stage \in {"looking", "failed"}
         /\ \A j \in Items : j # i => mover'[j] = mover[j]
<1>1. CASE Trash!NextName(i)
  <2>1. CASE mover[i].name < LastName
    <3>1. mover' = [mover EXCEPT ![i].stage = "looking", ![i].name = mover[i].name + 1]
      BY <1>1, <2>1 DEF Trash!NextName
    <3>2. mover[i].name + 1 \in Trash!Names
      BY <2>1, PartsAssumption DEF MoverType, Trash!Names
    <3> QED
      BY <3>1, <3>2 DEF MoverType, Before, Holding, After
  <2>2. CASE ~(mover[i].name < LastName)
    <3>1. mover' = [mover EXCEPT ![i].stage = "failed", ![i].name = mover[i].name]
      BY <1>1, <2>2 DEF Trash!NextName
    <3> QED
      BY <3>1 DEF MoverType, Before, Holding, After
  <2> QED
    BY <2>1, <2>2
<1>2. CASE Trash!Retry(i)
  <2> DEFINE try == mover[i].try
  <2>1. 1 \in Trash!Names /\ (try < Tries => try + 1 \in 0..Tries)
    BY PartsAssumption DEF MoverType, Trash!Names
  <2> QED
    BY <1>2, <2>1 DEF MoverType, Trash!Retry, Before, Holding, After
<1> QED
  BY <1>1, <1>2

-----------------------------------------------------------------------------
(* One lemma for each kind of step *)

LEMMA Starts ==
  ASSUME Trash!Init
  PROVE  TrashInv /\ KeptInv
<1>1. \A i \in Items : mover[i] = [stage |-> "idle", name |-> 1, try |-> 0]
  BY DEF Trash!Init, Trash!AtStart
<1>2. 1 \in Trash!Names /\ 0 \in 0..Tries
  BY PartsAssumption DEF Trash!Names
<1>3. MoverType
  BY <1>2 DEF Trash!Init, Trash!AtStart, MoverType, Before
<1>4. TrashInv
  BY <1>1, <1>3 DEF Trash!Init, TrashInv, WholeUntilMoved, Reserved, NameIsFree, Trash!NothingLost,
     Before, Holding
<1>5. KeptInv
  BY <1>1 DEF Trash!Init, KeptInv, FilesType, InfoExplained, TreeListed, DeviceKnown,
     Trash!MovedCanBeRestored, Trash!OthersAreKept, Trash!At
<1> QED
  BY <1>4, <1>5

\* What a step of one mover leaves alone, and what it must leave at its own
\* name, for the second part of the invariant.
LEMMA MoverKeeps ==
  ASSUME TrashInv, KeptInv, NEW i \in Items,
         mover[i].stage \notin {"moved", "done", "commanded"},
         UNCHANGED <<otherDevice, tree, others, unseen, ended>>, unremoved \subseteq unremoved',
         FilesType',
         \A j \in Items : j # i => mover'[j] = mover[j] /\ source'[j] = source[j],
         \A n : n # mover[i].name =>
           /\ n \in DOMAIN info' <=> n \in DOMAIN info
           /\ n \in DOMAIN info => info'[n] = info[n]
           /\ n \in DOMAIN trashed' <=> n \in DOMAIN trashed
           /\ n \in DOMAIN trashed => trashed'[n] = trashed[n],
         \/ UNCHANGED <<info, trashed>> /\ mover[i].stage \notin Holding
         \/ /\ mover[i].name \in DOMAIN info => info[mover[i].name] = i
            /\ mover[i].name \in DOMAIN info' \ unremoved' =>
                 /\ info'[mover[i].name] = i
                 /\ \/ mover'[i].stage \in Holding /\ mover'[i].name = mover[i].name
                    \/ mover[i].name \in DOMAIN trashed' /\ trashed'[mover[i].name].owner = i,
         \/ otherDevice
         \/ /\ mover'[i].stage # "copying"
            /\ mover[i].name \in DOMAIN trashed =>
                 mover[i].name \in DOMAIN trashed' /\ trashed'[mover[i].name] = trashed[mover[i].name],
         mover'[i].stage = "moved" =>
           /\ source'[i] = {} /\ mover'[i].name \in DOMAIN info' /\ info'[mover'[i].name] = i
           /\ mover'[i].name \in DOMAIN trashed'
           /\ trashed'[mover'[i].name] = [owner |-> i, parts |-> ItemParts]
  PROVE  KeptInv'
<1>1. InfoExplained'
  <2> SUFFICES ASSUME ~ended, NEW n \in DOMAIN info' \ unremoved', info'[n] \in Items
               PROVE  \/ mover'[info'[n]].stage \in Holding /\ mover'[info'[n]].name = n
                      \/ n \in DOMAIN trashed' /\ trashed'[n].owner = info'[n]
    BY DEF InfoExplained
  <2>1. CASE n # mover[i].name
    <3>1. n \in DOMAIN info /\ info'[n] = info[n]
      BY <2>1
    <3>2. \/ mover[info[n]].stage \in Holding /\ mover[info[n]].name = n
          \/ n \in DOMAIN trashed /\ trashed[n].owner = info[n]
      BY <3>1 DEF KeptInv, InfoExplained
    <3> QED
      BY <2>1, <3>1, <3>2
  <2>2. CASE n = mover[i].name /\ UNCHANGED <<info, trashed>> /\ mover[i].stage \notin Holding
    <3>1. \/ mover[info[n]].stage \in Holding /\ mover[info[n]].name = n
          \/ n \in DOMAIN trashed /\ trashed[n].owner = info[n]
      BY <2>2 DEF KeptInv, InfoExplained
    <3>2. mover[info[n]].stage \in Holding => info[n] # i
      BY <2>2
    <3> QED
      BY <2>2, <3>1, <3>2
  <2>3. CASE n = mover[i].name /\ ~(UNCHANGED <<info, trashed>> /\ mover[i].stage \notin Holding)
    BY <2>3
  <2> QED
    BY <2>1, <2>2, <2>3
<1>2. TreeListed'
  BY DEF KeptInv, TreeListed
<1>3. DeviceKnown'
  BY DEF KeptInv, DeviceKnown
<1>4. Trash!MovedCanBeRestored'
  <2> SUFFICES ASSUME NEW j \in Items, mover'[j].stage = "moved"
               PROVE  /\ mover'[j].name \in DOMAIN info' /\ info'[mover'[j].name] = j
                      /\ mover'[j].name \in DOMAIN trashed'
                      /\ trashed'[mover'[j].name] = [owner |-> j, parts |-> ItemParts]
    BY DEF Trash!MovedCanBeRestored, Trash!At
  <2>1. CASE j # i
    <3> DEFINE n == mover[j].name
    <3>1. /\ mover'[j] = mover[j] /\ n \in DOMAIN info /\ info[n] = j
          /\ n \in DOMAIN trashed /\ trashed[n] = [owner |-> j, parts |-> ItemParts]
      BY <2>1 DEF KeptInv, Trash!MovedCanBeRestored, Trash!At
    <3>2. n = mover[i].name => UNCHANGED <<info, trashed>>
      BY <2>1, <3>1
    <3> QED
      BY <3>1, <3>2
  <2>2. CASE j = i
    BY <2>2
  <2> QED
    BY <2>1, <2>2
<1>5. Trash!OthersAreKept'
  <2> SUFFICES ASSUME ~otherDevice, NEW n \in others
               PROVE  n \in DOMAIN trashed' /\ trashed'[n].owner = Trash!Other
    BY DEF Trash!OthersAreKept
  <2>1. n \in DOMAIN trashed /\ trashed[n].owner = Trash!Other
    BY DEF KeptInv, Trash!OthersAreKept
  <2>2. trashed'[n] = trashed[n] /\ n \in DOMAIN trashed'
    BY <2>1
  <2> QED
    BY <2>1, <2>2
<1> QED
  BY <1>1, <1>2, <1>3, <1>4, <1>5 DEF KeptInv

\* Looking for a name changes neither parts nor trashed.
LEMMA LookingKeeps ==
  ASSUME TrashInv, KeptInv, NEW i \in Items,
         Trash!Begin(i) \/ Trash!Look(i) \/ Trash!Reserve(i) \/ Trash!ReserveFails(i) \/ Trash!Check(i) \/ Trash!CheckFails(i)
  PROVE  TrashInv' /\ KeptInv'
<1>1. /\ UNCHANGED <<source, trashed, taken>>
      /\ source[i] = ItemParts
      /\ mover[i].stage \in Before \cup {"checking"}
  BY DEF Trash!Begin, Trash!Look, Trash!Reserve, Trash!ReserveFails, Trash!Check, Trash!CheckFails, Trash!At, TrashInv, WholeUntilMoved, Before, Holding
<1>2. /\ MoverType'
      /\ mover'[i].stage \in {"looking", "reserving", "failed", "checking", "moving"}
      /\ \A j \in Items : j # i => mover'[j] = mover[j]
  <2>1. \/ \E s \in {"looking", "reserving", "failed", "checking", "moving"} : Trash!Goes(i, s)
        \/ Trash!NextName(i)
    BY DEF Trash!Begin, Trash!Look, Trash!Reserve, Trash!ReserveFails, Trash!Check, Trash!CheckFails, Trash!GiveUp, Trash!Fails
  <2>2. CASE Trash!NextName(i)
    BY <2>2, OneNext DEF TrashInv
  <2>3. ASSUME NEW s \in {"looking", "reserving", "failed", "checking", "moving"}, Trash!Goes(i, s)
        PROVE  /\ MoverType' /\ mover'[i].stage = s
               /\ \A j \in Items : j # i => mover'[j] = mover[j]
    <3>1. s \in Before \cup Holding \cup After
      BY DEF Before, Holding, After
    <3> QED
      BY <2>3, <3>1, OneMover DEF TrashInv
  <2> QED
    BY <2>1, <2>2, <2>3
<1>3. WholeUntilMoved'
  BY <1>1, <1>2 DEF TrashInv, WholeUntilMoved
<1>4. mover'[i].stage = "checking" => Trash!Reserve(i) /\ mover'[i].name = mover[i].name
  <2>1. CASE Trash!Reserve(i)
    BY <2>1, <1>2, OneNext, OneMover DEF Trash!Reserve, Trash!Goes, TrashInv, MoverType, Before, Holding, After
  <2>2. CASE Trash!Begin(i) \/ Trash!Look(i) \/ Trash!ReserveFails(i) \/ Trash!Check(i) \/ Trash!CheckFails(i)
    <3>1. Trash!NextName(i) \/ \E s \in {"looking", "reserving", "failed", "moving"} : Trash!Goes(i, s)
      BY <2>2 DEF Trash!Begin, Trash!Look, Trash!ReserveFails, Trash!Check, Trash!CheckFails, Trash!GiveUp, Trash!Fails
    <3>2. mover'[i].stage # "checking"
      BY <3>1, OneNext, OneMover DEF TrashInv, Before, Holding, After
    <3> QED
      BY <3>2
  <2> QED
    BY <2>1, <2>2
<1>5. mover'[i].stage = "moving" =>
        Trash!Check(i) /\ mover'[i].name = mover[i].name /\ mover[i].name \notin DOMAIN trashed /\ info' = info
  <2>1. CASE Trash!Check(i)
    <3>1. CASE mover[i].name \in DOMAIN trashed
      BY <2>1, <3>1, OneNext DEF Trash!Check, TrashInv
    <3>2. CASE mover[i].name \notin DOMAIN trashed
      BY <2>1, <3>2, OneMover DEF Trash!Check, TrashInv, Before, Holding, After
    <3> QED
      BY <3>1, <3>2
  <2>2. CASE Trash!Begin(i) \/ Trash!Look(i) \/ Trash!Reserve(i) \/ Trash!ReserveFails(i) \/ Trash!CheckFails(i)
    <3>1. Trash!NextName(i) \/ \E s \in {"looking", "reserving", "failed", "checking"} : Trash!Goes(i, s)
      BY <2>2 DEF Trash!Begin, Trash!Look, Trash!Reserve, Trash!ReserveFails, Trash!CheckFails, Trash!GiveUp, Trash!Fails
    <3>2. mover'[i].stage # "moving"
      BY <3>1, OneNext, OneMover DEF TrashInv, Before, Holding, After
    <3> QED
      BY <3>2
  <2> QED
    BY <2>1, <2>2
<1>6. Reserved'
  <2>1. ASSUME NEW j \in Items, mover'[j].stage \in Holding
        PROVE  mover'[j].name \in DOMAIN info' /\ info'[mover'[j].name] = j
    <3>1. CASE j = i /\ mover'[i].stage = "checking"
      <4>1. Trash!Goes(i, "checking") /\ info' = Trash!With(info, mover[i].name, i)
        <5>1. ~Trash!NextName(i)
          BY <3>1, OneNext DEF TrashInv
        <5> QED
          BY <1>4, <3>1, <5>1 DEF Trash!Reserve
      <4> QED
        BY <1>4, <3>1, <4>1 DEF Trash!With
    <3>2. CASE j = i /\ mover'[i].stage = "moving"
      BY <1>5, <3>2 DEF Trash!Check, Trash!At, TrashInv, Reserved, Holding
    <3>3. CASE j # i
      <4>1. mover'[j] = mover[j] /\ mover[j].name \in DOMAIN info /\ info[mover[j].name] = j
        BY <1>2, <2>1, <3>3 DEF TrashInv, Reserved
      <4>2. \/ info' = info
            \/ mover[i].name \notin DOMAIN info /\ info' = Trash!With(info, mover[i].name, i)
            \/ mover[i].stage = "checking" /\ info' = Trash!Drop(info, mover[i].name)
        BY DEF Trash!Begin, Trash!Look, Trash!Reserve, Trash!ReserveFails, Trash!Check, Trash!CheckFails, Trash!GiveUp,
           Trash!RollBack, Trash!At
      <4>3. mover[i].stage = "checking" => mover[i].name # mover[j].name
        BY <2>1, <3>3, <4>1, NamesDiffer DEF TrashInv, Holding
      <4> QED
        BY <4>1, <4>2, <4>3 DEF Trash!With, Trash!Drop
    <3> QED
      BY <1>2, <2>1, <3>1, <3>2, <3>3 DEF Holding
  <2> QED
    BY <2>1 DEF Reserved
<1>7. NameIsFree'
  BY <1>1, <1>2, <1>5 DEF TrashInv, NameIsFree
<1>8. Trash!NothingLost'
  BY <1>1, GrowthLosesNothing DEF TrashInv
<1>9. TrashInv'
  BY <1>1, <1>2, <1>3, <1>6, <1>7, <1>8 DEF TrashInv
<1>10. UNCHANGED <<otherDevice, tree, others, unseen, ended>> /\ unremoved \subseteq unremoved'
  BY DEF Trash!Begin, Trash!Look, Trash!Reserve, Trash!ReserveFails, Trash!Check, Trash!CheckFails, Trash!GiveUp,
     Trash!RollBack
<1>11. \/ mover[i].stage \in Before /\ info' = info
       \/ /\ mover[i].name \notin DOMAIN info /\ info' = Trash!With(info, mover[i].name, i)
          /\ \/ mover'[i].stage = "checking" /\ mover'[i].name = mover[i].name
             \/ mover[i].name \in unremoved'
       \/ /\ mover[i].stage = "checking" /\ info' = info
          /\ \/ mover'[i].stage = "moving" /\ mover'[i].name = mover[i].name
             \/ mover[i].name \in unremoved'
       \/ mover[i].stage = "checking" /\ info' = Trash!Drop(info, mover[i].name)
  <2>1. CASE Trash!Begin(i) \/ Trash!Look(i) \/ Trash!ReserveFails(i) \/ Trash!CheckFails(i)
    BY <2>1 DEF Trash!Begin, Trash!Look, Trash!ReserveFails, Trash!CheckFails, Trash!GiveUp, Trash!RollBack, Trash!At,
       Before
  <2>2. CASE Trash!Reserve(i)
    <3>1. Trash!Goes(i, "checking") => mover'[i].stage = "checking" /\ mover'[i].name = mover[i].name
      BY OneMover DEF TrashInv, Holding
    <3> QED
      BY <2>2, <3>1 DEF Trash!Reserve, Trash!At, Before
  <2>3. CASE Trash!Check(i)
    <3>1. Trash!Goes(i, "moving") => mover'[i].stage = "moving" /\ mover'[i].name = mover[i].name
      BY OneMover DEF TrashInv, Holding
    <3> QED
      BY <2>3, <3>1 DEF Trash!Check, Trash!RollBack, Trash!At
  <2> QED
    BY <2>1, <2>2, <2>3
<1>12. mover[i].name \in Trash!Names
  BY DEF TrashInv, MoverType
<1>13. mover[i].stage \in Holding => mover[i].name \in DOMAIN info /\ info[mover[i].name] = i
  BY DEF TrashInv, Reserved
<1>14. FilesType'
  BY <1>1, <1>11, <1>12 DEF KeptInv, FilesType, Trash!With, Trash!Drop
<1>15. KeptInv'
  <2>1. mover[i].stage \notin {"moved", "done", "commanded"} /\ mover'[i].stage \notin {"copying", "moved"}
    BY <1>1, <1>2 DEF Before
  <2>2. \A n : n # mover[i].name =>
           /\ n \in DOMAIN info' <=> n \in DOMAIN info
           /\ n \in DOMAIN info => info'[n] = info[n]
    BY <1>11 DEF Trash!With, Trash!Drop
  <2>3. \/ UNCHANGED <<info, trashed>> /\ mover[i].stage \notin Holding
        \/ /\ mover[i].name \in DOMAIN info => info[mover[i].name] = i
           /\ mover[i].name \in DOMAIN info' \ unremoved' =>
                info'[mover[i].name] = i /\ mover'[i].stage \in Holding /\ mover'[i].name = mover[i].name
    BY <1>1, <1>11, <1>13 DEF Trash!With, Trash!Drop, Before, Holding
  <2> QED
    BY <1>1, <1>2, <1>10, <1>14, <2>1, <2>2, <2>3, MoverKeeps
<1> QED
  BY <1>9, <1>15

\* Giving a move up frees no name but its own.
LEMMA OthersReserved ==
  ASSUME TrashInv, NEW i \in Items, mover[i].stage \in Holding,
         Trash!RollBack(mover[i].name), mover'[i].stage \in Before \cup After,
         \A j \in Items : j # i => mover'[j] = mover[j]
  PROVE  Reserved'
<1> SUFFICES ASSUME NEW j \in Items, mover'[j].stage \in Holding
             PROVE  mover'[j].name \in DOMAIN info' /\ info'[mover'[j].name] = j
  BY DEF Reserved
<1>1. j # i
  BY DEF Before, Holding, After
<1>2. mover'[j] = mover[j] /\ mover[j].name # mover[i].name
  BY <1>1, NamesDiffer DEF TrashInv
<1> QED
  BY <1>1, <1>2, RollBackFacts DEF TrashInv, Reserved

\* What changes at the name of one mover is not at the name of another.
LEMMA FreeElsewhere ==
  ASSUME TrashInv, NEW i \in Items, mover[i].stage \in Holding,
         \A j \in Items : j # i => mover'[j] = mover[j],
         \A n : n # mover[i].name => /\ n \in DOMAIN trashed' <=> n \in DOMAIN trashed
                                     /\ n \in DOMAIN trashed => trashed'[n].owner = trashed[n].owner,
         mover'[i].stage # "moving",
         mover'[i].stage = "copying" => mover'[i].name \in DOMAIN trashed' /\ trashed'[mover'[i].name].owner = i
  PROVE  NameIsFree'
<1> SUFFICES ASSUME NEW j \in Items
             PROVE  /\ mover'[j].stage = "moving" /\ mover'[j].name \in DOMAIN trashed'
                         => trashed'[mover'[j].name].owner \notin Items
                    /\ mover'[j].stage = "copying"
                         => mover'[j].name \in DOMAIN trashed' /\ trashed'[mover'[j].name].owner = j
  BY DEF NameIsFree
<1>1. CASE j = i
  BY <1>1
<1>2. CASE j # i /\ mover[j].stage \in Holding
  <2>1. mover'[j] = mover[j] /\ mover[j].name # mover[i].name
    BY <1>2, NamesDiffer DEF TrashInv
  <2> QED
    BY <2>1 DEF TrashInv, NameIsFree
<1>3. CASE j # i /\ mover[j].stage \notin Holding
  BY <1>3 DEF Holding
<1> QED
  BY <1>1, <1>2, <1>3

\* Renaming puts all of the item at a name that is free.
LEMMA RenameKeeps ==
  ASSUME TrashInv, KeptInv, NEW i \in Items, Trash!Rename(i) \/ Trash!RenameFails(i)
  PROVE  TrashInv' /\ KeptInv'
<1>1. /\ mover[i].stage = "moving" /\ source[i] = ItemParts /\ taken' = taken
      /\ UNCHANGED <<otherDevice, tree, others, unseen, ended>>
  BY DEF Trash!Rename, Trash!RenameFails, Trash!At, TrashInv, WholeUntilMoved, Holding
<1>2. mover[i].name \in Trash!Names /\ mover[i].name \in DOMAIN info /\ info[mover[i].name] = i
  BY <1>1 DEF TrashInv, MoverType, Reserved, Holding
<1>3. CASE \/ Trash!Rename(i) /\ mover[i].name \in DOMAIN trashed
           \/ Trash!RenameFails(i)
  <2>1. /\ UNCHANGED <<source, trashed>>
        /\ Trash!RollBack(mover[i].name)
        /\ Trash!Retry(i) \/ Trash!Goes(i, "failed")
    BY <1>3 DEF Trash!Rename, Trash!RenameFails, Trash!GiveUp, Trash!Fails
  <2>2. /\ MoverType' /\ mover'[i].stage \in {"looking", "failed"}
        /\ \A j \in Items : j # i => mover'[j] = mover[j]
    BY <2>1, OneNext, OneMover DEF TrashInv, After
  <2>3. Reserved'
    BY <1>1, <2>1, <2>2, OthersReserved DEF Holding, Before, After
  <2>4. NameIsFree'
    BY <1>1, <2>1, <2>2, FreeElsewhere DEF Holding
  <2>5. Trash!NothingLost'
    BY <1>1, <2>1, GrowthLosesNothing DEF TrashInv
  <2>6. WholeUntilMoved'
    BY <1>1, <2>1, <2>2 DEF TrashInv, WholeUntilMoved
  <2>7. FilesType'
    BY <2>1, RollBackFacts DEF KeptInv, FilesType
  <2>8. KeptInv'
    <3>1. /\ \A n : n # mover[i].name => /\ n \in DOMAIN info' <=> n \in DOMAIN info
                                         /\ n \in DOMAIN info => info'[n] = info[n]
          /\ mover[i].name \in DOMAIN info' => mover[i].name \in unremoved'
          /\ unremoved \subseteq unremoved'
      BY <2>1, RollBackFacts
    <3> QED
      BY <1>1, <1>2, <2>1, <2>2, <2>7, <3>1, MoverKeeps
  <2> QED
    BY <2>1, <2>2, <2>3, <2>4, <2>5, <2>6, <2>8 DEF TrashInv
<1>4. CASE Trash!Rename(i) /\ mover[i].name \notin DOMAIN trashed
  <2>1. /\ Trash!Goes(i, "moved") /\ info' = info /\ unremoved' = unremoved
        /\ trashed' = Trash!With(trashed, mover[i].name, [owner |-> i, parts |-> source[i]])
        /\ source' = [source EXCEPT ![i] = {}]
    BY <1>4 DEF Trash!Rename
  <2>2. /\ MoverType' /\ mover'[i].stage = "moved"
        /\ \A j \in Items : j # i => mover'[j] = mover[j]
    BY <2>1, OneMover DEF TrashInv, After
  <2>3. Reserved'
    BY <2>1, <2>2 DEF TrashInv, Reserved, Holding
  <2>4. NameIsFree'
    BY <1>1, <2>1, <2>2, FreeElsewhere DEF Holding, Trash!With
  <2>5. Trash!NothingLost'
    <3> SUFFICES ASSUME NEW k \in Items, NEW p \in ItemParts, k \notin taken, p \notin source'[k]
                 PROVE  Trash!InTrash(k, p)'
      BY <1>1 DEF Trash!NothingLost
    <3>1. CASE k = i
      <4> DEFINE n == mover[i].name
      <4>1. n \in DOMAIN trashed' /\ trashed'[n].owner = i /\ p \in trashed'[n].parts
        BY <1>1, <2>1, <3>1 DEF Trash!With
      <4> QED
        BY <3>1, <4>1 DEF Trash!InTrash
    <3>2. CASE k # i
      <4>1. p \notin source[k]
        BY <2>1, <3>2 DEF TrashInv
      <4>2. PICK n \in DOMAIN trashed : trashed[n].owner = k /\ p \in trashed[n].parts
        BY <4>1 DEF TrashInv, Trash!NothingLost, Trash!InTrash
      <4>3. n \in DOMAIN trashed' /\ trashed'[n] = trashed[n]
        BY <1>4, <2>1, <4>2 DEF Trash!With
      <4> QED
        BY <4>2, <4>3 DEF Trash!InTrash
    <3> QED
      BY <3>1, <3>2
  <2>6. WholeUntilMoved' /\ source' \in [Items -> SUBSET ItemParts]
    BY <1>1, <2>1, <2>2 DEF TrashInv, WholeUntilMoved, Before, Holding
  <2>7. FilesType'
    BY <1>1, <1>2, <2>1 DEF KeptInv, FilesType, Trash!With
  <2>8. mover'[i].name = mover[i].name
    BY <2>1, OneMover DEF TrashInv, After
  <2>9. /\ source'[i] = {} /\ mover[i].name \in DOMAIN trashed'
        /\ trashed'[mover[i].name] = [owner |-> i, parts |-> ItemParts]
        /\ \A j \in Items : j # i => source'[j] = source[j]
    BY <1>1, <2>1 DEF TrashInv, Trash!With
  <2>10. \A n : n # mover[i].name => /\ n \in DOMAIN trashed' <=> n \in DOMAIN trashed
                                     /\ n \in DOMAIN trashed => trashed'[n] = trashed[n]
    BY <2>1 DEF Trash!With
  <2>11. KeptInv'
    BY <1>1, <1>4, <1>2, <2>1, <2>2, <2>7, <2>8, <2>9, <2>10, MoverKeeps
  <2> QED
    BY <2>1, <2>2, <2>3, <2>4, <2>5, <2>6, <2>11 DEF TrashInv
<1> QED
  BY <1>3, <1>4

\* A copy is begun at a free name; what is in the way is no item's.
LEMMA OpenCopyKeeps ==
  ASSUME TrashInv, KeptInv, NEW i \in Items, Trash!OpenCopy(i)
  PROVE  TrashInv' /\ KeptInv'
<1>1. /\ mover[i].stage = "moving" /\ UNCHANGED <<source, taken>> /\ source[i] = ItemParts
      /\ otherDevice /\ UNCHANGED <<otherDevice, tree, others, unseen, ended>>
  BY DEF Trash!OpenCopy, Trash!At, TrashInv, WholeUntilMoved, Holding
<1>2. mover[i].name \in Trash!Names /\ mover[i].name \in DOMAIN info /\ info[mover[i].name] = i
  BY <1>1 DEF TrashInv, MoverType, Reserved, Holding
<1>3. CASE mover[i].name \in DOMAIN trashed
  <2>1. /\ Trash!Retry(i) /\ Trash!RollBack(mover[i].name) /\ Trash!RemoveCopy(mover[i].name)
    BY <1>3 DEF Trash!OpenCopy
  <2>2. /\ MoverType' /\ mover'[i].stage \in {"looking", "failed"}
        /\ \A j \in Items : j # i => mover'[j] = mover[j]
    BY <2>1, OneNext DEF TrashInv
  <2>3. Reserved'
    BY <1>1, <2>1, <2>2, OthersReserved DEF Holding, Before, After
  <2>4. NameIsFree'
    BY <1>1, <2>1, <2>2, RemoveCopyFacts, FreeElsewhere DEF Holding
  <2>5. trashed[mover[i].name].owner \notin Items
    BY <1>1, <1>3 DEF TrashInv, NameIsFree
  <2>6. Trash!NothingLost'
    <3>1. \A x \in DOMAIN trashed \ {mover[i].name} : x \in DOMAIN trashed' /\ trashed'[x] = trashed[x]
      BY <2>1, RemoveCopyFacts
    <3> QED
      BY <1>1, <2>5, <3>1, RemovalLosesNothing DEF TrashInv
  <2>7. WholeUntilMoved'
    BY <1>1, <2>2 DEF TrashInv, WholeUntilMoved
  <2>8. FilesType'
    BY <2>1, RollBackFacts, RemoveCopyTyped DEF KeptInv
  <2>9. KeptInv'
    <3>1. /\ \A n : n # mover[i].name => /\ n \in DOMAIN info' <=> n \in DOMAIN info
                                         /\ n \in DOMAIN info => info'[n] = info[n]
          /\ mover[i].name \in DOMAIN info' => mover[i].name \in unremoved'
          /\ unremoved \subseteq unremoved'
      BY <2>1, RollBackFacts
    <3>2. \A n : n # mover[i].name => /\ n \in DOMAIN trashed' <=> n \in DOMAIN trashed
                                      /\ n \in DOMAIN trashed => trashed'[n] = trashed[n]
      BY <2>1, RemoveCopyFacts
    <3> QED
      BY <1>1, <1>2, <2>2, <2>8, <3>1, <3>2, MoverKeeps
  <2> QED
    BY <1>1, <2>2, <2>3, <2>4, <2>6, <2>7, <2>9 DEF TrashInv
<1>4. CASE mover[i].name \notin DOMAIN trashed
  <2>1. /\ Trash!Goes(i, "copying") /\ info' = info /\ unremoved' = unremoved
        /\ trashed' = Trash!With(trashed, mover[i].name, [owner |-> i, parts |-> {}])
    BY <1>4 DEF Trash!OpenCopy
  <2>2. /\ MoverType' /\ mover'[i].stage = "copying" /\ mover'[i].name = mover[i].name
        /\ \A j \in Items : j # i => mover'[j] = mover[j]
    BY <2>1, OneMover DEF TrashInv, Holding
  <2>3. Reserved'
    BY <1>1, <2>1, <2>2 DEF TrashInv, Reserved, Holding
  <2>4. NameIsFree'
    BY <1>1, <2>1, <2>2, FreeElsewhere DEF Holding, Trash!With
  <2>5. Trash!NothingLost'
    BY <1>1, <1>4, <2>1, GrowthLosesNothing DEF TrashInv, Trash!With
  <2>6. WholeUntilMoved'
    BY <1>1, <2>2 DEF TrashInv, WholeUntilMoved
  <2>7. FilesType'
    BY <1>2, <2>1 DEF KeptInv, FilesType, Trash!With
  <2>8. KeptInv'
    BY <1>1, <1>2, <2>1, <2>2, <2>7, MoverKeeps DEF Trash!With, Holding
  <2> QED
    BY <1>1, <2>2, <2>3, <2>4, <2>5, <2>6, <2>8 DEF TrashInv
<1> QED
  BY <1>3, <1>4

LEMMA CopyPartKeeps ==
  ASSUME TrashInv, KeptInv, NEW i \in Items, Trash!CopyPart(i)
  PROVE  TrashInv' /\ KeptInv'
<1>1. /\ mover[i].stage = "copying" /\ UNCHANGED <<source, info, mover, taken>>
      /\ mover[i].name \in DOMAIN trashed
      /\ UNCHANGED <<otherDevice, tree, others, unseen, unremoved, ended>> /\ otherDevice
  BY DEF KeptInv, DeviceKnown, Trash!CopyPart, Trash!At, TrashInv, NameIsFree
<1>2. PICK p \in ItemParts : trashed' = Trash!With(trashed, mover[i].name, [owner |-> i, parts |-> trashed[mover[i].name].parts \cup {p}])
  BY DEF Trash!CopyPart, TrashInv
<1>3. DOMAIN trashed' = DOMAIN trashed
  BY <1>1, <1>2 DEF Trash!With
<1>4. \A n \in DOMAIN trashed : trashed'[n].owner = trashed[n].owner /\ trashed[n].parts \subseteq trashed'[n].parts
  BY <1>1, <1>2 DEF TrashInv, NameIsFree, Trash!With
<1>5. NameIsFree'
  BY <1>1, <1>3, <1>4 DEF TrashInv, NameIsFree
<1>6. Trash!NothingLost'
  BY <1>1, <1>3, <1>4, GrowthLosesNothing DEF TrashInv
<1>7. TrashInv'
  BY <1>1, <1>5, <1>6 DEF TrashInv, MoverType, WholeUntilMoved, Reserved
<1>8. mover[i].name \in Trash!Names /\ mover[i].name \in DOMAIN info /\ info[mover[i].name] = i
  BY <1>1 DEF TrashInv, MoverType, Reserved, Holding
<1>9. FilesType'
  <2>1. trashed[mover[i].name].parts \cup {p} \subseteq ItemParts
    BY <1>1, <1>2 DEF KeptInv, FilesType
  <2> QED
    BY <1>1, <1>2, <1>3, <1>8, <2>1 DEF KeptInv, FilesType, Trash!With
<1>10. \A n : n # mover[i].name /\ n \in DOMAIN trashed => trashed'[n] = trashed[n]
  BY <1>2 DEF Trash!With
<1>11. KeptInv'
  BY <1>1, <1>3, <1>8, <1>9, <1>10, MoverKeeps DEF Holding
<1> QED
  BY <1>7, <1>11

\* A failing copy takes itself away, or some of it, and the item is still where it was.
LEMMA CopyFailsKeeps ==
  ASSUME TrashInv, KeptInv, NEW i \in Items, Trash!CopyFails(i)
  PROVE  TrashInv' /\ KeptInv'
<1>1. /\ mover[i].stage \in {"moving", "copying"} /\ UNCHANGED <<source, taken>> /\ source[i] = ItemParts
      /\ Trash!RemoveCopy(mover[i].name) /\ Trash!RollBack(mover[i].name) /\ Trash!Goes(i, "failed")
      /\ UNCHANGED <<otherDevice, tree, others, unseen, ended>> /\ otherDevice
  BY DEF KeptInv, DeviceKnown, Trash!CopyFails, Trash!At, Trash!GiveUp, Trash!Fails, TrashInv, WholeUntilMoved, Holding
<1>2. /\ MoverType' /\ mover'[i].stage = "failed"
      /\ \A j \in Items : j # i => mover'[j] = mover[j]
  BY <1>1, OneMover DEF TrashInv, After
<1>3. Reserved'
  BY <1>1, <1>2, OthersReserved DEF Holding, After
<1>c. \A n : n # mover[i].name => /\ n \in DOMAIN trashed' <=> n \in DOMAIN trashed
                                  /\ n \in DOMAIN trashed => trashed'[n] = trashed[n]
  BY <1>1, RemoveCopyFacts
<1>4. NameIsFree'
  BY <1>1, <1>2, <1>c, FreeElsewhere DEF Holding
<1>5. mover[i].name \in DOMAIN trashed =>
        trashed[mover[i].name].owner \notin Items \/ source[trashed[mover[i].name].owner] = ItemParts
  BY <1>1 DEF TrashInv, NameIsFree
<1>6. Trash!NothingLost'
  BY <1>1, <1>5, <1>c, RemovalLosesNothing DEF TrashInv
<1>7. WholeUntilMoved'
  BY <1>1, <1>2 DEF TrashInv, WholeUntilMoved
<1>8. mover[i].name \in DOMAIN info /\ info[mover[i].name] = i
  BY <1>1 DEF TrashInv, Reserved, Holding
<1>9. FilesType'
  BY <1>1, RollBackFacts, RemoveCopyTyped DEF KeptInv
<1>10. KeptInv'
  <2>1. /\ \A n : n # mover[i].name => /\ n \in DOMAIN info' <=> n \in DOMAIN info
                                       /\ n \in DOMAIN info => info'[n] = info[n]
        /\ mover[i].name \in DOMAIN info' => mover[i].name \in unremoved'
        /\ unremoved \subseteq unremoved'
    BY <1>1, RollBackFacts
  <2> QED
    BY <1>1, <1>2, <1>8, <1>9, <1>c, <2>1, MoverKeeps
<1> QED
  BY <1>1, <1>2, <1>3, <1>4, <1>6, <1>7, <1>10 DEF TrashInv

\* The source goes, or some of it, when all of it has been copied.
LEMMA RemoveSourceKeeps ==
  ASSUME TrashInv, KeptInv, NEW i \in Items, Trash!RemoveSource(i) \/ Trash!RemoveSourceFails(i)
  PROVE  TrashInv' /\ KeptInv'
<1>1. /\ mover[i].stage = "copying" /\ UNCHANGED <<trashed, taken>>
      /\ mover[i].name \in DOMAIN trashed /\ trashed[mover[i].name].owner = i
      /\ ItemParts \subseteq trashed[mover[i].name].parts
      /\ UNCHANGED <<otherDevice, tree, others, unseen, ended>>
  BY DEF Trash!RemoveSource, Trash!RemoveSourceFails, Trash!At, TrashInv, NameIsFree, WholeUntilMoved, Holding
<1>2. PICK rest \in SUBSET ItemParts : source' = [source EXCEPT ![i] = rest]
  BY DEF Trash!RemoveSource, Trash!RemoveSourceFails, TrashInv
<1>3. /\ MoverType' /\ mover'[i].stage \in {"moved", "failed"}
      /\ \A j \in Items : j # i => mover'[j] = mover[j]
  BY OneMover DEF Trash!RemoveSource, Trash!RemoveSourceFails, Trash!GiveUp, Trash!Fails, TrashInv, After
<1>4. Reserved'
  <2>1. CASE Trash!RemoveSource(i)
    BY <1>3, <2>1 DEF Trash!RemoveSource, TrashInv, Reserved, Holding
  <2>2. CASE Trash!RemoveSourceFails(i)
    BY <1>1, <1>3, <2>2, OthersReserved DEF Trash!RemoveSourceFails, Trash!GiveUp, Holding, After
  <2> QED
    BY <2>1, <2>2
<1>5. NameIsFree'
  BY <1>1, <1>3 DEF TrashInv, NameIsFree
<1>6. Trash!NothingLost'
  <2> SUFFICES ASSUME NEW k \in Items, NEW p \in ItemParts, k \notin taken, p \notin source'[k]
               PROVE  Trash!InTrash(k, p)'
    BY <1>1 DEF Trash!NothingLost
  <2>1. CASE k = i
    BY <1>1, <2>1 DEF Trash!InTrash
  <2>2. CASE k # i
    BY <1>1, <1>2, <2>2 DEF TrashInv, Trash!NothingLost, Trash!InTrash
  <2> QED
    BY <2>1, <2>2
<1>7. WholeUntilMoved' /\ source' \in [Items -> SUBSET ItemParts]
  BY <1>2, <1>3 DEF TrashInv, WholeUntilMoved, Before, Holding
<1>8. TrashInv'
  BY <1>3, <1>4, <1>5, <1>6, <1>7 DEF TrashInv
<1>9. otherDevice /\ mover[i].name \in DOMAIN info /\ info[mover[i].name] = i
  BY <1>1 DEF KeptInv, DeviceKnown, TrashInv, Reserved, Holding
<1>10. trashed[mover[i].name] = [owner |-> i, parts |-> ItemParts]
  <2>1. trashed[mover[i].name] \in [owner : Items \cup {Trash!Other}, parts : SUBSET ItemParts]
    BY <1>1 DEF KeptInv, FilesType
  <2> QED
    BY <1>1, <2>1
<1>11. \/ /\ UNCHANGED <<info, unremoved>>
          /\ source'[i] = {} /\ mover'[i].stage = "moved" /\ mover'[i].name = mover[i].name
       \/ Trash!RollBack(mover[i].name) /\ mover'[i].stage = "failed"
  <2>1. CASE Trash!RemoveSource(i)
    BY <2>1, OneMover DEF Trash!RemoveSource, TrashInv, After
  <2>2. CASE Trash!RemoveSourceFails(i)
    BY <2>2, OneMover DEF Trash!RemoveSourceFails, Trash!GiveUp, Trash!Fails, TrashInv, After
  <2> QED
    BY <2>1, <2>2
<1>12. FilesType'
  BY <1>1, <1>11, RollBackFacts DEF KeptInv, FilesType
<1>13. \A j \in Items : j # i => source'[j] = source[j]
  BY <1>2 DEF TrashInv
<1>14. KeptInv'
  <2>1. \A n : n # mover[i].name => /\ n \in DOMAIN info' <=> n \in DOMAIN info
                                    /\ n \in DOMAIN info => info'[n] = info[n]
    BY <1>11, RollBackFacts
  <2>2. mover[i].name \in DOMAIN info' => info'[mover[i].name] = i
    BY <1>9, <1>11, RollBackFacts
  <2>3. mover'[i].stage = "moved" =>
          source'[i] = {} /\ mover'[i].name = mover[i].name /\ info' = info
    BY <1>11
  <2>4. unremoved \subseteq unremoved'
    BY <1>11, RollBackFacts
  <2> QED
    BY <1>1, <1>3, <1>9, <1>10, <1>12, <1>13, <2>1, <2>2, <2>3, <2>4, MoverKeeps
<1> QED
  BY <1>8, <1>14

LEMMA UpdateTreeKeeps ==
  ASSUME TrashInv, KeptInv, NEW i \in Items, Trash!UpdateTree(i)
  PROVE  TrashInv' /\ KeptInv'
<1>1. UNCHANGED <<source, trashed, info, taken>> /\ Trash!Goes(i, "done")
  BY DEF Trash!UpdateTree
<1>2. /\ MoverType' /\ mover'[i].stage = "done"
      /\ \A j \in Items : j # i => mover'[j] = mover[j]
  BY <1>1, OneMover DEF TrashInv, After
<1>3. Trash!NothingLost'
  BY <1>1, GrowthLosesNothing DEF TrashInv
<1>4. TrashInv'
  BY <1>1, <1>2, <1>3 DEF TrashInv, WholeUntilMoved, Reserved, NameIsFree, Before, Holding
<1>5. mover[i].stage = "moved" /\ tree' = tree \ {i} /\ UNCHANGED <<otherDevice, others, unseen, unremoved, ended>>
  BY DEF Trash!UpdateTree, Trash!At
<1>6. KeptInv'
  <2>1. FilesType'
    BY <1>1 DEF KeptInv, FilesType
  <2>2. InfoExplained'
    BY <1>1, <1>2, <1>5 DEF KeptInv, InfoExplained, Holding
  <2>3. TreeListed'
    BY <1>1, <1>2, <1>5 DEF KeptInv, TreeListed
  <2>4. DeviceKnown' /\ Trash!MovedCanBeRestored' /\ Trash!OthersAreKept'
    BY <1>1, <1>2, <1>5 DEF KeptInv, DeviceKnown, Trash!MovedCanBeRestored, Trash!OthersAreKept, Trash!At
  <2> QED
    BY <2>1, <2>2, <2>3, <2>4 DEF KeptInv
<1> QED
  BY <1>4, <1>6

\* What the user's own command takes away is not lost by the program.
LEMMA CommandKeeps ==
  ASSUME TrashInv, KeptInv, NEW i \in Items, Trash!Command(i)
  PROVE  TrashInv' /\ KeptInv'
<1>1. UNCHANGED <<trashed, info>> /\ Trash!Goes(i, "commanded")
  BY DEF Trash!Command
<1>2. PICK rest \in SUBSET source[i] :
        /\ source' = [source EXCEPT ![i] = rest]
        /\ tree' = tree \/ (tree' = tree \ {i} /\ (rest = {} \/ i \in unseen'))
        /\ unseen \subseteq unseen'
        /\ taken' = IF rest = source[i] THEN taken ELSE taken \cup {i}
  BY DEF Trash!Command
<1>3. /\ MoverType' /\ mover'[i].stage = "commanded"
      /\ \A j \in Items : j # i => mover'[j] = mover[j]
  BY <1>1, OneMover DEF TrashInv, After
<1>4. source' \in [Items -> SUBSET ItemParts] /\ \A j \in Items : j # i => source'[j] = source[j]
  BY <1>2 DEF TrashInv
<1>5. Trash!NothingLost'
  BY <1>1, <1>2, <1>4 DEF TrashInv, Trash!NothingLost, Trash!InTrash
<1>6. TrashInv'
  BY <1>1, <1>3, <1>4, <1>5 DEF TrashInv, WholeUntilMoved, Reserved, NameIsFree, Before, Holding
<1>7. mover[i].stage = "idle" /\ source'[i] = rest /\ UNCHANGED <<otherDevice, others, unremoved, ended>>
  BY <1>2 DEF Trash!Command, Trash!At, TrashInv
<1>8. KeptInv'
  <2>1. FilesType'
    BY <1>1 DEF KeptInv, FilesType
  <2>2. InfoExplained'
    BY <1>1, <1>3, <1>7 DEF KeptInv, InfoExplained, Holding
  <2>3. TreeListed'
    BY <1>2, <1>3, <1>4, <1>7 DEF KeptInv, TreeListed
  <2>4. DeviceKnown' /\ Trash!MovedCanBeRestored' /\ Trash!OthersAreKept'
    BY <1>1, <1>3, <1>7 DEF KeptInv, DeviceKnown, Trash!MovedCanBeRestored, Trash!OthersAreKept, Trash!At
  <2> QED
    BY <2>1, <2>2, <2>3, <2>4 DEF KeptInv
<1> QED
  BY <1>6, <1>8

\* Another program takes only names and places that are free.
LEMMA OthersKeep ==
  ASSUME TrashInv, KeptInv, NEW n \in Trash!Names, Trash!OtherReserves(n) \/ Trash!OtherPuts(n)
  PROVE  TrashInv' /\ KeptInv'
<1>1. UNCHANGED <<source, mover, taken>>
  BY DEF Trash!OtherReserves, Trash!OtherPuts
<1>2. \/ trashed' = trashed /\ n \notin DOMAIN info /\ info' = Trash!With(info, n, Trash!Other)
      \/ info' = info /\ n \notin DOMAIN trashed /\ trashed' = Trash!With(trashed, n, [owner |-> Trash!Other, parts |-> {}])
  BY DEF Trash!OtherReserves, Trash!OtherPuts
<1>3. Trash!Other \notin Items
  BY PartsAssumption
<1>4. Reserved'
  BY <1>1, <1>2 DEF TrashInv, Reserved, Trash!With
<1>5. NameIsFree'
  BY <1>1, <1>2, <1>3 DEF TrashInv, NameIsFree, Trash!With
<1>6. Trash!NothingLost'
  BY <1>1, <1>2, GrowthLosesNothing DEF TrashInv, Trash!With
<1>7. TrashInv'
  BY <1>1, <1>4, <1>5, <1>6 DEF TrashInv, MoverType, WholeUntilMoved
<1>8. UNCHANGED <<otherDevice, tree, unseen, unremoved, ended>> /\ (others' = others \/ (others' = others \cup {n} /\ info' = info))
  BY DEF Trash!OtherReserves, Trash!OtherPuts
<1>9. FilesType'
  BY <1>2 DEF KeptInv, FilesType, Trash!With
<1>10. InfoExplained'
  BY <1>1, <1>2, <1>8, <1>3 DEF KeptInv, InfoExplained, Trash!With
<1>11. TreeListed' /\ DeviceKnown'
  BY <1>1, <1>8 DEF KeptInv, TreeListed, DeviceKnown
<1>12. Trash!MovedCanBeRestored'
  BY <1>1, <1>2 DEF KeptInv, Trash!MovedCanBeRestored, Trash!At, Trash!With
<1>13. Trash!OthersAreKept'
  <2>1. CASE Trash!OtherReserves(n)
    BY <2>1 DEF Trash!OtherReserves, KeptInv, Trash!OthersAreKept
  <2>2. CASE Trash!OtherPuts(n)
    BY <2>2 DEF Trash!OtherPuts, KeptInv, Trash!OthersAreKept, Trash!With
  <2> QED
    BY <2>1, <2>2
<1> QED
  BY <1>7, <1>9, <1>10, <1>11, <1>12, <1>13 DEF KeptInv

\* After a restart only what is whole is moved again.
LEMMA StopKeeps ==
  ASSUME TrashInv, KeptInv, Trash!Stop
  PROVE  TrashInv' /\ KeptInv'
<1>1. /\ UNCHANGED <<source, trashed, info, taken>>
      /\ mover' = [i \in Items |-> [Trash!AtStart EXCEPT !.stage = IF source[i] = ItemParts THEN "idle" ELSE "done"]]
  BY DEF Trash!Stop
<1>2. MoverType' /\ \A i \in Items : mover'[i].stage = IF source[i] = ItemParts THEN "idle" ELSE "done"
  <2>1. 1 \in Trash!Names /\ 0 \in 0..Tries
    BY PartsAssumption DEF Trash!Names
  <2>2. \A i \in Items :
          mover'[i] = [stage |-> IF source[i] = ItemParts THEN "idle" ELSE "done", name |-> 1, try |-> 0]
    BY <1>1 DEF Trash!AtStart
  <2>3. mover' = [i \in Items |-> mover'[i]]
    BY <1>1
  <2> QED
    BY <2>1, <2>2, <2>3 DEF MoverType, Before, After
<1>3. Trash!NothingLost'
  BY <1>1, GrowthLosesNothing DEF TrashInv
<1>4. TrashInv'
  BY <1>1, <1>2, <1>3 DEF TrashInv, WholeUntilMoved, Reserved, NameIsFree, Before, Holding
<1>5. ended' = TRUE /\ tree' = {i \in Items : source[i] # {}} /\ UNCHANGED <<otherDevice, others>>
  BY DEF Trash!Stop
<1>6. KeptInv'
  <2>1. FilesType' /\ InfoExplained'
    BY <1>1, <1>5 DEF KeptInv, FilesType, InfoExplained
  <2>2. TreeListed'
    BY <1>1, <1>2, <1>5, PartsAssumption DEF TreeListed
  <2>3. DeviceKnown' /\ Trash!MovedCanBeRestored' /\ Trash!OthersAreKept'
    BY <1>1, <1>2, <1>5 DEF KeptInv, DeviceKnown, Trash!MovedCanBeRestored, Trash!OthersAreKept, Trash!At
  <2> QED
    BY <2>1, <2>2, <2>3 DEF KeptInv
<1> QED
  BY <1>4, <1>6

-----------------------------------------------------------------------------
\* The steps of the whole: one of the trash, or none that it sees.
LEMMA TrashSteps ==
  ASSUME [PartsNext]_allVars
  PROVE  [Trash!Next]_trashVars
<1>1. CASE UNCHANGED trashVars
  BY <1>1
<1>2. CASE PartsNext /\ which = "trash"
  BY <1>2 DEF PartsNext, Session, Idle, Trash!Next, Trash!Move
<1>3. CASE UNCHANGED allVars
  BY <1>1, <1>3 DEF allVars
<1>4. CASE PartsNext /\ which # "trash"
  BY <1>1, <1>4 DEF PartsNext, Session, Idle, OnlySession, OnlyParallel, OnlyStable, OnlySequential,
     OnlyPreview, OnlyStartup, OnlyPrinting, OnlyStats
<1> QED
  BY <1>2, <1>3, <1>4

LEMMA TrashStep ==
  ASSUME TrashInv, KeptInv, [Trash!Next]_trashVars
  PROVE  TrashInv' /\ KeptInv'
<1>1. CASE UNCHANGED trashVars
  <2>1. UNCHANGED <<source, trashed, info, mover, taken>> /\ UNCHANGED <<otherDevice, tree, others, unseen, unremoved, ended>>
    BY <1>1 DEF trashVars
  <2>2. Trash!NothingLost'
    BY <2>1, GrowthLosesNothing DEF TrashInv
  <2>3. TrashInv'
    BY <2>1, <2>2 DEF TrashInv, MoverType, WholeUntilMoved, Reserved, NameIsFree
  <2>4. KeptInv'
    BY <2>1 DEF KeptInv, FilesType, InfoExplained, TreeListed, DeviceKnown,
       Trash!MovedCanBeRestored, Trash!OthersAreKept, Trash!At
  <2> QED
    BY <2>3, <2>4
<1>2. ASSUME NEW i \in Items, Trash!Begin(i) \/ Trash!Move(i) \/ Trash!Command(i)
      PROVE  TrashInv' /\ KeptInv'
  BY <1>2, LookingKeeps, RenameKeeps, OpenCopyKeeps, CopyPartKeeps, CopyFailsKeeps,
     RemoveSourceKeeps, UpdateTreeKeeps, CommandKeeps DEF Trash!Move
<1>3. ASSUME NEW n \in Trash!Names, Trash!OtherReserves(n) \/ Trash!OtherPuts(n)
      PROVE  TrashInv' /\ KeptInv'
  BY <1>3, OthersKeep
<1>4. CASE Trash!Stop
  BY <1>4, StopKeeps
<1>5. Trash!Next => \/ \E i \in Items : Trash!Begin(i) \/ Trash!Move(i) \/ Trash!Command(i)
                    \/ \E n \in Trash!Names : Trash!OtherReserves(n) \/ Trash!OtherPuts(n)
                    \/ Trash!Stop
  BY DEF Trash!Next
<1> QED
  BY <1>1, <1>2, <1>3, <1>4, <1>5

\* What the run checks follows from the invariant.
LEMMA ItemsAreKept ==
  ASSUME TrashInv, KeptInv
  PROVE  TrashKeepsItems
<1>1. Trash!TypeOK
  BY DEF TrashInv, KeptInv, MoverType, FilesType, TreeListed, Trash!TypeOK
<1>2. Trash!NoOrphanInfo
  BY DEF KeptInv, InfoExplained, Holding, Trash!NoOrphanInfo
<1>3. Trash!TreeFollowsMoves
  BY DEF KeptInv, TreeListed, Trash!TreeFollowsMoves, Trash!At
<1> QED
  BY <1>1, <1>2, <1>3 DEF TrashInv, KeptInv, TrashKeepsItems

-----------------------------------------------------------------------------
\* Moving items to the trash never loses a part of one: not when any call
\* fails, not when several items want one name, another program uses the same
\* trash, the trash is on another device or the process ends half-way
\* (remove.MoveItemToTrash).
THEOREM TrashLosesNothing == Trash!Spec => []Trash!NothingLost
<1>1. Trash!Init => TrashInv /\ KeptInv
  BY Starts
<1>2. TrashInv /\ KeptInv /\ [Trash!Next]_(Trash!trashVars) => TrashInv' /\ KeptInv'
  BY TrashStep DEF trashVars, Trash!trashVars
<1>3. TrashInv => Trash!NothingLost
  BY DEF TrashInv
<1> QED
  BY <1>1, <1>2, <1>3, PTL DEF Trash!Spec

\* Nor is anything lost when the trash is one part of the program; and what was
\* moved can be restored, a .trashinfo file without its entry is left only by a
\* process that ended or by a removal that failed, what is off the tree in memory
\* has left its place or was there unseen by lstat when the user's command had
\* succeeded (TrashCommand), a failed move leaves its item listed, and on one
\* device nobody's entry is touched.
THEOREM TrashKeeps == PartsSpec => []TrashKeepsItems
<1>1. PartsInit => TrashInv /\ KeptInv
  BY Starts DEF PartsInit
<1>2. TrashInv /\ KeptInv /\ [PartsNext]_allVars => TrashInv' /\ KeptInv'
  BY TrashStep, TrashSteps
<1>3. TrashInv /\ KeptInv => TrashKeepsItems
  BY ItemsAreKept
<1> QED
  BY <1>1, <1>2, <1>3, PTL DEF PartsSpec
=============================================================================
