--------------------------- MODULE TopDirScanProofs ---------------------------
(***************************************************************************)
(* The top-dir analyzer for any tree and any number of slots: the wait group *)
(* counts the goroutines with a slot, every item and every inode is counted  *)
(* once, and the report is final whenever Wait did wait.                     *)
(*                                                                           *)
(* The argument: a directory that is being walked hangs by calls and slots   *)
(* from a goroutine of the first level or from one with a slot, so nothing   *)
(* runs once those have ended; the entries taken from a directory whose       *)
(* listing was complete are either counted or walked themselves; and what     *)
(* the frames and the totals hold is at any moment what was taken so far.    *)
(***************************************************************************)
EXTENDS TopDirScan, TreeFacts

Unopened == {"idle", "claimed", "entering"}
InBody == {"running", "claiming", "calling", "adding"}

\* The directories whose listing was read, and those that still hold a tally.
Opened == {d \in SubDirs : frame[d] \notin Unopened}
Busy == {d \in SubDirs : frame[d] \in InBody}

MainTypes ==
  /\ main \in MainStates
  /\ files \subseteq Files
  /\ reported \in [DOMAIN reported -> [total : Totals, flag : {" ", "."}]]
  /\ DOMAIN reported \subseteq tops
  /\ summary \in Nat

FrameTypes ==
  /\ tops \subseteq SubDirs
  /\ frame \in [SubDirs -> FrameStates]
  /\ todo \in [Dirs -> SUBSET Entries] /\ \A d \in Dirs : todo[d] \subseteq Children(d)
  /\ topDir \in [SubDirs -> Dirs]
  /\ tally \in [SubDirs -> Totals] /\ total \in [SubDirs -> Totals]
  /\ flag \in [Dirs -> {" ", "e", "!", "."}] /\ \A t \in SubDirs : flag[t] \in {" ", "."}
  /\ holders \subseteq SubDirs /\ Cardinality(holders) <= Slots

Types == MainTypes /\ FrameTypes /\ early \in BOOLEAN /\ WaitTypeOK

\* Every directory that was reached is to be walked, was taken from the listing
\* of its own, and adds to the total of the first level that it lies under.
ReachedOnce ==
  /\ \A t \in tops : Parent[t] = Root /\ frame[t] # "idle"
  /\ \A d \in SubDirs : frame[d] # "idle" =>
       /\ Walked[d] /\ topDir[d] = TopOf[d] /\ TopOf[d] \in tops
       /\ d \notin todo[Parent[d]]
       /\ Parent[d] = Root => d \in tops
       /\ Parent[d] # Root => Parent[d] \in Opened

\* Unless the first level is flagged, listings are complete: what was taken from
\* one and is not skipped was reached.
NoneIsLost ==
  \A d \in SubDirs :
    Parent[d] \in Opened /\ flag[TopOf[d]] = " " /\ d \notin todo[Parent[d]] /\ d \notin Skip =>
      frame[d] # "idle"

\* Loops that have ended have taken everything.
LoopsEnd == \A d \in SubDirs : frame[d] \in {"adding", "releasing", "notifying", "sending", "finished"} =>
              todo[d] = {}

\* The frames a call waits for.
InCall == {d \in SubDirs \ (tops \cup holders) : frame[d] \in InBody \cup {"entering"}}

\* Slots and calls: who has one, and what its directory's frame is doing.
SlotsAndCalls ==
  /\ holders \cap tops = {}
  /\ \A d \in holders : frame[d] \in InBody \cup {"claimed", "entering", "releasing"}
  /\ \A d \in SubDirs : /\ frame[d] \in {"claimed", "releasing"} => d \in holders
                        /\ frame[d] = "sending" => d \in tops
                        /\ frame[d] = "notifying" => d \notin tops
  /\ \A d \in SubDirs : frame[d] = "claimed" => frame[Parent[d]] = "claiming"
  /\ \A d \in InCall : frame[Parent[d]] = "calling"
  /\ \A d, e \in SubDirs : frame[d] = "claimed" /\ frame[e] = "claimed" /\ Parent[d] = Parent[e] => d = e
  /\ \A d, e \in InCall : Parent[d] = Parent[e] => d = e

\* The goroutines that have yet to call Done.
Counted == {d \in holders : frame[d] # "claimed"} \cup {d \in SubDirs : frame[d] = "notifying"}

MainOrder ==
  /\ main = "idle" => tops = {}
  /\ main \in {"waiting", "locking", "reading", "returned", "summarised"} =>
       \A t \in tops : frame[t] = "finished"
  /\ main \in {"returned", "summarised"} => DOMAIN reported = tops

ControlInv ==
  /\ Types /\ ReachedOnce /\ NoneIsLost /\ LoopsEnd /\ SlotsAndCalls /\ MainOrder
  /\ waitValue = Cardinality(Counted)

Settled == \A d \in SubDirs : frame[d] \in {"idle", "finished"}

\* Past a Wait that did not return early nothing runs, and what was read stays.
PastWait == main \in {"reading", "returned", "summarised"}
FinalInv ==
  /\ ~PastWait => DOMAIN reported = {}
  /\ PastWait /\ ~early =>
       /\ Settled
       /\ \A t \in DOMAIN reported : reported[t] = [total |-> total[t], flag |-> flag[t]]

\* What was taken below the first level t, and the frames that add to it.
Taken == {e \in Entries : Parent[e] \in Opened /\ e \notin todo[Parent[e]] /\ e \notin Skip}
TakenBelow(t) == {e \in Taken : topDir[Parent[e]] = t}
Adders(t) == {d \in Busy : topDir[d] = t}

CountOf == [d \in SubDirs |-> tally[d].count]
SizeIn == [d \in SubDirs |-> tally[d].size]
TotalSize == [d \in SubDirs |-> total[d].size]

\* Items: each is in the total or in the tally of a frame that will add it.
CountInv ==
  \A t \in SubDirs : flag[t] = " " =>
    total[t].count + SumOver(CountOf, Adders(t)) = Cardinality(TakenBelow(t))

TakenPlain == {f \in Taken \cap Files : Inode[f] = NoInode}
TakenInodes == {Inode[f] : f \in (Taken \cap Files) \ TakenPlain}
InodeSize(S) == SumOver([i \in S |-> Bytes[CHOOSE f \in Files : Inode[f] = i]], S)
OpenedEmpty == {d \in Opened : Children(d) = {}}

\* Sizes: those of plain files, of the inodes that were met, and of empty
\* directories are in the totals or in the tallies.
AllFine == \A t \in tops : flag[t] = " "
SizeTaken ==
  SumOver(Bytes, TakenPlain) + InodeSize(TakenInodes) + EmptyDirSize * Cardinality(OpenedEmpty)
SizeBalance == SumOver(TotalSize, SubDirs) + SumOver(SizeIn, Busy) = SizeTaken
SizeInv ==
  /\ \A d \in SubDirs \ tops : total[d] = Zero
  /\ AllFine => linked = TakenInodes /\ SizeBalance

\* updateStats has summed what was read.
SummaryInv ==
  main = "summarised" =>
    /\ summary = IF files = {} /\ tops = {} THEN EmptyDirSize
                 ELSE SumOver(Bytes, files) + SumOver([t \in tops |-> reported[t].total.size], tops)
    /\ flag[Root] = " " => \A t \in tops : reported[t].flag = " "

-----------------------------------------------------------------------------
(* The tree below the first level *)

LEMMA SubDirFacts ==
  /\ SubDirs \subseteq Entries /\ SubDirs \subseteq Dirs /\ Root \in Dirs /\ Root \notin SubDirs
  /\ \A d \in Dirs : d # Root => d \in SubDirs
  /\ \A e \in Entries : Parent[e] = Root \/ Parent[e] \in SubDirs
  /\ \A f \in Files : f \notin Dirs
  /\ \A S \in SUBSET SubDirs : IsFiniteSet(S) /\ Cardinality(S) \in Nat
<1>1. IsFiniteSet(SubDirs)
  BY TreeAssumption, FS_Subset DEF SubDirs
<1>2. \A S \in SUBSET SubDirs : IsFiniteSet(S) /\ Cardinality(S) \in Nat
  BY <1>1, FS_Subset, FS_CardinalityType
<1> QED
  BY <1>2, TreeAssumption DEF SubDirs, Entries

\* The first level that an entry lies under.
LEMMA TopOfEquation ==
  \A e \in Entries : TopOf[e] = IF Parent[e] = Root THEN e ELSE TopOf[Parent[e]]
<1> DEFINE V == Entries \cup {Root}
           start == [e \in Entries |-> e]
           step == [p \in Entries \X V |-> p[2]]
           Is(f) == f = [e \in Entries |-> IF Parent[e] = Root THEN e ELSE f[Parent[e]]]
<1>1. /\ start \in [Entries -> V] /\ step \in [Entries \X V -> V] /\ Root \in V
      /\ \A e \in Entries : start[e] = e
      /\ \A e \in Entries : \A v \in V : step[<<e, v>>] = v
  OBVIOUS
<1>2. PICK f \in [Entries -> V] : \A e \in Entries :
        f[e] = IF Parent[e] = Root THEN start[e] ELSE step[<<e, f[Parent[e]]>>]
  <2> HIDE DEF start, step, V
  <2> QED
    BY <1>1, RecursionDown
<1>3. \A e \in Entries : f[e] = IF Parent[e] = Root THEN e ELSE f[Parent[e]]
  <2> TAKE e \in Entries
  <2>1. Parent[e] # Root => f[Parent[e]] \in V
    BY <1>2, SubDirFacts
  <2> HIDE DEF start, step, V
  <2> QED
    BY <1>1, <1>2, <2>1
<1>4. f = [e \in Entries |-> IF Parent[e] = Root THEN e ELSE f[Parent[e]]]
  <2> HIDE DEF V
  <2> QED
    BY <1>2, <1>3
<1>5. TopOf = CHOOSE g : Is(g)
  BY DEF TopOf
<1>6. Is(TopOf)
  BY <1>4, <1>5
<1> QED
  BY <1>6

\* What the walk reaches if every read succeeds.
LEMMA WalkedEquation ==
  \A e \in Entries : Walked[e] = (e \notin Skip /\ (Parent[e] = Root \/ Walked[Parent[e]]))
<1> DEFINE V == BOOLEAN
           start == [e \in Entries |-> e \notin Skip]
           step == [p \in Entries \X V |-> p[1] \notin Skip /\ p[2]]
           Is(f) == f = [e \in Entries |-> e \notin Skip /\ (Parent[e] = Root \/ f[Parent[e]])]
<1>0. /\ \A e \in Entries : start[e] = (e \notin Skip)
      /\ \A e \in Entries : \A v \in V : step[<<e, v>>] = (e \notin Skip /\ v)
  OBVIOUS
<1>1. start \in [Entries -> V] /\ step \in [Entries \X V -> V] /\ TRUE \in V
  OBVIOUS
<1>2. PICK f \in [Entries -> V] : \A e \in Entries :
        f[e] = IF Parent[e] = Root THEN start[e] ELSE step[<<e, f[Parent[e]]>>]
  <2> HIDE DEF start, step, V
  <2> QED
    BY <1>1, RecursionDown
<1>3. ASSUME NEW e \in Entries
      PROVE  f[e] = (e \notin Skip /\ (Parent[e] = Root \/ f[Parent[e]]))
  <2>1. CASE Parent[e] = Root
    <3> HIDE DEF start, step, V
    <3> QED
      BY <1>0, <1>2, <2>1
  <2>2. CASE Parent[e] # Root
    <3>1. f[Parent[e]] \in V
      BY <1>2, <2>2, SubDirFacts
    <3> HIDE DEF start, step, V
    <3> QED
      BY <1>0, <1>2, <2>2, <3>1
  <2> QED
    BY <2>1, <2>2
<1>4. f = [e \in Entries |-> e \notin Skip /\ (Parent[e] = Root \/ f[Parent[e]])]
  <2> HIDE DEF V
  <2> QED
    BY <1>2, <1>3
<1>5. Walked = CHOOSE g : Is(g)
  BY DEF Walked
<1>6. Is(Walked)
  BY <1>4, <1>5
<1> QED
  BY <1>6

-----------------------------------------------------------------------------
(* Frames, slots and the wait group *)

LEMMA ControlStarts ==
  ASSUME Init
  PROVE  ControlInv
<1>1. Types
  <2>1. Cardinality({}) = 0 /\ DOMAIN reported = {} /\ Zero \in Totals
    BY FS_EmptySet DEF Init, Zero, Totals
  <2>2. MainTypes
    BY <2>1 DEF Init, MainTypes, MainStates
  <2>3. todo \in [Dirs -> SUBSET Entries] /\ \A d \in Dirs : todo[d] \subseteq Children(d)
    BY DEF Init
  <2>4. /\ flag \in [Dirs -> {" ", "e", "!", "."}] /\ \A t \in SubDirs : flag[t] \in {" ", "."}
        /\ frame \in [SubDirs -> FrameStates]
    BY SubDirFacts DEF Init, FrameStates
  <2>5. /\ tally \in [SubDirs -> Totals] /\ total \in [SubDirs -> Totals]
        /\ topDir \in [SubDirs -> Dirs] /\ tops \subseteq SubDirs /\ holders \subseteq SubDirs
    BY <2>1, SubDirFacts DEF Init
  <2>6. Cardinality(holders) <= Slots
    <3>1. holders = {}
      BY DEF Init
    <3> QED
      BY <2>1, <3>1, TopDirAssumption, EmptySizeType
  <2>7. FrameTypes
    BY <2>3, <2>4, <2>5, <2>6 DEF FrameTypes
  <2>8. early \in BOOLEAN /\ waitLocked \in BOOLEAN
    BY DEF Init, WaitInit
  <2>9. WaitTypeOK
    <3>1. waitValue = 0
      BY DEF Init, WaitInit
    <3> QED
      BY <2>8, <3>1 DEF WaitTypeOK
  <2> QED
    BY <2>2, <2>7, <2>8, <2>9 DEF Types
<1>2. Counted = {}
  BY DEF Init, Counted
<1>3. waitValue = Cardinality(Counted)
  BY <1>2, FS_EmptySet DEF Init, WaitInit
<1>4. \A d \in SubDirs : frame[d] = "idle"
  BY DEF Init
<1>5. Opened = {} /\ InCall = {} /\ tops = {} /\ holders = {}
  BY <1>4 DEF Opened, InCall, Init, Unopened, InBody
<1>6. ReachedOnce /\ LoopsEnd /\ SlotsAndCalls
  BY <1>4, <1>5 DEF ReachedOnce, LoopsEnd, SlotsAndCalls
<1>7. NoneIsLost
  BY <1>5 DEF NoneIsLost
<1>8. MainOrder
  BY DEF Init, MainOrder
<1> QED
  BY <1>1, <1>3, <1>6, <1>7, <1>8 DEF ControlInv

\* AnalyzeDir keeps the types.
LEMMA TypesOfMain ==
  ASSUME ControlInv, Start \/ Main
  PROVE  Types'
<1>0. Types /\ MainTypes /\ FrameTypes /\ MainOrder /\ ReachedOnce
  BY DEF ControlInv, Types
<1> USE SubDirFacts
<1>1. CASE Start
  <2>1. Children(Root) \subseteq Entries
    BY ListingFacts
  <2>2. PICK listed \in SUBSET Children(Root) : todo' = [todo EXCEPT ![Root] = listed]
    BY <1>1 DEF Start
  <2>4. todo' \in [Dirs -> SUBSET Entries] /\ \A d \in Dirs : todo'[d] \subseteq Children(d)
    BY <1>0, <2>1, <2>2 DEF FrameTypes
  <2>5. PICK new \in {" ", "e", "!"} : flag' = [flag EXCEPT ![Root] = new]
    BY <1>1 DEF Start
  <2>6. flag' \in [Dirs -> {" ", "e", "!", "."}] /\ \A t \in SubDirs : flag'[t] \in {" ", "."}
    BY <1>0, <2>5 DEF FrameTypes
  <2>3. FrameTypes' /\ MainTypes'
    BY <1>0, <1>1, <2>4, <2>6 DEF Start, mainRest, FrameTypes, MainTypes, MainStates
  <2> QED
    BY <1>0, <1>1, <2>3 DEF Start, waitVars, Types, WaitTypeOK
<1>2. ASSUME NEW e \in Entries, SkipTop(e) \/ SpawnTop(e) \/ AddTopFile(e) \/ FailTopFile(e)
      PROVE  Types'
  <2>1. /\ todo' = [todo EXCEPT ![Root] = @ \ {e}]
        /\ UNCHANGED <<main, tally, total, linked, holders, reported, summary, early, waitVars>>
    BY <1>2 DEF SkipTop, SpawnTop, AddTopFile, FailTopFile, TakeTop
  <2>2. e \in Dirs => e \in SubDirs
    BY DEF Entries
  <2>9. /\ tops' = tops \/ (e \in SubDirs /\ tops' = tops \cup {e})
        /\ topDir' = topDir \/ (e \in SubDirs /\ topDir' = [topDir EXCEPT ![e] = e])
        /\ files' = files \/ (e \in Files /\ files' = files \cup {e})
    BY <1>2, <2>2 DEF SkipTop, SpawnTop, AddTopFile, FailTopFile
  <2>3. /\ tops \subseteq tops' /\ tops' \subseteq SubDirs /\ topDir' \in [SubDirs -> Dirs]
        /\ files' \subseteq Files
    <3>1. topDir' \in [SubDirs -> Dirs]
      BY <1>0, <2>9 DEF FrameTypes
    <3>2. tops \subseteq tops' /\ tops' \subseteq SubDirs
      BY <1>0, <2>9 DEF FrameTypes
    <3>3. files' \subseteq Files
      BY <1>0, <2>9 DEF MainTypes
    <3> QED
      BY <3>1, <3>2, <3>3
  <2>7. frame' = frame \/ (e \in SubDirs /\ frame' = [frame EXCEPT ![e] = "entering"])
    BY <1>2, <2>2 DEF SkipTop, SpawnTop, AddTopFile, FailTopFile
  <2>8. frame' \in [SubDirs -> FrameStates]
    BY <1>0, <2>7 DEF FrameTypes, FrameStates
  <2>4. flag' \in [Dirs -> {" ", "e", "!", "."}] /\ \A t \in SubDirs : flag'[t] \in {" ", "."}
    BY <1>0, <1>2 DEF SkipTop, SpawnTop, AddTopFile, FailTopFile, FrameTypes
  <2>5. todo' \in [Dirs -> SUBSET Entries] /\ \A d \in Dirs : todo'[d] \subseteq Children(d)
    BY <1>0, <2>1 DEF FrameTypes
  <2>6. FrameTypes' /\ MainTypes'
    BY <1>0, <2>1, <2>3, <2>4, <2>5, <2>8 DEF FrameTypes, MainTypes
  <2> QED
    BY <1>0, <2>1, <2>6 DEF waitVars, Types, WaitTypeOK
<1>3. ASSUME EndListing \/ ReceivedAll \/ WaitRead \/ WaitLock \/ Return
      PROVE  Types'
  <2>1. main' \in MainStates /\ UNCHANGED <<tops, frame, todo, flag, files, reported, mainRest>>
    BY <1>3 DEF EndListing, ReceivedAll, WaitRead, WaitLock, Return, MainStates
  <2>2. early' \in BOOLEAN /\ WaitTypeOK'
    BY <1>0, <1>3 DEF EndListing, ReceivedAll, WaitRead, WaitLock, Return, WaitAcquire, waitVars, Types,
                      WaitTypeOK
  <2> QED
    BY <1>0, <2>1, <2>2 DEF mainRest, Types, FrameTypes, MainTypes
<1>4. ASSUME NEW t \in SubDirs, ReceiveTop(t) PROVE Types'
  <2>1. frame' \in [SubDirs -> FrameStates]
    BY <1>0, <1>4 DEF ReceiveTop, FrameTypes, FrameStates
  <2>2. UNCHANGED <<main, tops, todo, flag, files, reported, early, mainRest, waitVars>>
    BY <1>4 DEF ReceiveTop
  <2> QED
    BY <1>0, <2>1, <2>2 DEF mainRest, waitVars, Types, FrameTypes, MainTypes, WaitTypeOK
<1>5. ASSUME NEW t \in SubDirs, ReadTop(t) PROVE Types'
  <2>1. [total |-> total[t], flag |-> flag[t]] \in [total : Totals, flag : {" ", "."}]
    BY <1>0 DEF FrameTypes
  <2>2. /\ DOMAIN reported' = DOMAIN reported \cup {t}
        /\ DOMAIN reported' \subseteq tops
        /\ reported' \in [DOMAIN reported' -> [total : Totals, flag : {" ", "."}]]
    <3>1. \A u \in DOMAIN reported : reported[u] \in [total : Totals, flag : {" ", "."}]
      BY <1>0 DEF MainTypes
    <3> QED
      BY <1>0, <1>5, <2>1, <3>1 DEF ReadTop, MainTypes
  <2>3. UNCHANGED <<main, tops, frame, todo, flag, files, early, mainRest, waitVars>>
    BY <1>5 DEF ReadTop
  <2> QED
    BY <1>0, <2>2, <2>3 DEF mainRest, waitVars, Types, FrameTypes, MainTypes, WaitTypeOK
<1>6. CASE UpdateStats
  <2>1. /\ main = "returned" /\ main' = "summarised"
        /\ UNCHANGED <<tops, frame, todo, topDir, tally, total, linked, holders,
                       files, reported, early, waitVars>>
    BY <1>6 DEF UpdateStats
  <2>2. summary' = IF files = {} /\ tops = {} THEN EmptyDirSize
                   ELSE SumOver(Bytes, files) + SumOver([t \in tops |-> reported[t].total.size], tops)
    BY <1>6 DEF UpdateStats
  <2>3. SumOver(Bytes, files) \in Nat
    <3>1. IsFiniteSet(files) /\ \A f \in files : Bytes[f] \in Nat
      BY <1>0, BytesAssumption, FS_Subset DEF MainTypes
    <3> QED
      BY <3>1, SumTypeNat
  <2>4. SumOver([t \in tops |-> reported[t].total.size], tops) \in Nat
    <3> DEFINE f == [t \in tops |-> reported[t].total.size]
    <3>1. IsFiniteSet(tops) /\ \A t \in tops : f[t] \in Nat
      BY <1>0, <2>1 DEF FrameTypes, MainTypes, MainOrder, Totals
    <3> HIDE DEF f
    <3>2. SumOver(f, tops) \in Nat
      BY <3>1, SumTypeNat
    <3> QED
      BY <3>2 DEF f
  <2>5. summary' \in Nat
    BY <2>2, <2>3, <2>4, TopDirAssumption, EmptySizeType
  <2>6. flag' \in [Dirs -> {" ", "e", "!", "."}] /\ \A t \in SubDirs : flag'[t] \in {" ", "."}
    BY <1>0, <1>6 DEF UpdateStats, FrameTypes
  <2>7. FrameTypes' /\ MainTypes'
    BY <1>0, <2>1, <2>5, <2>6 DEF FrameTypes, MainTypes, MainStates
  <2> QED
    BY <1>0, <2>1, <2>7 DEF waitVars, Types, WaitTypeOK
<1> QED
  BY <1>1, <1>2, <1>3, <1>4, <1>5, <1>6 DEF Main

\* processSubDir keeps the types.
LEMMA TypesOfFrame ==
  ASSUME ControlInv, NEW d \in SubDirs, Frame(d)
  PROVE  Types'
<1>0. Types /\ MainTypes /\ FrameTypes /\ ReachedOnce /\ SlotsAndCalls
  BY DEF ControlInv, Types
<1>1. UNCHANGED frameRest
  BY DEF Frame, OpenDir, EndLoop, AddUsage, Release, Notify, Claim, Spawn, Call, Descend, SkipEntry, CountFile,
         FailFile, FileOf, Take
<1>2. MainTypes' /\ early' \in BOOLEAN /\ tops' = tops
  BY <1>0, <1>1 DEF frameRest, MainTypes, Types
<1>3. frame[d] # "idle" => topDir[d] \in SubDirs
  BY <1>0, SubDirFacts DEF ReachedOnce, FrameTypes
<1>4. WaitTypeOK'
  <2>1. waitValue \in Int /\ waitLocked \in BOOLEAN
    BY <1>0 DEF Types, WaitTypeOK
  <2>2. waitValue' \in {waitValue, waitValue + 1, waitValue - 1}
    BY DEF Frame, OpenDir, EndLoop, AddUsage, Release, Notify, Claim, Spawn, Call, Descend, SkipEntry, CountFile,
           FailFile, FileOf, waitVars, WaitAdd, WaitDone
  <2>3. waitLocked' = waitLocked \/ waitLocked' = (waitLocked /\ waitValue' # 0)
    BY DEF Frame, OpenDir, EndLoop, AddUsage, Release, Notify, Claim, Spawn, Call, Descend, SkipEntry, CountFile,
           FailFile, FileOf, waitVars, WaitAdd, WaitDone
  <2>4. waitValue' \in Int
    BY <2>1, <2>2
  <2>5. waitLocked' \in BOOLEAN
    BY <2>1, <2>3
  <2> QED
    BY <2>4, <2>5 DEF WaitTypeOK
<1> DEFINE FlagFits(f) == f \in [Dirs -> {" ", "e", "!", "."}] /\ \A t \in SubDirs : f[t] \in {" ", "."}
<1>5. FlagFits(flag) /\ \A t \in SubDirs : FlagFits([flag EXCEPT ![t] = "."])
  <2>1. FlagFits(flag)
    BY <1>0 DEF FrameTypes
  <2>2. ASSUME NEW t \in SubDirs PROVE FlagFits([flag EXCEPT ![t] = "."])
    <3> DEFINE f == [flag EXCEPT ![t] = "."]
    <3>1. DOMAIN f = Dirs /\ \A y \in Dirs : f[y] = IF y = t THEN "." ELSE flag[y]
      BY <2>1
    <3>2. f \in [Dirs -> {" ", "e", "!", "."}]
      BY <2>1
    <3>3. \A y \in SubDirs : f[y] \in {" ", "."}
      BY <2>1, <3>1, SubDirFacts
    <3> QED
      BY <3>2, <3>3
  <2> QED
    BY <2>1, <2>2
<1>6. ASSUME NEW x \in Dirs, NEW left \in SUBSET Children(x), todo' = [todo EXCEPT ![x] = left]
      PROVE  todo' \in [Dirs -> SUBSET Entries] /\ \A y \in Dirs : todo'[y] \subseteq Children(y)
  <2>1. left \in SUBSET Entries
    BY ListingFacts
  <2>2. todo' \in [Dirs -> SUBSET Entries]
    BY <1>0, <1>6, <2>1 DEF FrameTypes
  <2>3. \A y \in Dirs : todo'[y] = IF y = x THEN left ELSE todo[y]
    BY <1>0, <1>6 DEF FrameTypes
  <2> QED
    BY <1>0, <2>2, <2>3 DEF FrameTypes
<1>7. \A n, k \in Nat : \A t \in Totals : Plus(t, n, k) \in Totals
  BY DEF Plus, Totals
<1>8. CASE OpenDir(d)
  <2>1. PICK listed \in SUBSET Children(d) :
          /\ todo' = [todo EXCEPT ![d] = listed]
          /\ tally' = [tally EXCEPT ![d] = IF listed = {} THEN [Zero EXCEPT !.size = EmptyDirSize]
                                           ELSE Zero]
          /\ \/ UNCHANGED flag
             \/ flag' = [flag EXCEPT ![topDir[d]] = "."]
    BY <1>8 DEF OpenDir
  <2>2. [Zero EXCEPT !.size = EmptyDirSize] \in Totals /\ Zero \in Totals
    BY TopDirAssumption, EmptySizeType DEF Zero, Totals
  <2>3. tally' \in [SubDirs -> Totals]
    BY <1>0, <2>1, <2>2 DEF FrameTypes
  <2>4. FlagFits(flag')
    BY <1>3, <1>5, <1>8, <2>1 DEF OpenDir
  <2>5. todo' \in [Dirs -> SUBSET Entries] /\ \A y \in Dirs : todo'[y] \subseteq Children(y)
    BY <1>6, <2>1, SubDirFacts
  <2>6. frame' \in [SubDirs -> FrameStates] /\ UNCHANGED <<topDir, total, holders>>
    BY <1>0, <1>8 DEF OpenDir, FrameTypes, FrameStates
  <2> HIDE DEF FlagFits
  <2>7. FrameTypes'
    BY <1>0, <1>2, <2>3, <2>4, <2>5, <2>6 DEF FrameTypes, FlagFits
  <2> QED
    BY <1>2, <1>4, <2>7 DEF Types
<1>9. ASSUME NEW e \in Entries, Take(d, e), frame' \in [SubDirs -> FrameStates],
             topDir' \in [SubDirs -> Dirs], tally' \in [SubDirs -> Totals], FlagFits(flag'),
             holders' \subseteq SubDirs /\ Cardinality(holders') <= Slots
      PROVE  Types'
  <2>1. todo' = [todo EXCEPT ![d] = todo[d] \ {e}] /\ todo[d] \ {e} \in SUBSET Children(d)
    BY <1>0, <1>9, SubDirFacts DEF Take, FrameTypes
  <2>2. todo' \in [Dirs -> SUBSET Entries] /\ \A y \in Dirs : todo'[y] \subseteq Children(y)
    BY <1>6, <2>1, SubDirFacts
  <2>3. total' = total
    BY <1>9 DEF Take
  <2>4. FrameTypes'
    BY <1>0, <1>2, <1>9, <2>2, <2>3 DEF FrameTypes
  <2> QED
    BY <1>2, <1>4, <2>4 DEF Types
<1>10. ASSUME NEW e \in Entries, SkipEntry(d, e) PROVE Types'
  <2>1. Take(d, e) /\ UNCHANGED <<frame, topDir, tally, flag, holders>>
    BY <1>10 DEF SkipEntry
  <2> HIDE DEF FlagFits
  <2> QED
    BY <1>0, <1>5, <1>9, <2>1 DEF FrameTypes
<1>11. ASSUME NEW e \in SubDirs, Claim(d, e) \/ Call(d, e) PROVE Types'
  <2>1. /\ Take(d, e) /\ UNCHANGED flag /\ e \in Entries
        /\ tally' = [tally EXCEPT ![d] = Plus(@, 0, 1)]
        /\ topDir' = [topDir EXCEPT ![e] = topDir[d]]
    BY <1>11, SubDirFacts DEF Claim, Call, Descend
  <2>2. tally' \in [SubDirs -> Totals] /\ topDir' \in [SubDirs -> Dirs]
    BY <1>0, <1>7, <2>1 DEF FrameTypes
  <2>3. frame' \in [SubDirs -> FrameStates]
    BY <1>0, <1>11 DEF Claim, Call, FrameTypes, FrameStates
  <2>4. holders' \subseteq SubDirs /\ Cardinality(holders') <= Slots
    <3>1. CASE Claim(d, e)
      <4>1. holders' = holders \cup {e} /\ Cardinality(holders) < Slots /\ holders \in SUBSET SubDirs
        BY <1>0, <3>1 DEF Claim, FrameTypes
      <4>2. IsFiniteSet(holders) /\ Cardinality(holders) \in Nat
        BY <4>1, SubDirFacts
      <4>3. Cardinality(holders \cup {e}) <= Cardinality(holders) + 1 /\ Cardinality(holders \cup {e}) \in Nat
        BY <4>2, FS_AddElement
      <4> QED
        BY <4>1, <4>2, <4>3, TopDirAssumption, EmptySizeType
    <3>2. CASE Call(d, e)
      BY <1>0, <3>2 DEF Call, FrameTypes
    <3> QED
      BY <1>11, <3>1, <3>2
  <2> HIDE DEF FlagFits
  <2> QED
    BY <1>5, <1>9, <2>1, <2>2, <2>3, <2>4
<1>12. ASSUME NEW e \in Files, CountFile(d, e) \/ FailFile(d, e) PROVE Types'
  <2>1. /\ Take(d, e) /\ UNCHANGED <<frame, topDir, holders>> /\ e \in Entries
        /\ frame[d] = "running"
    BY <1>12, ListingFacts DEF CountFile, FailFile, FileOf, Take
  <2>2. PICK n, k \in Nat : tally' = [tally EXCEPT ![d] = Plus(@, n, k)]
    <3>1. Bytes[e] \in Nat
      BY BytesAssumption
    <3> QED
      BY <1>12, <3>1 DEF CountFile, FailFile
  <2>3. tally' \in [SubDirs -> Totals]
    BY <1>0, <1>7, <2>2 DEF FrameTypes
  <2>4. flag' = flag \/ flag' = [flag EXCEPT ![topDir[d]] = "."]
    BY <1>12 DEF CountFile, FailFile
  <2>5. FlagFits(flag')
    BY <1>3, <1>5, <2>1, <2>4
  <2> HIDE DEF FlagFits
  <2> QED
    BY <1>0, <1>9, <2>1, <2>3, <2>5 DEF FrameTypes
<1>13. ASSUME EndLoop(d) \/ Release(d) \/ Notify(d) \/ \E e \in SubDirs : Spawn(d, e)
       PROVE  Types'
  <2>1. frame' \in [SubDirs -> FrameStates] /\ UNCHANGED <<todo, topDir, tally, total, flag>>
    BY <1>0, <1>13 DEF EndLoop, Release, Notify, Spawn, FrameTypes, FrameStates
  <2>2. holders' \subseteq SubDirs /\ Cardinality(holders') <= Slots
    <3>1. holders' = holders \/ holders' = holders \ {d}
      BY <1>13 DEF EndLoop, Release, Notify, Spawn
    <3>2. IsFiniteSet(holders) /\ Cardinality(holders) \in Nat /\ holders \subseteq SubDirs
          /\ Cardinality(holders) <= Slots
      BY <1>0, SubDirFacts DEF FrameTypes
    <3>3. Cardinality(holders \ {d}) <= Cardinality(holders) /\ Cardinality(holders \ {d}) \in Nat
      BY <3>2, FS_Subset, FS_CardinalityType
    <3> QED
      BY <3>1, <3>2, <3>3, TopDirAssumption, EmptySizeType
  <2>3. FrameTypes'
    BY <1>0, <1>2, <2>1, <2>2 DEF FrameTypes
  <2> QED
    BY <1>2, <1>4, <2>3 DEF Types
<1>14. CASE AddUsage(d)
  <2>1. total' = [total EXCEPT ![topDir[d]] = Plus(@, tally[d].size, tally[d].count)]
        /\ UNCHANGED <<todo, topDir, tally, flag, holders>>
        /\ frame[d] = "adding" /\ frame' = Returned(d)
    BY <1>14 DEF AddUsage
  <2>2. tally[d].size \in Nat /\ tally[d].count \in Nat
    BY <1>0 DEF FrameTypes, Totals
  <2>3. total' \in [SubDirs -> Totals]
    BY <1>0, <1>3, <1>7, <2>1, <2>2 DEF FrameTypes
  <2>4. frame' \in [SubDirs -> FrameStates]
    BY <1>0, <2>1 DEF Returned, FrameTypes, FrameStates
  <2>5. FrameTypes'
    BY <1>0, <1>2, <2>1, <2>3, <2>4 DEF FrameTypes
  <2> QED
    BY <1>2, <1>4, <2>5 DEF Types
<1> QED
  BY <1>8, <1>10, <1>11, <1>12, <1>13, <1>14 DEF Frame

\* A step that leaves the frames alone: what is taken is skipped or a file.
LEMMA StillKeeps ==
  ASSUME ControlInv, Types', MainOrder', UNCHANGED <<frame, tops, topDir, holders, waitValue>>,
         \A d \in SubDirs : todo'[d] \subseteq todo[d],
         \A d \in SubDirs : \A e \in todo[d] : e \in todo'[d] \/ e \in Skip \/ e \in Files,
         todo'[Root] \subseteq todo[Root] \/ tops = {},
         \A t \in SubDirs : flag'[t] = " " => flag[t] = " "
  PROVE  ControlInv'
<1>0. /\ Types /\ ReachedOnce /\ NoneIsLost /\ LoopsEnd /\ SlotsAndCalls
      /\ waitValue = Cardinality(Counted)
  BY DEF ControlInv
<1>1. Opened' = Opened /\ InCall' = InCall /\ Counted' = Counted
  BY DEF Opened, InCall, Counted
<1>2. ReachedOnce'
  <2>1. ASSUME NEW d \in SubDirs, frame[d] # "idle" PROVE d \notin todo'[Parent[d]]
    <3>1. Parent[d] = Root \/ Parent[d] \in SubDirs
      BY SubDirFacts
    <3>2. d \notin todo[Parent[d]] /\ tops # {}
      BY <1>0, <2>1 DEF ReachedOnce
    <3> QED
      BY <3>1, <3>2
  <2> QED
    BY <1>0, <1>1, <2>1 DEF ReachedOnce
<1>3. NoneIsLost'
  <2> SUFFICES ASSUME NEW d \in SubDirs, Parent[d] \in Opened, flag'[TopOf[d]] = " ",
                      d \notin todo'[Parent[d]], d \notin Skip
               PROVE  frame[d] # "idle"
    BY <1>1 DEF NoneIsLost
  <2>1. Parent[d] \in SubDirs /\ frame[Parent[d]] # "idle" /\ d \notin Files
    BY SubDirFacts DEF Opened, Unopened
  <2>2. TopOf[d] \in SubDirs
    <3>1. TopOf[d] = TopOf[Parent[d]] /\ Parent[d] # Root
      BY <2>1, TopOfEquation, SubDirFacts
    <3> QED
      BY <1>0, <2>1, <3>1 DEF ReachedOnce, Types, FrameTypes
  <2> QED
    BY <1>0, <2>1, <2>2 DEF NoneIsLost
<1>4. LoopsEnd'
  BY <1>0 DEF LoopsEnd
<1>5. SlotsAndCalls'
  BY <1>0, <1>1 DEF SlotsAndCalls
<1> QED
  BY <1>0, <1>1, <1>2, <1>3, <1>4, <1>5 DEF ControlInv

\* AnalyzeDir's steps, but for the start and the end of a first-level goroutine.
LEMMA MainControl ==
  ASSUME ControlInv, Types',
         \/ Start \/ EndListing \/ ReceivedAll \/ WaitRead \/ WaitLock \/ Return \/ UpdateStats
         \/ \E e \in Entries : SkipTop(e) \/ AddTopFile(e) \/ FailTopFile(e)
         \/ \E t \in SubDirs : ReadTop(t)
  PROVE  ControlInv'
<1>0. Types /\ FrameTypes /\ MainOrder
  BY DEF ControlInv, Types
<1>1. UNCHANGED <<frame, tops, topDir, holders, waitValue>>
  BY DEF Start, EndListing, ReceivedAll, WaitRead, WaitLock, Return, UpdateStats, SkipTop, AddTopFile,
         FailTopFile, TakeTop, ReadTop, mainRest, waitVars, WaitAcquire
<1>2. \E left : /\ todo' = [todo EXCEPT ![Root] = left]
                 /\ (left \subseteq todo[Root] \/ main = "idle")
  <2>1. todo' = todo => todo' = [todo EXCEPT ![Root] = todo[Root]]
    BY <1>0 DEF FrameTypes
  <2>2. CASE Start
    BY <2>2 DEF Start
  <2>3. ASSUME NEW e \in Entries, TakeTop(e)
        PROVE  todo' = [todo EXCEPT ![Root] = todo[Root] \ {e}]
    BY <2>3 DEF TakeTop
  <2>4. todo' = todo \/ Start \/ \E e \in Entries : TakeTop(e)
    BY DEF EndListing, ReceivedAll, WaitRead, WaitLock, Return, UpdateStats, SkipTop, AddTopFile, FailTopFile,
           ReadTop
  <2> QED
    BY <2>1, <2>2, <2>3, <2>4
<1>3. /\ \A d \in SubDirs : todo'[d] = todo[d]
      /\ todo'[Root] \subseteq todo[Root] \/ tops = {}
  <2>1. PICK left : /\ todo' = [todo EXCEPT ![Root] = left]
                    /\ (left \subseteq todo[Root] \/ main = "idle")
    BY <1>2
  <2>2. \A d \in Dirs : todo'[d] = IF d = Root THEN left ELSE todo[d]
    BY <1>0, <2>1 DEF FrameTypes
  <2> QED
    BY <1>0, <2>1, <2>2, SubDirFacts DEF MainOrder
<1>4. \A t \in SubDirs : flag'[t] = flag[t]
  <2>1. \E new : flag' = [flag EXCEPT ![Root] = new]
    <3>1. flag' = flag => flag' = [flag EXCEPT ![Root] = flag[Root]]
      BY <1>0 DEF FrameTypes
    <3> QED
      BY <3>1 DEF Start, EndListing, ReceivedAll, WaitRead, WaitLock, Return, UpdateStats, SkipTop,
                  AddTopFile, FailTopFile, ReadTop
  <2> QED
    BY <1>0, <2>1, SubDirFacts DEF FrameTypes
<1>5. MainOrder'
  <2>1. CASE reported' = reported
    <3>1. main' = "idle" => main = "idle"
      BY <2>1 DEF Start, EndListing, ReceivedAll, WaitRead, WaitLock, Return, UpdateStats, SkipTop, AddTopFile,
         FailTopFile, TakeTop, ReadTop
    <3>2. main' \in {"waiting", "locking", "reading", "returned", "summarised"} =>
            \/ main \in {"waiting", "locking", "reading", "returned", "summarised"}
            \/ \A t \in tops : frame[t] = "finished"
      BY <2>1 DEF Start, EndListing, ReceivedAll, WaitRead, WaitLock, Return, UpdateStats, SkipTop, AddTopFile,
         FailTopFile, TakeTop, ReadTop
    <3>3. main' \in {"returned", "summarised"} =>
            main \in {"returned", "summarised"} \/ tops = DOMAIN reported
      BY <2>1 DEF Start, EndListing, ReceivedAll, WaitRead, WaitLock, Return, UpdateStats, SkipTop, AddTopFile,
         FailTopFile, TakeTop, ReadTop
    <3> QED
      BY <1>0, <1>1, <2>1, <3>1, <3>2, <3>3 DEF MainOrder
  <2>2. ASSUME NEW t \in SubDirs, ReadTop(t) PROVE MainOrder'
    <3>1. main = "reading" /\ main' = main
      BY <2>2 DEF ReadTop
    <3> QED
      BY <1>0, <1>1, <3>1 DEF MainOrder
  <2>3. reported' = reported \/ \E t \in SubDirs : ReadTop(t)
    BY DEF Start, EndListing, ReceivedAll, WaitRead, WaitLock, Return, UpdateStats, SkipTop, AddTopFile,
           FailTopFile, TakeTop
  <2> QED
    BY <2>1, <2>2, <2>3
<1> QED
  BY <1>1, <1>3, <1>4, <1>5, StillKeeps

\* A first-level goroutine starts.
LEMMA SpawnTopControl ==
  ASSUME ControlInv, Types', NEW e \in Entries, SpawnTop(e)
  PROVE  ControlInv'
<1>0. /\ Types /\ FrameTypes /\ ReachedOnce /\ NoneIsLost /\ LoopsEnd /\ SlotsAndCalls
      /\ waitValue = Cardinality(Counted)
  BY DEF ControlInv, Types
<1>1. /\ main = "listing" /\ main' = main /\ e \in todo[Root] /\ e \in Dirs /\ e \notin Skip
      /\ tops' = tops \cup {e} /\ UNCHANGED <<holders, flag, reported, waitValue>>
      /\ frame' = [frame EXCEPT ![e] = "entering"]
      /\ topDir' = [topDir EXCEPT ![e] = e]
      /\ todo' = [todo EXCEPT ![Root] = @ \ {e}]
  BY DEF SpawnTop, TakeTop, waitVars
<1>2. e \in SubDirs /\ Parent[e] = Root /\ frame[e] = "idle"
  <2>1. e \in SubDirs
    BY <1>1 DEF Entries, SubDirs
  <2>2. Parent[e] = Root
    BY <1>0, <1>1, SubDirFacts, ListingFacts DEF FrameTypes
  <2> QED
    BY <1>0, <1>1, <2>1, <2>2 DEF ReachedOnce
<1>3. /\ \A d \in SubDirs : frame'[d] = IF d = e THEN "entering" ELSE frame[d]
      /\ \A d \in SubDirs : topDir'[d] = IF d = e THEN e ELSE topDir[d]
      /\ \A d \in SubDirs : todo'[d] = todo[d]
      /\ todo'[Root] = todo[Root] \ {e}
  BY <1>0, <1>1, SubDirFacts DEF FrameTypes
<1>4. Walked[e] /\ TopOf[e] = e
  BY <1>1, <1>2, WalkedEquation, TopOfEquation
<1>5. Opened' = Opened
  BY <1>2, <1>3 DEF Opened, Unopened
<1>6. InCall' = InCall
  BY <1>1, <1>2, <1>3 DEF InCall, InBody
<1>7. e \notin holders /\ Counted' = Counted
  BY <1>0, <1>1, <1>2, <1>3 DEF SlotsAndCalls, InBody, Counted
<1>8. ReachedOnce'
  BY <1>0, <1>1, <1>2, <1>3, <1>4, <1>5, SubDirFacts DEF ReachedOnce
<1>9. NoneIsLost'
  <2> SUFFICES ASSUME NEW d \in SubDirs, Parent[d] \in Opened, flag[TopOf[d]] = " ",
                      d \notin todo'[Parent[d]], d \notin Skip
               PROVE  frame'[d] # "idle"
    BY <1>1, <1>5 DEF NoneIsLost
  <2>1. d \notin todo[Parent[d]]
    BY <1>3 DEF Opened
  <2> QED
    BY <1>0, <1>3, <2>1 DEF NoneIsLost
<1>10. LoopsEnd'
  BY <1>0, <1>3 DEF LoopsEnd
<1>11. SlotsAndCalls'
  <2>1. \A d \in SubDirs : d # e => frame'[d] = frame[d]
    BY <1>3
  <2>2. \A d \in SubDirs : frame[d] = "claimed" => Parent[d] # e /\ frame[Parent[d]] = "claiming"
                              /\ Parent[d] \in SubDirs
    BY <1>0, <1>2, SubDirFacts DEF SlotsAndCalls, ReachedOnce, FrameTypes
  <2>3. \A d \in InCall : Parent[d] # e /\ frame[Parent[d]] = "calling" /\ Parent[d] \in SubDirs
    BY <1>0, <1>2, SubDirFacts DEF SlotsAndCalls, ReachedOnce, InCall, InBody
  <2> QED
    BY <1>0, <1>1, <1>2, <1>3, <1>6, <1>7, <2>2, <2>3 DEF SlotsAndCalls
<1>12. MainOrder'
  BY <1>1 DEF MainOrder
<1> QED
  BY <1>0, <1>1, <1>7, <1>8, <1>9, <1>10, <1>11, <1>12 DEF ControlInv

\* The result of a first-level goroutine is received.
LEMMA ReceiveTopControl ==
  ASSUME ControlInv, Types', NEW t \in SubDirs, ReceiveTop(t)
  PROVE  ControlInv'
<1>0. /\ Types /\ FrameTypes /\ ReachedOnce /\ NoneIsLost /\ LoopsEnd /\ SlotsAndCalls
      /\ waitValue = Cardinality(Counted)
  BY DEF ControlInv, Types
<1>1. /\ main = "receiving" /\ main' = main /\ frame[t] = "sending"
      /\ frame' = [frame EXCEPT ![t] = "finished"]
      /\ UNCHANGED <<tops, todo, topDir, flag, holders, reported, waitValue>>
  BY DEF ReceiveTop, mainRest, waitVars
<1>2. \A d \in SubDirs : frame'[d] = IF d = t THEN "finished" ELSE frame[d]
  BY <1>0, <1>1 DEF FrameTypes
<1>3. Opened' = Opened /\ InCall' = InCall /\ t \notin holders
  BY <1>0, <1>1, <1>2 DEF Opened, Unopened, InCall, InBody, SlotsAndCalls
<1>4. Counted' = Counted
  BY <1>1, <1>2, <1>3 DEF Counted
<1>5. ReachedOnce' /\ LoopsEnd'
  BY <1>0, <1>1, <1>2, <1>3 DEF ReachedOnce, LoopsEnd
<1>6. NoneIsLost'
  <2> SUFFICES ASSUME NEW d \in SubDirs, Parent[d] \in Opened, flag[TopOf[d]] = " ",
                      d \notin todo[Parent[d]], d \notin Skip
               PROVE  frame'[d] # "idle"
    BY <1>1, <1>3 DEF NoneIsLost
  <2> QED
    BY <1>0, <1>2 DEF NoneIsLost
<1>7. SlotsAndCalls'
  <2>1. \A d \in SubDirs : frame[d] = "claimed" \/ d \in InCall => Parent[d] # t
    BY <1>0, <1>1 DEF SlotsAndCalls
  <2>2. \A d \in SubDirs : frame[d] = "claimed" \/ d \in InCall => Parent[d] \in SubDirs
    BY <1>0, SubDirFacts DEF SlotsAndCalls, ReachedOnce, InCall, InBody
  <2>3. t \in tops
    BY <1>0, <1>1 DEF SlotsAndCalls
  <2>4. /\ \A d \in SubDirs : frame'[d] = "claimed" => frame'[Parent[d]] = "claiming"
        /\ \A d \in InCall : frame'[Parent[d]] = "calling"
    BY <1>0, <1>2, <2>1, <2>2 DEF SlotsAndCalls, InCall
  <2> QED
    BY <1>0, <1>1, <1>2, <1>3, <2>3, <2>4 DEF SlotsAndCalls
<1>8. MainOrder'
  BY <1>1 DEF MainOrder
<1> QED
  BY <1>0, <1>1, <1>4, <1>5, <1>6, <1>7, <1>8 DEF ControlInv

\* The frames that a step of processSubDir leaves alone.
LEMMA MainOrderKeeps ==
  ASSUME ControlInv, UNCHANGED frameRest,
         \A x \in SubDirs : frame[x] = "finished" => frame'[x] = "finished"
  PROVE  MainOrder'
  BY DEF ControlInv, Types, FrameTypes, MainOrder, frameRest

\* Directories that are reached have a directory that was opened.
LEMMA AboveFacts ==
  ASSUME ControlInv, NEW d \in SubDirs, frame[d] # "idle", d \notin tops
  PROVE  Parent[d] \in SubDirs /\ Parent[d] \in Opened /\ Parent[d] # d /\ d \in Entries
  BY SubDirFacts, NoLoop DEF ControlInv, ReachedOnce

\* os.ReadDir.
LEMMA OpenDirControl ==
  ASSUME ControlInv, Types', NEW d \in SubDirs, OpenDir(d)
  PROVE  ControlInv'
<1>0. /\ Types /\ FrameTypes /\ ReachedOnce /\ NoneIsLost /\ LoopsEnd /\ SlotsAndCalls
      /\ waitValue = Cardinality(Counted)
  BY DEF ControlInv, Types
<1>1. /\ frame[d] = "entering" /\ frame' = [frame EXCEPT ![d] = "running"]
      /\ UNCHANGED <<frameRest, tops, topDir, holders, waitValue>>
  BY DEF OpenDir, waitVars, frameRest
<1>2. PICK listed \in SUBSET Children(d) :
        /\ todo' = [todo EXCEPT ![d] = listed]
        /\ ((listed = Children(d) /\ flag' = flag) \/ flag' = [flag EXCEPT ![topDir[d]] = "."])
  BY DEF OpenDir
<1>3. /\ \A x \in SubDirs : frame'[x] = IF x = d THEN "running" ELSE frame[x]
      /\ \A x \in Dirs : todo'[x] = IF x = d THEN listed ELSE todo[x]
  BY <1>0, <1>1, <1>2 DEF FrameTypes
<1>4. Opened' = Opened \cup {d} /\ d \notin Opened /\ InCall' = InCall
  BY <1>1, <1>3 DEF Opened, Unopened, InCall, InBody
<1>5. Counted' = Counted
  BY <1>1, <1>3 DEF Counted
<1>6. ReachedOnce'
  <2>1. \A x \in SubDirs : frame'[x] # "idle" => frame[x] # "idle"
    BY <1>1, <1>3
  <2>2. ASSUME NEW x \in SubDirs, frame[x] # "idle" PROVE x \notin todo'[Parent[x]]
    <3>1. Parent[x] \in Dirs /\ Parent[x] # d
      BY <1>0, <1>4, <2>2, SubDirFacts DEF ReachedOnce
    <3> QED
      BY <1>0, <1>3, <2>2, <3>1 DEF ReachedOnce
  <2> QED
    BY <1>0, <1>1, <1>3, <1>4, <2>1, <2>2 DEF ReachedOnce
<1>7. NoneIsLost'
  <2> SUFFICES ASSUME NEW x \in SubDirs, Parent[x] \in Opened', flag'[TopOf[x]] = " ",
                      x \notin todo'[Parent[x]], x \notin Skip
               PROVE  frame'[x] # "idle"
    BY DEF NoneIsLost
  <2>0. topDir[d] \in SubDirs /\ topDir[d] = TopOf[d]
    BY <1>0, <1>1 DEF ReachedOnce, FrameTypes
  <2>1. CASE Parent[x] = d
    <3>1. TopOf[x] = topDir[d] /\ x \in Children(d)
      BY <2>0, <2>1, TopOfEquation, SubDirFacts, ListingFacts
    <3>2. listed = Children(d)
      BY <1>0, <1>2, <2>0, <3>1, SubDirFacts DEF FrameTypes
    <3> QED
      BY <1>3, <2>1, <3>1, <3>2, SubDirFacts
  <2>2. CASE Parent[x] # d
    <3>1. Parent[x] \in Opened /\ x \notin todo[Parent[x]]
      BY <1>3, <1>4, <2>2, SubDirFacts DEF Opened
    <3>2. TopOf[x] \in SubDirs
      <4>1. TopOf[x] = TopOf[Parent[x]] /\ frame[Parent[x]] # "idle" /\ Parent[x] \in SubDirs
        BY <3>1, TopOfEquation, SubDirFacts DEF Opened, Unopened
      <4> QED
        BY <1>0, <4>1 DEF ReachedOnce, FrameTypes
    <3>3. flag[TopOf[x]] = " "
      BY <1>0, <1>2, <2>0, <3>2, SubDirFacts DEF FrameTypes
    <3> QED
      BY <1>0, <1>3, <3>1, <3>3 DEF NoneIsLost
  <2> QED
    BY <2>1, <2>2
<1>8. LoopsEnd'
  BY <1>0, <1>3, SubDirFacts DEF LoopsEnd
<1>9. SlotsAndCalls'
  <2>1. \A x \in SubDirs : frame[x] = "claimed" \/ x \in InCall => Parent[x] # d /\ Parent[x] \in SubDirs
    BY <1>0, <1>1, SubDirFacts DEF SlotsAndCalls, ReachedOnce, InCall, InBody
  <2>2. /\ \A x \in SubDirs : frame'[x] = "claimed" => frame'[Parent[x]] = "claiming"
        /\ \A x \in InCall : frame'[Parent[x]] = "calling"
    BY <1>0, <1>3, <2>1 DEF SlotsAndCalls, InCall
  <2>3. /\ holders' \cap tops' = {}
        /\ \A x \in holders' : frame'[x] \in InBody \cup {"claimed", "entering", "releasing"}
        /\ \A x \in SubDirs : /\ frame'[x] \in {"claimed", "releasing"} => x \in holders'
                              /\ frame'[x] = "sending" => x \in tops'
                              /\ frame'[x] = "notifying" => x \notin tops'
    BY <1>0, <1>1, <1>3 DEF SlotsAndCalls, InBody, FrameTypes
  <2>4. \A x, y \in SubDirs : frame'[x] = "claimed" /\ frame'[y] = "claimed" /\ Parent[x] = Parent[y] => x = y
    BY <1>0, <1>3 DEF SlotsAndCalls
  <2> QED
    BY <1>0, <1>4, <2>2, <2>3, <2>4 DEF SlotsAndCalls
<1>10. MainOrder'
  BY <1>1, <1>3, MainOrderKeeps
<1> QED
  BY <1>0, <1>1, <1>5, <1>6, <1>7, <1>8, <1>9, <1>10 DEF ControlInv

\* Entries that are skipped, and files.
LEMMA TakeControl ==
  ASSUME ControlInv, Types', NEW d \in SubDirs, NEW e \in Entries,
         SkipEntry(d, e) \/ (e \in Files /\ (CountFile(d, e) \/ FailFile(d, e)))
  PROVE  ControlInv'
<1>0. Types /\ FrameTypes /\ ReachedOnce
  BY DEF ControlInv, Types
<1>1. /\ UNCHANGED <<frame, tops, topDir, holders, waitValue, frameRest>>
      /\ frame[d] = "running" /\ (e \in Skip \/ e \in Files)
      /\ todo' = [todo EXCEPT ![d] = @ \ {e}]
      /\ (flag' = flag \/ flag' = [flag EXCEPT ![topDir[d]] = "."])
  BY DEF SkipEntry, CountFile, FailFile, FileOf, Take, frameRest, waitVars
<1>2. \A x \in Dirs : todo'[x] = IF x = d THEN todo[d] \ {e} ELSE todo[x]
  BY <1>0, <1>1, SubDirFacts DEF FrameTypes
<1>3. \A t \in SubDirs : flag'[t] = " " => flag[t] = " "
  BY <1>0, <1>1, SubDirFacts DEF FrameTypes
<1>4. MainOrder'
  BY <1>1, MainOrderKeeps
<1>5. /\ \A x \in SubDirs : todo'[x] \subseteq todo[x]
      /\ \A x \in SubDirs : \A y \in todo[x] : y \in todo'[x] \/ y \in Skip \/ y \in Files
      /\ todo'[Root] \subseteq todo[Root]
  BY <1>1, <1>2, SubDirFacts
<1> QED
  BY <1>1, <1>3, <1>4, <1>5, StillKeeps

\* A directory is taken from a listing.
Descended(d, e) ==
  /\ Parent[e] = d /\ frame[d] = "running" /\ frame[e] = "idle" /\ e # d
  /\ e \notin tops /\ e \notin holders
  /\ e \notin Skip /\ TopOf[e] = TopOf[d] /\ topDir[d] = TopOf[d]
  /\ \A x \in SubDirs : topDir'[x] = IF x = e THEN topDir[d] ELSE topDir[x]
  /\ \A x \in Dirs : todo'[x] = IF x = d THEN todo[d] \ {e} ELSE todo[x]
  /\ UNCHANGED <<frameRest, tops, flag, waitValue>>
  /\ \E s \in {"claiming", "calling"} : \E n \in {"claimed", "entering"} :
       \A x \in SubDirs : frame'[x] = IF x = d THEN s ELSE IF x = e THEN n ELSE frame[x]

LEMMA DescendFacts ==
  ASSUME ControlInv, Types', NEW d \in SubDirs, NEW e \in SubDirs, Claim(d, e) \/ Call(d, e)
  PROVE  Descended(d, e)
<1>0. Types /\ FrameTypes /\ ReachedOnce /\ SlotsAndCalls
  BY DEF ControlInv, Types
<1>1. /\ frame[d] = "running" /\ e \in todo[d] /\ todo' = [todo EXCEPT ![d] = @ \ {e}]
      /\ e \in Dirs \ Skip /\ topDir' = [topDir EXCEPT ![e] = topDir[d]]
      /\ UNCHANGED <<frameRest, tops, flag, waitValue>>
  BY DEF Claim, Call, Descend, Take, frameRest, waitVars
<1>2. Parent[e] = d /\ e # d
  <2>1. e \in Children(d) /\ e \in Entries
    BY <1>0, <1>1, SubDirFacts DEF FrameTypes
  <2> QED
    BY <2>1, ListingFacts, NoLoop
<1>3. frame[e] = "idle"
  BY <1>0, <1>1, <1>2 DEF ReachedOnce
<1>4. e \notin tops /\ e \notin holders
  BY <1>0, <1>2, <1>3, SubDirFacts DEF ReachedOnce, SlotsAndCalls, InBody
<1>5. /\ \A x \in SubDirs : topDir'[x] = IF x = e THEN topDir[d] ELSE topDir[x]
      /\ \A x \in Dirs : todo'[x] = IF x = d THEN todo[d] \ {e} ELSE todo[x]
  BY <1>0, <1>1, SubDirFacts DEF FrameTypes
<1>6. PICK s \in {"claiming", "calling"}, n \in {"claimed", "entering"} :
        frame' = [frame EXCEPT ![d] = s, ![e] = n]
  BY DEF Claim, Call
<1>7. \A x \in SubDirs : frame'[x] = IF x = d THEN s ELSE IF x = e THEN n ELSE frame[x]
  BY <1>0, <1>2, <1>6 DEF FrameTypes
<1>8. TopOf[e] = TopOf[d] /\ topDir[d] = TopOf[d]
  BY <1>0, <1>1, <1>2, TopOfEquation, SubDirFacts DEF ReachedOnce
<1>9. \E s1 \in {"claiming", "calling"} : \E n1 \in {"claimed", "entering"} :
         \A x \in SubDirs : frame'[x] = IF x = d THEN s1 ELSE IF x = e THEN n1 ELSE frame[x]
  BY <1>7
<1> QED
  BY <1>1, <1>2, <1>3, <1>4, <1>5, <1>8, <1>9 DEF Descended

LEMMA DescendKeeps ==
  ASSUME ControlInv, Types', NEW d \in SubDirs, NEW e \in SubDirs, Claim(d, e) \/ Call(d, e)
  PROVE  ReachedOnce' /\ NoneIsLost' /\ LoopsEnd' /\ MainOrder' /\ Opened' = Opened
<1>0. Types /\ FrameTypes /\ ReachedOnce /\ NoneIsLost /\ LoopsEnd
  BY DEF ControlInv, Types
<1>d. Descended(d, e)
  BY DescendFacts
<1>1. /\ Parent[e] = d /\ frame[d] = "running" /\ frame[e] = "idle" /\ e # d /\ e \notin tops
      /\ e \notin Skip /\ TopOf[e] = TopOf[d] /\ topDir[d] = TopOf[d]
      /\ \A x \in SubDirs : topDir'[x] = IF x = e THEN topDir[d] ELSE topDir[x]
      /\ \A x \in Dirs : todo'[x] = IF x = d THEN todo[d] \ {e} ELSE todo[x]
      /\ UNCHANGED <<frameRest, tops, flag>>
  BY <1>d DEF Descended
<1>2. PICK s \in {"claiming", "calling"}, n \in {"claimed", "entering"} :
        \A x \in SubDirs : frame'[x] = IF x = d THEN s ELSE IF x = e THEN n ELSE frame[x]
  BY <1>d DEF Descended
<1>3. Opened' = Opened /\ d \in Opened
  BY <1>1, <1>2 DEF Opened, Unopened
<1>4. ReachedOnce'
  <2>1. \A t \in tops : Parent[t] = Root /\ frame'[t] # "idle"
    <3> TAKE t \in tops
    <3>1. t \in SubDirs /\ Parent[t] = Root /\ frame[t] # "idle"
      BY <1>0 DEF ReachedOnce, FrameTypes
    <3> QED
      BY <1>2, <3>1
  <2>2. ASSUME NEW x \in SubDirs, frame'[x] # "idle", x # e
        PROVE  /\ Walked[x] /\ topDir'[x] = TopOf[x] /\ TopOf[x] \in tops
               /\ x \notin todo'[Parent[x]]
               /\ Parent[x] = Root => x \in tops
               /\ Parent[x] # Root => Parent[x] \in Opened'
    <3>1. frame[x] # "idle" /\ Parent[x] \in Dirs
      BY <1>1, <1>2, <2>2, SubDirFacts
    <3>2. x \notin todo'[Parent[x]] /\ topDir'[x] = topDir[x]
      BY <1>0, <1>1, <2>2, <3>1 DEF ReachedOnce
    <3> QED
      BY <1>0, <1>3, <3>1, <3>2 DEF ReachedOnce
  <2>3. Walked[e] /\ topDir'[e] = TopOf[e] /\ TopOf[e] \in tops /\ e \notin todo'[Parent[e]]
        /\ Parent[e] # Root /\ Parent[e] \in Opened'
    <3>1. Walked[e]
      BY <1>0, <1>1, WalkedEquation, SubDirFacts DEF ReachedOnce
    <3> QED
      BY <1>0, <1>1, <1>3, <3>1, SubDirFacts DEF ReachedOnce
  <2> QED
    BY <1>1, <2>1, <2>2, <2>3 DEF ReachedOnce
<1>5. NoneIsLost'
  <2> SUFFICES ASSUME NEW x \in SubDirs, Parent[x] \in Opened, flag[TopOf[x]] = " ",
                      x \notin todo'[Parent[x]], x \notin Skip
               PROVE  frame'[x] # "idle"
    BY <1>1, <1>3 DEF NoneIsLost
  <2>1. x = e \/ x \notin todo[Parent[x]]
    BY <1>1, SubDirFacts
  <2> QED
    BY <1>0, <1>2, <2>1 DEF NoneIsLost
<1>6. LoopsEnd'
  BY <1>0, <1>1, <1>2, SubDirFacts DEF LoopsEnd
<1>7. MainOrder'
  BY <1>1, <1>2, MainOrderKeeps
<1> QED
  BY <1>3, <1>4, <1>5, <1>6, <1>7

\* A slot is free: it is taken for a goroutine of the directory's own.
LEMMA ClaimControl ==
  ASSUME ControlInv, Types', NEW d \in SubDirs, NEW e \in SubDirs, Claim(d, e)
  PROVE  ControlInv'
<1>0. /\ Types /\ FrameTypes /\ ReachedOnce /\ SlotsAndCalls /\ waitValue = Cardinality(Counted)
  BY DEF ControlInv, Types
<1>d. Descended(d, e)
  BY DescendFacts
<1>1. /\ Parent[e] = d /\ frame[d] = "running" /\ frame[e] = "idle" /\ e # d /\ e \notin tops
      /\ UNCHANGED <<tops, waitValue>> /\ holders' = holders \cup {e} /\ e \notin holders
  <2>1. holders' = holders \cup {e}
    BY DEF Claim
  <2> QED
    BY <1>d, <2>1 DEF Descended
<1>2. \A x \in SubDirs : frame'[x] = IF x = d THEN "claiming" ELSE IF x = e THEN "claimed" ELSE frame[x]
  BY <1>0, <1>1 DEF Claim, FrameTypes
<1>3. InCall' = InCall
  BY <1>1, <1>2 DEF InCall, InBody
<1>4. Counted' = Counted
  <2>1. holders \subseteq SubDirs
    BY <1>0 DEF FrameTypes
  <2> QED
    BY <1>1, <1>2, <2>1 DEF Counted
<1>5. SlotsAndCalls'
  <2>1. \A x \in SubDirs : frame[x] = "claimed" \/ x \in InCall =>
          Parent[x] # d /\ Parent[x] # e /\ Parent[x] \in SubDirs
    BY <1>0, <1>1, SubDirFacts DEF SlotsAndCalls, ReachedOnce, InCall, InBody
  <2>2. /\ \A x \in SubDirs : frame'[x] = "claimed" => frame'[Parent[x]] = "claiming"
        /\ \A x \in InCall : frame'[Parent[x]] = "calling"
    BY <1>0, <1>1, <1>2, <2>1 DEF SlotsAndCalls, InCall
  <2>3. /\ holders' \cap tops' = {}
        /\ \A x \in holders' : frame'[x] \in InBody \cup {"claimed", "entering", "releasing"}
        /\ \A x \in SubDirs : /\ frame'[x] \in {"claimed", "releasing"} => x \in holders'
                              /\ frame'[x] = "sending" => x \in tops'
                              /\ frame'[x] = "notifying" => x \notin tops'
    <3>1. holders' \cap tops' = {} /\ holders' \subseteq SubDirs
      BY <1>0, <1>1 DEF SlotsAndCalls, FrameTypes
    <3>2. ASSUME NEW x \in holders'
          PROVE  frame'[x] \in InBody \cup {"claimed", "entering", "releasing"}
      BY <1>0, <1>1, <1>2, <3>1 DEF SlotsAndCalls, InBody
    <3>3. ASSUME NEW x \in SubDirs
          PROVE  /\ frame'[x] \in {"claimed", "releasing"} => x \in holders'
                 /\ frame'[x] = "sending" => x \in tops'
                 /\ frame'[x] = "notifying" => x \notin tops'
      BY <1>0, <1>1, <1>2 DEF SlotsAndCalls
    <3> QED
      BY <3>1, <3>2, <3>3
  <2>4. \A x, y \in SubDirs : frame'[x] = "claimed" /\ frame'[y] = "claimed" /\ Parent[x] = Parent[y] => x = y
    BY <1>0, <1>1, <1>2, <2>1 DEF SlotsAndCalls
  <2> QED
    BY <1>0, <1>3, <2>2, <2>3, <2>4 DEF SlotsAndCalls
<1> QED
  BY <1>0, <1>1, <1>4, <1>5, DescendKeeps DEF ControlInv

\* No slot is free: the directory is walked by a call.
LEMMA CallControl ==
  ASSUME ControlInv, Types', NEW d \in SubDirs, NEW e \in SubDirs, Call(d, e)
  PROVE  ControlInv'
<1>0. /\ Types /\ FrameTypes /\ ReachedOnce /\ SlotsAndCalls /\ waitValue = Cardinality(Counted)
  BY DEF ControlInv, Types
<1>d. Descended(d, e)
  BY DescendFacts
<1>1. /\ Parent[e] = d /\ frame[d] = "running" /\ frame[e] = "idle" /\ e # d /\ e \notin tops
      /\ UNCHANGED <<tops, waitValue>> /\ holders' = holders /\ e \notin holders
  <2>1. holders' = holders
    BY DEF Call
  <2> QED
    BY <1>d, <2>1 DEF Descended
<1>2. \A x \in SubDirs : frame'[x] = IF x = d THEN "calling" ELSE IF x = e THEN "entering" ELSE frame[x]
  BY <1>0, <1>1 DEF Call, FrameTypes
<1>3. InCall' = InCall \cup {e}
  BY <1>1, <1>2 DEF InCall, InBody
<1>4. Counted' = Counted
  <2>1. holders \subseteq SubDirs
    BY <1>0 DEF FrameTypes
  <2> QED
    BY <1>1, <1>2, <2>1 DEF Counted
<1>5. SlotsAndCalls'
  <2>1. \A x \in SubDirs : frame[x] = "claimed" \/ x \in InCall =>
          Parent[x] # d /\ Parent[x] # e /\ Parent[x] \in SubDirs
    BY <1>0, <1>1, SubDirFacts DEF SlotsAndCalls, ReachedOnce, InCall, InBody
  <2>2. /\ \A x \in SubDirs : frame'[x] = "claimed" => frame'[Parent[x]] = "claiming"
        /\ \A x \in InCall' : frame'[Parent[x]] = "calling"
    <3>1. \A x \in SubDirs : frame'[x] = "claimed" => frame'[Parent[x]] = "claiming"
      BY <1>0, <1>1, <1>2, <2>1 DEF SlotsAndCalls
    <3>2. \A x \in InCall : frame'[Parent[x]] = "calling"
      BY <1>0, <1>1, <1>2, <2>1 DEF SlotsAndCalls, InCall
    <3> QED
      BY <1>1, <1>2, <1>3, <3>1, <3>2
  <2>3. /\ holders' \cap tops' = {}
        /\ \A x \in holders' : frame'[x] \in InBody \cup {"claimed", "entering", "releasing"}
        /\ \A x \in SubDirs : /\ frame'[x] \in {"claimed", "releasing"} => x \in holders'
                              /\ frame'[x] = "sending" => x \in tops'
                              /\ frame'[x] = "notifying" => x \notin tops'
    <3>1. holders' \cap tops' = {} /\ holders' \subseteq SubDirs
      BY <1>0, <1>1 DEF SlotsAndCalls, FrameTypes
    <3>2. ASSUME NEW x \in holders'
          PROVE  frame'[x] \in InBody \cup {"claimed", "entering", "releasing"}
      BY <1>0, <1>1, <1>2, <3>1 DEF SlotsAndCalls, InBody
    <3>3. ASSUME NEW x \in SubDirs
          PROVE  /\ frame'[x] \in {"claimed", "releasing"} => x \in holders'
                 /\ frame'[x] = "sending" => x \in tops'
                 /\ frame'[x] = "notifying" => x \notin tops'
      BY <1>0, <1>1, <1>2 DEF SlotsAndCalls
    <3> QED
      BY <3>1, <3>2, <3>3
  <2>4. \A x, y \in SubDirs : frame'[x] = "claimed" /\ frame'[y] = "claimed" /\ Parent[x] = Parent[y] => x = y
    BY <1>0, <1>1, <1>2, <2>1 DEF SlotsAndCalls
  <2>5. \A x, y \in InCall' : Parent[x] = Parent[y] => x = y
    <3>1. \A x \in InCall : Parent[x] # d
      BY <2>1 DEF InCall
    <3> QED
      BY <1>0, <1>1, <1>3, <3>1 DEF SlotsAndCalls
  <2> QED
    BY <2>2, <2>3, <2>4, <2>5 DEF SlotsAndCalls
<1> QED
  BY <1>0, <1>1, <1>4, <1>5, DescendKeeps DEF ControlInv

\* The goroutine with the slot is counted, and starts.
LEMMA SpawnControl ==
  ASSUME ControlInv, Types', NEW d \in SubDirs, NEW e \in SubDirs, Spawn(d, e)
  PROVE  ControlInv'
<1>0. /\ Types /\ FrameTypes /\ ReachedOnce /\ NoneIsLost /\ LoopsEnd /\ SlotsAndCalls
      /\ waitValue = Cardinality(Counted) /\ holders \subseteq SubDirs
  BY DEF ControlInv, Types, FrameTypes
<1>1. /\ Parent[e] = d /\ frame[d] = "claiming" /\ frame[e] = "claimed"
      /\ UNCHANGED <<tops, todo, topDir, flag, holders, frameRest>> /\ waitValue' = waitValue + 1
  BY DEF Spawn, frameRest, WaitAdd
<1>2. /\ e # d /\ e \in holders
      /\ \A x \in SubDirs : frame'[x] = IF x = d THEN "running" ELSE IF x = e THEN "entering" ELSE frame[x]
  BY <1>0, <1>1 DEF Spawn, FrameTypes, SlotsAndCalls
<1>3. Opened' = Opened /\ InCall' = InCall
  BY <1>1, <1>2 DEF Opened, Unopened, InCall, InBody
<1>4. Counted' = Counted \cup {e} /\ e \notin Counted
  BY <1>0, <1>1, <1>2 DEF Counted
<1>5. waitValue' = Cardinality(Counted')
  <2>1. Counted \in SUBSET SubDirs
    BY <1>0 DEF Counted
  <2>2. IsFiniteSet(Counted)
    BY <2>1, SubDirFacts
  <2> QED
    BY <1>0, <1>1, <1>4, <2>2, FS_AddElement
<1>6. ReachedOnce'
  <2>1. \A x \in SubDirs : frame'[x] # "idle" <=> frame[x] # "idle"
    BY <1>1, <1>2
  <2> QED
    BY <1>0, <1>1, <1>3, <2>1 DEF ReachedOnce, FrameTypes
<1>7. NoneIsLost'
  <2> SUFFICES ASSUME NEW x \in SubDirs, Parent[x] \in Opened, flag[TopOf[x]] = " ",
                      x \notin todo[Parent[x]], x \notin Skip
               PROVE  frame'[x] # "idle"
    BY <1>1, <1>3 DEF NoneIsLost
  <2> QED
    BY <1>0, <1>2 DEF NoneIsLost
<1>8. LoopsEnd'
  BY <1>0, <1>1, <1>2 DEF LoopsEnd
<1>9. SlotsAndCalls'
  <2>1. \A x \in SubDirs : frame[x] = "claimed" \/ x \in InCall => Parent[x] # e /\ Parent[x] \in SubDirs
    BY <1>0, <1>1, SubDirFacts DEF SlotsAndCalls, ReachedOnce, InCall, InBody
  <2>2. /\ \A x \in InCall : Parent[x] # d
        /\ \A x \in SubDirs : frame[x] = "claimed" /\ x # e => Parent[x] # d
    BY <1>0, <1>1 DEF SlotsAndCalls
  <2>3. /\ \A x \in SubDirs : frame'[x] = "claimed" => frame'[Parent[x]] = "claiming"
        /\ \A x \in InCall : frame'[Parent[x]] = "calling"
    BY <1>0, <1>2, <2>1, <2>2 DEF SlotsAndCalls, InCall
  <2>4. /\ \A x \in holders : frame'[x] \in InBody \cup {"claimed", "entering", "releasing"}
        /\ \A x \in SubDirs : /\ frame'[x] \in {"claimed", "releasing"} => x \in holders
                              /\ frame'[x] = "sending" => x \in tops
                              /\ frame'[x] = "notifying" => x \notin tops
    <3>1. ASSUME NEW x \in holders
          PROVE  frame'[x] \in InBody \cup {"claimed", "entering", "releasing"}
      BY <1>0, <1>2 DEF SlotsAndCalls, InBody
    <3>2. ASSUME NEW x \in SubDirs
          PROVE  /\ frame'[x] \in {"claimed", "releasing"} => x \in holders
                 /\ frame'[x] = "sending" => x \in tops
                 /\ frame'[x] = "notifying" => x \notin tops
      BY <1>0, <1>2 DEF SlotsAndCalls
    <3> QED
      BY <3>1, <3>2
  <2>5. \A x, y \in SubDirs : frame'[x] = "claimed" /\ frame'[y] = "claimed" /\ Parent[x] = Parent[y] => x = y
    BY <1>0, <1>2 DEF SlotsAndCalls
  <2> QED
    BY <1>0, <1>1, <1>3, <2>3, <2>4, <2>5 DEF SlotsAndCalls
<1>10. MainOrder'
  <2>1. \A x \in SubDirs : frame[x] = "finished" => frame'[x] = "finished"
    BY <1>1, <1>2
  <2> QED
    BY <1>1, <2>1, MainOrderKeeps
<1> QED
  BY <1>0, <1>1, <1>5, <1>6, <1>7, <1>8, <1>9, <1>10 DEF ControlInv

\* A step of one frame that has taken everything: from its loop to its end.
LEMMA EndingKeeps ==
  ASSUME ControlInv, Types', NEW d \in SubDirs, NEW s \in FrameStates,
         frame[d] \in {"running", "adding", "releasing", "notifying"}, todo[d] = {},
         \A x \in SubDirs : frame'[x] = IF x = d THEN s ELSE frame[x],
         s \in {"adding", "releasing", "notifying", "sending", "finished"},
         UNCHANGED <<frameRest, tops, todo, topDir, flag>>,
         holders' = holders \/ holders' = holders \ {d},
         d \in holders' <=> s = "releasing" \/ (s = "adding" /\ d \in holders),
         s = "adding" => frame[d] = "running",
         s = "sending" => d \in tops, s = "notifying" => d \notin tops
  PROVE  ReachedOnce' /\ NoneIsLost' /\ LoopsEnd' /\ SlotsAndCalls' /\ MainOrder'
<1>0. /\ Types /\ FrameTypes /\ ReachedOnce /\ NoneIsLost /\ LoopsEnd /\ SlotsAndCalls
      /\ holders \subseteq SubDirs
  BY DEF ControlInv, Types, FrameTypes
<1>1. Opened' = Opened
  BY DEF Opened, Unopened
<1>2. ReachedOnce'
  <2>1. \A x \in SubDirs : frame'[x] # "idle" <=> frame[x] # "idle"
    OBVIOUS
  <2> QED
    BY <1>0, <1>1, <2>1 DEF ReachedOnce, FrameTypes
<1>3. NoneIsLost'
  <2> SUFFICES ASSUME NEW x \in SubDirs, Parent[x] \in Opened, flag[TopOf[x]] = " ",
                      x \notin todo[Parent[x]], x \notin Skip
               PROVE  frame'[x] # "idle"
    BY <1>1 DEF NoneIsLost
  <2>1. frame[x] # "idle"
    BY <1>0 DEF NoneIsLost
  <2> QED
    BY <2>1
<1>4. LoopsEnd'
  BY <1>0 DEF LoopsEnd
<1>5. InCall' \subseteq InCall
  BY DEF InCall, InBody
<1>6. SlotsAndCalls'
  <2>1. \A x \in SubDirs : frame[x] = "claimed" \/ x \in InCall => Parent[x] # d /\ Parent[x] \in SubDirs
    BY <1>0, SubDirFacts DEF SlotsAndCalls, ReachedOnce, InCall, InBody
  <2>2. /\ \A x \in SubDirs : frame'[x] = "claimed" => frame'[Parent[x]] = "claiming"
        /\ \A x \in InCall : frame'[Parent[x]] = "calling"
    BY <1>0, <2>1 DEF SlotsAndCalls, InCall
  <2>3. ASSUME NEW x \in holders'
        PROVE  frame'[x] \in InBody \cup {"claimed", "entering", "releasing"}
    BY <1>0 DEF SlotsAndCalls, InBody
  <2>4. ASSUME NEW x \in SubDirs
        PROVE  /\ frame'[x] \in {"claimed", "releasing"} => x \in holders'
               /\ frame'[x] = "sending" => x \in tops
               /\ frame'[x] = "notifying" => x \notin tops
    BY <1>0 DEF SlotsAndCalls
  <2>5. \A x, y \in SubDirs : frame'[x] = "claimed" /\ frame'[y] = "claimed" /\ Parent[x] = Parent[y] => x = y
    BY <1>0 DEF SlotsAndCalls
  <2>6. holders' \cap tops = {}
    BY <1>0 DEF SlotsAndCalls
  <2>7. \A x, y \in InCall' : Parent[x] = Parent[y] => x = y
    BY <1>0, <1>5 DEF SlotsAndCalls
  <2>8. \A x \in InCall' : frame'[Parent[x]] = "calling"
    BY <1>5, <2>2
  <2> QED
    BY <2>2, <2>3, <2>4, <2>5, <2>6, <2>7, <2>8 DEF SlotsAndCalls
<1>7. MainOrder'
  <2>1. \A x \in SubDirs : frame[x] = "finished" => frame'[x] = "finished"
    OBVIOUS
  <2> QED
    BY <2>1, MainOrderKeeps
<1> QED
  BY <1>2, <1>3, <1>4, <1>6, <1>7

\* The loop ends; the slot is given back; Done is called.
LEMMA EndingControl ==
  ASSUME ControlInv, Types', NEW d \in SubDirs, EndLoop(d) \/ Release(d) \/ Notify(d)
  PROVE  ControlInv'
<1>0. /\ Types /\ FrameTypes /\ LoopsEnd /\ SlotsAndCalls
      /\ waitValue = Cardinality(Counted) /\ holders \subseteq SubDirs
  BY DEF ControlInv, Types, FrameTypes
<1>1. UNCHANGED <<frameRest, tops, todo, topDir, flag>>
  BY DEF EndLoop, Release, Notify, frameRest
<1>2. CASE EndLoop(d)
  <2>1. /\ frame[d] = "running" /\ todo[d] = {} /\ UNCHANGED <<holders, waitValue>>
        /\ \A x \in SubDirs : frame'[x] = IF x = d THEN "adding" ELSE frame[x]
    BY <1>0, <1>2 DEF EndLoop, waitVars, FrameTypes
  <2>2. Counted' = Counted
    BY <1>0, <2>1 DEF Counted
  <2>3. "adding" \in FrameStates
    BY DEF FrameStates
  <2>4. ReachedOnce' /\ NoneIsLost' /\ LoopsEnd' /\ SlotsAndCalls' /\ MainOrder'
    BY <1>1, <2>1, <2>3, EndingKeeps
  <2> QED
    BY <1>0, <2>1, <2>2, <2>4 DEF ControlInv
<1>3. CASE Release(d)
  <2>1. /\ frame[d] = "releasing" /\ holders' = holders \ {d} /\ UNCHANGED waitValue
        /\ \A x \in SubDirs : frame'[x] = IF x = d THEN "notifying" ELSE frame[x]
    BY <1>0, <1>3 DEF Release, waitVars, FrameTypes
  <2>2. d \in holders /\ d \notin tops /\ todo[d] = {}
    BY <1>0, <2>1 DEF SlotsAndCalls, LoopsEnd
  <2>3. Counted' = Counted
    BY <1>0, <2>1, <2>2 DEF Counted
  <2>4. "notifying" \in FrameStates
    BY DEF FrameStates
  <2>5. ReachedOnce' /\ NoneIsLost' /\ LoopsEnd' /\ SlotsAndCalls' /\ MainOrder'
    BY <1>1, <2>1, <2>2, <2>4, EndingKeeps
  <2> QED
    BY <1>0, <2>1, <2>3, <2>5 DEF ControlInv
<1>4. CASE Notify(d)
  <2>1. /\ frame[d] = "notifying" /\ UNCHANGED holders /\ waitValue' = waitValue - 1
        /\ \A x \in SubDirs : frame'[x] = IF x = d THEN "finished" ELSE frame[x]
    BY <1>0, <1>4 DEF Notify, WaitDone, FrameTypes
  <2>2. d \notin holders /\ d \notin tops /\ todo[d] = {}
    BY <1>0, <2>1 DEF SlotsAndCalls, LoopsEnd, InBody
  <2>3. Counted' = Counted \ {d} /\ d \in Counted
    BY <1>0, <2>1, <2>2 DEF Counted
  <2>4. waitValue' = Cardinality(Counted')
    <3>1. Counted \in SUBSET SubDirs
      BY <1>0 DEF Counted
    <3>2. IsFiniteSet(Counted) /\ Cardinality(Counted) \in Nat
      BY <3>1, SubDirFacts
    <3> QED
      BY <1>0, <2>1, <2>3, <3>2, FS_RemoveElement
  <2>5. "finished" \in FrameStates
    BY DEF FrameStates
  <2>6. ReachedOnce' /\ NoneIsLost' /\ LoopsEnd' /\ SlotsAndCalls' /\ MainOrder'
    BY <1>1, <2>1, <2>2, <2>5, EndingKeeps
  <2> QED
    BY <2>4, <2>6 DEF ControlInv
<1> QED
  BY <1>2, <1>3, <1>4

\* The totals are added, and the frame returns to whoever made it.
LEMMA AddUsageControl ==
  ASSUME ControlInv, Types', NEW d \in SubDirs, AddUsage(d)
  PROVE  ControlInv'
<1>0. /\ Types /\ FrameTypes /\ ReachedOnce /\ NoneIsLost /\ LoopsEnd /\ SlotsAndCalls
      /\ waitValue = Cardinality(Counted) /\ holders \subseteq SubDirs
  BY DEF ControlInv, Types, FrameTypes
<1>1. /\ frame[d] = "adding" /\ frame' = Returned(d)
      /\ UNCHANGED <<frameRest, tops, todo, topDir, flag, holders, waitValue>>
  BY DEF AddUsage, frameRest, waitVars
<1>2. todo[d] = {}
  BY <1>0, <1>1 DEF LoopsEnd
<1>3. ASSUME NEW s \in {"sending", "releasing"}, s = "sending" <=> d \in tops, s = "releasing" <=> d \in holders,
             frame' = [frame EXCEPT ![d] = s]
      PROVE  ControlInv'
  <2>1. \A x \in SubDirs : frame'[x] = IF x = d THEN s ELSE frame[x]
    BY <1>0, <1>3 DEF FrameTypes
  <2>2. Counted' = Counted
    BY <1>0, <1>1, <1>3, <2>1 DEF Counted
  <2>3. s \in FrameStates
    BY DEF FrameStates
  <2>4. ReachedOnce' /\ NoneIsLost' /\ LoopsEnd' /\ SlotsAndCalls' /\ MainOrder'
    BY <1>1, <1>2, <1>3, <2>1, <2>3, EndingKeeps
  <2> QED
    BY <1>0, <1>1, <2>2, <2>4 DEF ControlInv
<1>4. CASE d \in tops
  <2>1. d \notin holders /\ frame' = [frame EXCEPT ![d] = "sending"]
    BY <1>0, <1>1, <1>4 DEF SlotsAndCalls, Returned
  <2> QED
    BY <1>3, <1>4, <2>1
<1>5. CASE d \in holders
  <2>1. d \notin tops /\ frame' = [frame EXCEPT ![d] = "releasing"]
    BY <1>0, <1>1, <1>5 DEF SlotsAndCalls, Returned
  <2> QED
    BY <1>3, <1>5, <2>1
<1>6. CASE d \notin tops /\ d \notin holders
  <2> DEFINE p == Parent[d]
  <2>1. d \in InCall /\ frame[p] = "calling" /\ p # d /\ p \in SubDirs
    <3>1. d \in InCall
      BY <1>1, <1>6 DEF InCall, InBody
    <3> QED
      BY <1>0, <1>1, <1>6, <3>1, AboveFacts DEF SlotsAndCalls
  <2> HIDE DEF p
  <2>2. \A x \in SubDirs : frame'[x] = IF x = p THEN "running" ELSE IF x = d THEN "finished" ELSE frame[x]
    BY <1>0, <1>1, <1>6, <2>1 DEF Returned, FrameTypes, p
  <2>3. Opened' = Opened
    BY <1>1, <2>1, <2>2 DEF Opened, Unopened
  <2>4. InCall' = InCall \ {d}
    BY <1>1, <2>1, <2>2 DEF InCall, InBody
  <2>5. Counted' = Counted
    BY <1>0, <1>1, <1>6, <2>1, <2>2 DEF Counted
  <2>6. ReachedOnce'
    <3>1. \A x \in SubDirs : frame'[x] # "idle" <=> frame[x] # "idle"
      BY <1>1, <2>1, <2>2
    <3> QED
      BY <1>0, <1>1, <2>3, <3>1 DEF ReachedOnce, FrameTypes
  <2>7. NoneIsLost'
    <3> SUFFICES ASSUME NEW x \in SubDirs, Parent[x] \in Opened, flag[TopOf[x]] = " ",
                        x \notin todo[Parent[x]], x \notin Skip
                 PROVE  frame'[x] # "idle"
      BY <1>1, <2>3 DEF NoneIsLost
    <3> QED
      BY <1>0, <2>2 DEF NoneIsLost
  <2>8. LoopsEnd'
    BY <1>0, <1>1, <1>2, <2>2 DEF LoopsEnd
  <2>9. SlotsAndCalls'
    <3>1. \A x \in SubDirs : frame[x] = "claimed" => Parent[x] # d /\ Parent[x] # p /\ Parent[x] \in SubDirs
      BY <1>0, <1>1, <2>1, SubDirFacts DEF SlotsAndCalls, ReachedOnce
    <3>2. \A x \in InCall' : frame[Parent[x]] = "calling" /\ Parent[x] # p /\ Parent[x] # d /\ Parent[x] \in SubDirs
      BY <1>0, <1>1, <2>1, <2>4, SubDirFacts DEF SlotsAndCalls, ReachedOnce, InCall, InBody, p
    <3>3. \A x \in SubDirs : frame'[x] = "claimed" => frame'[Parent[x]] = "claiming"
      BY <1>0, <2>2, <3>1 DEF SlotsAndCalls
    <3>4. \A x \in InCall' : frame'[Parent[x]] = "calling"
      BY <2>2, <3>2
    <3>5. ASSUME NEW x \in holders
          PROVE  frame'[x] \in InBody \cup {"claimed", "entering", "releasing"}
      BY <1>0, <1>6, <2>2 DEF SlotsAndCalls, InBody
    <3>6. ASSUME NEW x \in SubDirs
          PROVE  /\ frame'[x] \in {"claimed", "releasing"} => x \in holders
                 /\ frame'[x] = "sending" => x \in tops
                 /\ frame'[x] = "notifying" => x \notin tops
      BY <1>0, <2>2 DEF SlotsAndCalls
    <3>7. \A x, y \in SubDirs : frame'[x] = "claimed" /\ frame'[y] = "claimed" /\ Parent[x] = Parent[y] => x = y
      BY <1>0, <2>2 DEF SlotsAndCalls
    <3>8. \A x, y \in InCall' : Parent[x] = Parent[y] => x = y
      BY <1>0, <2>4 DEF SlotsAndCalls
    <3> QED
      BY <1>0, <1>1, <3>3, <3>4, <3>5, <3>6, <3>7, <3>8 DEF SlotsAndCalls
  <2>10. MainOrder'
    <3>1. \A x \in SubDirs : frame[x] = "finished" => frame'[x] = "finished"
      BY <1>1, <2>1, <2>2
    <3> QED
      BY <1>1, <3>1, MainOrderKeeps
  <2> QED
    BY <1>0, <1>1, <2>5, <2>6, <2>7, <2>8, <2>9, <2>10 DEF ControlInv
<1> QED
  BY <1>4, <1>5, <1>6

LEMMA ControlKeeps ==
  ASSUME ControlInv, [Next]_vars
  PROVE  ControlInv' /\ Types'
<1>1. CASE Start \/ Main
  <2>1. Types'
    BY <1>1, TypesOfMain
  <2>2. ASSUME NEW e \in Entries, SpawnTop(e) PROVE ControlInv'
    BY <2>1, <2>2, SpawnTopControl
  <2>3. ASSUME NEW t \in SubDirs, ReceiveTop(t) PROVE ControlInv'
    BY <2>1, <2>3, ReceiveTopControl
  <2> QED
    BY <1>1, <2>1, <2>2, <2>3, MainControl DEF Main
<1>2. ASSUME NEW d \in SubDirs, Frame(d) PROVE ControlInv' /\ Types'
  <2>1. Types'
    BY <1>2, TypesOfFrame
  <2>2. ASSUME NEW e \in Entries, SkipEntry(d, e) PROVE ControlInv'
    BY <2>1, <2>2, TakeControl
  <2>3. ASSUME NEW e \in Files, CountFile(d, e) \/ FailFile(d, e) PROVE ControlInv'
    BY <2>1, <2>3, ListingFacts, TakeControl
  <2>4. ASSUME NEW e \in SubDirs, Claim(d, e) \/ Spawn(d, e) \/ Call(d, e) PROVE ControlInv'
    BY <2>1, <2>4, ClaimControl, SpawnControl, CallControl
  <2>5. CASE OpenDir(d) \/ AddUsage(d)
    BY <2>1, <2>5, OpenDirControl, AddUsageControl
  <2>6. CASE EndLoop(d) \/ Release(d) \/ Notify(d)
    BY <2>1, <2>6, EndingControl
  <2> QED
    BY <1>2, <2>1, <2>2, <2>3, <2>4, <2>5, <2>6 DEF Frame
<1>3. CASE UNCHANGED vars
  <2>1. Opened' = Opened /\ InCall' = InCall /\ Counted' = Counted
    BY <1>3 DEF vars, Opened, InCall, Counted
  <2>2. Types'
    BY <1>3 DEF vars, waitVars, ControlInv, Types, MainTypes, FrameTypes, WaitTypeOK
  <2>3. ReachedOnce' /\ NoneIsLost' /\ LoopsEnd' /\ SlotsAndCalls' /\ MainOrder'
    BY <1>3, <2>1 DEF vars, ControlInv, ReachedOnce, NoneIsLost, LoopsEnd, SlotsAndCalls, MainOrder
  <2>4. waitValue' = Cardinality(Counted')
    BY <1>3, <2>1 DEF vars, waitVars, ControlInv
  <2> QED
    BY <2>2, <2>3, <2>4 DEF ControlInv
<1> QED
  BY <1>1, <1>2, <1>3 DEF Next

LEMMA ControlImpliesProperty == ControlInv => GoroutinesAreCounted
<1> SUFFICES ASSUME ControlInv PROVE GoroutinesAreCounted
  OBVIOUS
<1>1. TypeOK
  BY DEF ControlInv, Types, MainTypes, FrameTypes, TypeOK
<1>2. waitValue = Cardinality({d \in holders : frame[d] # "claimed"} \cup
                              {d \in SubDirs : frame[d] = "notifying"})
  BY DEF ControlInv, Counted
<1>3. Quiet => holders = {}
  BY DEF Quiet, ControlInv, Types, FrameTypes, SlotsAndCalls, InBody
<1> QED
  BY <1>1, <1>2, <1>3 DEF GoroutinesAreCounted

\* The wait group counts the goroutines with a slot and those that have yet to
\* report their end, at most Slots hold a slot, and none is left at the end.
THEOREM SlotsAreCounted == Spec => []GoroutinesAreCounted
<1>1. Init => ControlInv
  BY ControlStarts
<1>2. ControlInv /\ [Next]_vars => ControlInv'
  BY ControlKeeps
<1> QED
  BY <1>1, <1>2, ControlImpliesProperty, PTL DEF Spec

-----------------------------------------------------------------------------
(* The end *)

\* When the first level has finished and nobody is counted, nothing runs: of
\* the directories still walked, one would be in none of them.
LEMMA NothingRuns ==
  ASSUME ControlInv, \A t \in tops : frame[t] = "finished", waitValue <= 0
  PROVE  Settled
<1> DEFINE Active == {d \in SubDirs : frame[d] \notin {"idle", "finished"}}
<1>0. Types /\ FrameTypes /\ SlotsAndCalls /\ waitValue = Cardinality(Counted)
  BY DEF ControlInv, Types
<1>1. Counted = {}
  <2>1. Counted \in SUBSET SubDirs
    BY <1>0 DEF Counted, FrameTypes
  <2>2. IsFiniteSet(Counted) /\ Cardinality(Counted) \in Nat
    BY <2>1, SubDirFacts
  <2>3. Cardinality(Counted) = 0
    BY <1>0, <2>2
  <2> QED
    BY <2>2, <2>3, FS_EmptySet
<1>2. ASSUME NEW d \in Active PROVE frame[Parent[d]] \in {"claiming", "calling"} /\ d \notin tops
  <2>1. d \in SubDirs /\ d \notin tops /\ frame[d] \in FrameStates /\ frame[d] \notin {"idle", "finished"}
    BY <1>0 DEF FrameTypes
  <2>2. CASE frame[d] = "claimed"
    BY <1>0, <2>1, <2>2 DEF SlotsAndCalls
  <2>3. CASE frame[d] # "claimed"
    <3>1. d \notin holders /\ frame[d] # "notifying"
      BY <1>1, <2>1, <2>3 DEF Counted
    <3>2. frame[d] \notin {"releasing", "sending"}
      BY <1>0, <2>1, <3>1 DEF SlotsAndCalls
    <3>3. d \in InCall
      BY <2>1, <2>3, <3>1, <3>2 DEF FrameStates, InCall, InBody
    <3> QED
      BY <1>0, <2>1, <3>3 DEF SlotsAndCalls
  <2> QED
    BY <2>2, <2>3
<1>3. ASSUME NEW d \in Active PROVE Parent[d] \in Active
  <2>1. Parent[d] \in SubDirs
    BY <1>2, <1>3, AboveFacts
  <2> QED
    BY <1>2, <1>3, <2>1
<1>4. Active \in SUBSET (Dirs \ {Root})
  BY DEF SubDirs
<1>5. Active = {}
  <2> HIDE DEF Active
  <2> QED
    BY <1>3, <1>4, AcyclicAssumption
<1> QED
  BY <1>5 DEF Settled

LEMMA FinalKeeps ==
  ASSUME ControlInv, FinalInv, [Next]_vars
  PROVE  FinalInv'
<1>0. Types /\ MainTypes /\ FrameTypes /\ MainOrder
  BY DEF ControlInv, Types
<1>1. ASSUME NEW d \in SubDirs, Frame(d) PROVE FinalInv'
  <2>1. UNCHANGED <<main, reported, early>>
    BY <1>1 DEF Frame, OpenDir, EndLoop, AddUsage, Release, Notify, Claim, Spawn, Call, Descend, SkipEntry,
                CountFile, FailFile, FileOf, Take, frameRest
  <2>2. frame[d] \notin {"idle", "finished"}
    BY <1>1 DEF Frame, OpenDir, EndLoop, AddUsage, Release, Notify, Claim, Spawn, Call, Descend, SkipEntry,
                CountFile, FailFile, FileOf, Take
  <2>3. ~(PastWait /\ ~early)
    BY <2>2 DEF FinalInv, Settled
  <2> QED
    BY <2>1, <2>3 DEF FinalInv, PastWait
<1>2. ASSUME UNCHANGED <<frame, total>>, \A t \in SubDirs : flag'[t] = flag[t],
             UNCHANGED <<reported, early>>, PastWait' <=> PastWait
      PROVE  FinalInv'
  <2>1. DOMAIN reported \subseteq SubDirs
    BY <1>0 DEF MainTypes, FrameTypes
  <2>2. Settled' <=> Settled
    BY <1>2 DEF Settled
  <2> QED
    BY <1>2, <2>1, <2>2 DEF FinalInv
<1>3. \A new : flag' = [flag EXCEPT ![Root] = new] => \A t \in SubDirs : flag'[t] = flag[t]
  BY <1>0, SubDirFacts DEF FrameTypes
<1>4. CASE Start \/ (\E e \in Entries : SkipTop(e) \/ SpawnTop(e) \/ AddTopFile(e) \/ FailTopFile(e))
           \/ EndListing \/ ReceivedAll \/ \E t \in SubDirs : ReceiveTop(t)
  <2>1. ~PastWait /\ ~PastWait' /\ reported' = reported
    BY <1>4 DEF Start, SkipTop, SpawnTop, AddTopFile, FailTopFile, TakeTop, EndListing, ReceivedAll, ReceiveTop,
                PastWait
  <2> QED
    BY <2>1 DEF FinalInv
<1>5. CASE WaitRead
  <2>1. main = "waiting" /\ UNCHANGED <<frame, total, reported, early, waitValue>>
    BY <1>5 DEF WaitRead, mainRest, waitVars
  <2>2. DOMAIN reported = {} /\ \A t \in tops : frame[t] = "finished"
    BY <1>0, <2>1 DEF FinalInv, PastWait, MainOrder
  <2>3. PastWait' => waitValue <= 0
    <3>1. waitValue \in Int
      BY <1>0 DEF Types, WaitTypeOK
    <3> QED
      BY <1>5, <3>1 DEF WaitRead, PastWait, MustBlock
  <2>4. PastWait' => Settled'
    BY <2>1, <2>2, <2>3, NothingRuns DEF Settled
  <2> QED
    BY <2>1, <2>2, <2>4 DEF FinalInv
<1>6. CASE WaitLock
  <2>1. main = "locking" /\ early' = (waitValue # 0) /\ UNCHANGED <<frame, total, reported, waitValue>>
    BY <1>6 DEF WaitLock, mainRest, WaitAcquire
  <2>2. DOMAIN reported = {} /\ \A t \in tops : frame[t] = "finished"
    BY <1>0, <2>1 DEF FinalInv, PastWait, MainOrder
  <2>3. ~early' => waitValue <= 0
    <3>1. ~early' => waitValue = 0
      <4>1. early' = (waitValue # 0)
        BY <2>1
      <4> QED
        BY <4>1, Zenon
    <3> QED
      BY <3>1
  <2>4. ~early' => Settled'
    BY <2>1, <2>2, <2>3, NothingRuns DEF Settled
  <2>5. main' = "reading"
    BY <1>6 DEF WaitLock
  <2> QED
    BY <2>1, <2>2, <2>4, <2>5 DEF FinalInv, PastWait
<1>7. ASSUME NEW t \in SubDirs, ReadTop(t) PROVE FinalInv'
  <2>1. main = "reading" /\ main' = main /\ UNCHANGED <<frame, total, flag, early>>
    BY <1>7 DEF ReadTop, mainRest
  <2>2. reported' = [u \in DOMAIN reported \cup {t} |->
                      IF u = t THEN [total |-> total[t], flag |-> flag[t]] ELSE reported[u]]
    BY <1>7 DEF ReadTop
  <2>3. Settled' <=> Settled
    BY <2>1 DEF Settled
  <2>4. ASSUME ~early
        PROVE  \A u \in DOMAIN reported' : reported'[u] = [total |-> total[u], flag |-> flag[u]]
    BY <2>1, <2>2, <2>4 DEF FinalInv, PastWait
  <2> QED
    BY <2>1, <2>3, <2>4 DEF FinalInv, PastWait
<1>8. CASE Return
  BY <1>2, <1>8 DEF Return, mainRest, PastWait
<1>9. CASE UpdateStats
  <2>1. \A t \in SubDirs : flag'[t] = flag[t]
    BY <1>3, <1>9 DEF UpdateStats
  <2>2. UNCHANGED <<frame, total, reported, early>> /\ PastWait /\ PastWait'
    BY <1>9 DEF UpdateStats, PastWait
  <2> QED
    BY <1>2, <2>1, <2>2
<1>10. CASE UNCHANGED vars
  BY <1>2, <1>10 DEF vars, PastWait
<1> QED
  BY <1>1, <1>4, <1>5, <1>6, <1>7, <1>8, <1>9, <1>10 DEF Next, Main

-----------------------------------------------------------------------------
(* What is taken, and where it is counted *)

\* A step that takes nothing that counts.
StillStep ==
  /\ Opened' = Opened /\ Busy' = Busy /\ Taken' = Taken
  /\ \A x \in Opened : topDir'[x] = topDir[x]
  /\ \A x \in Busy : tally'[x] = tally[x]
  /\ total' = total /\ linked' = linked /\ tops \subseteq tops'
  /\ \A t \in SubDirs : flag'[t] = flag[t]

\* A step that takes e from the listing of d and counts it, with size n.
CountStep(d, e, n) ==
  /\ d \in Busy /\ Parent[e] = d /\ e \notin Taken
  /\ Opened' = Opened /\ Busy' = Busy /\ Taken' = Taken \cup {e}
  /\ \A x \in Opened : topDir'[x] = topDir[x]
  /\ \A x \in Busy : tally'[x] = IF x = d THEN Plus(tally[d], n, 1) ELSE tally[x]
  /\ UNCHANGED <<total, tops, flag>>

LEMMA OpenedFacts ==
  ASSUME FrameTypes
  PROVE  /\ Busy \subseteq Opened /\ Opened \subseteq SubDirs
         /\ Taken \subseteq Entries /\ \A e \in Taken : Parent[e] \in Opened
         /\ \A e \in Entries : e \in Taken <=>
              Parent[e] \in Opened /\ e \notin todo[Parent[e]] /\ e \notin Skip
  BY DEF Busy, Opened, Taken, InBody, Unopened

LEMMA TakenStays ==
  ASSUME Opened' = Opened, \A x \in Opened : todo'[x] = todo[x]
  PROVE  Taken' = Taken
  BY DEF Taken

LEMMA MainStill ==
  ASSUME ControlInv, Start \/ Main
  PROVE  StillStep
<1>0. Types /\ FrameTypes /\ ReachedOnce /\ SlotsAndCalls
  BY DEF ControlInv, Types
<1>1. ASSUME Opened' = Opened PROVE Taken' = Taken
  <2>1. \A x \in SubDirs : todo'[x] = todo[x]
    <3>1. \E left : todo' = [todo EXCEPT ![Root] = left]
      <4>1. todo' = todo => todo' = [todo EXCEPT ![Root] = todo[Root]]
        BY <1>0 DEF FrameTypes
      <4>2. ASSUME NEW e \in Entries, TakeTop(e) PROVE todo' = [todo EXCEPT ![Root] = todo[Root] \ {e}]
        BY <4>2 DEF TakeTop
      <4>3. todo' = todo \/ Start \/ \E e \in Entries : TakeTop(e)
        BY DEF Main, EndListing, ReceivedAll, WaitRead, WaitLock, Return, UpdateStats, SkipTop, SpawnTop,
               AddTopFile, FailTopFile, ReadTop, ReceiveTop
      <4>4. Start => \E left : todo' = [todo EXCEPT ![Root] = left]
        BY DEF Start
      <4> QED
        BY <4>1, <4>2, <4>3, <4>4
    <3> QED
      BY <1>0, <3>1, SubDirFacts DEF FrameTypes
  <2>2. \A x \in Opened : todo'[x] = todo[x]
    BY <2>1 DEF Opened
  <2> QED
    BY <1>1, <2>2, TakenStays
<1>2. \A t \in SubDirs : flag'[t] = flag[t]
  <2>1. \E new : flag' = [flag EXCEPT ![Root] = new]
    <3>1. flag' = flag => flag' = [flag EXCEPT ![Root] = flag[Root]]
      BY <1>0 DEF FrameTypes
    <3> QED
      BY <3>1 DEF Main, Start, EndListing, ReceivedAll, WaitRead, WaitLock, Return, UpdateStats, SkipTop,
                  SpawnTop, AddTopFile, FailTopFile, ReadTop, ReceiveTop
  <2> QED
    BY <1>0, <2>1, SubDirFacts DEF FrameTypes
<1>3. UNCHANGED <<tally, total, linked>> /\ tops \subseteq tops'
  BY DEF Main, Start, EndListing, ReceivedAll, WaitRead, WaitLock, Return, UpdateStats, SkipTop, SpawnTop,
         AddTopFile, FailTopFile, TakeTop, ReadTop, ReceiveTop, mainRest
<1>4. Opened' = Opened /\ Busy' = Busy /\ \A x \in Opened : topDir'[x] = topDir[x]
  <2>1. ASSUME NEW e \in Entries, SpawnTop(e)
        PROVE  Opened' = Opened /\ Busy' = Busy /\ \A x \in Opened : topDir'[x] = topDir[x]
    <3>1. /\ frame' = [frame EXCEPT ![e] = "entering"] /\ topDir' = [topDir EXCEPT ![e] = e]
          /\ e \in todo[Root] /\ e \in SubDirs
      BY <2>1 DEF SpawnTop, TakeTop, Entries, SubDirs
    <3>2. frame[e] = "idle"
      <4>1. Parent[e] = Root
        BY <1>0, <3>1, SubDirFacts, ListingFacts DEF FrameTypes
      <4> QED
        BY <1>0, <3>1, <4>1 DEF ReachedOnce
    <3>3. /\ \A x \in SubDirs : frame'[x] = IF x = e THEN "entering" ELSE frame[x]
          /\ \A x \in SubDirs : topDir'[x] = IF x = e THEN e ELSE topDir[x]
      BY <1>0, <3>1 DEF FrameTypes
    <3> QED
      BY <3>2, <3>3 DEF Opened, Busy, Unopened, InBody
  <2>2. ASSUME NEW t \in SubDirs, ReceiveTop(t)
        PROVE  Opened' = Opened /\ Busy' = Busy /\ \A x \in Opened : topDir'[x] = topDir[x]
    <3>1. topDir' = topDir /\ frame[t] = "sending"
      BY <2>2 DEF ReceiveTop, mainRest
    <3>2. \A x \in SubDirs : frame'[x] = IF x = t THEN "finished" ELSE frame[x]
      BY <1>0, <2>2 DEF ReceiveTop, FrameTypes
    <3> QED
      BY <3>1, <3>2 DEF Opened, Busy, Unopened, InBody
  <2>3. CASE UNCHANGED <<frame, topDir>>
    BY <2>3 DEF Opened, Busy
  <2>4. \/ UNCHANGED <<frame, topDir>>
        \/ \E e \in Entries : SpawnTop(e)
        \/ \E t \in SubDirs : ReceiveTop(t)
    BY DEF Main, Start, EndListing, ReceivedAll, WaitRead, WaitLock, Return, UpdateStats, SkipTop,
           AddTopFile, FailTopFile, ReadTop, mainRest
  <2> QED
    BY <2>1, <2>2, <2>3, <2>4
<1> QED
  BY <1>1, <1>2, <1>3, <1>4 DEF StillStep

LEMMA FrameStill ==
  ASSUME ControlInv, NEW d \in SubDirs,
         \/ EndLoop(d) \/ Release(d) \/ Notify(d)
         \/ \E e \in SubDirs : Spawn(d, e)
         \/ \E e \in Entries : SkipEntry(d, e)
  PROVE  StillStep
<1>0. Types /\ FrameTypes /\ ReachedOnce /\ SlotsAndCalls
  BY DEF ControlInv, Types
<1>1. UNCHANGED <<topDir, tally, total, linked, tops, flag>>
  BY DEF EndLoop, Release, Notify, Spawn, SkipEntry, Take, frameRest
<1>2. ASSUME NEW e \in Entries, SkipEntry(d, e) PROVE StillStep
  <2>1. frame' = frame /\ todo' = [todo EXCEPT ![d] = @ \ {e}] /\ e \in Skip
    BY <1>2 DEF SkipEntry, Take
  <2>2. Opened' = Opened /\ Busy' = Busy
    BY <2>1 DEF Opened, Busy
  <2>3. \A x \in Dirs : todo'[x] = IF x = d THEN todo[d] \ {e} ELSE todo[x]
    BY <1>0, <2>1, SubDirFacts DEF FrameTypes
  <2>4. Taken' = Taken
    <3>1. ASSUME NEW x \in Entries PROVE x \in Taken' <=> x \in Taken
      BY <2>1, <2>2, <2>3, SubDirFacts DEF Taken
    <3>2. Taken \subseteq Entries /\ Taken' \subseteq Entries
      BY DEF Taken
    <3> QED
      BY <3>1, <3>2
  <2> QED
    BY <1>1, <2>2, <2>4 DEF StillStep
<1>3. CASE EndLoop(d) \/ Release(d) \/ Notify(d) \/ \E e \in SubDirs : Spawn(d, e)
  <2>1. todo' = todo
    BY <1>3 DEF EndLoop, Release, Notify, Spawn
  <2>2. Opened' = Opened /\ Busy' = Busy
    <3>1. CASE EndLoop(d)
      <4>1. \A x \in SubDirs : frame'[x] = IF x = d THEN "adding" ELSE frame[x]
        BY <1>0, <3>1 DEF EndLoop, FrameTypes
      <4>2. frame[d] = "running"
        BY <3>1 DEF EndLoop
      <4> QED
        BY <4>1, <4>2 DEF Opened, Busy, Unopened, InBody
    <3>2. CASE Release(d)
      <4>1. \A x \in SubDirs : frame'[x] = IF x = d THEN "notifying" ELSE frame[x]
        BY <1>0, <3>2 DEF Release, FrameTypes
      <4>2. frame[d] = "releasing"
        BY <3>2 DEF Release
      <4> QED
        BY <4>1, <4>2 DEF Opened, Busy, Unopened, InBody
    <3>3. CASE Notify(d)
      <4>1. \A x \in SubDirs : frame'[x] = IF x = d THEN "finished" ELSE frame[x]
        BY <1>0, <3>3 DEF Notify, FrameTypes
      <4>2. frame[d] = "notifying"
        BY <3>3 DEF Notify
      <4> QED
        BY <4>1, <4>2 DEF Opened, Busy, Unopened, InBody
    <3>4. ASSUME NEW e \in SubDirs, Spawn(d, e) PROVE Opened' = Opened /\ Busy' = Busy
      <4>1. frame[d] = "claiming" /\ frame[e] = "claimed" /\ e # d
        BY <3>4 DEF Spawn
      <4>2. \A x \in SubDirs : frame'[x] = IF x = d THEN "running" ELSE IF x = e THEN "entering" ELSE frame[x]
        BY <1>0, <3>4, <4>1 DEF Spawn, FrameTypes
      <4> QED
        BY <4>1, <4>2 DEF Opened, Busy, Unopened, InBody
    <3> QED
      BY <1>3, <3>1, <3>2, <3>3, <3>4
  <2>3. Taken' = Taken
    BY <2>1, <2>2, TakenStays
  <2> QED
    BY <1>1, <2>2, <2>3 DEF StillStep
<1> QED
  BY <1>2, <1>3

\* What is taken from a listing was not taken before.
LEMMA TakingFacts ==
  ASSUME ControlInv, NEW d \in SubDirs, NEW e \in Entries, Take(d, e), e \notin Skip, Opened' = Opened
  PROVE  /\ d \in Busy /\ Parent[e] = d /\ e \notin Taken /\ Taken' = Taken \cup {e}
         /\ UNCHANGED <<total, tops>>
<1>0. Types /\ FrameTypes
  BY DEF ControlInv, Types
<1>1. /\ frame[d] = "running" /\ e \in todo[d] /\ todo' = [todo EXCEPT ![d] = @ \ {e}]
      /\ UNCHANGED <<total, tops>>
  BY DEF Take, frameRest
<1>2. d \in Busy /\ d \in Opened
  BY <1>1 DEF Busy, Opened, InBody, Unopened
<1>3. Parent[e] = d
  <2>1. e \in Children(d)
    BY <1>0, <1>1, SubDirFacts DEF FrameTypes
  <2> QED
    BY <2>1, ListingFacts
<1>4. \A x \in Dirs : todo'[x] = IF x = d THEN todo[d] \ {e} ELSE todo[x]
  BY <1>0, <1>1, SubDirFacts DEF FrameTypes
<1>5. e \notin Taken
  BY <1>1, <1>3 DEF Taken
<1>6. ASSUME NEW x \in Entries PROVE x \in Taken' <=> x \in Taken \/ x = e
  BY <1>2, <1>3, <1>4, SubDirFacts DEF Taken
<1>7. Taken \subseteq Entries /\ Taken' \subseteq Entries
  BY DEF Taken
<1> QED
  BY <1>1, <1>2, <1>3, <1>5, <1>6, <1>7

\* A directory counts where it is listed.
LEMMA DescendCounts ==
  ASSUME ControlInv, Types', NEW d \in SubDirs, NEW e \in SubDirs, Claim(d, e) \/ Call(d, e)
  PROVE  CountStep(d, e, 0) /\ linked' = linked
<1>0. Types /\ FrameTypes /\ Descended(d, e) /\ Opened' = Opened
  BY DescendFacts, DescendKeeps DEF ControlInv, Types
<1>1. Take(d, e) /\ e \in Entries /\ e \notin Skip /\ linked' = linked
      /\ tally' = [tally EXCEPT ![d] = Plus(@, 0, 1)]
  BY SubDirFacts DEF Claim, Call, Descend
<1>2. frame[d] = "running" /\ frame[e] = "idle" /\ flag' = flag
      /\ \A x \in SubDirs : topDir'[x] = IF x = e THEN topDir[d] ELSE topDir[x]
  BY <1>0 DEF Descended
<1>3. PICK s \in {"claiming", "calling"}, n \in {"claimed", "entering"} :
        \A x \in SubDirs : frame'[x] = IF x = d THEN s ELSE IF x = e THEN n ELSE frame[x]
  BY <1>0 DEF Descended
<1>4. Busy' = Busy
  BY <1>2, <1>3 DEF Busy, InBody
<1>5. \A x \in Opened : topDir'[x] = topDir[x]
  BY <1>2 DEF Opened, Unopened
<1>6. \A x \in Busy : tally'[x] = IF x = d THEN Plus(tally[d], 0, 1) ELSE tally[x]
  BY <1>0, <1>1 DEF FrameTypes, Busy
<1>7. /\ d \in Busy /\ Parent[e] = d /\ e \notin Taken /\ Taken' = Taken \cup {e}
      /\ UNCHANGED <<total, tops>>
  BY <1>0, <1>1, TakingFacts
<1> QED
  BY <1>0, <1>1, <1>2, <1>4, <1>5, <1>6, <1>7 DEF CountStep

\* A file counts where it is listed, with its size or with nothing.
LEMMA FileCounts ==
  ASSUME ControlInv, NEW d \in SubDirs, NEW e \in Files, CountFile(d, e)
  PROVE  CountStep(d, e, IF Inode[e] # NoInode /\ Inode[e] \in linked THEN 0 ELSE Bytes[e])
<1>0. Types /\ FrameTypes /\ e \in Entries
  BY ListingFacts DEF ControlInv, Types
<1> DEFINE n == IF Inode[e] # NoInode /\ Inode[e] \in linked THEN 0 ELSE Bytes[e]
<1>1. Take(d, e) /\ e \notin Skip /\ tally' = [tally EXCEPT ![d] = Plus(@, n, 1)]
      /\ UNCHANGED <<frame, topDir, flag>>
  BY DEF CountFile, FileOf
<1> HIDE DEF n
<1>2. Opened' = Opened /\ Busy' = Busy
  BY <1>1 DEF Opened, Busy
<1>3. \A x \in Busy : tally'[x] = IF x = d THEN Plus(tally[d], n, 1) ELSE tally[x]
  BY <1>0, <1>1 DEF FrameTypes, Busy
<1>4. /\ d \in Busy /\ Parent[e] = d /\ e \notin Taken /\ Taken' = Taken \cup {e}
      /\ UNCHANGED <<total, tops>>
  BY <1>0, <1>1, <1>2, TakingFacts
<1>5. CountStep(d, e, n)
  BY <1>1, <1>2, <1>3, <1>4 DEF CountStep
<1> QED
  BY <1>5 DEF n

LEMMA OpenDirFacts ==
  ASSUME ControlInv, NEW d \in SubDirs, OpenDir(d)
  PROVE  /\ d \notin Opened /\ Opened' = Opened \cup {d} /\ Busy' = Busy \cup {d}
         /\ topDir[d] \in tops
         /\ UNCHANGED <<topDir, total, linked, tops>>
         /\ \A x \in Busy : tally'[x] = tally[x]
         /\ tally'[d].count = 0
         /\ \A t \in SubDirs : flag'[t] = " " => flag[t] = " "
         /\ \A e \in Taken : e \in Taken'
         /\ \A e \in Taken' : e \in Taken \/ Parent[e] = d
         /\ flag'[topDir[d]] = " " =>
              /\ Taken' = Taken
              /\ tally'[d].size = IF Children(d) = {} THEN EmptyDirSize ELSE 0
<1>0. Types /\ FrameTypes /\ ReachedOnce
  BY DEF ControlInv, Types
<1>1. /\ frame[d] = "entering" /\ UNCHANGED <<topDir, total, linked, tops>>
      /\ \A x \in SubDirs : frame'[x] = IF x = d THEN "running" ELSE frame[x]
  BY <1>0 DEF OpenDir, frameRest, FrameTypes
<1>2. PICK listed \in SUBSET Children(d) :
        /\ todo' = [todo EXCEPT ![d] = listed]
        /\ tally' = [tally EXCEPT ![d] = IF listed = {} THEN [Zero EXCEPT !.size = EmptyDirSize] ELSE Zero]
        /\ ((listed = Children(d) /\ flag' = flag) \/ flag' = [flag EXCEPT ![topDir[d]] = "."])
  BY DEF OpenDir
<1>3. d \notin Opened /\ Opened' = Opened \cup {d} /\ Busy' = Busy \cup {d} /\ d \notin Busy
  BY <1>1 DEF Opened, Busy, Unopened, InBody
<1>4. topDir[d] \in tops /\ topDir[d] \in SubDirs
  BY <1>0, <1>1 DEF ReachedOnce, FrameTypes
<1>5. \A x \in Dirs : todo'[x] = IF x = d THEN listed ELSE todo[x]
  BY <1>0, <1>2 DEF FrameTypes
<1>6. \A x \in SubDirs : tally'[x] = IF x # d THEN tally[x]
                         ELSE IF listed = {} THEN [Zero EXCEPT !.size = EmptyDirSize] ELSE Zero
  BY <1>0, <1>2 DEF FrameTypes
<1>7. \A x \in Busy : tally'[x] = tally[x]
  BY <1>3, <1>6 DEF Busy
<1>8. \A t \in SubDirs : flag'[t] = " " => flag[t] = " "
  BY <1>0, <1>2, <1>4, SubDirFacts DEF FrameTypes
<1>9. flag'[topDir[d]] = " " => listed = Children(d)
  BY <1>0, <1>2, <1>4, SubDirFacts DEF FrameTypes
<1>10. ASSUME NEW e \in Entries, Parent[e] # d PROVE e \in Taken' <=> e \in Taken
  BY <1>3, <1>5, <1>10, SubDirFacts DEF Taken
<1>11. \A e \in Taken : Parent[e] # d /\ e \in Entries
  BY <1>3 DEF Taken
<1>12. Taken \subseteq Entries /\ Taken' \subseteq Entries
  BY DEF Taken
<1>13. ASSUME listed = Children(d) PROVE Taken' = Taken
  <2>1. ASSUME NEW e \in Taken' PROVE Parent[e] # d
    <3>1. e \in Entries /\ e \notin todo'[Parent[e]]
      BY DEF Taken
    <3>2. e \in Children(Parent[e])
      BY <3>1, ListingFacts
    <3> QED
      BY <1>5, <1>13, <3>1, <3>2, SubDirFacts
  <2> QED
    BY <1>10, <1>11, <1>12, <2>1
<1>14. \A e \in Taken : e \in Taken'
  BY <1>10, <1>11
<1>15. \A e \in Taken' : e \in Taken \/ Parent[e] = d
  BY <1>10, <1>12
<1>16. tally'[d].count = 0 /\ tally'[d].size = IF listed = {} THEN EmptyDirSize ELSE 0
  <2>1. tally'[d] = IF listed = {} THEN [Zero EXCEPT !.size = EmptyDirSize] ELSE Zero
    BY <1>6
  <2>2. /\ Zero.count = 0 /\ Zero.size = 0
        /\ [Zero EXCEPT !.size = EmptyDirSize].count = 0
        /\ [Zero EXCEPT !.size = EmptyDirSize].size = EmptyDirSize
    BY DEF Zero
  <2>3. CASE listed = {}
    <3>1. tally'[d] = [Zero EXCEPT !.size = EmptyDirSize]
      BY <2>1, <2>3, Zenon
    <3> QED
      BY <2>2, <2>3, <3>1, Zenon
  <2>4. CASE listed # {}
    <3>1. tally'[d] = Zero
      BY <2>1, <2>4, Zenon
    <3> QED
      BY <2>2, <2>4, <3>1, Zenon
  <2> QED
    BY <2>3, <2>4
<1>17. flag'[topDir[d]] = " " =>
         /\ Taken' = Taken
         /\ tally'[d].size = IF Children(d) = {} THEN EmptyDirSize ELSE 0
  BY <1>9, <1>13, <1>16
<1> QED
  BY <1>1, <1>3, <1>4, <1>7, <1>8, <1>14, <1>15, <1>16, <1>17

LEMMA AddUsageFacts ==
  ASSUME ControlInv, NEW d \in SubDirs, AddUsage(d)
  PROVE  /\ d \in Busy /\ topDir[d] \in tops
         /\ Opened' = Opened /\ Busy' = Busy \ {d} /\ Taken' = Taken
         /\ UNCHANGED <<topDir, tally, linked, tops, flag>>
         /\ \A t \in SubDirs : total'[t] = IF t = topDir[d] THEN Plus(total[t], tally[d].size, tally[d].count)
                                           ELSE total[t]
<1>0. Types /\ FrameTypes /\ ReachedOnce /\ SlotsAndCalls
  BY DEF ControlInv, Types
<1>1. /\ frame[d] = "adding" /\ UNCHANGED <<todo, topDir, tally, linked, tops, flag>>
      /\ frame' = Returned(d)
  BY DEF AddUsage, frameRest
<1>2. topDir[d] \in tops /\ topDir[d] \in SubDirs
  BY <1>0, <1>1 DEF ReachedOnce, FrameTypes
<1>3. \A t \in SubDirs : total'[t] = IF t = topDir[d] THEN Plus(total[t], tally[d].size, tally[d].count)
                                     ELSE total[t]
  BY <1>0, <1>2 DEF AddUsage, FrameTypes
<1>4. Opened' = Opened /\ Busy' = Busy \ {d}
  <2>1. ASSUME NEW s \in {"sending", "releasing"}, frame' = [frame EXCEPT ![d] = s]
        PROVE  Opened' = Opened /\ Busy' = Busy \ {d}
    <3>1. \A x \in SubDirs : frame'[x] = IF x = d THEN s ELSE frame[x]
      BY <1>0, <2>1 DEF FrameTypes
    <3> QED
      BY <1>1, <3>1 DEF Opened, Busy, Unopened, InBody
  <2>2. CASE d \in tops \/ d \in holders
    BY <1>1, <2>1, <2>2 DEF Returned
  <2>3. CASE d \notin tops /\ d \notin holders
    <3>1. d \in InCall
      BY <1>1, <2>3 DEF InCall, InBody
    <3>2. frame[Parent[d]] = "calling" /\ Parent[d] # d /\ Parent[d] \in SubDirs
      BY <1>0, <1>1, <2>3, <3>1, AboveFacts DEF SlotsAndCalls
    <3>3. \A x \in SubDirs : frame'[x] = IF x = Parent[d] THEN "running" ELSE IF x = d THEN "finished"
                                         ELSE frame[x]
      BY <1>0, <1>1, <2>3, <3>2 DEF Returned, FrameTypes
    <3> QED
      BY <1>1, <3>2, <3>3 DEF Opened, Busy, Unopened, InBody
  <2> QED
    BY <2>2, <2>3
<1>5. Taken' = Taken
  BY <1>1, <1>4, TakenStays
<1>6. d \in Busy
  BY <1>1 DEF Busy, InBody
<1> QED
  BY <1>1, <1>2, <1>3, <1>4, <1>5, <1>6

\* A file whose information cannot be read flags the first level.
LEMMA FailFacts ==
  ASSUME ControlInv, NEW d \in SubDirs, NEW e \in Files, FailFile(d, e)
  PROVE  /\ d \in Opened /\ topDir[d] \in tops
         /\ Opened' = Opened /\ Busy' = Busy /\ Taken' = Taken \cup {e} /\ Parent[e] = d
         /\ UNCHANGED <<topDir, total, linked, tops>>
         /\ \A x \in Busy : x # d => tally'[x] = tally[x]
         /\ \A t \in SubDirs : flag'[t] = IF t = topDir[d] THEN "." ELSE flag[t]
<1>0. Types /\ FrameTypes /\ ReachedOnce /\ e \in Entries
  BY ListingFacts DEF ControlInv, Types
<1>1. /\ Take(d, e) /\ e \notin Skip /\ UNCHANGED <<frame, topDir, linked>>
      /\ flag' = [flag EXCEPT ![topDir[d]] = "."]
      /\ \E k \in {0, 1} : tally' = [tally EXCEPT ![d] = Plus(@, 0, k)]
  BY DEF FailFile, FileOf
<1>2. Opened' = Opened /\ Busy' = Busy
  BY <1>1 DEF Opened, Busy
<1>3. /\ d \in Busy /\ Parent[e] = d /\ Taken' = Taken \cup {e} /\ UNCHANGED <<total, tops>>
  BY <1>0, <1>1, <1>2, TakingFacts
<1>4. d \in Opened /\ topDir[d] \in tops /\ topDir[d] \in SubDirs
  BY <1>0, <1>3 DEF Busy, Opened, InBody, Unopened, ReachedOnce, FrameTypes
<1>5. \A t \in SubDirs : flag'[t] = IF t = topDir[d] THEN "." ELSE flag[t]
  BY <1>0, <1>1, <1>4, SubDirFacts DEF FrameTypes
<1>6. \A x \in Busy : x # d => tally'[x] = tally[x]
  BY <1>0, <1>1 DEF FrameTypes, Busy
<1> QED
  BY <1>1, <1>2, <1>3, <1>4, <1>5, <1>6

-----------------------------------------------------------------------------
(* Items *)

LEMMA CountTypes ==
  ASSUME FrameTypes, NEW t
  PROVE  /\ IsFiniteSet(Adders(t)) /\ \A x \in SubDirs : CountOf[x] = tally[x].count /\ CountOf[x] \in Nat
         /\ Adders(t) \subseteq SubDirs /\ SumOver(CountOf, Adders(t)) \in Int
         /\ IsFiniteSet(TakenBelow(t)) /\ Cardinality(TakenBelow(t)) \in Nat
         /\ \A x \in SubDirs : total[x].count \in Nat
<1>1. Adders(t) \in SUBSET SubDirs
  BY DEF Adders, Busy
<1>2. IsFiniteSet(Adders(t))
  BY <1>1, SubDirFacts
<1>3. \A x \in SubDirs : CountOf[x] = tally[x].count /\ CountOf[x] \in Nat
  BY DEF CountOf, FrameTypes, Totals
<1>4. SumOver(CountOf, Adders(t)) \in Int
  BY <1>1, <1>2, <1>3, SumType
<1>5. IsFiniteSet(TakenBelow(t)) /\ Cardinality(TakenBelow(t)) \in Nat
  <2>1. TakenBelow(t) \subseteq Entries
    BY DEF TakenBelow, Taken
  <2> QED
    BY <2>1, ListingFacts, FS_Subset, FS_CardinalityType
<1> QED
  BY <1>1, <1>2, <1>3, <1>4, <1>5 DEF FrameTypes, Totals

\* Nothing changes for the first level t.
LEMMA CountStays ==
  ASSUME FrameTypes, FrameTypes', NEW t \in SubDirs,
         total[t].count + SumOver(CountOf, Adders(t)) = Cardinality(TakenBelow(t)),
         total'[t] = total[t], TakenBelow(t)' = TakenBelow(t), Adders(t)' = Adders(t),
         \A x \in Adders(t) : tally'[x].count = tally[x].count
  PROVE  total'[t].count + SumOver(CountOf', Adders(t)') = Cardinality(TakenBelow(t)')
<1>1. \A x \in Adders(t) : CountOf'[x] = CountOf[x]
  BY CountTypes DEF CountOf
<1>2. SumOver(CountOf', Adders(t)) = SumOver(CountOf, Adders(t))
  BY <1>1, CountTypes, SumSame
<1> QED
  BY <1>2

LEMMA CountKeeps ==
  ASSUME ControlInv, CountInv, [Next]_vars
  PROVE  CountInv'
<1>0. /\ FrameTypes /\ FrameTypes' /\ Types'
      /\ Busy \subseteq Opened /\ Opened \subseteq SubDirs /\ \A e \in Taken : Parent[e] \in Opened
  BY ControlKeeps, OpenedFacts DEF ControlInv, Types
<1> DEFINE Balanced(t) == total[t].count + SumOver(CountOf, Adders(t)) = Cardinality(TakenBelow(t))
           Fine(t) == flag[t] = " "
           FineNext(t) == flag'[t] = " "
           Balance(t) == total'[t].count + SumOver(CountOf', Adders(t)') = Cardinality(TakenBelow(t)')
<1>c. \A x \in SubDirs : /\ CountOf[x] = tally[x].count /\ CountOf[x] \in Int
                          /\ CountOf'[x] = tally'[x].count /\ CountOf'[x] \in Int
                          /\ total[x].count \in Int
  <2>1. FrameTypes
    BY <1>0
  <2>2. \A x \in SubDirs : CountOf[x] = tally[x].count /\ CountOf[x] \in Int /\ total[x].count \in Int
    <3>1. tally \in [SubDirs -> Totals] /\ total \in [SubDirs -> Totals]
      BY <2>1 DEF FrameTypes
    <3> QED
      BY <3>1 DEF CountOf, Totals
  <2>3. tally' \in [SubDirs -> Totals]
    BY <1>0 DEF FrameTypes
  <2>4. \A x \in SubDirs : CountOf'[x] = tally'[x].count /\ CountOf'[x] \in Int
    BY <2>3 DEF CountOf, Totals
  <2> QED
    BY <2>2, <2>4
<1>a. ASSUME NEW t \in SubDirs
      PROVE  /\ IsFiniteSet(Adders(t)) /\ Adders(t) \in SUBSET SubDirs /\ SumOver(CountOf, Adders(t)) \in Int
             /\ IsFiniteSet(TakenBelow(t)) /\ Cardinality(TakenBelow(t)) \in Int
  <2>1. FrameTypes
    BY <1>0
  <2> QED
    BY <2>1, CountTypes
<1>1. \A t \in SubDirs : Fine(t) => Balanced(t)
  BY DEF CountInv
<1>2. ASSUME \A t \in SubDirs : FineNext(t) => Balance(t) PROVE CountInv'
  BY <1>2 DEF CountInv
<1>3. ASSUME NEW t \in SubDirs, Balanced(t),
             total'[t] = total[t], TakenBelow(t)' = TakenBelow(t), Adders(t)' = Adders(t),
             \A x \in Adders(t) : tally'[x].count = tally[x].count
      PROVE  Balance(t)
  BY <1>0, <1>3, CountStays
<1> HIDE DEF Balanced, Balance, Fine, FineNext
<1>s. ASSUME NEW t \in SubDirs, flag'[t] = flag[t] PROVE FineNext(t) => Fine(t)
  BY <1>s DEF Fine, FineNext
<1>4. CASE StillStep
  <2> SUFFICES ASSUME NEW t \in SubDirs, FineNext(t) PROVE Balance(t)
    BY <1>2
  <2>1. Balanced(t) /\ total'[t] = total[t]
    <3>1. flag'[t] = flag[t] /\ total'[t] = total[t]
      BY <1>4 DEF StillStep
    <3> QED
      BY <1>1, <1>s, <3>1, Zenon
  <2>2. TakenBelow(t)' = TakenBelow(t)
    BY <1>0, <1>4 DEF StillStep, TakenBelow
  <2>3. Adders(t)' = Adders(t)
    BY <1>0, <1>4 DEF StillStep, Adders
  <2>4. \A x \in Adders(t) : tally'[x].count = tally[x].count
    BY <1>4 DEF StillStep, Adders
  <2> QED
    BY <1>3, <2>1, <2>2, <2>3, <2>4
<1>5. ASSUME NEW d \in SubDirs, NEW e \in Entries, NEW n \in Nat, CountStep(d, e, n)
      PROVE  CountInv'
  <2> SUFFICES ASSUME NEW t \in SubDirs, FineNext(t) PROVE Balance(t)
    BY <1>2
  <2>1. Balanced(t) /\ total'[t] = total[t]
    <3>1. flag'[t] = flag[t] /\ total'[t] = total[t]
      BY <1>5 DEF CountStep
    <3> QED
      BY <1>1, <1>s, <3>1, Zenon
  <2>2. Adders(t)' = Adders(t)
    BY <1>0, <1>5 DEF CountStep, Adders
  <2>3. d \in Busy /\ d \in Opened /\ Parent[e] = d /\ topDir'[d] = topDir[d]
    BY <1>0, <1>5 DEF CountStep
  <2>4. CASE topDir[d] # t
    <3>1. TakenBelow(t)' = TakenBelow(t)
      BY <1>0, <1>5, <2>3, <2>4 DEF CountStep, TakenBelow
    <3>2. \A x \in Adders(t) : tally'[x].count = tally[x].count
      BY <1>5, <2>4 DEF CountStep, Adders
    <3> QED
      BY <1>3, <2>1, <2>2, <3>1, <3>2
  <2>5. CASE topDir[d] = t
    <3>1. TakenBelow(t)' = TakenBelow(t) \cup {e} /\ e \notin TakenBelow(t)
      BY <1>0, <1>5, <2>3, <2>5 DEF CountStep, TakenBelow
    <3>2. Cardinality(TakenBelow(t)') = Cardinality(TakenBelow(t)) + 1
      BY <1>a, <3>1, FS_AddElement
    <3>3. d \in Adders(t)
      BY <2>3, <2>5 DEF Adders
    <3>4. ASSUME NEW x \in Adders(t), x # d PROVE CountOf'[x] = CountOf[x]
      <4>1. x \in Busy /\ x \in SubDirs
        BY <1>0 DEF Adders
      <4>2. tally'[x] = tally[x]
        BY <1>5, <3>4, <4>1 DEF CountStep
      <4> QED
        BY <1>c, <4>1, <4>2
    <3>5. CountOf'[d] = CountOf[d] + 1
      <4>1. tally'[d] = Plus(tally[d], n, 1)
        BY <1>5, <2>3 DEF CountStep
      <4>2. Plus(tally[d], n, 1).count = tally[d].count + 1
        BY DEF Plus
      <4> QED
        BY <1>c, <4>1, <4>2
    <3>7. SumOver(CountOf', Adders(t)) = SumOver(CountOf, Adders(t)) + 1
      <4> DEFINE f == CountOf  g == CountOf'  A == Adders(t)  k == 1
      <4>1. IsFiniteSet(A) /\ d \in A
        BY <1>a, <3>3
      <4>2. g[d] = f[d] + k /\ k \in Int
        BY <3>5
      <4>3. \A x \in A : f[x] \in Int /\ g[x] \in Int
        BY <1>a, <1>c
      <4>4. \A x \in A \ {d} : f[x] = g[x]
        BY <3>4
      <4> HIDE DEF f, g, A, k
      <4>5. SumOver(g, A) = SumOver(f, A) + k
        BY <4>1, <4>2, <4>3, <4>4, SumGrow
      <4> QED
        BY <4>5 DEF f, g, A, k
    <3>8. total[t].count + (SumOver(CountOf, Adders(t)) + 1) = (total[t].count + SumOver(CountOf, Adders(t))) + 1
      <4> DEFINE x == total[t].count  a == SumOver(CountOf, Adders(t))
      <4>1. x \in Int /\ a \in Int
        BY <1>a, <1>c
      <4> HIDE DEF x, a
      <4>2. x + (a + 1) = (x + a) + 1
        BY <4>1
      <4> QED
        BY <4>2 DEF x, a
    <3> QED
      BY <2>1, <2>2, <3>2, <3>7, <3>8, Zenon DEF Balanced, Balance
  <2> QED
    BY <2>4, <2>5
<1>6. ASSUME NEW d \in SubDirs, NEW e \in Files, FailFile(d, e) PROVE CountInv'
  <2> SUFFICES ASSUME NEW t \in SubDirs, FineNext(t) PROVE Balance(t)
    BY <1>2
  <2>1. /\ Opened' = Opened /\ Busy' = Busy /\ Taken' = Taken \cup {e} /\ Parent[e] = d
        /\ UNCHANGED <<topDir, total>>
        /\ \A x \in Busy : x # d => tally'[x] = tally[x]
    BY <1>6, FailFacts
  <2>2. t # topDir[d] /\ Balanced(t)
    <3>1. flag'[t] = " "
      BY DEF FineNext
    <3>2. flag'[t] = IF t = topDir[d] THEN "." ELSE flag[t]
      BY <1>6, FailFacts
    <3>3. t # topDir[d] /\ flag[t] = flag'[t]
      BY <3>1, <3>2
    <3> QED
      BY <1>1, <1>s, <3>3, Zenon
  <2>3. TakenBelow(t)' = TakenBelow(t) /\ Adders(t)' = Adders(t)
    BY <2>1, <2>2 DEF TakenBelow, Adders
  <2>4. \A x \in Adders(t) : tally'[x].count = tally[x].count
    BY <2>1, <2>2 DEF Adders
  <2> QED
    BY <1>3, <2>1, <2>2, <2>3, <2>4
<1>7. ASSUME NEW d \in SubDirs, OpenDir(d) PROVE CountInv'
  <2> SUFFICES ASSUME NEW t \in SubDirs, FineNext(t) PROVE Balance(t)
    BY <1>2
  <2>1. /\ d \notin Opened /\ Opened' = Opened \cup {d} /\ Busy' = Busy \cup {d}
        /\ UNCHANGED <<topDir, total>>
        /\ \A x \in Busy : tally'[x] = tally[x]
        /\ tally'[d].count = 0
    BY <1>7, OpenDirFacts
  <2>2. Balanced(t)
    <3>1. flag'[t] = " " => flag[t] = " "
      BY <1>7, OpenDirFacts
    <3> QED
      BY <1>1, <3>1, Zenon DEF Fine, FineNext
  <2>3. TakenBelow(t)' = TakenBelow(t)
    <3>1. (\A e \in Taken : e \in Taken') /\ (\A e \in Taken' : e \in Taken \/ Parent[e] = d)
      BY <1>7, OpenDirFacts
    <3>2. CASE topDir[d] = t
      <4>1. Taken' = Taken
        BY <1>7, <3>2, OpenDirFacts DEF FineNext
      <4> QED
        BY <2>1, <4>1 DEF TakenBelow
    <3>3. CASE topDir[d] # t
      <4>1. TakenBelow(t)' = {e \in Taken' : topDir[Parent[e]] = t}
        BY <2>1 DEF TakenBelow
      <4>2. TakenBelow(t) = {e \in Taken : topDir[Parent[e]] = t}
        BY DEF TakenBelow
      <4> QED
        BY <3>1, <3>3, <4>1, <4>2
    <3> QED
      BY <3>2, <3>3
  <2>4. CASE topDir[d] # t
    <3>1. Adders(t)' = Adders(t)
      BY <2>1, <2>4 DEF Adders
    <3>2. \A x \in Adders(t) : tally'[x].count = tally[x].count
      BY <2>1 DEF Adders
    <3> QED
      BY <1>3, <2>1, <2>2, <2>3, <3>1, <3>2
  <2>5. CASE topDir[d] = t
    <3>1. Adders(t)' = Adders(t) \cup {d} /\ d \notin Adders(t)
      BY <1>0, <2>1, <2>5 DEF Adders
    <3>2. CountOf'[d] = 0
      <4>1. tally'[d].count = 0
        BY <2>1
      <4> QED
        BY <1>c, <4>1
    <3>3. ASSUME NEW x \in Adders(t) PROVE CountOf'[x] = CountOf[x] /\ CountOf[x] \in Int
      <4>1. x \in Busy /\ x \in SubDirs
        BY <1>0 DEF Adders
      <4>2. tally'[x] = tally[x]
        BY <2>1, <4>1
      <4> QED
        BY <1>c, <4>1, <4>2
    <3>4. SumOver(CountOf', Adders(t)') = SumOver(CountOf, Adders(t)) + 0
      <4> DEFINE f == CountOf  g == CountOf'  A == Adders(t)  B == Adders(t)'
      <4>1. IsFiniteSet(A) /\ d \notin A
        BY <1>a, <3>1
      <4>2. B = A \cup {d}
        BY <3>1
      <4>3. g[d] = 0
        BY <3>2
      <4>4. \A x \in A : f[x] \in Int /\ f[x] = g[x]
        BY <3>3
      <4> HIDE DEF f, g, A, B
      <4>5. g[d] \in Int
        BY <4>3
      <4>6. SumOver(g, A \cup {d}) = SumOver(f, A) + g[d] /\ SumOver(f, A) \in Int
        BY <4>1, <4>4, <4>5, SumAdd
      <4>7. SumOver(g, B) = SumOver(f, A) + 0
        BY <4>2, <4>3, <4>6, Zenon
      <4> QED
        BY <4>7 DEF f, g, A, B
    <3>5. SumOver(CountOf', Adders(t)') = SumOver(CountOf, Adders(t))
      <4>1. SumOver(CountOf, Adders(t)) + 0 = SumOver(CountOf, Adders(t))
        BY <1>a
      <4> QED
        BY <3>4, <4>1, Zenon
    <3> QED
      BY <2>1, <2>2, <2>3, <3>5, Zenon DEF Balanced, Balance
  <2> QED
    BY <2>4, <2>5
<1>8. ASSUME NEW d \in SubDirs, AddUsage(d) PROVE CountInv'
  <2> SUFFICES ASSUME NEW t \in SubDirs, FineNext(t) PROVE Balance(t)
    BY <1>2
  <2>1. /\ d \in Busy /\ Opened' = Opened /\ Busy' = Busy \ {d} /\ Taken' = Taken
        /\ UNCHANGED <<topDir, tally, linked, tops, flag>>
        /\ \A u \in SubDirs : total'[u] = IF u = topDir[d] THEN Plus(total[u], tally[d].size, tally[d].count)
                                           ELSE total[u]
    BY <1>8, AddUsageFacts
  <2>2. Balanced(t)
    <3>1. flag'[t] = flag[t]
      BY <2>1
    <3> QED
      BY <1>1, <1>s, <3>1, Zenon
  <2>3. TakenBelow(t)' = TakenBelow(t) /\ CountOf' = CountOf
    BY <2>1 DEF TakenBelow, CountOf
  <2>4. CASE topDir[d] # t
    <3>1. Adders(t)' = Adders(t) /\ total'[t] = total[t]
      BY <2>1, <2>4 DEF Adders
    <3>2. \A x \in Adders(t) : tally'[x].count = tally[x].count
      BY <2>1 DEF Adders
    <3> QED
      BY <1>3, <2>2, <2>3, <3>1, <3>2
  <2>5. CASE topDir[d] = t
    <3>1. Adders(t)' = Adders(t) \ {d} /\ d \in Adders(t)
      BY <2>1, <2>5 DEF Adders
    <3>2. \A x \in Adders(t) : CountOf[x] \in Int
      BY <1>a, <1>c
    <3>3. /\ SumOver(CountOf, Adders(t)) = CountOf[d] + SumOver(CountOf, Adders(t)')
          /\ SumOver(CountOf, Adders(t)') \in Int
      <4> DEFINE f == CountOf  A == Adders(t)  B == Adders(t)'
      <4>1. IsFiniteSet(A) /\ d \in A /\ \A x \in A : f[x] \in Int
        BY <1>a, <3>1, <3>2
      <4>2. B = A \ {d}
        BY <3>1
      <4> HIDE DEF f, A, B
      <4>3. SumOver(f, A) = f[d] + SumOver(f, A \ {d}) /\ SumOver(f, A \ {d}) \in Int
        BY <4>1, SumDrop
      <4>4. SumOver(f, A) = f[d] + SumOver(f, B) /\ SumOver(f, B) \in Int
        BY <4>2, <4>3, Zenon
      <4> QED
        BY <4>4 DEF f, A, B
    <3>4. total'[t].count = total[t].count + CountOf[d]
      <4>1. total'[t] = Plus(total[t], tally[d].size, tally[d].count)
        BY <2>1, <2>5
      <4>2. Plus(total[t], tally[d].size, tally[d].count).count = total[t].count + tally[d].count
        BY DEF Plus
      <4> QED
        BY <1>c, <4>1, <4>2
    <3>5. total[t].count \in Int /\ CountOf[d] \in Int
      BY <1>c
    <3>6. total'[t].count + SumOver(CountOf, Adders(t)') = total[t].count + SumOver(CountOf, Adders(t))
      <4> DEFINE x == total[t].count  y == total'[t].count  k == CountOf[d]
                 a == SumOver(CountOf, Adders(t))  b == SumOver(CountOf, Adders(t)')
      <4>1. a = k + b /\ b \in Int /\ x \in Int /\ k \in Int
        BY <3>3, <3>5
      <4>2. y = x + k
        BY <3>4
      <4> HIDE DEF x, y, k, a, b
      <4>3. y + b = x + a
        BY <4>1, <4>2
      <4> QED
        BY <4>3 DEF x, y, a, b
    <3> QED
      BY <2>2, <2>3, <3>6, Zenon DEF Balanced, Balance
  <2> QED
    BY <2>4, <2>5
<1>9. CASE Start \/ Main
  BY <1>4, <1>9, MainStill
<1>10. ASSUME NEW d \in SubDirs, Frame(d) PROVE CountInv'
  <2>1. ASSUME NEW e \in SubDirs, Claim(d, e) \/ Call(d, e) PROVE CountInv'
    <3>1. CountStep(d, e, 0) /\ e \in Entries
      BY <1>0, <2>1, DescendCounts, SubDirFacts
    <3> QED
      BY <1>5, <3>1
  <2>2. ASSUME NEW e \in Files, CountFile(d, e) PROVE CountInv'
    <3>1. CountStep(d, e, IF Inode[e] # NoInode /\ Inode[e] \in linked THEN 0 ELSE Bytes[e])
      BY <2>2, FileCounts
    <3>2. e \in Entries /\ Bytes[e] \in Nat
      BY ListingFacts, BytesAssumption
    <3> QED
      BY <1>5, <3>1, <3>2
  <2>3. CASE \/ EndLoop(d) \/ Release(d) \/ Notify(d)
             \/ \E e \in SubDirs : Spawn(d, e)
             \/ \E e \in Entries : SkipEntry(d, e)
    BY <1>4, <2>3, FrameStill
  <2> QED
    BY <1>6, <1>7, <1>8, <1>10, <2>1, <2>2, <2>3 DEF Frame
<1>11. CASE UNCHANGED vars
  <2>1. StillStep
    BY <1>11 DEF vars, StillStep, Opened, Busy, Taken
  <2> QED
    BY <1>4, <2>1
<1> QED
  BY <1>9, <1>10, <1>11 DEF Next

\* When nothing runs, a directory below a first level that is not flagged was
\* reached if and only if the reference walk reaches it.
LEMMA ReachedIsWalked ==
  ASSUME ControlInv, Settled, NEW d \in SubDirs, TopOf[d] \in tops, flag[TopOf[d]] = " "
  PROVE  frame[d] # "idle" <=> Walked[d]
<1> DEFINE Bad(e) == e \in SubDirs /\ TopOf[e] \in tops /\ flag[TopOf[e]] = " " /\ Walked[e] /\ frame[e] = "idle"
           Good == {e \in Entries : ~Bad(e)}
<1>0. ReachedOnce /\ NoneIsLost /\ LoopsEnd
  BY DEF ControlInv
<1>1. ASSUME NEW e \in Entries, Parent[e] = Root \/ Parent[e] \in Good
      PROVE  e \in Good
  <2> SUFFICES ASSUME e \in SubDirs, TopOf[e] \in tops, flag[TopOf[e]] = " ", Walked[e], frame[e] = "idle"
               PROVE  FALSE
    OBVIOUS
  <2>1. CASE Parent[e] = Root
    BY <1>0, <2>1, TopOfEquation DEF ReachedOnce
  <2>2. CASE Parent[e] # Root
    <3> DEFINE p == Parent[e]
    <3>1. p \in SubDirs /\ TopOf[e] = TopOf[p] /\ Walked[p] /\ e \notin Skip
      BY <2>2, SubDirFacts, TopOfEquation, WalkedEquation
    <3>2. p \in Good
      BY <1>1, <2>2
    <3>3. frame[p] # "idle"
      BY <3>1, <3>2
    <3>4. frame[p] = "finished"
      BY <3>1, <3>3 DEF Settled
    <3>5. p \in Opened /\ todo[p] = {}
      BY <1>0, <3>1, <3>4 DEF Opened, Unopened, LoopsEnd
    <3> QED
      BY <1>0, <3>1, <3>5 DEF NoneIsLost
  <2> QED
    BY <2>1, <2>2
<1>2. Entries \subseteq Good
  <2> HIDE DEF Good
  <2> QED
    BY <1>1, DownTheTree
<1>3. ~Bad(d)
  BY <1>2, SubDirFacts
<1>4. frame[d] # "idle" => Walked[d]
  BY <1>0 DEF ReachedOnce
<1> QED
  BY <1>3, <1>4

LEMMA TakenIsWalked ==
  ASSUME ControlInv, Settled, NEW e \in Entries, TopOf[e] \in tops, flag[TopOf[e]] = " "
  PROVE  e \in Taken <=> Parent[e] # Root /\ Walked[e]
<1>0. LoopsEnd /\ ReachedOnce
  BY DEF ControlInv
<1>1. CASE Parent[e] = Root
  BY <1>1, SubDirFacts DEF Taken, Opened
<1>2. CASE Parent[e] # Root
  <2>1. Parent[e] \in SubDirs /\ TopOf[e] = TopOf[Parent[e]]
    BY <1>2, SubDirFacts, TopOfEquation
  <2>2. frame[Parent[e]] # "idle" <=> Walked[Parent[e]]
    BY <2>1, ReachedIsWalked
  <2>3. frame[Parent[e]] \in {"idle", "finished"}
    BY <2>1 DEF Settled
  <2>4. Parent[e] \in Opened <=> frame[Parent[e]] # "idle"
    BY <2>1, <2>3 DEF Opened, Unopened
  <2>5. frame[Parent[e]] # "idle" => todo[Parent[e]] = {}
    BY <1>0, <2>1, <2>3 DEF LoopsEnd
  <2>6. e \in Taken <=> frame[Parent[e]] # "idle" /\ e \notin Skip
    BY <2>4, <2>5 DEF Taken
  <2>7. Walked[e] <=> e \notin Skip /\ Walked[Parent[e]]
    BY <1>2, WalkedEquation
  <2> QED
    BY <1>2, <2>2, <2>6, <2>7
<1> QED
  BY <1>1, <1>2

\* What is taken below a first level lies under it, and back.
LEMMA TakenBelowIsBelow ==
  ASSUME ControlInv, Settled, NEW t \in tops, flag[t] = " "
  PROVE  TakenBelow(t) = Below(t)
<1>0. ReachedOnce /\ Types /\ FrameTypes /\ Parent[t] = Root
  BY DEF ControlInv, Types, ReachedOnce
<1>1. ASSUME NEW e \in Entries PROVE e \in TakenBelow(t) <=> e \in Below(t)
  <2>1. CASE Parent[e] = Root
    <3>1. TopOf[e] = e
      BY <2>1, TopOfEquation
    <3> QED
      BY <2>1, <3>1, SubDirFacts DEF Below, TakenBelow, Taken, Opened
  <2>2. CASE Parent[e] # Root
    <3>1. Parent[e] \in SubDirs /\ TopOf[e] = TopOf[Parent[e]] /\ e # t
      BY <1>0, <2>2, SubDirFacts, TopOfEquation
    <3>2. frame[Parent[e]] # "idle" => topDir[Parent[e]] = TopOf[e]
      BY <1>0, <3>1 DEF ReachedOnce
    <3>3. e \in Taken => frame[Parent[e]] # "idle"
      BY DEF Taken, Opened, Unopened
    <3>4. e \in TakenBelow(t) <=> e \in Taken /\ TopOf[e] = t
      BY <3>2, <3>3 DEF TakenBelow
    <3>5. TopOf[e] = t => (e \in Taken <=> Walked[e])
      BY <2>2, TakenIsWalked
    <3> QED
      BY <3>1, <3>4, <3>5 DEF Below
  <2> QED
    BY <2>1, <2>2
<1>2. TakenBelow(t) \subseteq Entries /\ Below(t) \subseteq Entries
  BY DEF TakenBelow, Taken, Below
<1> QED
  BY <1>1, <1>2

LEMMA PlusNothing == \A x \in Int : x + 0 = x
  OBVIOUS

LEMMA NatIsInt == \A x \in Nat : x \in Int
  OBVIOUS

LEMMA CountImpliesProperty == ControlInv /\ CountInv => ItemsCountedOnce
<1> SUFFICES ASSUME ControlInv, CountInv, Quiet, NEW t \in tops, flag[t] = " "
             PROVE  total[t].count = Cardinality(Below(t))
  BY DEF ItemsCountedOnce
<1>0. FrameTypes /\ t \in SubDirs
  BY DEF ControlInv, Types, FrameTypes
<1>1. Settled
  BY DEF Quiet, Settled
<1>2. Adders(t) = {}
  BY <1>1 DEF Settled, Adders, Busy, InBody
<1>3. SumOver(CountOf, Adders(t)) = 0
  BY <1>2, FS_EmptySet, SumEquation
<1>4. total[t].count + SumOver(CountOf, Adders(t)) = Cardinality(TakenBelow(t))
  BY <1>0 DEF CountInv
<1>5. total[t].count \in Int
  <2>1. total[t].count \in Nat
    BY <1>0, CountTypes, Zenon
  <2> QED
    BY <2>1, NatIsInt, Zenon
<1>6. TakenBelow(t) = Below(t)
  BY <1>1, TakenBelowIsBelow
<1>7. total[t].count + 0 = Cardinality(Below(t))
  BY <1>3, <1>4, <1>6, Zenon
<1>8. total[t].count + 0 = total[t].count
  BY <1>5, PlusNothing
<1> QED
  BY <1>7, <1>8, Zenon

LEMMA CountStarts == Init => CountInv
<1> SUFFICES ASSUME Init, NEW t \in SubDirs
             PROVE  total[t].count + SumOver(CountOf, Adders(t)) = Cardinality(TakenBelow(t))
  BY DEF CountInv
<1>1. Adders(t) = {} /\ TakenBelow(t) = {}
  BY DEF Init, Adders, Busy, InBody, TakenBelow, Taken, Opened, Unopened
<1>2. SumOver(CountOf, {}) = 0 /\ Cardinality({}) = 0
  BY FS_EmptySet, SumEquation
<1>3. total[t].count = 0
  BY DEF Init, Zero
<1>4. total[t].count + SumOver(CountOf, {}) = 0
  BY <1>2, <1>3
<1> QED
  BY <1>1, <1>2, <1>4, Zenon

\* However the frames interleave and whoever has the slots, every item below a
\* first level that is not flagged is counted once.
THEOREM ItemsAreCounted == Spec => []ItemsCountedOnce
<1> DEFINE Inv == ControlInv /\ CountInv
<1>1. Init => Inv
  BY ControlStarts, CountStarts
<1>2. Inv /\ [Next]_vars => Inv'
  BY ControlKeeps, CountKeeps
<1>3. Inv => ItemsCountedOnce
  BY CountImpliesProperty
<1> HIDE DEF Inv
<1> QED
  BY <1>1, <1>2, <1>3, PTL DEF Spec

-----------------------------------------------------------------------------
(* Sizes *)

\* The links of an inode have the size of the one that is looked up.
LEMMA InodeBytes ==
  ASSUME NEW f \in Files, Inode[f] # NoInode
  PROVE  Bytes[CHOOSE g \in Files : Inode[g] = Inode[f]] = Bytes[f] /\ Bytes[f] \in Nat
<1> DEFINE g == CHOOSE x \in Files : Inode[x] = Inode[f]
<1>1. g \in Files /\ Inode[g] = Inode[f]
  OBVIOUS
<1>2. Bytes[g] = Bytes[f]
  <2> HIDE DEF g
  <2> QED
    BY <1>1, InodeAssumption
<1> QED
  BY <1>2, BytesAssumption

LEMMA InodesMet ==
  \A i \in TakenInodes : \E f \in Taken \cap Files : Inode[f] # NoInode /\ i = Inode[f]
  BY DEF TakenInodes, TakenPlain

LEMMA SizeTypes ==
  ASSUME FrameTypes
  PROVE  /\ IsFiniteSet(TakenPlain) /\ TakenPlain \subseteq Files /\ SumOver(Bytes, TakenPlain) \in Int
         /\ IsFiniteSet(TakenInodes) /\ InodeSize(TakenInodes) \in Int
         /\ IsFiniteSet(OpenedEmpty) /\ OpenedEmpty \subseteq SubDirs /\ Cardinality(OpenedEmpty) \in Nat
         /\ EmptyDirSize * Cardinality(OpenedEmpty) \in Int
         /\ IsFiniteSet(Busy) /\ Busy \subseteq SubDirs /\ IsFiniteSet(SubDirs)
         /\ \A x \in SubDirs : /\ SizeIn[x] = tally[x].size /\ SizeIn[x] \in Int
                               /\ TotalSize[x] = total[x].size /\ TotalSize[x] \in Int
         /\ SumOver(SizeIn, Busy) \in Int /\ SumOver(TotalSize, SubDirs) \in Int
<1>1. IsFiniteSet(TakenPlain) /\ TakenPlain \subseteq Files
  BY BytesAssumption, FS_Subset DEF TakenPlain
<1>2. \A f \in Files : Bytes[f] \in Int
  BY BytesAssumption
<1>3. SumOver(Bytes, TakenPlain) \in Int
  BY <1>1, <1>2, SumType
<1>4. IsFiniteSet(TakenInodes)
  <2>1. IsFiniteSet((Taken \cap Files) \ TakenPlain)
    BY BytesAssumption, FS_Subset
  <2> QED
    <3> DEFINE S == (Taken \cap Files) \ TakenPlain
               f == [x \in S |-> Inode[x]]
    <3>1. f \in Surjection(S, TakenInodes)
      BY DEF TakenInodes, Surjection
    <3> HIDE DEF f
    <3> QED
      BY <2>1, <3>1, FS_Surjection
<1>5. InodeSize(TakenInodes) \in Int
  <2> DEFINE size == [i \in TakenInodes |-> Bytes[CHOOSE f \in Files : Inode[f] = i]]
  <2>1. ASSUME NEW i \in TakenInodes PROVE size[i] \in Int
    <3>1. PICK f \in Taken \cap Files : Inode[f] # NoInode /\ i = Inode[f]
      BY InodesMet
    <3>2. size[i] = Bytes[f] /\ Bytes[f] \in Nat
      BY <3>1, InodeBytes
    <3> QED
      BY <3>2
  <2> HIDE DEF size
  <2>2. SumOver(size, TakenInodes) \in Int
    BY <1>4, <2>1, SumType
  <2> QED
    BY <2>2 DEF size, InodeSize
<1>6. OpenedEmpty \in SUBSET SubDirs /\ Busy \in SUBSET SubDirs /\ SubDirs \in SUBSET SubDirs
  BY DEF OpenedEmpty, Opened, Busy
<1>7. IsFiniteSet(OpenedEmpty) /\ Cardinality(OpenedEmpty) \in Nat /\ IsFiniteSet(Busy) /\ IsFiniteSet(SubDirs)
  BY <1>6, SubDirFacts
<1>8. EmptyDirSize * Cardinality(OpenedEmpty) \in Int
  <2>1. EmptyDirSize \in Int /\ Cardinality(OpenedEmpty) \in Int
    BY <1>7, TopDirAssumption, EmptySizeType
  <2>2. \A a, b \in Int : a * b \in Int
    OBVIOUS
  <2> QED
    BY <2>1, <2>2, Zenon
<1>9. \A x \in SubDirs : /\ SizeIn[x] = tally[x].size /\ SizeIn[x] \in Int
                         /\ TotalSize[x] = total[x].size /\ TotalSize[x] \in Int
  <2>1. tally \in [SubDirs -> Totals] /\ total \in [SubDirs -> Totals]
    BY DEF FrameTypes
  <2> QED
    BY <2>1 DEF SizeIn, TotalSize, Totals
<1>10. SumOver(SizeIn, Busy) \in Int /\ SumOver(TotalSize, SubDirs) \in Int
  BY <1>6, <1>7, <1>9, SumType
<1> QED
  BY <1>1, <1>3, <1>4, <1>5, <1>6, <1>7, <1>8, <1>9, <1>10

LEMMA SameTaken ==
  ASSUME Taken' = Taken, Opened' = Opened
  PROVE  /\ TakenPlain' = TakenPlain /\ TakenInodes' = TakenInodes /\ OpenedEmpty' = OpenedEmpty
         /\ SizeTaken' = SizeTaken
<1>1. TakenPlain' = TakenPlain /\ OpenedEmpty' = OpenedEmpty
  BY DEF TakenPlain, OpenedEmpty
<1>2. TakenInodes' = TakenInodes
  BY <1>1 DEF TakenInodes
<1> QED
  BY <1>1, <1>2 DEF SizeTaken, InodeSize

\* One more inode.
LEMMA InodeMore ==
  ASSUME FrameTypes, NEW e \in Files, Inode[e] # NoInode, Inode[e] \notin TakenInodes
  PROVE  InodeSize(TakenInodes \cup {Inode[e]}) = InodeSize(TakenInodes) + Bytes[e]
<1> DEFINE S == TakenInodes
           i == Inode[e]
           f == [j \in S |-> Bytes[CHOOSE x \in Files : Inode[x] = j]]
           g == [j \in S \cup {i} |-> Bytes[CHOOSE x \in Files : Inode[x] = j]]
<1>1. IsFiniteSet(S) /\ i \notin S
  BY SizeTypes
<1>2. ASSUME NEW j \in S PROVE f[j] \in Int /\ f[j] = g[j]
  <2>1. PICK x \in Taken \cap Files : Inode[x] # NoInode /\ j = Inode[x]
    BY InodesMet
  <2>2. Bytes[CHOOSE y \in Files : Inode[y] = j] = Bytes[x] /\ Bytes[x] \in Nat
    BY <2>1, InodeBytes
  <2>3. f[j] = Bytes[CHOOSE y \in Files : Inode[y] = j] /\ g[j] = f[j]
    OBVIOUS
  <2> QED
    BY <2>2, <2>3
<1>3. g[i] = Bytes[e] /\ g[i] \in Int
  <2>1. Bytes[CHOOSE y \in Files : Inode[y] = i] = Bytes[e] /\ Bytes[e] \in Nat
    BY InodeBytes
  <2>2. g[i] = Bytes[CHOOSE y \in Files : Inode[y] = i]
    OBVIOUS
  <2> QED
    BY <2>1, <2>2
<1>4. InodeSize(S) = SumOver(f, S) /\ InodeSize(S \cup {i}) = SumOver(g, S \cup {i})
  BY DEF InodeSize
<1> HIDE DEF f, g, S, i
<1>5. \A x \in S : f[x] \in Int /\ f[x] = g[x]
  BY <1>2
<1>6. g[i] \in Int
  BY <1>3
<1>7. SumOver(g, S \cup {i}) = SumOver(f, S) + g[i]
  BY <1>1, <1>5, <1>6, SumAdd
<1>8. InodeSize(S \cup {i}) = InodeSize(S) + Bytes[e]
  BY <1>3, <1>4, <1>7, Zenon
<1> QED
  BY <1>8 DEF S, i

\* A file that is taken adds its size to what was taken, unless its inode was met.
LEMMA FileTaken ==
  ASSUME FrameTypes, NEW e \in Files, Taken' = Taken \cup {e}, e \notin Taken, Opened' = Opened,
         linked = TakenInodes, NEW n,
         n = IF Inode[e] # NoInode /\ Inode[e] \in linked THEN 0 ELSE Bytes[e],
         linked' = IF Inode[e] # NoInode THEN linked \cup {Inode[e]} ELSE linked
  PROVE  linked' = TakenInodes' /\ SizeTaken' = SizeTaken + n
<1>0. OpenedEmpty' = OpenedEmpty
  BY DEF OpenedEmpty
<1> DEFINE a == SumOver(Bytes, TakenPlain)
           b == InodeSize(TakenInodes)
           c == EmptyDirSize * Cardinality(OpenedEmpty)
<1>1. SizeTaken = a + b + c /\ a \in Int /\ b \in Int /\ c \in Int /\ n \in Int
  <2>1. a \in Int /\ b \in Int /\ c \in Int
    BY SizeTypes
  <2>2. n \in Int
    BY BytesAssumption
  <2> QED
    BY <2>1, <2>2 DEF SizeTaken
<1>2. CASE Inode[e] = NoInode
  <2>1. TakenPlain' = TakenPlain \cup {e} /\ e \notin TakenPlain
    BY <1>2 DEF TakenPlain
  <2>2. TakenInodes' = TakenInodes
    BY <2>1 DEF TakenInodes
  <2>3. n = Bytes[e] /\ Bytes[e] \in Int /\ \A x \in TakenPlain : Bytes[x] \in Int
    BY <1>2, SizeTypes, BytesAssumption
  <2>4. IsFiniteSet(TakenPlain) /\ \A x \in TakenPlain : Bytes[x] \in Int /\ Bytes[x] = Bytes[x]
    BY <2>3, SizeTypes
  <2>5. SumOver(Bytes, TakenPlain \cup {e}) = a + Bytes[e]
    BY <2>1, <2>3, <2>4, SumAdd
  <2>6. SizeTaken' = (a + n) + b + c
    BY <1>0, <2>1, <2>2, <2>3, <2>5, Zenon DEF SizeTaken, InodeSize
  <2>7. (a + n) + b + c = (a + b + c) + n
    <3> HIDE DEF a, b, c
    <3> QED
      BY <1>1
  <2>8. linked' = TakenInodes'
    BY <1>2, <2>2
  <2> QED
    BY <1>1, <2>6, <2>7, <2>8, Zenon
<1>3. CASE Inode[e] # NoInode
  <2>1. TakenPlain' = TakenPlain
    BY <1>3 DEF TakenPlain
  <2>2. TakenInodes' = TakenInodes \cup {Inode[e]}
    BY <1>3, <2>1 DEF TakenInodes, TakenPlain
  <2>3. linked' = TakenInodes'
    BY <1>3, <2>2
  <2>4. InodeSize(TakenInodes \cup {Inode[e]}) = b + n
    <3>1. CASE Inode[e] \in TakenInodes
      <4>1. n = 0 /\ TakenInodes \cup {Inode[e]} = TakenInodes
        BY <1>3, <3>1
      <4>2. b + 0 = b
        <5> HIDE DEF b
        <5> QED
          BY <1>1
      <4> QED
        BY <4>1, <4>2, Zenon
    <3>2. CASE Inode[e] \notin TakenInodes
      <4>1. n = Bytes[e]
        BY <3>2
      <4> QED
        BY <1>3, <3>2, <4>1, InodeMore
    <3> QED
      BY <3>1, <3>2
  <2>5. SizeTaken' = a + (b + n) + c
    <3>1. InodeSize(TakenInodes)' = b + n
      BY <2>2, <2>4, Zenon DEF InodeSize
    <3> QED
      BY <1>0, <2>1, <3>1, Zenon DEF SizeTaken
  <2>6. a + (b + n) + c = (a + b + c) + n
    <3> HIDE DEF a, b, c
    <3> QED
      BY <1>1
  <2> QED
    BY <1>1, <2>3, <2>5, <2>6, Zenon
<1> QED
  BY <1>2, <1>3

\* A directory that is taken adds nothing until it is opened.
LEMMA DirTaken ==
  ASSUME NEW e \in SubDirs, Taken' = Taken \cup {e}, Opened' = Opened
  PROVE  TakenInodes' = TakenInodes /\ SizeTaken' = SizeTaken
<1>1. e \notin Files
  BY SubDirFacts
<1>2. TakenPlain' = TakenPlain /\ OpenedEmpty' = OpenedEmpty
  BY <1>1 DEF TakenPlain, OpenedEmpty
<1>3. TakenInodes' = TakenInodes
  BY <1>1, <1>2 DEF TakenInodes
<1> QED
  BY <1>2, <1>3 DEF SizeTaken, InodeSize

\* The tally of a frame grows.
LEMMA SizeCounted ==
  ASSUME FrameTypes, FrameTypes', NEW d \in SubDirs, NEW e, NEW n \in Int, CountStep(d, e, n),
         SizeBalance, SizeTaken' = SizeTaken + n
  PROVE  SizeBalance'
<1>1. /\ d \in Busy /\ Busy' = Busy /\ total' = total
      /\ \A x \in Busy : tally'[x] = IF x = d THEN Plus(tally[d], n, 1) ELSE tally[x]
  BY DEF CountStep
<1>2. TotalSize' = TotalSize
  BY <1>1 DEF TotalSize
<1> DEFINE f == SizeIn  g == SizeIn'  B == Busy
<1>3. \A x \in B : f[x] \in Int /\ g[x] \in Int
  <2>1. \A x \in SubDirs : f[x] \in Int
    BY SizeTypes
  <2>2. tally' \in [SubDirs -> Totals]
    BY DEF FrameTypes
  <2>3. \A x \in SubDirs : g[x] \in Int
    BY <2>2 DEF SizeIn, Totals
  <2> QED
    BY <2>1, <2>3, SizeTypes
<1>4. \A x \in B \ {d} : f[x] = g[x]
  BY <1>1, SizeTypes DEF SizeIn
<1>5. g[d] = f[d] + n
  <2>1. tally'[d] = Plus(tally[d], n, 1)
    BY <1>1
  <2>2. Plus(tally[d], n, 1).size = tally[d].size + n
    BY DEF Plus
  <2> QED
    BY <2>1, <2>2 DEF SizeIn
<1>6. IsFiniteSet(B) /\ d \in B
  BY <1>1, SizeTypes
<1>7. SumOver(TotalSize, SubDirs) \in Int
  BY SizeTypes
<1> HIDE DEF f, g, B
<1>8. SumOver(g, B) = SumOver(f, B) + n /\ SumOver(f, B) \in Int
  BY <1>3, <1>4, <1>5, <1>6, SumGrow
<1> DEFINE a == SumOver(TotalSize, SubDirs)
           b == SumOver(f, B)
<1>9. a + (b + n) = (a + b) + n
  <2>1. a \in Int /\ b \in Int
    BY <1>7, <1>8
  <2> HIDE DEF a, b
  <2> QED
    BY <2>1
<1>10. a + b = SizeTaken
  BY DEF f, B, SizeBalance
<1>11. SumOver(TotalSize', SubDirs) + SumOver(g, B) = SizeTaken'
  BY <1>2, <1>8, <1>9, <1>10, Zenon
<1> QED
  BY <1>1, <1>11, Zenon DEF g, B, SizeBalance

\* Nothing that counts is taken.
LEMMA SizeStays ==
  ASSUME FrameTypes, StillStep, SizeBalance
  PROVE  SizeBalance' /\ TakenInodes' = TakenInodes
<1>1. /\ Opened' = Opened /\ Busy' = Busy /\ Taken' = Taken /\ total' = total
      /\ \A x \in Busy : tally'[x] = tally[x]
  BY DEF StillStep
<1>2. TakenInodes' = TakenInodes /\ SizeTaken' = SizeTaken
  BY <1>1, SameTaken
<1>3. TotalSize' = TotalSize
  BY <1>1 DEF TotalSize
<1>4. IsFiniteSet(Busy) /\ \A x \in Busy : SizeIn'[x] = SizeIn[x]
  BY <1>1, SizeTypes DEF SizeIn
<1>5. SumOver(SizeIn', Busy) = SumOver(SizeIn, Busy)
  BY <1>4, SumSame
<1> QED
  BY <1>1, <1>2, <1>3, <1>5, Zenon DEF SizeBalance

\* An empty directory counts with its own size when it is opened.
LEMMA SizeOpened ==
  ASSUME FrameTypes, FrameTypes', NEW d \in SubDirs, d \notin Opened,
         Opened' = Opened \cup {d}, Busy' = Busy \cup {d}, Taken' = Taken, total' = total,
         \A x \in Busy : tally'[x] = tally[x],
         tally'[d].size = IF Children(d) = {} THEN EmptyDirSize ELSE 0,
         SizeBalance
  PROVE  SizeBalance' /\ TakenInodes' = TakenInodes
<1> DEFINE n == IF Children(d) = {} THEN EmptyDirSize ELSE 0
           a == SumOver(Bytes, TakenPlain)
           b == InodeSize(TakenInodes)
           c == Cardinality(OpenedEmpty)
           s == SumOver(TotalSize, SubDirs)
           r == SumOver(SizeIn, Busy)
<1>1. TakenPlain' = TakenPlain /\ TakenInodes' = TakenInodes
  BY DEF TakenPlain, TakenInodes
<1>2. TotalSize' = TotalSize
  BY DEF TotalSize
<1>3. a \in Int /\ b \in Int /\ c \in Int /\ s \in Int /\ r \in Int /\ EmptyDirSize \in Int /\ n \in Int
  <2>1. EmptyDirSize \in Int
    BY TopDirAssumption, EmptySizeType
  <2> QED
    BY <2>1, SizeTypes
<1>4. EmptyDirSize * Cardinality(OpenedEmpty') = EmptyDirSize * c + n
  <2>1. CASE Children(d) = {}
    <3>1. OpenedEmpty' = OpenedEmpty \cup {d} /\ d \notin OpenedEmpty
      BY <2>1 DEF OpenedEmpty
    <3>2. IsFiniteSet(OpenedEmpty)
      BY SizeTypes
    <3>3. Cardinality(OpenedEmpty \cup {d}) = c + 1
      BY <3>1, <3>2, FS_AddElement
    <3>4. \A k, m \in Int : k * (m + 1) = k * m + k
      OBVIOUS
    <3>5. EmptyDirSize * (c + 1) = EmptyDirSize * c + EmptyDirSize
      BY <1>3, <3>4, Zenon
    <3>6. n = EmptyDirSize
      BY <2>1
    <3> QED
      BY <3>1, <3>3, <3>5, <3>6, Zenon
  <2>2. CASE Children(d) # {}
    <3>1. OpenedEmpty' = OpenedEmpty
      BY <2>2 DEF OpenedEmpty
    <3>2. \A k, m \in Int : k * m \in Int
      OBVIOUS
    <3>3. EmptyDirSize * c \in Int
      BY <1>3, <3>2, Zenon
    <3>4. EmptyDirSize * c + 0 = EmptyDirSize * c
      BY <3>3, PlusNothing
    <3>5. n = 0
      BY <2>2
    <3> QED
      BY <3>1, <3>4, <3>5, Zenon
  <2> QED
    BY <2>1, <2>2
<1>5. SumOver(SizeIn', Busy') = r + n
  <2> DEFINE f == SizeIn  g == SizeIn'  A == Busy  B == Busy'
  <2>1. IsFiniteSet(A) /\ d \notin A /\ B = A \cup {d}
    BY SizeTypes, OpenedFacts
  <2>2. \A x \in A : f[x] \in Int /\ f[x] = g[x]
    BY SizeTypes DEF SizeIn
  <2>3. g[d] = n
    BY DEF SizeIn
  <2>4. g[d] \in Int
    BY <1>3, <2>3
  <2> HIDE DEF f, g, A, B
  <2>5. SumOver(g, A \cup {d}) = SumOver(f, A) + g[d]
    BY <2>1, <2>2, <2>4, SumAdd
  <2>6. SumOver(g, B) = SumOver(f, A) + n
    BY <2>1, <2>3, <2>5, Zenon
  <2> QED
    BY <2>6 DEF f, g, A, B
<1>6. SizeTaken' = a + b + (EmptyDirSize * c + n)
  <2>1. InodeSize(TakenInodes)' = b
    BY <1>1, Zenon DEF InodeSize
  <2> QED
    BY <1>1, <1>4, <2>1, Zenon DEF SizeTaken
<1>7. s + r = a + b + EmptyDirSize * c
  BY Zenon DEF SizeBalance, SizeTaken
<1>8. EmptyDirSize * c \in Int
  <2>1. \A k, m \in Int : k * m \in Int
    OBVIOUS
  <2> QED
    BY <1>3, <2>1, Zenon
<1>9. s + (r + n) = a + b + (EmptyDirSize * c + n)
  <2> DEFINE p == EmptyDirSize * c
  <2>1. s + r = a + b + p /\ p \in Int
    BY <1>7, <1>8
  <2>2. a \in Int /\ b \in Int /\ s \in Int /\ r \in Int /\ n \in Int
    BY <1>3
  <2> HIDE DEF p, n, a, b, c, s, r
  <2>3. s + (r + n) = a + b + (p + n)
    BY <2>1, <2>2
  <2> QED
    BY <2>3 DEF p
<1> QED
  BY <1>1, <1>2, <1>5, <1>6, <1>9, Zenon DEF SizeBalance

\* A frame's tally moves to the total of its first level.
LEMMA SizeAdded ==
  ASSUME FrameTypes, FrameTypes', NEW d \in Busy, topDir[d] \in SubDirs,
         Opened' = Opened, Busy' = Busy \ {d}, Taken' = Taken, tally' = tally,
         \A t \in SubDirs : total'[t] = IF t = topDir[d] THEN Plus(total[t], tally[d].size, tally[d].count)
                                        ELSE total[t],
         SizeBalance
  PROVE  SizeBalance' /\ TakenInodes' = TakenInodes
<1>1. TakenInodes' = TakenInodes /\ SizeTaken' = SizeTaken
  BY SameTaken
<1>2. SizeIn' = SizeIn
  BY DEF SizeIn
<1> DEFINE k == SizeIn[d]
<1>3. SumOver(SizeIn, Busy) = k + SumOver(SizeIn, Busy') /\ SumOver(SizeIn, Busy') \in Int
  <2> DEFINE f == SizeIn  A == Busy  B == Busy'
  <2>1. IsFiniteSet(A) /\ d \in A /\ \A x \in A : f[x] \in Int
    BY SizeTypes
  <2>2. B = A \ {d}
    OBVIOUS
  <2> HIDE DEF f, A, B
  <2>3. SumOver(f, A) = f[d] + SumOver(f, A \ {d}) /\ SumOver(f, A \ {d}) \in Int
    BY <2>1, SumDrop
  <2>4. SumOver(f, A) = f[d] + SumOver(f, B) /\ SumOver(f, B) \in Int
    BY <2>2, <2>3, Zenon
  <2> QED
    BY <2>4 DEF f, A, B
<1>4. k \in Int
  BY SizeTypes
<1>5. SumOver(TotalSize', SubDirs) = SumOver(TotalSize, SubDirs) + k
  <2> DEFINE f == TotalSize  g == TotalSize'  S == SubDirs  t == topDir[d]
  <2>1. IsFiniteSet(S) /\ t \in S
    BY SizeTypes
  <2>2. \A x \in S : f[x] \in Int /\ g[x] \in Int
    <3>1. total' \in [SubDirs -> Totals]
      BY DEF FrameTypes
    <3>2. \A x \in SubDirs : g[x] \in Int
      BY <3>1 DEF TotalSize, Totals
    <3> QED
      BY <3>2, SizeTypes
  <2>3. \A x \in S \ {t} : f[x] = g[x]
    BY DEF TotalSize
  <2>4. g[t] = f[t] + k
    <3>1. total'[t] = Plus(total[t], tally[d].size, tally[d].count)
      OBVIOUS
    <3>2. Plus(total[t], tally[d].size, tally[d].count).size = total[t].size + tally[d].size
      BY DEF Plus
    <3>3. k = tally[d].size
      BY SizeTypes
    <3>4. f[t] = total[t].size /\ g[t] = total'[t].size
      BY DEF TotalSize
    <3> QED
      BY <3>1, <3>2, <3>3, <3>4, Zenon
  <2> HIDE DEF f, g, S, t, k
  <2>5. SumOver(g, S) = SumOver(f, S) + k
    BY <1>4, <2>1, <2>2, <2>3, <2>4, SumGrow
  <2> QED
    BY <2>5 DEF f, g, S
<1>6. SumOver(TotalSize, SubDirs) \in Int
  BY SizeTypes
<1>7. SumOver(TotalSize', SubDirs) + SumOver(SizeIn, Busy') = SumOver(TotalSize, SubDirs) + SumOver(SizeIn, Busy)
  <2> DEFINE a == SumOver(TotalSize', SubDirs)  b == SumOver(SizeIn, Busy')
             x == SumOver(TotalSize, SubDirs)  y == SumOver(SizeIn, Busy)
  <2>1. a = x + k /\ y = k + b /\ x \in Int /\ b \in Int /\ k \in Int
    BY <1>3, <1>4, <1>5, <1>6
  <2> HIDE DEF a, b, x, y, k
  <2>2. a + b = x + y
    BY <2>1
  <2> QED
    BY <2>2 DEF a, b, x, y
<1> QED
  BY <1>1, <1>2, <1>7, Zenon DEF SizeBalance

LEMMA SizeKeeps ==
  ASSUME ControlInv, SizeInv, [Next]_vars
  PROVE  SizeInv'
<1>0. /\ FrameTypes /\ FrameTypes' /\ Types' /\ tops \subseteq SubDirs
      /\ Busy \subseteq Opened /\ Opened \subseteq SubDirs
  BY ControlKeeps, OpenedFacts DEF ControlInv, Types, FrameTypes
<1>1. /\ \A t \in SubDirs \ tops : total[t] = Zero
      /\ AllFine => linked = TakenInodes /\ SizeBalance
  BY DEF SizeInv
<1>2. ASSUME tops \subseteq tops', \A t \in SubDirs \ tops : total'[t] = total[t],
             AllFine' => AllFine,
             AllFine /\ AllFine' /\ linked = TakenInodes /\ SizeBalance => linked' = TakenInodes' /\ SizeBalance'
      PROVE  SizeInv'
  BY <1>1, <1>2, Zenon DEF SizeInv
<1>3. ASSUME tops \subseteq tops', \A t \in SubDirs : flag'[t] = " " => flag[t] = " "
      PROVE  AllFine' => AllFine
  BY <1>0, <1>3 DEF AllFine
<1>4. ASSUME StillStep PROVE SizeInv'
  <2>1. tops \subseteq tops' /\ total' = total /\ linked' = linked /\ \A t \in SubDirs : flag'[t] = flag[t]
    BY <1>4 DEF StillStep
  <2>2. SizeBalance => SizeBalance' /\ TakenInodes' = TakenInodes
    BY <1>0, <1>4, SizeStays
  <2> QED
    BY <1>2, <1>3, <2>1, <2>2
<1>5. ASSUME NEW d \in SubDirs, NEW e \in SubDirs, Claim(d, e) \/ Call(d, e) PROVE SizeInv'
  <2>1. CountStep(d, e, 0) /\ linked' = linked
    BY <1>0, <1>5, DescendCounts
  <2>2. Taken' = Taken \cup {e} /\ Opened' = Opened /\ UNCHANGED <<total, tops, flag>>
    BY <2>1 DEF CountStep
  <2>3. TakenInodes' = TakenInodes /\ SizeTaken' = SizeTaken
    BY <2>2, DirTaken
  <2>4. ASSUME SizeBalance PROVE SizeBalance'
    <3>1. SizeTaken' = SizeTaken + 0 /\ 0 \in Int
      <4>1. SumOver(TotalSize, SubDirs) \in Int /\ SumOver(SizeIn, Busy) \in Int
        BY <1>0, SizeTypes
      <4>2. SizeTaken \in Int
        <5>1. \A k, m \in Int : k + m \in Int
          OBVIOUS
        <5> QED
          BY <2>4, <4>1, <5>1, Zenon DEF SizeBalance
      <4> QED
        BY <2>3, <4>2
    <3> QED
      BY <1>0, <2>1, <2>4, <3>1, SizeCounted
  <2> QED
    BY <1>2, <1>3, <2>1, <2>2, <2>3, <2>4
<1>6. ASSUME NEW d \in SubDirs, NEW e \in Files, CountFile(d, e) PROVE SizeInv'
  <2> DEFINE n == IF Inode[e] # NoInode /\ Inode[e] \in linked THEN 0 ELSE Bytes[e]
  <2>1. CountStep(d, e, n)
    BY <1>6, FileCounts
  <2>2. Taken' = Taken \cup {e} /\ e \notin Taken /\ Opened' = Opened /\ UNCHANGED <<total, tops, flag>>
    BY <2>1 DEF CountStep
  <2>3. linked' = IF Inode[e] # NoInode THEN linked \cup {Inode[e]} ELSE linked
    BY <1>6 DEF CountFile
  <2>4. n \in Int
    BY BytesAssumption
  <2>5. n = IF Inode[e] # NoInode /\ Inode[e] \in linked THEN 0 ELSE Bytes[e]
    OBVIOUS
  <2> HIDE DEF n
  <2>6. ASSUME linked = TakenInodes, SizeBalance PROVE linked' = TakenInodes' /\ SizeBalance'
    <3>1. linked' = TakenInodes' /\ SizeTaken' = SizeTaken + n
      BY <1>0, <2>2, <2>3, <2>5, <2>6, FileTaken
    <3> QED
      BY <1>0, <2>1, <2>4, <2>6, <3>1, SizeCounted
  <2> QED
    BY <1>2, <1>3, <2>2, <2>6
<1>7. ASSUME NEW d \in SubDirs, NEW e \in Files, FailFile(d, e) PROVE SizeInv'
  <2>1. /\ topDir[d] \in tops /\ UNCHANGED <<total, tops>>
        /\ \A t \in SubDirs : flag'[t] = IF t = topDir[d] THEN "." ELSE flag[t]
    BY <1>7, FailFacts
  <2>2. ~AllFine'
    BY <1>0, <2>1 DEF AllFine
  <2> QED
    BY <1>2, <2>1, <2>2
<1>8. ASSUME NEW d \in SubDirs, OpenDir(d) PROVE SizeInv'
  <2>1. /\ d \notin Opened /\ Opened' = Opened \cup {d} /\ Busy' = Busy \cup {d}
        /\ topDir[d] \in tops
        /\ UNCHANGED <<topDir, total, linked, tops>>
        /\ \A x \in Busy : tally'[x] = tally[x]
        /\ \A t \in SubDirs : flag'[t] = " " => flag[t] = " "
    BY <1>8, OpenDirFacts
  <2>2. ASSUME AllFine'
        PROVE  Taken' = Taken /\ tally'[d].size = IF Children(d) = {} THEN EmptyDirSize ELSE 0
    <3>1. flag'[topDir[d]] = " "
      BY <2>1, <2>2 DEF AllFine
    <3> QED
      BY <1>8, <3>1, OpenDirFacts
  <2>3. ASSUME AllFine', SizeBalance PROVE SizeBalance' /\ TakenInodes' = TakenInodes
    BY <1>0, <2>1, <2>2, <2>3, SizeOpened
  <2> QED
    BY <1>2, <1>3, <2>1, <2>3
<1>9. ASSUME NEW d \in SubDirs, AddUsage(d) PROVE SizeInv'
  <2>1. /\ d \in Busy /\ topDir[d] \in tops /\ topDir[d] \in SubDirs
        /\ Opened' = Opened /\ Busy' = Busy \ {d} /\ Taken' = Taken
        /\ UNCHANGED <<topDir, tally, linked, tops, flag>>
        /\ \A t \in SubDirs : total'[t] = IF t = topDir[d] THEN Plus(total[t], tally[d].size, tally[d].count)
                                           ELSE total[t]
    BY <1>0, <1>9, AddUsageFacts
  <2>2. ASSUME SizeBalance PROVE SizeBalance' /\ TakenInodes' = TakenInodes
    BY <1>0, <2>1, <2>2, SizeAdded
  <2>3. \A t \in SubDirs \ tops : total'[t] = total[t]
    BY <2>1
  <2> QED
    BY <1>2, <1>3, <2>1, <2>2, <2>3
<1>10. CASE Start \/ Main
  BY <1>4, <1>10, MainStill
<1>11. ASSUME NEW d \in SubDirs, Frame(d) PROVE SizeInv'
  <2>1. CASE \/ EndLoop(d) \/ Release(d) \/ Notify(d)
             \/ \E e \in SubDirs : Spawn(d, e)
             \/ \E e \in Entries : SkipEntry(d, e)
    BY <1>4, <2>1, FrameStill
  <2> QED
    BY <1>5, <1>6, <1>7, <1>8, <1>9, <1>11, <2>1 DEF Frame
<1>12. CASE UNCHANGED vars
  <2>1. StillStep
    BY <1>12 DEF vars, StillStep, Opened, Busy, Taken
  <2> QED
    BY <1>4, <2>1
<1> QED
  BY <1>10, <1>11, <1>12 DEF Next

LEMMA SizeStarts == Init => SizeInv
<1> SUFFICES ASSUME Init PROVE SizeInv
  OBVIOUS
<1>1. \A t \in SubDirs : total[t] = Zero
  BY DEF Init
<1>2. Opened = {} /\ Busy = {} /\ Taken = {} /\ linked = {}
  BY DEF Init, Busy, InBody, Taken, Opened, Unopened
<1>3. TakenPlain = {} /\ TakenInodes = {} /\ OpenedEmpty = {}
  BY <1>2 DEF TakenPlain, TakenInodes, OpenedEmpty
<1>4. SumOver(SizeIn, {}) = 0 /\ SumOver(Bytes, {}) = 0 /\ Cardinality({}) = 0 /\ IsFiniteSet({})
  BY FS_EmptySet, SumEquation
<1>5. InodeSize({}) = 0
  BY <1>4, SumEquation DEF InodeSize
<1>6. SumOver(TotalSize, SubDirs) = 0
  <2>1. IsFiniteSet(SubDirs)
    BY SubDirFacts
  <2>2. \A x \in SubDirs : TotalSize[x] = 0
    BY <1>1 DEF TotalSize, Zero
  <2> QED
    BY <2>1, <2>2, SumOfZeros
<1>7. EmptyDirSize * 0 = 0
  BY TopDirAssumption, EmptySizeType
<1>8. 0 + 0 = 0 /\ 0 + 0 + 0 = 0
  OBVIOUS
<1>9. SizeBalance
  BY <1>2, <1>3, <1>4, <1>5, <1>6, <1>7, <1>8, Zenon DEF SizeBalance, SizeTaken
<1> QED
  BY <1>1, <1>2, <1>3, <1>9 DEF SizeInv

\* When nothing runs and no first level is flagged, what was taken is what the
\* reference finds below the first level.
LEMMA TakenIsBelow ==
  ASSUME ControlInv, Settled, AllFine
  PROVE  /\ UNION {Below(t) : t \in tops} = Taken
         /\ tops \cup (Taken \cap Dirs) = Opened
<1>0. FrameTypes /\ ReachedOnce /\ NoneIsLost /\ tops \subseteq SubDirs
  BY DEF ControlInv, Types, FrameTypes
<1>1. \A t \in tops : flag[t] = " " /\ TakenBelow(t) = Below(t)
  <2> TAKE t \in tops
  <2>1. flag[t] = " "
    BY DEF AllFine
  <2> QED
    BY <2>1, TakenBelowIsBelow
<1>2. ASSUME NEW e \in Taken
      PROVE  /\ e \in Entries /\ Parent[e] \in Opened /\ Parent[e] \in SubDirs
             /\ topDir[Parent[e]] = TopOf[e] /\ TopOf[e] \in tops
             /\ e \notin todo[Parent[e]] /\ e \notin Skip
  <2>1. e \in Entries /\ Parent[e] \in Opened /\ e \notin todo[Parent[e]] /\ e \notin Skip
    BY DEF Taken
  <2>2. Parent[e] \in SubDirs /\ frame[Parent[e]] # "idle"
    BY <2>1 DEF Opened, Unopened
  <2>3. Parent[e] # Root
    BY <2>2, SubDirFacts
  <2> QED
    BY <1>0, <2>1, <2>2, <2>3, TopOfEquation DEF ReachedOnce
<1>3. UNION {Below(t) : t \in tops} = Taken
  <2>1. ASSUME NEW e \in Taken PROVE e \in UNION {Below(t) : t \in tops}
    <3>1. e \in TakenBelow(TopOf[e]) /\ TopOf[e] \in tops
      BY <1>2 DEF TakenBelow
    <3> QED
      BY <1>1, <3>1
  <2>2. ASSUME NEW t \in tops, NEW e \in Below(t) PROVE e \in Taken
    BY <1>1 DEF TakenBelow
  <2> QED
    BY <2>1, <2>2
<1>4. ASSUME NEW d \in Opened PROVE d \in tops \cup (Taken \cap Dirs)
  <2>1. d \in SubDirs /\ frame[d] # "idle"
    BY DEF Opened, Unopened
  <2>2. d \in Entries /\ d \in Dirs /\ d \notin Skip
    BY <1>0, <2>1, SubDirFacts, WalkedEquation DEF ReachedOnce
  <2>3. \/ d \in tops
        \/ Parent[d] \in Opened /\ d \notin todo[Parent[d]]
    BY <1>0, <2>1 DEF ReachedOnce
  <2> QED
    BY <2>2, <2>3 DEF Taken
<1>5. ASSUME NEW d \in tops \cup (Taken \cap Dirs) PROVE d \in Opened
  <2>1. d \in SubDirs /\ frame[d] # "idle"
    <3>1. CASE d \in tops
      BY <1>0, <3>1 DEF ReachedOnce
    <3>2. CASE d \in Taken /\ d \in Dirs
      <4>1. d \in SubDirs
        BY <1>2, <3>2, SubDirFacts DEF Entries
      <4> QED
        BY <1>0, <1>1, <1>2, <3>2, <4>1 DEF NoneIsLost
    <3> QED
      BY <3>1, <3>2
  <2> QED
    BY <2>1 DEF Settled, Opened, Unopened
<1> QED
  BY <1>3, <1>4, <1>5

LEMMA TrueSizeIsTaken ==
  ASSUME ControlInv, Settled, AllFine
  PROVE  TrueSize = SizeTaken
<1> DEFINE below == UNION {Below(t) : t \in tops}
           plain == {f \in below \cap Files : Inode[f] = NoInode}
           inodes == {Inode[f] : f \in (below \cap Files) \ plain}
           empty == {d \in tops \cup (below \cap Dirs) : Children(d) = {}}
<1>1. below = Taken
  BY TakenIsBelow
<1>2. plain = TakenPlain
  BY <1>1 DEF TakenPlain
<1>3. inodes = TakenInodes
  BY <1>1, <1>2 DEF TakenInodes
<1>4. empty = OpenedEmpty
  <2>1. tops \cup (below \cap Dirs) = Opened
    BY <1>1, TakenIsBelow
  <2> HIDE DEF below
  <2> QED
    BY <2>1 DEF OpenedEmpty
<1>5. TrueSize = SumOver(Bytes, plain)
                 + SumOver([i \in inodes |-> Bytes[CHOOSE f \in Files : Inode[f] = i]], inodes)
                 + EmptyDirSize * Cardinality(empty)
  BY DEF TrueSize
<1> HIDE DEF below, plain, inodes, empty
<1> QED
  BY <1>2, <1>3, <1>4, <1>5, Zenon DEF SizeTaken, InodeSize

\* What the totals of the first level sum up to is the sum of all totals.
LEMMA SumSizeIsTotal ==
  ASSUME FrameTypes, SizeInv
  PROVE  SumSize = SumOver(TotalSize, SubDirs)
<1> DEFINE f == TotalSize
           g == [t \in tops |-> total[t].size]
           S == tops
           T == SubDirs \ tops
<1>1. IsFiniteSet(S) /\ IsFiniteSet(T) /\ S \cap T = {} /\ S \cup T = SubDirs
  <2>1. S \in SUBSET SubDirs /\ T \in SUBSET SubDirs
    BY DEF FrameTypes
  <2> QED
    BY <2>1, SubDirFacts
<1>2. \A x \in S \cup T : f[x] \in Int
  BY <1>1, SizeTypes
<1>3. \A x \in S : g[x] = f[x]
  BY <1>1, SizeTypes
<1>4. \A x \in T : f[x] = 0
  <2>1. \A x \in T : total[x] = Zero
    BY DEF SizeInv
  <2>2. Zero.size = 0
    BY DEF Zero
  <2> QED
    BY <2>1, <2>2, SizeTypes
<1>5. SumSize = SumOver(g, S)
  BY DEF SumSize
<1> HIDE DEF f, g, S, T
<1>6. SumOver(g, S) = SumOver(f, S)
  BY <1>1, <1>3, SumSame
<1>7. SumOver(f, S \cup T) = SumOver(f, S) + SumOver(f, T)
  BY <1>1, <1>2, SumUnion
<1>8. SumOver(f, T) = 0
  BY <1>1, <1>4, SumOfZeros
<1>9. SumOver(f, S) \in Int
  BY <1>1, <1>2, SumType
<1>10. SumOver(f, S) + 0 = SumOver(f, S)
  BY <1>9, PlusNothing
<1>11. SumOver(f, SubDirs) = SumOver(f, S)
  BY <1>1, <1>7, <1>8, <1>10, Zenon
<1> QED
  BY <1>5, <1>6, <1>11, Zenon DEF f

LEMMA SizesAreTrue ==
  ASSUME ControlInv, SizeInv, Settled, AllFine
  PROVE  SumSize = TrueSize
<1>1. FrameTypes
  BY DEF ControlInv, Types
<1>2. SizeBalance
  BY DEF SizeInv
<1>3. Busy = {}
  BY DEF Settled, Busy, InBody
<1>4. SumOver(SizeIn, {}) = 0
  BY FS_EmptySet, SumEquation
<1>5. SumOver(TotalSize, SubDirs) \in Int
  BY <1>1, SizeTypes
<1>6. SumOver(TotalSize, SubDirs) + 0 = SumOver(TotalSize, SubDirs)
  BY <1>5, PlusNothing
<1>7. SumOver(TotalSize, SubDirs) = SizeTaken
  BY <1>2, <1>3, <1>4, <1>6, Zenon DEF SizeBalance
<1>8. SumSize = SumOver(TotalSize, SubDirs)
  BY <1>1, SumSizeIsTotal
<1>9. TrueSize = SizeTaken
  BY TrueSizeIsTaken
<1> QED
  BY <1>7, <1>8, <1>9, Zenon

\* However the goroutines race for linkedItems, the totals of an unflagged scan
\* hold the size of every file once, of all the links of an inode once, and of
\* every empty directory.
THEOREM InodesAreCounted == Spec => []InodesCountedOnce
<1> DEFINE Inv == ControlInv /\ SizeInv
<1>1. Init => Inv
  BY ControlStarts, SizeStarts
<1>2. Inv /\ [Next]_vars => Inv'
  BY ControlKeeps, SizeKeeps
<1>3. Inv => InodesCountedOnce
  <2> SUFFICES ASSUME ControlInv, SizeInv, Quiet, \A t \in tops : flag[t] = " "
               PROVE  SumSize = TrueSize
    BY DEF InodesCountedOnce
  <2>1. Settled /\ AllFine
    BY DEF Quiet, Settled, AllFine
  <2> QED
    BY <2>1, SizesAreTrue
<1> HIDE DEF Inv
<1> QED
  BY <1>1, <1>2, <1>3, PTL DEF Spec

-----------------------------------------------------------------------------
(* The report *)

\* updateStats sums up what was read, and that is the last step.
LEMMA SummaryKeeps ==
  ASSUME ControlInv, SummaryInv, [Next]_vars
  PROVE  SummaryInv'
<1>0. FrameTypes /\ ReachedOnce
  BY DEF ControlInv, Types
<1>1. CASE UpdateStats
  <2>1. /\ main = "returned" /\ UNCHANGED <<files, tops, reported>>
        /\ summary' = IF files = {} /\ tops = {} THEN EmptyDirSize
                      ELSE SumOver(Bytes, files) + SumOver([t \in tops |-> reported[t].total.size], tops)
    BY <1>1 DEF UpdateStats
  <2>2. ASSUME flag'[Root] = " " PROVE \A t \in tops : reported[t].flag = " "
    <3>1. ASSUME \E t \in tops : reported[t].flag = "." PROVE FALSE
      BY <1>0, <1>1, <2>2, <3>1, SubDirFacts DEF UpdateStats, FrameTypes
    <3>2. DOMAIN reported = tops /\ reported \in [DOMAIN reported -> [total : Totals, flag : {" ", "."}]]
      BY <2>1 DEF ControlInv, Types, MainTypes, MainOrder
    <3>3. \A t \in tops : reported[t].flag \in {" ", "."}
      BY <3>2
    <3> QED
      BY <3>1, <3>3
  <2> QED
    BY <2>1, <2>2, Zenon DEF SummaryInv
<1>2. CASE main' = "summarised" /\ ~UpdateStats
  <2>1. main = "summarised" /\ UNCHANGED <<files, tops, reported, summary>>
        /\ (flag' = flag \/ \E d \in SubDirs : flag' = [flag EXCEPT ![topDir[d]] = "."])
    BY <1>2 DEF Next, Start, Main, EndListing, ReceivedAll, WaitRead, WaitLock, Return, SkipTop, SpawnTop,
         AddTopFile, FailTopFile, TakeTop, ReceiveTop, ReadTop, Frame, OpenDir, EndLoop, AddUsage, Release,
         Notify, Claim, Spawn, Call, Descend, SkipEntry, CountFile, FailFile, FileOf, Take, frameRest, vars
  <2>2. flag'[Root] = " " => flag[Root] = " "
    <3>1. ASSUME NEW x, flag' = [flag EXCEPT ![x] = "."] PROVE flag'[Root] = " " => flag[Root] = " "
      <4>1. flag'[Root] = IF Root = x THEN "." ELSE flag[Root]
        BY <1>0, <3>1, SubDirFacts DEF FrameTypes
      <4> QED
        BY <4>1
    <3> QED
      BY <2>1, <3>1
  <2> QED
    BY <2>1, <2>2, Zenon DEF SummaryInv
<1>3. CASE main' # "summarised"
  BY <1>3 DEF SummaryInv
<1> QED
  BY <1>1, <1>2, <1>3

LEMMA ReportFollows ==
  ASSUME ControlInv, FinalInv, SizeInv, SummaryInv
  PROVE  ReportIsFinal
<1>0. FrameTypes /\ MainOrder
  BY DEF ControlInv, Types
<1>1. ASSUME main \in {"returned", "summarised"}, ~early
      PROVE  Settled /\ \A t \in tops : reported[t] = [total |-> total[t], flag |-> flag[t]]
  BY <1>0, <1>1 DEF FinalInv, PastWait, MainOrder
<1>2. ASSUME main = "summarised", ~early, flag[Root] = " "
      PROVE  summary = IF files = {} /\ tops = {} THEN EmptyDirSize
                       ELSE TrueSize + SumOver(Bytes, files)
  <2> DEFINE read == [t \in tops |-> reported[t].total.size]
             left == [t \in tops |-> total[t].size]
  <2>1. Settled /\ \A t \in tops : reported[t] = [total |-> total[t], flag |-> flag[t]]
    BY <1>1, <1>2
  <2>a. \A t \in tops : reported[t].total = total[t] /\ reported[t].flag = flag[t]
    <3>1. ASSUME NEW r, NEW a, NEW b, r = [total |-> a, flag |-> b]
          PROVE  r.total = a /\ r.flag = b
      BY <3>1
    <3> TAKE t \in tops
    <3>2. reported[t] = [total |-> total[t], flag |-> flag[t]]
      BY <2>1
    <3> QED
      BY <3>1, <3>2, Zenon
  <2>2. AllFine
    <3>1. \A t \in tops : reported[t].flag = " "
      BY <1>2 DEF SummaryInv
    <3> QED
      BY <2>a, <3>1 DEF AllFine
  <2>3. SumSize = TrueSize
    BY <2>1, <2>2, SizesAreTrue
  <2>4. read = left
    <3>1. \A t \in tops : reported[t].total.size = total[t].size
      BY <2>a
    <3> QED
      BY <3>1
  <2>5. SumOver(read, tops) = SumSize
    BY <2>4 DEF SumSize
  <2>6. summary = IF files = {} /\ tops = {} THEN EmptyDirSize ELSE SumOver(Bytes, files) + SumOver(read, tops)
    BY <1>2 DEF SummaryInv
  <2>7. SumOver(Bytes, files) \in Int /\ SumSize \in Int
    <3>0. files \subseteq Files
      BY DEF ControlInv, Types, MainTypes
    <3>1. IsFiniteSet(files) /\ \A f \in files : Bytes[f] \in Int
      BY <3>0, BytesAssumption, FS_Subset
    <3>2. SumSize = SumOver(TotalSize, SubDirs)
      BY <1>0, SumSizeIsTotal
    <3>3. SumOver(TotalSize, SubDirs) \in Int
      BY <1>0, SizeTypes
    <3> QED
      BY <3>1, <3>2, <3>3, SumType
  <2>8. SumOver(Bytes, files) + SumSize = SumSize + SumOver(Bytes, files)
    BY <2>7
  <2> HIDE DEF read
  <2>9. SumOver(Bytes, files) + SumOver(read, tops) = TrueSize + SumOver(Bytes, files)
    BY <2>3, <2>5, <2>8, Zenon
  <2> QED
    BY <2>6, <2>9, Zenon
<1> QED
  BY <1>1, <1>2 DEF ReportIsFinal

\* Unless Wait returned early, the report is that of the walk when it has ended,
\* and the summary of a root that could be read is the true one.
THEOREM ReportsAreFinal == Spec => []ReportIsFinal
<1> DEFINE Inv == ControlInv /\ FinalInv /\ SizeInv /\ SummaryInv
<1>1. Init => Inv
  <2>1. Init => FinalInv /\ SummaryInv
    BY DEF Init, FinalInv, PastWait, SummaryInv
  <2> QED
    BY <2>1, ControlStarts, SizeStarts
<1>2. Inv /\ [Next]_vars => Inv'
  BY ControlKeeps, FinalKeeps, SizeKeeps, SummaryKeeps
<1>3. Inv => ReportIsFinal
  BY ReportFollows
<1> HIDE DEF Inv
<1> QED
  BY <1>1, <1>2, <1>3, PTL DEF Spec
=============================================================================
