-------------------------- MODULE WebSessionProofs --------------------------
(***************************************************************************)
(* The DELETE requests of the web interface, for any tree and any number of  *)
(* requests, clients and roots: whatever interleaves, between deletions      *)
(* every directory's size is the sum of its entries', and nothing on disk    *)
(* is missing from the tree.                                                 *)
(*                                                                           *)
(* The argument: only the holder of actionMu changes disk and tree.  While   *)
(* it walks up from the directory of the item it has unlinked, exactly one   *)
(* directory's size is off, the one it comes to next, and by exactly the     *)
(* amount it takes off.  The walk stays right because each directory on it   *)
(* is still listed in the one above: what findNode found stays found when    *)
(* the item is unlinked, for no directory is below itself.                   *)
(***************************************************************************)
EXTENDS WebSession, TreeFacts

Messages == {Nothing, "scanning", "done"}

ScanType ==
  /\ given \in 1..Roots /\ at \in 1..given /\ scanDone \subseteq 1..at
  /\ pc \in {"analyzing", "closing", "finishing", "stating", "sending", "ended"}
  /\ poller \in [1..Roots -> {"absent", "waiting", "ticked", "scanning", "done", "ended"}]
  /\ {scanning, topDir} \subseteq BOOLEAN
  /\ built \in Messages

HubType ==
  /\ last \in Messages
  /\ buffer \in [Clients -> Seq(Messages)]
  /\ \A c \in Clients : Len(buffer[c]) <= Buffer
  /\ conn \in [Clients -> {"away", "greeting", "open"}]
  /\ subs = {c \in Clients : conn[c] # "away"}

\* What a request is doing, by how far it has got.
Removals == [stage : {"waiting", "checking", "removing", "unlinking"}, item : Entries,
             mode : {"permanent", "trash"}]
Subtractions == [stage : {"subtracting"}, item : Entries, amount : Int, dir : Dirs]

RequestType ==
  /\ req \in [Handlers -> {Idle} \cup Removals \cup Subtractions]
  /\ actionMu \in Handlers \cup {Nothing}

LockIsHeld == \A h \in Handlers : req[h].stage \notin {"idle", "waiting"} <=> actionMu = h

TreeType ==
  /\ disk \subseteq Entries
  /\ files \in [Dirs -> SUBSET Entries]
  /\ \A d \in Dirs : files[d] \subseteq Children(d)
  /\ size \in [Dirs -> Int]

OnDiskIsListed == \A e \in disk : e \in files[Parent[e]]

\* The item of a request past its checks is in the tree until it is unlinked,
\* and only what is gone is unlinked; the walk up stays in the tree.
WalkStaysInTree ==
  \A h \in Handlers :
    /\ req[h].stage \in {"removing", "unlinking"} => Found[req[h].item]
    /\ req[h].stage = "unlinking" => req[h].item \notin disk
    /\ req[h].stage = "subtracting" /\ req[h].dir # Root => Found[req[h].dir]

\* What the holder of the lock has still to take off from d.
Pending(d) ==
  IF actionMu \in Handlers /\ req[actionMu].stage = "subtracting" /\ req[actionMu].dir = d
  THEN req[actionMu].amount ELSE 0

SizesAreOffByPending == \A d \in Dirs : size[d] = Total(files, size, d) + Pending(d)

DeleteInv ==
  /\ RequestType /\ LockIsHeld /\ TreeType
  /\ OnDiskIsListed /\ WalkStaysInTree /\ SizesAreOffByPending

\* The inductive invariant.
SessionInv == ScanType /\ HubType /\ DeleteInv

-----------------------------------------------------------------------------
(* Finding a node by its path *)

\* What is found of the tree, and of the tree after a step.
LEMMA FoundEquation ==
  /\ IsFound(files, Found) /\ IsFound(files', Found')
  /\ \A e \in Entries : Found[e] = (e \in files[Parent[e]] /\ (Parent[e] = Root \/ Found[Parent[e]]))
  /\ \A e \in Entries : Found'[e] = (e \in files'[Parent[e]] /\ (Parent[e] = Root \/ Found'[Parent[e]]))
<1>1. Found = CHOOSE f : IsFound(files, f)
  BY DEF Found, IsFound
<1>2. Found' = CHOOSE f : IsFound(files', f)
  BY DEF Found, IsFound
<1>3. IsFound(files, Found) /\ IsFound(files', Found')
  BY <1>1, <1>2, FoundExists
<1>4. \A e \in Entries : Found[e] = (e \in files[Parent[e]] /\ (Parent[e] = Root \/ Found[Parent[e]]))
  BY <1>3 DEF IsFound
<1>5. \A e \in Entries : Found'[e] = (e \in files'[Parent[e]] /\ (Parent[e] = Root \/ Found'[Parent[e]]))
  BY <1>3 DEF IsFound
<1> QED
  BY <1>3, <1>4, <1>5

-----------------------------------------------------------------------------
(* Scan, hub and clients *)

LEMMA Starts ==
  ASSUME Init
  PROVE  SessionInv
<1>1. given \in 1..Roots
  BY SessionAssumption DEF Init
<1>2. ScanType
  <2>1. at \in 1..given /\ scanDone \subseteq 1..at /\ built \in Messages
    BY <1>1, SessionAssumption DEF Init, Messages
  <2>2. poller \in [1..Roots -> {"absent", "waiting", "ticked", "scanning", "done", "ended"}]
    BY DEF Init
  <2>3. /\ pc \in {"analyzing", "closing", "finishing", "stating", "sending", "ended"}
        /\ {scanning, topDir} \subseteq BOOLEAN
    BY DEF Init
  <2> QED
    BY <1>1, <2>1, <2>2, <2>3 DEF ScanType
<1>3. HubType
  BY SessionAssumption DEF Init, HubType, Messages
<1>4. RequestType /\ LockIsHeld /\ WalkStaysInTree
  BY HandlersAssumption DEF Init, RequestType, LockIsHeld, WalkStaysInTree, Idle
<1>5. TreeType /\ OnDiskIsListed
  BY ListingFacts, ScannedSizeEquation DEF Init, TreeType, OnDiskIsListed
<1>6. SizesAreOffByPending
  <2>1. \A d \in Dirs : Pending(d) = 0 /\ size[d] \in Int
    BY <1>5, HandlersAssumption DEF Init, Pending, TreeType
  <2>2. \A d \in Dirs : size[d] = Total(files, size, d)
    BY ScannedTotals DEF Init
  <2> QED
    BY <2>1, <2>2 DEF SizesAreOffByPending
<1> QED
  BY <1>2, <1>3, <1>4, <1>5, <1>6 DEF SessionInv, DeleteInv

\* Whatever leaves disk, tree and requests alone keeps their invariant.
LEMMA NoDeletion ==
  ASSUME DeleteInv, UNCHANGED deleteVars
  PROVE  DeleteInv'
<1>1. Found' = Found
  BY DEF Found, deleteVars
<1> QED
  BY <1>1 DEF DeleteInv, deleteVars, RequestType, LockIsHeld, TreeType, OnDiskIsListed,
              WalkStaysInTree, SizesAreOffByPending, Pending

LEMMA PublishKeeps ==
  ASSUME HubType, NEW msg \in Messages, Publish(msg), conn' = conn
  PROVE  HubType'
<1>1. \A c \in Clients : /\ Append(buffer[c], msg) \in Seq(Messages)
                         /\ Len(Append(buffer[c], msg)) = Len(buffer[c]) + 1
                         /\ Len(buffer[c]) \in Nat
  BY DEF HubType
<1>2. /\ buffer' \in [Clients -> Seq(Messages)]
      /\ \A c \in Clients : Len(buffer'[c]) <= Buffer
  BY <1>1, SessionAssumption DEF HubType, Publish
<1> QED
  BY <1>2 DEF HubType, Publish

LEMMA ScanKeeps ==
  ASSUME ScanType, HubType, Scan
  PROVE  ScanType' /\ HubType' /\ UNCHANGED deleteVars
<1>1. CASE Analyzed
  BY <1>1 DEF Analyzed, ScanType, HubType, hubVars, clientVars
<1>2. CASE Close
  BY <1>2, SessionAssumption DEF Close, ScanType, HubType, hubVars, clientVars
<1>3. CASE Finish
  BY <1>3 DEF Finish, ScanType, HubType, hubVars, clientVars
<1>4. CASE State
  BY <1>4 DEF State, Status, ScanType, HubType, Messages, hubVars, clientVars
<1>5. CASE Send
  <2>1. HubType'
    BY <1>5, PublishKeeps DEF Send, ScanType
  <2> QED
    BY <1>5, <2>1 DEF Send, ScanType
<1> QED
  BY <1>1, <1>2, <1>3, <1>4, <1>5 DEF Scan

LEMMA PollKeeps ==
  ASSUME ScanType, HubType, NEW r \in 1..Roots, Tick(r) \/ Poll(r) \/ PollStop(r)
  PROVE  ScanType' /\ HubType' /\ UNCHANGED deleteVars
<1>1. CASE Tick(r) \/ PollState(r) \/ PollStop(r)
  BY <1>1 DEF Tick, PollState, PollStop, Status, ScanType, HubType, hubVars, clientVars
<1>2. CASE PollSend(r)
  <2>1. HubType'
    BY <1>2, PublishKeeps DEF PollSend, Messages, clientVars
  <2> QED
    BY <1>2, <2>1 DEF PollSend, ScanType
<1> QED
  BY <1>1, <1>2 DEF Poll

LEMMA ClientKeeps ==
  ASSUME ScanType, HubType, NEW c \in Clients, Subscribe(c) \/ Stream(c) \/ Leave(c)
  PROVE  ScanType' /\ HubType' /\ UNCHANGED deleteVars
<1>1. UNCHANGED <<scanVars, deleteVars, last>>
  BY DEF Subscribe, Stream, Greet, Receive, Leave, hubVars
<1>2. ASSUME Subscribe(c) PROVE HubType'
  BY <1>2, SessionAssumption DEF Subscribe, HubType
<1>3. ASSUME Greet(c) PROVE HubType'
  BY <1>3 DEF Greet, HubType, hubVars
<1>4. ASSUME Receive(c) PROVE HubType'
  <2>1. Tail(buffer[c]) \in Seq(Messages) /\ Len(Tail(buffer[c])) <= Buffer
    BY <1>4, SessionAssumption DEF Receive, HubType
  <2> QED
    BY <1>4, <2>1 DEF Receive, HubType
<1>5. ASSUME Leave(c) PROVE HubType'
  BY <1>5, SessionAssumption DEF Leave, HubType
<1> QED
  BY <1>1, <1>2, <1>3, <1>4, <1>5 DEF Stream, ScanType, scanVars

-----------------------------------------------------------------------------
(* Requests *)

\* A request without the lock changes only its own record.
LEMMA WaitingKeeps ==
  ASSUME DeleteInv, NEW h \in Handlers, NEW e \in Entries, NEW mode \in {"permanent", "trash"},
         Request(h, e, mode)
  PROVE  DeleteInv'
<1>1. /\ req' = [req EXCEPT ![h] = [stage |-> "waiting", item |-> e, mode |-> mode]]
      /\ UNCHANGED <<disk, files, size, actionMu>>
      /\ req[h].stage = "idle"
  BY DEF Request, Idle
<1>2. [stage |-> "waiting", item |-> e, mode |-> mode] \in Removals
  BY DEF Removals
<1>3. RequestType'
  BY <1>1, <1>2 DEF DeleteInv, RequestType
<1>4. /\ req'[h].stage = "waiting"
      /\ \A i \in Handlers : i # h => req'[i] = req[i]
  BY <1>1 DEF DeleteInv, RequestType
<1>5. LockIsHeld' /\ actionMu # h
  BY <1>1, <1>4 DEF DeleteInv, LockIsHeld
<1>6. Found' = Found
  BY <1>1 DEF Found
<1>7. TreeType' /\ OnDiskIsListed' /\ WalkStaysInTree'
  BY <1>1, <1>4, <1>6 DEF DeleteInv, TreeType, OnDiskIsListed, WalkStaysInTree
<1>8. \A d \in Dirs : Pending(d)' = Pending(d)
  BY <1>1, <1>4, <1>5 DEF Pending
<1> QED
  BY <1>1, <1>3, <1>5, <1>7, <1>8 DEF DeleteInv, SizesAreOffByPending

\* The holder of the lock, or the one who takes it, changes its own record; no
\* other request is past the lock.
LEMMA HolderSteps ==
  ASSUME DeleteInv, NEW h \in Handlers, actionMu \in {h, Nothing},
         NEW r \in {Idle} \cup Removals \cup Subtractions, req' = [req EXCEPT ![h] = r],
         actionMu' = IF r.stage = "idle" THEN Nothing ELSE h, r.stage # "waiting"
  PROVE  /\ RequestType' /\ LockIsHeld'
         /\ req'[h] = r
         /\ \A i \in Handlers : i # h => req'[i] = req[i] /\ req'[i].stage \in {"idle", "waiting"}
<1>1. RequestType' /\ req'[h] = r /\ \A i \in Handlers : i # h => req'[i] = req[i]
  BY DEF DeleteInv, RequestType
<1>2. \A i \in Handlers : i # h => actionMu # i /\ req[i].stage \in {"idle", "waiting"}
  BY HandlersAssumption DEF DeleteInv, LockIsHeld
<1>3. \A i \in Handlers : req'[i].stage \notin {"idle", "waiting"} <=> actionMu' = i
  BY <1>1, <1>2, HandlersAssumption
<1> QED
  BY <1>1, <1>2, <1>3 DEF LockIsHeld

\* A step of the holder that leaves tree and sizes alone, before it subtracts.
LEMMA HolderKeeps ==
  ASSUME DeleteInv, NEW h \in Handlers, actionMu \in {h, Nothing}, req[h].stage # "subtracting",
         NEW r \in {Idle} \cup Removals, req' = [req EXCEPT ![h] = r],
         actionMu' = IF r.stage = "idle" THEN Nothing ELSE h, r.stage # "waiting",
         disk' \subseteq disk, UNCHANGED <<files, size>>,
         r.stage \in {"removing", "unlinking"} => Found[r.item],
         r.stage = "unlinking" => r.item \notin disk'
  PROVE  DeleteInv'
<1>1. /\ RequestType' /\ LockIsHeld'
      /\ req'[h] = r
      /\ \A i \in Handlers : i # h => req'[i] = req[i] /\ req'[i].stage \in {"idle", "waiting"}
  BY HolderSteps
<1>2. Found' = Found
  BY DEF Found
<1>3. TreeType' /\ OnDiskIsListed'
  BY DEF DeleteInv, TreeType, OnDiskIsListed
<1>4. r.stage # "subtracting"
  BY DEF Idle, Removals
<1>5. WalkStaysInTree'
  BY <1>1, <1>2, <1>4 DEF WalkStaysInTree
<1>6. \A d \in Dirs : Pending(d) = 0 /\ Pending(d)' = 0
  BY <1>1, <1>4, HandlersAssumption DEF Pending
<1> QED
  BY <1>1, <1>3, <1>5, <1>6 DEF DeleteInv, SizesAreOffByPending

LEMMA Answers == ASSUME NEW h \in Handlers, Answer(h)
                 PROVE  req' = [req EXCEPT ![h] = Idle] /\ actionMu' = Nothing /\ Idle.stage = "idle"
  BY DEF Answer, Idle

\* A request that is not subtracting moves on by its stage.
LEMMA Advances ==
  ASSUME DeleteInv, NEW h \in Handlers, NEW s \in {"checking", "removing", "unlinking"},
         req[h].stage \in {"waiting", "checking", "removing"},
         req' = [req EXCEPT ![h].stage = s]
  PROVE  \E r \in Removals : /\ req' = [req EXCEPT ![h] = r]
                             /\ r.stage = s /\ r.item = req[h].item /\ r.item \in Entries
<1>1. req[h] \in Removals
  BY DEF DeleteInv, RequestType, Idle, Subtractions
<1> DEFINE r == [req[h] EXCEPT !.stage = s]
<1>2. r \in Removals /\ r.stage = s /\ r.item = req[h].item /\ r.item \in Entries
  BY <1>1 DEF Removals
<1>3. req' = [req EXCEPT ![h] = r]
  OBVIOUS
<1> QED
  BY <1>2, <1>3

LEMMA EnterKeeps ==
  ASSUME DeleteInv, NEW h \in Handlers, Enter(h)
  PROVE  DeleteInv'
<1>1. PICK r \in Removals : req' = [req EXCEPT ![h] = r] /\ r.stage = "checking"
  BY Advances DEF Enter
<1> QED
  BY <1>1, HolderKeeps DEF Enter

LEMMA HolderIs ==
  ASSUME DeleteInv, NEW h \in Handlers, req[h].stage \notin {"idle", "waiting"}
  PROVE  actionMu = h
  BY DEF DeleteInv, LockIsHeld

LEMMA CheckKeeps ==
  ASSUME DeleteInv, NEW h \in Handlers, Check(h)
  PROVE  DeleteInv'
<1>1. req[h].stage = "checking" /\ actionMu = h /\ UNCHANGED <<disk, files, size>>
  BY HolderIs DEF Check
<1>2. CASE Acceptable(req[h].item)
  <2>1. PICK r \in Removals : /\ req' = [req EXCEPT ![h] = r]
                              /\ r.stage = "removing" /\ r.item = req[h].item
    BY <1>1, <1>2, Advances DEF Check
  <2>2. Found[r.item]
    BY <1>2, <2>1 DEF Acceptable
  <2> QED
    BY <1>1, <1>2, <2>1, <2>2, HolderKeeps DEF Check
<1>3. CASE ~Acceptable(req[h].item)
  BY <1>1, <1>3, Answers, HolderKeeps DEF Check
<1> QED
  BY <1>2, <1>3

LEMMA RemoveKeeps ==
  ASSUME DeleteInv, NEW h \in Handlers, Remove(h)
  PROVE  DeleteInv'
<1>1. /\ req[h].stage = "removing" /\ actionMu = h /\ Found[req[h].item]
      /\ UNCHANGED <<files, size, actionMu>>
  BY HolderIs DEF Remove, DeleteInv, WalkStaysInTree
<1>2. PICK r \in Removals : /\ req' = [req EXCEPT ![h] = r]
                            /\ r.stage = "unlinking" /\ r.item = req[h].item /\ r.item \in Entries
  BY <1>1, Advances DEF Remove
<1>3. disk' \subseteq disk /\ r.item \notin disk'
  BY <1>2, SubtreeFacts DEF Remove
<1> QED
  BY <1>1, <1>2, <1>3, HolderKeeps

LEMMA FailKeeps ==
  ASSUME DeleteInv, NEW h \in Handlers, Fail(h)
  PROVE  DeleteInv'
<1>1. /\ req[h].stage = "removing" /\ actionMu = h
      /\ disk' \subseteq disk /\ UNCHANGED <<files, size>>
  BY HolderIs DEF Fail, FailOnDisk
<1> QED
  BY <1>1, Answers, HolderKeeps DEF Fail

\* The item leaves the tree; its directory's size is off by what it had.
LEMMA UnlinkKeeps ==
  ASSUME DeleteInv, NEW h \in Handlers, Unlink(h)
  PROVE  DeleteInv'
<1> DEFINE item == req[h].item
           r == [stage |-> "subtracting", item |-> item, amount |-> SizeOf(item),
                 dir |-> Parent[item]]
<1>1. /\ req[h].stage = "unlinking" /\ actionMu = h
      /\ req[h] \in Removals /\ item \in Entries /\ Parent[item] \in Dirs
      /\ Found[item] /\ item \notin disk
  <2>1. req[h].stage = "unlinking"
    BY DEF Unlink
  <2>2. req[h] \in Removals
    BY <2>1 DEF DeleteInv, RequestType, Idle, Subtractions
  <2>3. item \in Entries /\ Parent[item] \in Dirs
    BY <2>2, ListingFacts DEF Removals
  <2> QED
    BY <2>1, <2>2, <2>3, HolderIs DEF DeleteInv, WalkStaysInTree
<1>2. /\ files' = [files EXCEPT ![Parent[item]] = @ \ {item}]
      /\ req' = [req EXCEPT ![h] = r]
      /\ UNCHANGED <<disk, size, actionMu>>
  BY DEF Unlink
<1>3. SizeOf(item) \in Int
  BY <1>1, BytesAssumption DEF SizeOf, DeleteInv, TreeType, Entries
<1>4. r \in Subtractions
  BY <1>1, <1>3 DEF Subtractions
<1>5. item \in files[Parent[item]]
  BY <1>1, FoundEquation
<1>6. r.dir = Parent[item] /\ r.amount = SizeOf(item) /\ r.stage = "subtracting"
  OBVIOUS
<1> HIDE DEF r
<1>7. /\ RequestType' /\ LockIsHeld'
      /\ req'[h] = r
      /\ \A i \in Handlers : i # h => req'[i] = req[i] /\ req'[i].stage \in {"idle", "waiting"}
  BY <1>1, <1>2, <1>4, <1>6, HolderSteps
<1>8. TreeType' /\ OnDiskIsListed'
  BY <1>1, <1>2 DEF DeleteInv, TreeType, OnDiskIsListed
<1>9. Parent[item] = Root \/ Found'[Parent[item]]
  BY <1>1, <1>2, FoundEquation, FoundWithoutItem DEF DeleteInv, TreeType
<1>10. WalkStaysInTree'
  BY <1>6, <1>7, <1>9 DEF WalkStaysInTree
<1>11. SizesAreOffByPending'
  <2> SUFFICES ASSUME NEW d \in Dirs PROVE size'[d] = Total(files', size', d) + Pending(d)'
    BY DEF SizesAreOffByPending
  <2>1. Pending(d) = 0
    BY <1>1 DEF Pending
  <2>2. Pending(d)' = IF d = Parent[item] THEN SizeOf(item) ELSE 0
    BY <1>1, <1>2, <1>6, <1>7 DEF Pending
  <2>3. Total(files', size', d) =
          Total(files, size, d) - IF d = Parent[item] THEN SizeOf(item) ELSE 0
    <3>1. Listings(files) /\ size \in [Dirs -> Int]
      BY DEF DeleteInv, TreeType, Listings
    <3>2. Total([files EXCEPT ![Parent[item]] = @ \ {item}], size, d) =
            Total(files, size, d) - IF d = Parent[item]
                                    THEN IF item \in Files THEN Bytes[item] ELSE size[item] ELSE 0
      BY <1>1, <1>5, <3>1, TotalUnlink
    <3> QED
      BY <1>2, <3>2 DEF SizeOf
  <2>4. size'[d] = Total(files, size, d) + Pending(d) /\ Total(files, size, d) \in Int
    <3>1. Listings(files) /\ size \in [Dirs -> Int]
      BY DEF DeleteInv, TreeType, Listings
    <3> QED
      BY <1>2, <3>1, TotalType DEF DeleteInv, SizesAreOffByPending
  <2> QED
    BY <1>3, <2>1, <2>2, <2>3, <2>4
<1> QED
  BY <1>7, <1>8, <1>10, <1>11 DEF DeleteInv

\* One directory's size is corrected; the one above it is off now.
LEMMA SubtractKeeps ==
  ASSUME DeleteInv, NEW h \in Handlers, Subtract(h)
  PROVE  DeleteInv'
<1> DEFINE dir == req[h].dir
           amount == req[h].amount
           r == IF dir = Root THEN Idle ELSE [req[h] EXCEPT !.dir = Parent[dir]]
<1>1. /\ req[h].stage = "subtracting" /\ actionMu = h
      /\ req[h] \in Subtractions /\ dir \in Dirs /\ amount \in Int
      /\ dir # Root => Found[dir]
  <2>1. req[h].stage = "subtracting"
    BY DEF Subtract
  <2>2. req[h] \in Subtractions
    BY <2>1 DEF DeleteInv, RequestType, Idle, Removals
  <2> QED
    BY <2>1, <2>2, HolderIs DEF DeleteInv, WalkStaysInTree, Subtractions
<1>2. dir # Root => dir \in Entries /\ Parent[dir] \in Dirs
  BY <1>1, ListingFacts
<1>3. dir # Root => dir \in files[Parent[dir]] /\ (Parent[dir] = Root \/ Found[Parent[dir]])
  BY <1>1, <1>2, FoundEquation
<1>4. /\ size' = [size EXCEPT ![dir] = @ - amount]
      /\ UNCHANGED <<disk, files>>
      /\ req' = [req EXCEPT ![h] = r]
      /\ actionMu' = IF dir = Root THEN Nothing ELSE h
  BY <1>1 DEF Subtract, Answer
<1>5. /\ r \in {Idle} \cup Subtractions
      /\ dir = Root => r.stage = "idle"
      /\ dir # Root => r.stage = "subtracting" /\ r.dir = Parent[dir] /\ r.amount = amount
  BY <1>1, <1>2 DEF Subtractions, Idle
<1> HIDE DEF r
<1>6. /\ RequestType' /\ LockIsHeld'
      /\ req'[h] = r
      /\ \A i \in Handlers : i # h => req'[i] = req[i] /\ req'[i].stage \in {"idle", "waiting"}
  BY <1>1, <1>4, <1>5, HolderSteps
<1>7. Found' = Found
  BY <1>4 DEF Found
<1>8. TreeType' /\ OnDiskIsListed'
  BY <1>1, <1>4 DEF DeleteInv, TreeType, OnDiskIsListed
<1>9. WalkStaysInTree'
  BY <1>3, <1>5, <1>6, <1>7 DEF WalkStaysInTree
<1>10. SizesAreOffByPending'
  <2> SUFFICES ASSUME NEW d \in Dirs PROVE size'[d] = Total(files', size', d) + Pending(d)'
    BY DEF SizesAreOffByPending
  <2>0. Listings(files) /\ size \in [Dirs -> Int]
    BY DEF DeleteInv, TreeType, Listings
  <2>1. Pending(d) = IF d = dir THEN amount ELSE 0
    BY <1>1 DEF Pending
  <2>2. Pending(d)' = IF dir # Root /\ d = Parent[dir] THEN amount ELSE 0
    BY <1>1, <1>4, <1>5, <1>6, HandlersAssumption DEF Pending
  <2>3. Total(files', size', d) =
          Total(files, size, d) - IF dir # Root /\ d = Parent[dir] THEN amount ELSE 0
    BY <1>1, <1>3, <1>4, <2>0, TotalSubtract
  <2>4. size[d] = Total(files, size, d) + Pending(d) /\ Total(files, size, d) \in Int
    BY <2>0, TotalType DEF DeleteInv, SizesAreOffByPending
  <2>5. size'[d] = size[d] - IF d = dir THEN amount ELSE 0
    BY <1>1, <1>4, <2>0
  <2> QED
    BY <1>1, <2>1, <2>2, <2>3, <2>4, <2>5
<1> QED
  BY <1>6, <1>8, <1>9, <1>10 DEF DeleteInv

-----------------------------------------------------------------------------
(* The theorems *)

LEMMA StepKeeps ==
  ASSUME SessionInv, [Next]_vars
  PROVE  SessionInv'
<1>1. CASE Scan \/ (\E r \in 1..Roots : Tick(r) \/ Poll(r) \/ PollStop(r))
  BY <1>1, ScanKeeps, PollKeeps, NoDeletion DEF SessionInv
<1>2. CASE \E c \in Clients : Subscribe(c) \/ Stream(c) \/ Leave(c)
  BY <1>2, ClientKeeps, NoDeletion DEF SessionInv
<1>3. ASSUME NEW h \in Handlers, Enter(h) \/ Handle(h)
      PROVE  SessionInv'
  <2>1. DeleteInv'
    BY <1>3, EnterKeeps, CheckKeeps, RemoveKeeps, FailKeeps, UnlinkKeeps, SubtractKeeps
       DEF Handle, SessionInv
  <2>2. UNCHANGED handlerRest
    BY <1>3 DEF Enter, Handle, Check, Remove, Fail, Unlink, Subtract
  <2>3. ScanType' /\ HubType'
    BY <2>2 DEF handlerRest, scanVars, hubVars, clientVars, SessionInv, ScanType, HubType
  <2> QED
    BY <2>1, <2>3 DEF SessionInv
<1>4. ASSUME NEW h \in Handlers, NEW e \in Entries, NEW mode \in {"permanent", "trash"},
             Request(h, e, mode)
      PROVE  SessionInv'
  <2>1. DeleteInv'
    BY <1>4, WaitingKeeps DEF SessionInv
  <2>2. ScanType' /\ HubType'
    BY <1>4 DEF Request, handlerRest, scanVars, hubVars, clientVars, SessionInv, ScanType, HubType
  <2> QED
    BY <2>1, <2>2 DEF SessionInv
<1>5. CASE UNCHANGED vars
  <2>1. DeleteInv'
    BY <1>5, NoDeletion DEF SessionInv, vars
  <2>2. ScanType' /\ HubType'
    BY <1>5 DEF vars, scanVars, hubVars, clientVars, SessionInv, ScanType, HubType
  <2> QED
    BY <2>1, <2>2 DEF SessionInv
<1> QED
  BY <1>1, <1>2, <1>3, <1>4, <1>5 DEF Next

\* Scan, hub, clients and requests keep their types; only the holder of
\* actionMu is past it; it walks up a tree that lists what it walks; and no
\* size is off but the one it comes to next (webui/handlers.go, hub.go).
THEOREM SessionIsSound == Spec => []SessionInv
<1>1. Init => SessionInv
  BY Starts
<1>2. SessionInv /\ [Next]_vars => SessionInv'
  BY StepKeeps
<1> QED
  BY <1>1, <1>2, PTL DEF Spec

\* handleDeleteNode and Dir.RemoveFile: with any number of requests for any
\* items of any tree, every directory's size is the sum of its entries', and
\* 512 more if the scan found it empty, whenever no deletion is under way.
THEOREM SizesHold == Spec => []SizesAreSums
<1>1. ASSUME SessionInv PROVE SizesAreSums
  <2>1. ASSUME actionMu = Nothing, NEW d \in Dirs
        PROVE  size[d] = EmptySize(d) + SumOver([e \in files[d] |-> SizeOf(e)], files[d])
    <3>1. size[d] = Total(files, size, d) + Pending(d)
      BY <1>1 DEF SessionInv, DeleteInv, SizesAreOffByPending
    <3>2. Pending(d) = 0
      BY <2>1, HandlersAssumption DEF Pending
    <3>3. Total(files, size, d) \in Int
      BY <1>1, TotalType DEF SessionInv, DeleteInv, TreeType, Listings
    <3>4. Total(files, size, d) = EmptySize(d) + SumOver([e \in files[d] |-> SizeOf(e)], files[d])
      BY DEF Total, Listed, SizeOf
    <3> QED
      BY <3>1, <3>2, <3>3, <3>4
  <2> QED
    BY <2>1 DEF SizesAreSums
<1>2. SessionInv => SizesAreSums
  BY <1>1
<1> QED
  BY <1>2, SessionIsSound, PTL

\* Whatever is on disk is in the tree, also after removals that failed half-way
\* and while requests for an item and its directory wait for each other.
THEOREM NothingIsHidden == Spec => []NothingHidden
<1>1. ASSUME SessionInv PROVE NothingHidden
  <2>1. TypeOK
    BY <1>1 DEF SessionInv, ScanType, HubType, DeleteInv, RequestType, TreeType, LockIsHeld,
                TypeOK, Messages
  <2> QED
    BY <1>1, <2>1 DEF SessionInv, DeleteInv, OnDiskIsListed, NothingHidden
<1>2. SessionInv => NothingHidden
  BY <1>1
<1> QED
  BY <1>2, SessionIsSound, PTL
=============================================================================
