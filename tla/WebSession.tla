----------------------------- MODULE WebSession -----------------------------
(***************************************************************************)
(* The web interface (webui/): a goroutine scans the roots while a poller    *)
(* per root publishes the scan's status to a hub; browsers subscribe to the  *)
(* hub's messages over Server-Sent Events; and DELETE requests, each in a     *)
(* goroutine of its own, remove items from disk and tree once the tree is     *)
(* there.                                                                    *)
(*                                                                           *)
(* A message is reduced to the state it reports.  Requests that are refused  *)
(* whatever the scan does (no local client, no token, deletion disabled, a    *)
(* path outside the root, inside an archive or relocated on disk) change      *)
(* nothing and are left out.                                                 *)
(***************************************************************************)
EXTENDS TreeSizes, Sequences

CONSTANTS
  Roots,      \* how many paths the program is given at most
  Clients,    \* the browsers
  Buffer,     \* the capacity of a subscriber's channel (8 in the code)
  Handlers,   \* DELETE requests at the same time
  Sessions    \* bound: which of these take part together, and with how many paths

ASSUME SessionAssumption ==
  /\ Roots \in Nat \ {0} /\ Buffer \in Nat \ {0}
  /\ Sessions \subseteq [users : SUBSET (Clients \cup Handlers), given : 1..Roots]

Nothing == "none"     \* no message, no handler

ASSUME HandlersAssumption == Nothing \notin Handlers

VARIABLES
  users,      \* the clients and handlers of this session
  given,      \* how many paths the program was given
  pc,         \* where the scanning goroutine is
  at,         \* the root it is at
  scanDone,   \* the roots whose channel scanDone is closed
  poller,     \* the poller of each root
  scanning,   \* ui.scanning
  topDir,     \* ui.topDir is not nil
  built,      \* the last message of the scanning goroutine
  subs,       \* hub.subs
  buffer,     \* the channel of each subscriber
  last,       \* hub.last
  conn,       \* where each client's handleEvents is
  got,        \* hub.last as subscribe returned it
  told,       \* the state each client was told last
  owed,       \* history: clients connected, with room, at the scan's last message
              \* that have not been told yet
  disk,       \* what exists in the file system
  files,      \* Dir.Files
  size,       \* Dir.Size
  actionMu,   \* the handler that holds ui.actionMu
  req         \* what each DELETE request is doing

scanVars == <<users, given, pc, at, scanDone, poller, scanning, topDir, built>>
hubVars == <<subs, buffer, last>>
clientVars == <<conn, got, told, owed>>
deleteVars == <<disk, files, size, actionMu, req>>
vars == <<scanVars, hubVars, clientVars, deleteVars>>

Idle == [stage |-> "idle"]

\* AnalyzePath(s) has been called; then StartUILoop serves.
Init ==
  /\ \E s \in Sessions : users = s.users /\ given = s.given
  /\ pc = "analyzing" /\ at = 1 /\ scanDone = {}
  /\ poller = [r \in 1..Roots |-> IF r = 1 THEN "waiting" ELSE "absent"]
  /\ scanning = TRUE /\ topDir = FALSE /\ built = Nothing
  /\ subs = {} /\ buffer = [c \in Clients |-> <<>>] /\ last = Nothing
  /\ conn = [c \in Clients |-> "away"]
  /\ got = [c \in Clients |-> Nothing] /\ told = got
  /\ owed = {}
  /\ disk = Entries
  /\ files = [d \in Dirs |-> Children(d)]
  /\ size = ScannedSize
  /\ actionMu = Nothing
  /\ req = [h \in Handlers |-> Idle]

-----------------------------------------------------------------------------
(* The hub *)

\* Mutant: a message reaches only the subscribers that have read all others.
PublishUnbuffered(msg) ==
  /\ last' = msg
  /\ buffer' = [c \in Clients |-> IF c \in subs /\ buffer[c] = <<>> THEN <<msg>> ELSE buffer[c]]
  /\ UNCHANGED subs

\* publish: a subscriber whose channel is full does not get the message.
Publish(msg) ==
  /\ last' = msg
  /\ buffer' = [c \in Clients |-> IF c \in subs /\ Len(buffer[c]) < Buffer
                                  THEN Append(buffer[c], msg) ELSE buffer[c]]
  /\ UNCHANGED subs

\* buildStatus, under one read lock.
Status == IF scanning \/ ~topDir THEN "scanning" ELSE "done"

-----------------------------------------------------------------------------
(* The scanning goroutine of AnalyzePath (one root) or AnalyzePaths *)

\* AnalyzeDir returns.
Analyzed ==
  /\ pc = "analyzing"
  /\ pc' = IF given = 1 THEN "finishing" ELSE "closing"
  /\ UNCHANGED <<users, given, at, scanDone, poller, scanning, topDir, built, hubVars,
                 clientVars, deleteVars>>

\* Mutant: with several roots only the last poller is told to stop.
CloseLast ==
  /\ pc = "closing"
  /\ scanDone' = IF at = given THEN scanDone \cup {at} ELSE scanDone
  /\ IF at < given
     THEN /\ at' = at + 1
          /\ poller' = [poller EXCEPT ![at + 1] = "waiting"]
          /\ pc' = "analyzing"
     ELSE /\ pc' = IF given = 1 THEN "stating" ELSE "finishing"
          /\ UNCHANGED <<at, poller>>
  /\ UNCHANGED <<users, given, scanning, topDir, built, hubVars, clientVars, deleteVars>>

\* close(scanDone); then the next root with its poller, or the end.
Close ==
  /\ pc = "closing"
  /\ scanDone' = scanDone \cup {at}
  /\ IF at < given
     THEN /\ at' = at + 1
          /\ poller' = [poller EXCEPT ![at + 1] = "waiting"]
          /\ pc' = "analyzing"
     ELSE /\ pc' = IF given = 1 THEN "stating" ELSE "finishing"
          /\ UNCHANGED <<at, poller>>
  /\ UNCHANGED <<users, given, scanning, topDir, built, hubVars, clientVars, deleteVars>>

\* The totals are computed; tree and flag change under one lock.  A single
\* root's poller is stopped only now.
Finish ==
  /\ pc = "finishing"
  /\ topDir' = TRUE
  /\ scanning' = FALSE
  /\ pc' = IF given = 1 THEN "closing" ELSE "stating"
  /\ UNCHANGED <<users, given, at, scanDone, poller, built, hubVars, clientVars, deleteVars>>

\* statusJSON() ...
State ==
  /\ pc = "stating"
  /\ built' = Status
  /\ pc' = "sending"
  /\ UNCHANGED <<users, given, at, scanDone, poller, scanning, topDir, hubVars, clientVars,
                 deleteVars>>

\* ... and the last publish of this goroutine.
Send ==
  /\ pc = "sending"
  /\ Publish(built)
  /\ owed' = {c \in Clients : conn[c] # "away" /\ Len(buffer[c]) < Buffer}
  /\ pc' = "ended"
  /\ UNCHANGED <<users, given, at, scanDone, poller, scanning, topDir, built, conn, got, told,
                 deleteVars>>

-----------------------------------------------------------------------------
(* pollProgress, one per root *)

\* The ticker fires, maybe when scanDone is closed as well: select picks either.
Tick(r) ==
  /\ poller[r] = "waiting"
  /\ poller' = [poller EXCEPT ![r] = "ticked"]
  /\ UNCHANGED <<users, given, pc, at, scanDone, scanning, topDir, built, hubVars, clientVars,
                 deleteVars>>

\* The status is read, after the progress was written under another lock.
PollState(r) ==
  /\ poller[r] = "ticked"
  /\ poller' = [poller EXCEPT ![r] = Status]
  /\ UNCHANGED <<users, given, pc, at, scanDone, scanning, topDir, built, hubVars, clientVars,
                 deleteVars>>

PollSend(r) ==
  /\ poller[r] \in {"scanning", "done"}
  /\ Publish(poller[r])
  /\ poller' = [poller EXCEPT ![r] = "waiting"]
  /\ UNCHANGED <<users, given, pc, at, scanDone, scanning, topDir, built, clientVars, deleteVars>>

PollStop(r) ==
  /\ poller[r] = "waiting" /\ r \in scanDone
  /\ poller' = [poller EXCEPT ![r] = "ended"]
  /\ UNCHANGED <<users, given, pc, at, scanDone, scanning, topDir, built, hubVars, clientVars,
                 deleteVars>>

-----------------------------------------------------------------------------
(* handleEvents *)

Subscribe(c) ==
  /\ c \in users /\ conn[c] = "away"
  /\ subs' = subs \cup {c}
  /\ buffer' = [buffer EXCEPT ![c] = <<>>]
  /\ got' = [got EXCEPT ![c] = last]
  /\ conn' = [conn EXCEPT ![c] = "greeting"]
  /\ UNCHANGED <<last, told, owed, scanVars, deleteVars>>

\* The current state at once: the last message, or the status if there is none.
Greet(c) ==
  /\ conn[c] = "greeting"
  /\ told' = [told EXCEPT ![c] = IF got[c] = Nothing THEN Status ELSE got[c]]
  /\ conn' = [conn EXCEPT ![c] = "open"]
  /\ UNCHANGED <<got, owed, scanVars, hubVars, deleteVars>>

Receive(c) ==
  /\ conn[c] = "open" /\ buffer[c] # <<>>
  /\ told' = [told EXCEPT ![c] = Head(buffer[c])]
  /\ buffer' = [buffer EXCEPT ![c] = Tail(@)]
  /\ owed' = IF told'[c] = "done" THEN owed \ {c} ELSE owed
  /\ UNCHANGED <<subs, last, conn, got, scanVars, deleteVars>>

\* The client goes away, at any moment of the loop; it may come back.
Leave(c) ==
  /\ conn[c] = "open"
  /\ conn' = [conn EXCEPT ![c] = "away"]
  /\ subs' = subs \ {c}
  /\ buffer' = [buffer EXCEPT ![c] = <<>>]
  /\ got' = [got EXCEPT ![c] = Nothing]
  /\ told' = [told EXCEPT ![c] = Nothing]
  /\ owed' = owed \ {c}
  /\ UNCHANGED <<last, scanVars, deleteVars>>

-----------------------------------------------------------------------------
(* handleDeleteNode *)

handlerRest == <<scanVars, hubVars, clientVars>>

\* Some page's idea of a path: the item may be gone already.
Request(h, e, mode) ==
  /\ h \in users /\ req[h] = Idle
  /\ req' = [req EXCEPT ![h] = [stage |-> "waiting", item |-> e, mode |-> mode]]
  /\ UNCHANGED <<disk, files, size, actionMu, handlerRest>>

\* Mutant: nothing keeps two deletions apart.
EnterAnyway(h) ==
  /\ req[h].stage = "waiting"
  /\ actionMu' = h
  /\ req' = [req EXCEPT ![h].stage = "checking"]
  /\ UNCHANGED <<disk, files, size, handlerRest>>

\* ui.actionMu.Lock()
Enter(h) ==
  /\ req[h].stage = "waiting" /\ actionMu = Nothing
  /\ actionMu' = h
  /\ req' = [req EXCEPT ![h].stage = "checking"]
  /\ UNCHANGED <<disk, files, size, handlerRest>>

\* The answer is sent, the deferred Unlock runs.
Answer(h) ==
  /\ req' = [req EXCEPT ![h] = Idle]
  /\ actionMu' = Nothing

\* findNode: descend by name from ui.topDir.
Found[e \in Entries] ==
  e \in files[Parent[e]] /\ (Parent[e] = Root \/ Found[Parent[e]])

\* A scanned root is the top directory or, with several, an entry of the
\* virtual one above them.
ScannedRoot(e) == given > 1 /\ Parent[e] = Root

Acceptable(e) == ~scanning /\ topDir /\ Found[e] /\ ~ScannedRoot(e)

\* The checks, from the flags to the node.  ui.scanning only ever turns FALSE,
\* together with the tree, and only the holder of actionMu changes the tree.
Check(h) ==
  /\ req[h].stage = "checking"
  /\ IF Acceptable(req[h].item)
     THEN req' = [req EXCEPT ![h].stage = "removing"] /\ UNCHANGED actionMu
     ELSE Answer(h)
  /\ UNCHANGED <<disk, files, size, handlerRest>>

\* os.RemoveAll, or the move to the trash.
Remove(h) ==
  /\ req[h].stage = "removing"
  /\ req[h].mode = "trash" => req[h].item \in disk
  /\ disk' = disk \ SubtreeOf[req[h].item]
  /\ req' = [req EXCEPT ![h].stage = "unlinking"]
  /\ UNCHANGED <<files, size, actionMu, handlerRest>>

FailOnDisk(h) ==
  /\ req[h].stage = "removing"
  /\ req[h].mode # "trash" => req[h].item \in disk
  /\ \E gone \in PartsOf(req[h].item, disk) : disk' = disk \ gone

\* Mutant: the lock is kept when the removal fails.
FailLocked(h) ==
  /\ FailOnDisk(h)
  /\ req' = [req EXCEPT ![h] = Idle]
  /\ UNCHANGED <<files, size, actionMu, handlerRest>>

\* Mutant: the item leaves the tree although its removal failed.
FailUnlinking(h) ==
  /\ FailOnDisk(h)
  /\ req' = [req EXCEPT ![h].stage = "unlinking"]
  /\ UNCHANGED <<files, size, actionMu, handlerRest>>

\* The removal fails: an error is answered, the tree stays as it is.
Fail(h) ==
  /\ FailOnDisk(h)
  /\ Answer(h)
  /\ UNCHANGED <<files, size, handlerRest>>

SizeOf(e) == IF e \in Files THEN Bytes[e] ELSE size[e]

\* Dir.RemoveFile: unlinked under the directory's lock, the totals read ...
Unlink(h) ==
  LET item == req[h].item
  IN  /\ req[h].stage = "unlinking"
      /\ files' = [files EXCEPT ![Parent[item]] = @ \ {item}]
      /\ req' = [req EXCEPT ![h] = [stage |-> "subtracting", item |-> item,
                                    amount |-> SizeOf(item), dir |-> Parent[item]]]
      /\ UNCHANGED <<disk, size, actionMu, handlerRest>>

\* ... and subtracted from one directory after the other, up to the root.
Subtract(h) ==
  LET dir == req[h].dir
  IN  /\ req[h].stage = "subtracting"
      /\ size' = [size EXCEPT ![dir] = @ - req[h].amount]
      /\ IF dir = Root THEN Answer(h)
         ELSE req' = [req EXCEPT ![h].dir = Parent[dir]] /\ UNCHANGED actionMu
      /\ UNCHANGED <<disk, files, handlerRest>>

-----------------------------------------------------------------------------
Scan == Analyzed \/ Close \/ Finish \/ State \/ Send

Poll(r) == PollState(r) \/ PollSend(r)

Stream(c) == Greet(c) \/ Receive(c)

Handle(h) == Check(h) \/ Remove(h) \/ Fail(h) \/ Unlink(h) \/ Subtract(h)

Next ==
  \/ Scan
  \/ \E r \in 1..Roots : Tick(r) \/ Poll(r) \/ PollStop(r)
  \/ \E c \in Clients : Subscribe(c) \/ Stream(c) \/ Leave(c)
  \/ \E h \in Handlers : Enter(h) \/ Handle(h)
  \/ \E h \in Handlers, e \in Entries, mode \in {"permanent", "trash"} : Request(h, e, mode)

\* Goroutines run.  Go's select chooses at random among the ready cases, so a
\* poller does not pick its ticker for ever; a mutex is not withheld for ever
\* from a waiting goroutine.
Spec ==
  /\ Init /\ [][Next]_vars
  /\ WF_vars(Scan)
  /\ \A r \in 1..Roots : WF_vars(Poll(r)) /\ SF_vars(PollStop(r))
  /\ \A c \in Clients : WF_vars(Stream(c))
  /\ \A h \in Handlers : SF_vars(Enter(h)) /\ WF_vars(Handle(h))

-----------------------------------------------------------------------------
(* Properties *)

\* The variables keep their types; a client is subscribed as long as its
\* request lasts, and whoever is past the lock holds it.
TypeOK ==
  /\ given \in 1..Roots /\ at \in 1..given /\ scanDone \subseteq 1..at
  /\ pc \in {"analyzing", "closing", "finishing", "stating", "sending", "ended"}
  /\ poller \in [1..Roots -> {"absent", "waiting", "ticked", "scanning", "done", "ended"}]
  /\ {scanning, topDir} \subseteq BOOLEAN
  /\ {built, last} \subseteq {Nothing, "scanning", "done"}
  /\ \A c \in Clients : Len(buffer[c]) <= Buffer
  /\ subs = {c \in Clients : conn[c] # "away"}
  /\ disk \subseteq Entries
  /\ files \in [Dirs -> SUBSET Entries]
  /\ \A h \in Handlers : req[h].stage \notin {"idle", "waiting"} <=> actionMu = h

\* hub.go: "The most recent message is retained so newly connected clients get
\* the current state at once": when the scan and its pollers have come to rest,
\* the retained message reports the state the server is in.
LastIsCurrent ==
  pc = "ended" /\ (\A r \in 1..given : poller[r] = "ended") => last = Status

\* A client that was connected and keeping up when the scan ended is told so,
\* or leaves.
EndIsTold == \A c \in Clients : c \in owed ~> c \notin owed

\* No poller outlives the scan for ever, whichever root it was started for.
PollersEnd == pc = "ended" ~> \A r \in 1..given : poller[r] = "ended"

\* handleDeleteNode, findNode: two requests for one item or for an item and its
\* directory take its size off once; between deletions every size is the sum of
\* the entries' (512 more for what the scan found empty), also after removals
\* that failed.
SizesAreSums ==
  actionMu = Nothing =>
    \A d \in Dirs : size[d] = EmptySize(d) + SumOver([e \in files[d] |-> SizeOf(e)], files[d])

\* The variables keep their types, and what is on disk is in the tree.
NothingHidden == TypeOK /\ \A e \in disk : e \in files[Parent[e]]

\* Every DELETE request is answered: refused, failed or done.
RequestsAreAnswered == \A h \in Handlers : req[h].stage # "idle" ~> req[h].stage = "idle"
=============================================================================
