------------------------------- MODULE Trash -------------------------------
(***************************************************************************)
(* Moving items to the trash (pkg/remove/trash.go, trash_command.go).        *)
(* Several deletion workers move items that want the same name; each takes a *)
(* candidate name, reserves it by creating its .trashinfo file exclusively   *)
(* and moves the item to files/, by a rename that replaces nothing or, when  *)
(* the trash is on another device, by a copy.  What a failed move has made   *)
(* is taken back, unless that fails too, which nobody is told.  Another      *)
(* program uses the same trash, with or without reserving names, and the     *)
(* process can end anywhere.                                                 *)
(*                                                                           *)
(* An item is a set of parts, copied and removed one by one.  trash/files is *)
(* a function from names to the owner and the parts of what is there,        *)
(* trash/info one from names to owners.                                      *)
(***************************************************************************)
EXTENDS Integers

CONSTANTS
  Items,     \* the items moved, all with the same base name
  Parts,     \* what each item consists of
  LastName,  \* bound: the candidates of reserveTrashInfo, 10001 in the code
  Tries      \* bound: the retries of MoveItemToTrash, 10001 in the code

VARIABLES
  otherDevice,  \* the trash is on another device: rename gives EXDEV
  source,       \* the parts of each item that are where it was
  files,        \* trash/files: name -> [owner, parts]
  info,         \* trash/info: name -> owner
  tree,         \* the items of the tree in memory
  mover,        \* where MoveItemToTrash is: stage, candidate name, tries
  others,       \* history: the names another program put something at
  taken,        \* history: the items the user's command took away
  unseen,       \* history: items still there that lstat did not see, ...
  unremoved,    \* ... names whose .trashinfo file was not removed: by this process
  ended         \* history: the process ended

trashVars == <<otherDevice, source, files, info, tree, mover, others, taken, unseen, unremoved, ended>>

Names == 1..LastName
Other == "other program"
AtStart == [stage |-> "idle", name |-> 1, try |-> 0]

Init ==
  /\ otherDevice \in BOOLEAN
  /\ source = [i \in Items |-> Parts]
  /\ files = <<>> /\ info = <<>>
  /\ tree = Items
  /\ mover = [i \in Items |-> AtStart]
  /\ others = {}
  /\ taken = {} /\ unseen = {} /\ unremoved = {}
  /\ ended = FALSE

With(f, n, v) == [x \in DOMAIN f \cup {n} |-> IF x = n THEN v ELSE f[x]]
Drop(f, n) == [x \in DOMAIN f \ {n} |-> f[x]]

At(i, stage) == mover[i].stage = stage
Goes(i, stage) == mover' = [mover EXCEPT ![i].stage = stage]
Fails(i) == Goes(i, "failed")

\* The next candidate, or the error that there is none.
NextName(i) ==
  mover' = [mover EXCEPT ![i].stage = IF mover[i].name < LastName THEN "looking" ELSE "failed",
                         ![i].name = IF mover[i].name < LastName THEN @ + 1 ELSE @]

\* The outer loop of MoveItemToTrash, when something had the name already.
Retry(i) ==
  mover' = [mover EXCEPT ![i] = [stage |-> IF @.try < Tries THEN "looking" ELSE "failed",
                                 name |-> 1, try |-> IF @.try < Tries THEN @.try + 1 ELSE @.try]]

-----------------------------------------------------------------------------
(* reserveTrashInfo *)

Begin(i) ==
  /\ At(i, "idle")
  /\ Goes(i, "looking")
  /\ UNCHANGED <<otherDevice, source, files, info, tree, others, taken, unseen, unremoved, ended>>

\* lstat of files/candidate.
Look(i) ==
  /\ At(i, "looking")
  /\ IF mover[i].name \in DOMAIN files THEN NextName(i) ELSE Goes(i, "reserving")
  /\ UNCHANGED <<otherDevice, source, files, info, tree, others, taken, unseen, unremoved, ended>>

\* writeTrashInfo: O_CREATE|O_EXCL.
Reserve(i) ==
  /\ At(i, "reserving")
  /\ IF mover[i].name \in DOMAIN info
     THEN NextName(i) /\ UNCHANGED info
     ELSE Goes(i, "checking") /\ info' = With(info, mover[i].name, i)
  /\ UNCHANGED <<otherDevice, source, files, tree, others, taken, unseen, unremoved, ended>>

\* The removal of a .trashinfo file, whose error is ignored.
RollBack(n) ==
  \/ info' = Drop(info, n) /\ UNCHANGED unremoved
  \/ unremoved' = unremoved \cup {n} /\ UNCHANGED info

\* mkdirAll or lstat fail, or the file when it is opened, written or closed.
ReserveFails(i) ==
  /\ At(i, "reserving")
  /\ Fails(i)
  /\ \/ UNCHANGED <<info, unremoved>>
     \/ /\ mover[i].name \notin DOMAIN info
        /\ info' = With(info, mover[i].name, i)
        /\ unremoved' = unremoved \cup {mover[i].name}
  /\ UNCHANGED <<otherDevice, source, files, tree, others, taken, unseen, ended>>

\* lstat again: an entry without .trashinfo may have the name.
Check(i) ==
  /\ At(i, "checking")
  /\ IF mover[i].name \in DOMAIN files
     THEN NextName(i) /\ RollBack(mover[i].name)
     ELSE Goes(i, "moving") /\ UNCHANGED <<info, unremoved>>
  /\ UNCHANGED <<otherDevice, source, files, tree, others, taken, unseen, ended>>

GiveUp(i) == RollBack(mover[i].name) /\ Fails(i)

CheckFails(i) ==
  /\ At(i, "checking")
  /\ GiveUp(i)
  /\ UNCHANGED <<otherDevice, source, files, tree, others, taken, unseen, ended>>

-----------------------------------------------------------------------------
(* movePath *)

\* renameat2 with RENAME_NOREPLACE, on the same device.
Rename(i) ==
  /\ At(i, "moving") /\ ~otherDevice
  /\ IF mover[i].name \in DOMAIN files
     THEN /\ Retry(i)
          /\ RollBack(mover[i].name)
          /\ UNCHANGED <<source, files>>
     ELSE /\ Goes(i, "moved")
          /\ files' = With(files, mover[i].name, [owner |-> i, parts |-> source[i]])
          /\ source' = [source EXCEPT ![i] = {}]
          /\ UNCHANGED <<info, unremoved>>
  /\ UNCHANGED <<otherDevice, tree, others, taken, unseen, ended>>

RenameFails(i) ==
  /\ At(i, "moving") /\ ~otherDevice
  /\ GiveUp(i)
  /\ UNCHANGED <<otherDevice, source, files, tree, others, taken, unseen, ended>>

\* removeAll(dst) after a copy that failed, whose error is ignored: all of what
\* is there is taken away, or some.
RemoveCopy(n) ==
  \/ files' = Drop(files, n)
  \/ /\ n \in DOMAIN files
     /\ \E left \in SUBSET files[n].parts :
          files' = With(files, n, [owner |-> files[n].owner, parts |-> left])

\* EXDEV comes before the name is looked at: mkdir or O_EXCL find out, and
\* removeAll(dst) takes away what they found.
OpenCopy(i) ==
  /\ At(i, "moving") /\ otherDevice
  /\ IF mover[i].name \in DOMAIN files
     THEN /\ Retry(i)
          /\ RollBack(mover[i].name)
          /\ RemoveCopy(mover[i].name)
     ELSE /\ Goes(i, "copying")
          /\ files' = With(files, mover[i].name, [owner |-> i, parts |-> {}])
          /\ UNCHANGED <<info, unremoved>>
  /\ UNCHANGED <<otherDevice, source, tree, others, taken, unseen, ended>>

CopyPart(i) ==
  /\ At(i, "copying")
  /\ \E p \in source[i] \ files[mover[i].name].parts :
       files' = With(files, mover[i].name, [owner |-> i, parts |-> files[mover[i].name].parts \cup {p}])
  /\ UNCHANGED <<otherDevice, source, info, tree, mover, others, taken, unseen, unremoved, ended>>

\* Before the first part or after some: lstat, an unsupported type, any write.
CopyFails(i) ==
  /\ At(i, "copying") \/ (At(i, "moving") /\ otherDevice)
  /\ RemoveCopy(mover[i].name)
  /\ GiveUp(i)
  /\ UNCHANGED <<otherDevice, source, tree, others, taken, unseen, ended>>

\* Mutant: the source is removed before all of it was copied.
RemoveSourceEarly(i) ==
  /\ At(i, "copying")
  /\ files[mover[i].name].parts # {}
  /\ source' = [source EXCEPT ![i] = {}]
  /\ Goes(i, "moved")
  /\ UNCHANGED <<otherDevice, files, info, tree, others, taken, unseen, unremoved, ended>>

\* removeAll(src), once all of it is copied.
RemoveSource(i) ==
  /\ At(i, "copying")
  /\ source[i] \subseteq files[mover[i].name].parts
  /\ source' = [source EXCEPT ![i] = {}]
  /\ Goes(i, "moved")
  /\ UNCHANGED <<otherDevice, files, info, tree, others, taken, unseen, unremoved, ended>>

\* ... or some of it: the copy stays, and the .trashinfo file is removed.
RemoveSourceFails(i) ==
  /\ At(i, "copying")
  /\ source[i] \subseteq files[mover[i].name].parts
  /\ \E left \in SUBSET source[i] \ {{}} : source' = [source EXCEPT ![i] = left]
  /\ GiveUp(i)
  /\ UNCHANGED <<otherDevice, files, tree, others, taken, unseen, ended>>

\* dir.RemoveFile(item).
UpdateTree(i) ==
  /\ At(i, "moved")
  /\ tree' = tree \ {i}
  /\ Goes(i, "done")
  /\ UNCHANGED <<otherDevice, source, files, info, others, taken, unseen, unremoved, ended>>

-----------------------------------------------------------------------------
(* The rest of the world *)

\* TrashCommand: the user's command takes away the item, some of it or nothing,
\* and may fail besides.  When it succeeds, any error of lstat counts as gone.
Command(i) ==
  /\ At(i, "idle")
  /\ \E left \in SUBSET source[i], succeeds \in BOOLEAN, seen \in BOOLEAN :
       /\ source' = [source EXCEPT ![i] = left]
       /\ tree' = IF succeeds /\ (left = {} \/ ~seen) THEN tree \ {i} ELSE tree
       /\ taken' = IF left = source[i] THEN taken ELSE taken \cup {i}
       /\ unseen' = IF succeeds /\ left # {} /\ ~seen THEN unseen \cup {i} ELSE unseen
  /\ Goes(i, "commanded")
  /\ UNCHANGED <<otherDevice, files, info, others, unremoved, ended>>

\* Another program reserves a name, or puts something at one: a program that
\* knows the rules only at a name it has reserved.
OtherReserves(n) ==
  /\ others = {} /\ \A m \in DOMAIN info : info[m] # Other   \* bound: once
  /\ n \notin DOMAIN info
  /\ info' = With(info, n, Other)
  /\ UNCHANGED <<otherDevice, source, files, tree, mover, others, taken, unseen, unremoved, ended>>

OtherPuts(n) ==
  /\ others = {}     \* bound: once
  /\ n \notin DOMAIN files
  /\ files' = With(files, n, [owner |-> Other, parts |-> {}])
  /\ others' = others \cup {n}
  /\ UNCHANGED <<otherDevice, source, info, tree, mover, taken, unseen, unremoved, ended>>

\* The process ends and is started again; a new scan finds what is there, and
\* an item that is whole may be moved once more.
Stop ==
  /\ ~ended
  /\ ended' = TRUE
  /\ mover' = [i \in Items |-> [AtStart EXCEPT !.stage = IF source[i] = Parts THEN "idle" ELSE "done"]]
  /\ tree' = {i \in Items : source[i] # {}}
  /\ unseen' = {} /\ unremoved' = {}
  /\ UNCHANGED <<otherDevice, source, files, info, others, taken>>

Move(i) ==
  \/ Look(i) \/ Reserve(i) \/ ReserveFails(i) \/ Check(i) \/ CheckFails(i)
  \/ Rename(i) \/ RenameFails(i)
  \/ OpenCopy(i) \/ CopyPart(i) \/ CopyFails(i) \/ RemoveSource(i) \/ RemoveSourceFails(i)
  \/ UpdateTree(i)

Next ==
  \/ \E i \in Items : Begin(i) \/ Move(i) \/ Command(i)
  \/ \E n \in Names : OtherReserves(n) \/ OtherPuts(n)
  \/ Stop

\* A move that was begun goes on.
Spec == Init /\ [][Next]_trashVars /\ \A i \in Items : WF_trashVars(Move(i))

-----------------------------------------------------------------------------
(* Properties *)

TypeOK ==
  /\ \A i \in Items : source[i] \subseteq Parts
  /\ DOMAIN files \subseteq Names
  /\ \A n \in DOMAIN files : files[n].owner \in Items \cup {Other} /\ files[n].parts \subseteq Parts
  /\ DOMAIN info \subseteq Names /\ \A n \in DOMAIN info : info[n] \in Items \cup {Other}
  /\ tree \subseteq Items
  /\ \A i \in Items : mover[i].name \in Names /\ mover[i].try \in 0..Tries

InTrash(i, p) == \E n \in DOMAIN files : files[n].owner = i /\ p \in files[n].parts

\* Whatever fails, whoever interferes and whenever the process ends, every part
\* of an item is where it was or in the trash, unless the user's own command
\* took it away.
NothingLost ==
  \A i \in Items, p \in Parts : i \in taken \/ p \in source[i] \/ InTrash(i, p)

\* An item that was moved can be restored: the .trashinfo file of its name says
\* where it was, and no two items share a name.
MovedCanBeRestored ==
  \A i \in Items :
    At(i, "moved") =>
      LET n == mover[i].name IN
        n \in DOMAIN info /\ info[n] = i /\ n \in DOMAIN files /\ files[n] = [owner |-> i, parts |-> Parts]

\* A .trashinfo file without its entry is left only by a process that ended, or
\* where it could not be removed.
NoOrphanInfo ==
  (\A i \in Items : mover[i].stage \in {"idle", "moved", "done", "failed", "commanded"}) /\ ~ended =>
    \A n \in DOMAIN info \ unremoved : info[n] \in Items => n \in DOMAIN files /\ files[n].owner = info[n]

\* The tree follows the file system: what is off the tree has left its place, or
\* could not be seen there after the user's command, and an item whose move
\* failed is still listed.
TreeFollowsMoves ==
  \A i \in Items :
    /\ i \notin tree => source[i] = {} \/ i \in unseen
    /\ At(i, "failed") => i \in tree

\* On one device nobody's entry is touched, reserved or not.
OthersAreKept ==
  otherDevice \/ \A n \in others : n \in DOMAIN files /\ files[n].owner = Other

\* A move that was begun comes to an end.
MovesEnd ==
  \A i \in Items : At(i, "looking") ~> mover[i].stage \in {"done", "failed", "idle"}
=============================================================================
