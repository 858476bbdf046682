--------------------------- MODULE SequentialScan ---------------------------
(***************************************************************************)
(* SequentialAnalyzer (pkg/analyze/sequential.go): one goroutine walks the   *)
(* tree by recursion, with the stack of the .gitignore files on the way.  A  *)
(* directory that has one pushes its patterns for everything below it, and   *)
(* only for that.  The user may cancel between any two entries.              *)
(***************************************************************************)
EXTENDS ScanTree, Gitignore

CONSTANTS
  Name,   \* the name of each entry
  Rules   \* the .gitignore files of some directories, and root's exclude file

VARIABLES
  walker,    \* where AnalyzeDir is
  frames,    \* the calls of processDir: directory, entries left, giStack
  found,     \* Files of the directories linked so far
  troubled,  \* the directories flagged '!'
  halted     \* BaseAnalyzer.cancelled

sequentialVars == <<walker, frames, found, troubled, halted>>

\* The path of an entry below the root.
PathOf[e \in Entries] ==
  Append(IF Parent[e] = Root THEN <<>> ELSE PathOf[Parent[e]], Name[e])

Base(d) == IF d = Root THEN <<>> ELSE PathOf[d]

Top == frames[Len(frames)]
Popped == SubSeq(frames, 1, Len(frames) - 1)

Init ==
  /\ walker = "idle"
  /\ frames = <<>>
  /\ found = [d \in Dirs |-> {}]
  /\ troubled = {}
  /\ halted = FALSE

\* What the rules of a directory add to the stack of its caller.
Pushed(stack, d) ==
  IF d \in DOMAIN Rules THEN Push(stack, Base(d), Merged(Rules[d].own, Rules[d].exclude)) ELSE stack

\* The stack in d, called from the last of the calls `under`.
StackAt(d, under) == Pushed(IF under = <<>> THEN <<>> ELSE Last(under).stack, d)

\* processDir as far as the loop: os.ReadDir, which may fail with a part of the
\* listing, and the patterns of the directory.
Enter(d, under) ==
  /\ \E read \in SUBSET Children(d), broken \in BOOLEAN :
       /\ broken \/ read = Children(d)
       /\ frames' = Append(under, [dir |-> d, left |-> read, stack |-> StackAt(d, under)])
       /\ troubled' = IF broken THEN troubled \cup {d} ELSE troubled
  /\ UNCHANGED <<walker, found, halted>>

Start ==
  /\ walker = "idle"
  /\ walker' = "scanning"
  /\ UNCHANGED <<frames, found, troubled, halted>>

EnterRoot ==
  /\ walker = "scanning"
  /\ frames = <<>>
  /\ Enter(Root, <<>>)

Cancel ==
  /\ walker = "scanning"
  /\ ~halted
  /\ halted' = TRUE
  /\ UNCHANGED <<walker, frames, found, troubled>>

-----------------------------------------------------------------------------
(* The loop takes an entry *)

Ready(e) == frames # <<>> /\ ~halted /\ e \in Top.left
Left(e) == [frames EXCEPT ![Len(frames)].left = @ \ {e}]

Wanted(e) == e \notin Skip /\ ~StackMatch(Top.stack, PathOf[e], e \in Dirs)

Take(e) ==
  /\ Ready(e)
  /\ frames' = Left(e)
  /\ UNCHANGED <<walker, halted>>

SkipEntry(e) ==
  /\ Take(e)
  /\ ~Wanted(e)
  /\ UNCHANGED <<found, troubled>>

FileFails(e) ==
  /\ Take(e)
  /\ e \in Files /\ Wanted(e)
  /\ troubled' = troubled \cup {Top.dir}
  /\ UNCHANGED found

AddFile(e) ==
  /\ Take(e)
  /\ e \in Files /\ Wanted(e)
  /\ found' = [found EXCEPT ![Top.dir] = @ \cup {e}]
  /\ UNCHANGED troubled

Descend(e) ==
  /\ Ready(e)
  /\ e \in Dirs /\ Wanted(e)
  /\ Enter(e, Left(e))

\* Mutant: the caller drops what a cancelled call returns.
ReturnDropping ==
  /\ frames # <<>>
  /\ halted \/ Top.left = {}
  /\ frames' = Popped
  /\ IF Popped = <<>>
     THEN walker' = "returned" /\ UNCHANGED found
     ELSE /\ found' = IF halted THEN found ELSE [found EXCEPT ![Last(Popped).dir] = @ \cup {Top.dir}]
          /\ UNCHANGED walker
  /\ UNCHANGED <<troubled, halted>>

\* processDir returns: the caller links the directory, also after a cancel.
Return ==
  /\ frames # <<>>
  /\ halted \/ Top.left = {}
  /\ frames' = Popped
  /\ IF Popped = <<>>
     THEN walker' = "returned" /\ UNCHANGED found
     ELSE /\ found' = [found EXCEPT ![Last(Popped).dir] = @ \cup {Top.dir}]
          /\ UNCHANGED walker
  /\ UNCHANGED <<troubled, halted>>

Next ==
  \/ Start \/ EnterRoot \/ Cancel \/ Return
  \/ \E e \in Entries : SkipEntry(e) \/ FileFails(e) \/ AddFile(e) \/ Descend(e)

Spec == Init /\ [][Next]_sequentialVars

-----------------------------------------------------------------------------
(* Properties *)

\* What git would not track below the root.
Ignored ==
  LET rules == [base \in {Base(d) : d \in DOMAIN Rules} |->
                  LET d == CHOOSE x \in DOMAIN Rules : Base(x) = base IN Rules[d].exclude \o Rules[d].own]
  IN {e \in Entries : GitIgnores(rules, PathOf[e], e \in Dirs)}

Contract == INSTANCE ScanContract WITH
  Skip <- Skip \cup Ignored,
  phase <- CASE walker = "idle" -> "idle" [] walker = "returned" -> "finished" [] OTHER -> "running",
  linked <- UNION {found[d] : d \in Dirs},
  broken <- troubled,
  cancelled <- halted

\* The stack an entry is looked at with: the rules on the way to it.
StackFor[e \in Entries] == Pushed(IF Parent[e] = Root THEN <<>> ELSE StackFor[Parent[e]], Parent[e])

\* The stack is of git's opinion about every entry that git would look at.
AgreesWithGit ==
  \A e \in Entries \ Skip : Parent[e] \notin Skip \cup Ignored =>
    (StackMatch(StackFor[e], PathOf[e], e \in Dirs) <=> e \in Ignored)

\* The sequential scan keeps the contract of a scan, where what is skipped is
\* what git ignores by the .gitignore files of the directories on the way.
KeepsContract == Contract!Init /\ [][Contract!Next]_(Contract!contractVars)
=============================================================================
