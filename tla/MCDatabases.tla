---------------------------- MODULE MCDatabases ----------------------------
(***************************************************************************)
(* Databases on a chain of three directories; the two files in the first and *)
(* in the second are links of one inode.  The stored scan skips the files,   *)
(* which it would not look at twice.                                         *)
(***************************************************************************)
EXTENDS Databases

CONSTANTS root, a, b, f, g, h, ino

MCDirs == {root, a, b}
MCFiles == {f, g, h}
MCParent == [e \in {a, b, f, g, h} |->
  CASE e \in {a, g, h} -> root [] e \in {b, f} -> a]
MCBytes == [e \in MCFiles |-> 2]
MCInode == [e \in MCFiles |-> IF e = h THEN NoInode ELSE ino]
MCSqliteSkip == {h}
=============================================================================
