---------------------------- MODULE MCTopDirScan ----------------------------
(* Two first-level directories, a and b, and two files beside them, one      *)
(* skipped.  Below a, c holds a nested, empty directory; below b, d holds a  *)
(* file that is skipped.  A file of c and a file of b are links of one       *)
(* inode.                                                                    *)
EXTENDS TopDirScan

CONSTANTS root, a, b, c, d, n, f, g, h, s, t, ino

MCDirs == {root, a, b, c, d, n}
MCFiles == {f, g, h, s, t}
MCParent == [e \in {a, b, c, d, n, f, g, h, s, t} |->
               CASE e \in {a, b, f, t} -> root
                 [] e = c -> a
                 [] e \in {d, h} -> b
                 [] e \in {g, n} -> c
                 [] e = s -> d]
MCSkip == {s, t}
MCBytes == [e \in MCFiles |-> CASE e = f -> 1 [] e \in {g, h} -> 2 [] e \in {s, t} -> 4]
MCInode == [e \in MCFiles |-> IF e \in {g, h} THEN ino ELSE NoInode]
=============================================================================
