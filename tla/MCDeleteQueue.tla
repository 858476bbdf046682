--------------------------- MODULE MCDeleteQueue ---------------------------
(* A root with a directory and two files; the directory holds two files.     *)
EXTENDS DeleteQueue

CONSTANTS root, a, b, f, g, x, y, w1, w2

MCDirs == {root, a}
MCFiles == {f, g, x, y}
MCParent == [e \in {a, f, g, x, y} |-> IF e \in {x, y} THEN a ELSE root]
MCSkip == {}
MCBytes == [e \in MCFiles |-> CASE e = f -> 1 [] e = g -> 2 [] e = x -> 4 [] e = y -> 8]
MCRank == [e \in {a, f, g, x, y} |->
             CASE e = a -> 1 [] e = f -> 2 [] e = g -> 3 [] e = x -> 4 [] e = y -> 5]

MCRequests == [background \in BOOLEAN |-> IF background THEN 2 ELSE 3]
OnlyModal == [background \in {FALSE} |-> 3]
OnlyBackground == [background \in {TRUE} |-> 2]

(* The tree of the run that checks both modes: a directory with one file and *)
(* an empty one.                                                             *)
SmallDirs == {root, a, b}
SmallFiles == {x}
SmallParent == [e \in {a, b, x} |-> IF e = x THEN a ELSE root]
SmallBytes == [e \in SmallFiles |-> 1]
SmallRank == [e \in {a, b, x} |-> CASE e = a -> 1 [] e = b -> 2 [] e = x -> 3]
=============================================================================
