---------------------------- MODULE MCWebSession ----------------------------
(* A top directory over a directory with one file and an empty directory.    *)
(* Clients and handlers share only ui.scanning and ui.topDir: they are       *)
(* checked in turn.                                                          *)
EXTENDS WebSession

CONSTANTS root, a, b, x, c1, h1, h2

MCDirs == {root, a, b}
MCFiles == {x}
MCParent == [e \in {a, b, x} |-> IF e = a THEN root ELSE a]
MCBytes == [e \in MCFiles |-> 1]
MCSessions == {[users |-> {c1}, given |-> 1], [users |-> {c1}, given |-> 2],
               [users |-> {h1}, given |-> 2], [users |-> {h1, h2}, given |-> 1]}
=============================================================================
