--------------------------- MODULE MCParallelScan ---------------------------
(* A root with two directories, one of them with a nested directory, files   *)
(* at two levels and one ignored directory.                                  *)
EXTENDS ParallelScan

CONSTANTS root, a, b, c, ign, f, g

MCDirs == {root, a, b, c, ign}
MCFiles == {f, g}
MCParent == [e \in {a, b, c, ign, f, g} |->
               CASE e \in {a, b, f} -> root
                 [] e \in {c, g, ign} -> a]
MCSkip == {ign}
=============================================================================
