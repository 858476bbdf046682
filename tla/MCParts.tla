------------------------------ MODULE MCParts ------------------------------
(***************************************************************************)
(* Parts, each on a small instance.                                          *)
(*                                                                           *)
(* One tree for all: top has a, b and the file g, a has f and k, b has c,    *)
(* and c has h.  f, g and h have the same name; f and h are one inode.  The  *)
(* concurrent scans have a single slot, and skip some entries, but not the   *)
(* chain of b and c that a single slot could block on.                       *)
(***************************************************************************)
EXTENDS Parts

CONSTANTS top, a, b, c, f, g, h, k, ino

MCDirs == {top, a, b, c}
MCFiles == {f, g, h, k}
MCParent == [e \in {a, b, c, f, g, h, k} |->
  CASE e \in {a, b, g} -> top [] e \in {f, k} -> a [] e = c -> b [] e = h -> c]
MCBytes == [e \in MCFiles |-> CASE e = g -> 1 [] e = k -> 3 [] OTHER -> 2]
MCInode == [e \in MCFiles |-> IF e \in {f, h} THEN ino ELSE NoInode]

MCName == [e \in {a, b, c, f, g, h, k} |->
  CASE e = a -> "a" [] e = b -> "b" [] e = c -> "c" [] e \in {f, g, h} -> "f" [] e = k -> "k"]
Line(glob) == [glob |-> glob, lead |-> FALSE, dirOnly |-> FALSE, negate |-> FALSE]
\* Files of the name f are ignored, but not below b; whatever is called k in a
\* directory of the root is, by .git/info/exclude.
MCRules == [d \in {top, b} |->
  IF d = top THEN [own |-> <<Line(<<"f">>)>>, exclude |-> <<[Line(<<"*", "k">>) EXCEPT !.lead = TRUE]>>]
  ELSE [own |-> <<[Line(<<"f">>) EXCEPT !.negate = TRUE]>>, exclude |-> <<>>]]

MCPlace == [e \in {a, b, c, f, g, h, k} |->
  CASE e \in {a, c, f, h} -> 1 [] e \in {b, k} -> 2 [] e = g -> 3]

MCArgs == {<<<<"a">>>>, <<<<"a">>, <<"b">>, <<"a">>>>, <<<<"a">>, <<"b">>, <<"a", "c">>>>,
           <<<<"b">>, <<"a", "c">>>>}
MCMounts == {<<"a", "c", "m">>, <<"b", "n">>, <<"c">>}

MCParallelSkip == {f, g, h, k}
MCStableSkip == {a, k, h}
MCPreviewSkip == {f, g, k}

-----------------------------------------------------------------------------
(* The inputs of the filters *)

Globs == {<<"d">>, <<"f">>, <<"*">>, <<"d", "f">>, <<"**", "f">>, <<"d", "**">>}
\* A line that takes something back names files.
Lines ==
  {l \in [glob : Globs, lead : BOOLEAN, dirOnly : BOOLEAN, negate : BOOLEAN] :
     l.negate => ~l.dirOnly /\ Last(l.glob) = "f"}
MCGitInputs ==
  {[base \in {<<>>} |-> <<l, m>>] : l, m \in Lines}
    \cup {[base \in {<<>>, <<"d">>} |-> IF base = <<>> THEN <<l>> ELSE <<m>>] : l, m \in Lines}
MCGitPaths == {<<"f">>, <<"d", "f">>, <<"d", "d", "f">>, <<"d", "e", "f">>, <<"e", "f">>}
MCUnit == [u \in {"h", "d"} |-> IF u = "h" THEN 1 ELSE 4]
MCModTimes == 0..12
Pair(value, unit) == [value |-> value, unit |-> unit]
Ages == {<<>>, <<<<Pair(2, "h")>>>>, <<<<Pair(1, "d"), Pair(3, "h")>>>>, <<<<Pair(9, "d")>>>>}
Bounds == {<<>>, <<Filter!Instant(5)>>, <<Filter!Date(1)>>}
MCTimeInputs == [since : Bounds, until : Bounds, maxAge : Ages, minAge : Ages]
=============================================================================
