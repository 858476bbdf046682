----------------------------- MODULE Gitignore -----------------------------
(***************************************************************************)
(* pkg/gitignore: the patterns of one .gitignore file, and the stack of      *)
(* those on the way to a directory.  A path is a sequence of names; a glob   *)
(* is a sequence of names, "*" (any name) and "**" (any names).  A line is   *)
(* [glob, lead, dirOnly, negate], where lead is a leading slash; globs       *)
(* inside a name are left out.                                               *)
(***************************************************************************)
EXTENDS Integers, SequencesExt

\* buildRegex: anchored with a slash at the start or inside.
Anchored(line) == line.lead \/ Len(line.glob) > 1

\* LoadFromFile: what compilePattern rejects is left out.
Compiled(lines) == SelectSeq(lines, LAMBDA l : l.glob # <<>>)

\* The whole of path fits the glob.
Fits(glob, path) ==
  LET fits[i \in 0..Len(glob), j \in 0..Len(path)] ==
        IF i = 0 THEN j = 0
        ELSE IF glob[i] = "**" THEN \E k \in 0..j : (i = Len(glob) => k < j) /\ fits[i - 1, k]
        ELSE j > 0 /\ glob[i] \in {"*", path[j]} /\ fits[i - 1, j - 1]
  IN fits[Len(glob), Len(path)]

\* The expression also accepts everything below what fits.
Accepts(line, path) ==
  \E last \in DOMAIN path : \E first \in (IF Anchored(line) THEN {1} ELSE 1..last) :
    Fits(line.glob, SubSeq(path, first, last))

\* A pattern for directories only: a file has to be inside of one.
Hits(line, path, isDir) ==
  IF line.dirOnly /\ ~isDir THEN Len(path) > 1 /\ Accepts(line, Front(path)) ELSE Accepts(line, path)

\* MatchWithNegation: the last pattern that hits, if any.
Verdict(lines, path, isDir) ==
  LET hits == {i \in DOMAIN lines : Hits(lines[i], path, isDir)} IN
    IF hits = {} THEN "none" ELSE IF lines[Max(hits)].negate THEN "keep" ELSE "ignore"

\* MergeFromDirWithEntries: .git/info/exclude after .gitignore.
Merged(own, exclude) == Compiled(own) \o Compiled(exclude)

\* Stack.Push
Push(stack, base, lines) ==
  IF lines = <<>> THEN stack ELSE Append(stack, [base |-> base, lines |-> lines])

Below(base, path) == SubSeq(path, Len(base) + 1, Len(path))

\* Mutant: the first matcher that has an opinion decides.
StackFirst(stack, path, isDir) ==
  LET Said(m) == IF IsStrictPrefix(m.base, path) THEN Verdict(m.lines, Below(m.base, path), isDir) ELSE "none"
      says == {i \in DOMAIN stack : Said(stack[i]) # "none"}
  IN says # {} /\ Said(stack[Min(says)]) = "ignore"

\* Stack.Match: the last matcher that has an opinion decides.
StackMatch(stack, path, isDir) ==
  LET Said(m) == IF IsStrictPrefix(m.base, path) THEN Verdict(m.lines, Below(m.base, path), isDir) ELSE "none"
      says == {i \in DOMAIN stack : Said(stack[i]) # "none"}
  IN says # {} /\ Said(stack[Max(says)]) = "ignore"

-----------------------------------------------------------------------------
(* What git does, for reference: a pattern fits an entry, not what is below  *)
(* it; an ignored directory is not entered; and .git/info/exclude comes      *)
(* before any .gitignore.                                                    *)

GitFits(line, path, isDir) ==
  /\ line.dirOnly => isDir
  /\ Fits(line.glob, IF Anchored(line) THEN path ELSE <<Last(path)>>)

\* rules: the lines of each directory that has some, by the directory's path.
GitRejects(rules, path, isDir) ==
  LET Said(base) ==
        LET lines == Compiled(rules[base])
            hits == {i \in DOMAIN lines : GitFits(lines[i], Below(base, path), isDir)}
        IN IF hits = {} THEN "none" ELSE IF lines[Max(hits)].negate THEN "keep" ELSE "ignore"
      says == {base \in DOMAIN rules : IsStrictPrefix(base, path) /\ Said(base) # "none"}
  IN says # {} /\ \E base \in says :
       Said(base) = "ignore" /\ \A other \in says : Len(other) <= Len(base)

GitIgnores(rules, path, isDir) ==
  \E n \in DOMAIN path : GitRejects(rules, SubSeq(path, 1, n), n < Len(path) \/ isDir)

\* What an analyzer leaves out that asks the stack for every entry on the way.
WalkIgnores(rules, path, isDir) ==
  \E n \in DOMAIN path :
    LET here == SubSeq(path, 1, n)
        stack == [i \in 1..n |-> SubSeq(path, 1, i - 1)]
        pushed == FoldLeft(LAMBDA s, base : IF base \in DOMAIN rules
                                              THEN Push(s, base, Compiled(rules[base])) ELSE s,
                           <<>>, stack)
    IN StackMatch(pushed, here, n < Len(path) \/ isDir)
=============================================================================
