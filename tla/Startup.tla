------------------------------ MODULE Startup ------------------------------
(***************************************************************************)
(* App.Run (cmd/gtu/app/app.go): from the flags and the directory arguments  *)
(* to a running interface.  The steps come one after the other, each may     *)
(* stop the program, and some have effects outside it before a later one     *)
(* fails: the output file is truncated, the database removed.                *)
(*                                                                           *)
(* A path is a sequence of names.  Of the flags only those are kept whose    *)
(* effects meet; a flag that only one step reads is chosen in that step.     *)
(***************************************************************************)
EXTENDS Integers, FiniteSets, SequencesExt

CONSTANTS
  ArgLists,  \* the directory arguments, as sequences of absolute paths
  Mounts     \* the mount points on other file systems

VARIABLES
  flags,     \* output file, database, what the analyzer is told
  args,      \* the arguments of this start
  exists,    \* the paths that exist
  at,        \* the step Run is at
  result,    \* "running", "ended", or the step that failed
  paths,     \* what resolvePaths returned
  ui,        \* the interface createUI made
  analyzer,  \* its analyzer: the kind, and what it was told
  ignored,   \* Flags.IgnoreDirs: the mount points added
  dbFile,    \* the database before the start: "old", "removed"
  outFile,   \* the output file before the start: "old", "truncated"
  scanned    \* the paths given to AnalyzePath or AnalyzePaths

startVars == <<flags, args, exists, at, result, paths, ui, analyzer, ignored,
               dbFile, outFile, scanned>>

Flags ==
  [out : BOOLEAN, db : {"none", "badger", "sqlite"}, read : BOOLEAN,
   sequential : BOOLEAN, told : SUBSET {"gitignore", "follow"}, noCross : BOOLEAN]

Init ==
  /\ flags \in Flags
  /\ args \in ArgLists
  /\ exists \in {ToSet(args)} \cup {ToSet(args) \ {p} : p \in ToSet(args)}
  /\ at = "check" /\ result = "running"
  /\ paths = <<>>
  /\ ui = "none" /\ analyzer = [kind |-> "none", told |-> {}]
  /\ ignored = {}
  /\ dbFile = "old" /\ outFile = "old"
  /\ scanned = <<>>

Step(here, next) == at = here /\ result = "running" /\ at' = next /\ UNCHANGED <<flags, args, exists>>
GoesOn == UNCHANGED result
Fails == result' = at

-----------------------------------------------------------------------------
\* --version, --no-prefix with --si, both modes at once, bad output attributes.
Check ==
  /\ Step("check", "resolve")
  /\ result' \in {"running", "ended", at}
  /\ UNCHANGED <<paths, ui, analyzer, ignored, dbFile, outFile, scanned>>

\* isSubPath: filepath.Rel does not lead up.
IsSubPath(path, parent) == IsStrictPrefix(parent, path)

\* Mutant: only neighbours are compared.
AnyNestedNext(ps) == \E i \in 1..(Len(ps) - 1) : IsSubPath(ps[i + 1], ps[i])

AnyNested(ps) == \E i, j \in DOMAIN ps : IsSubPath(ps[i], ps[j])

\* resolvePaths without exact duplicates, and checkMultiPathSupport.
Distinct(ps) ==
  SelectSeq([i \in DOMAIN ps |-> <<i, ps[i]>>], LAMBDA x : \A j \in 1..(x[1] - 1) : ps[j] # x[2])

\* checkMultiPathSupport.
MultiPathRefused(ps) == Len(ps) > 1 /\ (flags.out \/ flags.db # "none")

ResolvePaths ==
  /\ Step("resolve", "createUI")
  /\ LET ps == [i \in DOMAIN Distinct(args) |-> Distinct(args)[i][2]] IN
       /\ paths' = ps
       /\ IF AnyNested(ps) \/ MultiPathRefused(ps) THEN Fails ELSE GoesOn
  /\ UNCHANGED <<ui, analyzer, ignored, dbFile, outFile, scanned>>

\* ShouldRunInNonInteractiveMode; batch stands for the flags that imply it.
NonInteractive(nonInteractive, interactive, tty, batch) ==
  nonInteractive \/ batch \/ (~interactive /\ ~tty)

\* createUI and getOptions: each interface has an analyzer of its own, which is
\* told about .gitignore files at once.  Without --top and --depth the output
\* needs only the first level.
CreateUI ==
  /\ Step("createUI", "database")
  /\ \E web, nonInteractive, interactive, tty, batch \in BOOLEAN :
       ui' = IF web THEN "web" ELSE IF flags.out THEN "export"
             ELSE IF NonInteractive(nonInteractive, interactive, tty, batch) THEN "stdout" ELSE "tui"
  /\ \E kind \in {"default"} \cup (IF ui' = "stdout" THEN {"topdir"} ELSE {}) :
       analyzer' = [kind |-> kind, told |-> flags.told \cap {"gitignore"}]
  /\ \/ GoesOn /\ outFile' = IF ui' = "export" THEN "truncated" ELSE outFile
     \/ ui' = "export" /\ Fails /\ UNCHANGED outFile
  /\ UNCHANGED <<paths, ignored, dbFile, scanned>>

\* "Remove existing db before re-scan", and the analyzer of the database.
Database ==
  /\ Step("database", "analyzer")
  /\ IF flags.db = "none"
     THEN GoesOn /\ UNCHANGED <<analyzer, dbFile>>
     ELSE /\ dbFile' = IF flags.read THEN dbFile ELSE "removed"
          /\ \/ GoesOn /\ analyzer' = [kind |-> flags.db, told |-> {}]
             \/ flags.db = "sqlite" /\ Fails /\ UNCHANGED analyzer
  /\ UNCHANGED <<paths, ui, ignored, outFile, scanned>>

\* --sequential, and what the analyzer is told after that.
Told == flags.told \cap {"follow"}

Analyzer ==
  /\ Step("analyzer", "filters")
  /\ GoesOn
  /\ analyzer' = IF flags.sequential THEN [kind |-> "sequential", told |-> Told]
                 ELSE [analyzer EXCEPT !.told = @ \cup Told]
  /\ UNCHANGED <<paths, ui, ignored, dbFile, outFile, scanned>>

\* GetNestedMountpointsPaths: the mounts below a path, on another file system.
NestedMounts(path) == {m \in Mounts : IsStrictPrefix(path, m)}

\* Time filters, setNoCross for each path, and the ignore rules: a bad date, no
\* mount table, a pattern or a file that cannot be read end the program.
Filters ==
  /\ Step("filters", "run")
  /\ \/ GoesOn /\ ignored' = IF flags.noCross THEN UNION {NestedMounts(p) : p \in ToSet(paths)} ELSE {}
     \/ Fails /\ UNCHANGED ignored
  /\ UNCHANGED <<paths, ui, analyzer, dbFile, outFile, scanned>>

\* stdout's AnalyzePaths: what knows the first level only cannot be part of a
\* tree of several roots, and is replaced.
ForRoots(ps, a) == IF Len(ps) > 1 /\ a.kind = "topdir" THEN [kind |-> "replaced", told |-> {}] ELSE a

\* runAction: list the devices, read an export, or check that every path is
\* there and scan them; it can fail.
RunAction ==
  /\ Step("run", "loop")
  /\ \/ UNCHANGED <<scanned, analyzer>> /\ result' \in {"running", at}
     \/ ToSet(paths) \subseteq exists /\ scanned' = paths /\ analyzer' = ForRoots(paths, analyzer) /\ GoesOn
     \/ ~(ToSet(paths) \subseteq exists) /\ UNCHANGED <<scanned, analyzer>> /\ Fails
  /\ UNCHANGED <<paths, ui, ignored, dbFile, outFile>>

StartUILoop ==
  /\ Step("loop", "loop")
  /\ result' = "ended"
  /\ UNCHANGED <<paths, ui, analyzer, ignored, dbFile, outFile, scanned>>

Next ==
  \/ Check \/ ResolvePaths \/ CreateUI \/ Database \/ Analyzer \/ Filters
  \/ RunAction \/ StartUILoop

Spec == Init /\ [][Next]_startVars

-----------------------------------------------------------------------------
(* Properties *)

TypeOK ==
  /\ result \in {"running", "ended", "check", "resolve", "createUI", "database", "filters", "run"}
  /\ ui \in {"none", "web", "export", "stdout", "tui"}
  /\ analyzer.kind \in {"none", "default", "topdir", "replaced", "badger", "sqlite", "sequential"}
  /\ analyzer.told \subseteq flags.told
  /\ ToSet(paths) \subseteq ToSet(args)
  /\ ignored \subseteq Mounts

\* Nothing is counted twice and nothing is left out: the scanned roots are the
\* arguments, once each, and none lies inside another.
RootsAreDisjoint ==
  scanned # <<>> =>
    /\ ToSet(scanned) = ToSet(args)
    /\ \A i, j \in DOMAIN scanned : i # j => ~IsPrefix(scanned[i], scanned[j])

\* What can only hold one root is never given two.
FilesHaveOneRoot ==
  Len(scanned) > 1 => analyzer.kind \notin {"badger", "sqlite"} /\ dbFile = "old" /\ outFile = "old"

\* A command line that is rejected for its modes or its paths costs no data:
\* neither the database nor the output file has been touched.
RejectedStartIsFree == result \in {"check", "resolve"} => dbFile = "old" /\ outFile = "old"

\* What the user asks of the analyzer is asked of the analyzer that scans,
\* .gitignore files apart when a database or --sequential replaces it, and all
\* apart when the scan of several roots does.
AnalyzerIsTold ==
  scanned # <<>> /\ analyzer.kind # "replaced" =>
    /\ "follow" \in flags.told <=> "follow" \in analyzer.told
    /\ analyzer.kind \in {"default", "topdir"} => analyzer.told = flags.told

\* A scan of several roots is not half a scan: every path is checked before
\* the first is scanned.
AllOrNothing == result \notin {"running", "ended"} => scanned = <<>>

\* With --no-cross, a mount point below any of the roots is ignored.
MountsAreNotCrossed ==
  scanned # <<>> /\ flags.noCross =>
    \A m \in Mounts : (\E p \in ToSet(scanned) : IsStrictPrefix(p, m)) => m \in ignored
=============================================================================
