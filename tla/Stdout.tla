------------------------------- MODULE Stdout -------------------------------
(***************************************************************************)
(* The non-interactive output (stdout/stdout.go): the goroutine of the       *)
(* command, the one that scans or reads a report, and the one that shows     *)
(* progress on the same output until it is told to stop.                     *)
(*                                                                           *)
(* A single path or a report is worked on by a goroutine of its own; several *)
(* paths one after another by the command's goroutine, which can go on only  *)
(* when a root is done: "job" is both.  That a scan ends is shown elsewhere. *)
(***************************************************************************)
EXTENDS Naturals

CONSTANT MaxPaths

VARIABLES
  asked,    \* what the command is to print
  main,     \* the command's goroutine: "working", "waiting", "printed", "failed"
  root,     \* the number of the root at work, 0 before the first
  roots,    \* the roots to be printed
  job,      \* "none", "analyzing", "updating", "sending", "ended"
  refused,  \* the report could not be read
  updated,  \* the totals of what is to be printed are computed
  done,     \* the roots whose SignalGroup is closed
  signal,   \* updateStatsDone, a channel with room for one
  meter,    \* "none", "starting", "watching", "calculating", "reading", "ended"
  watched,  \* the root whose SignalGroup the meter waits for
  screen    \* who wrote last: "nobody", "meter", "report"

stdoutVars == <<asked, main, root, roots, job, refused, updated, done, signal,
                meter, watched, screen>>

Init ==
  /\ asked \in [kind : {"dirs"}, paths : 1..MaxPaths, showProgress : BOOLEAN]
                 \cup [kind : {"file", "report"}, paths : {1}, showProgress : BOOLEAN]
  /\ main = "working" /\ root = 0 /\ roots = {}
  /\ job = "none" /\ refused = FALSE /\ updated = FALSE /\ done = {} /\ signal = FALSE
  /\ meter = "none" /\ watched = 0 /\ screen = "nobody"

Several == asked.paths > 1

\* AnalyzePath of a regular file.
PrintFile ==
  /\ main = "working" /\ asked.kind = "file"
  /\ main' = "printed" /\ screen' = "report"
  /\ UNCHANGED <<asked, root, roots, job, refused, updated, done, signal, meter, watched>>

\* The goroutines of one root or report; of several roots, with a new SignalGroup
\* (ResetProgress).
StartRoot ==
  /\ main = "working" /\ asked.kind # "file"
  /\ root < asked.paths
  /\ root' = root + 1
  /\ job' = "analyzing"
  /\ signal' = FALSE
  /\ meter' = CASE ~asked.showProgress -> "none"
                [] asked.kind = "report" -> "reading"
                [] OTHER -> "starting"
  /\ main' = "waiting"
  /\ UNCHANGED <<asked, roots, refused, updated, done, watched, screen>>

\* AnalyzeDir closes its SignalGroup and returns.
Analyzed ==
  /\ job = "analyzing" /\ asked.kind = "dirs"
  /\ done' = done \cup {root}
  /\ job' = IF Several THEN "sending" ELSE "updating"
  /\ UNCHANGED <<asked, main, root, roots, refused, updated, signal, meter, watched, screen>>

\* report.ReadAnalysis returns, with an error or with a tree.
ReportRead ==
  /\ job = "analyzing" /\ asked.kind = "report"
  /\ \/ refused' = TRUE /\ job' = "sending"
     \/ job' = "updating" /\ UNCHANGED refused
  /\ UNCHANGED <<asked, main, root, roots, updated, done, signal, meter, watched, screen>>

UpdateStats ==
  /\ job = "updating"
  /\ updated' = TRUE
  /\ job' = "sending"
  /\ UNCHANGED <<asked, main, root, roots, refused, done, signal, meter, watched, screen>>

\* The channel of a scan has room for one signal.
Send ==
  /\ job = "sending"
  /\ IF asked.kind = "dirs" THEN ~signal /\ signal' = TRUE
     ELSE ~asked.showProgress /\ UNCHANGED signal
  /\ job' = "ended"
  /\ UNCHANGED <<asked, main, root, roots, refused, updated, done, meter, watched, screen>>

\* The channel of a report has none: the two goroutines meet.
Meet ==
  /\ job = "sending" /\ meter = "reading"
  /\ job' = "ended" /\ meter' = "ended" /\ screen' = "meter"
  /\ UNCHANGED <<asked, main, root, roots, refused, updated, done, signal, watched>>

\* wait.Wait().
Joined == job = "ended" /\ meter \in {"none", "ended"}

Wait ==
  /\ main = "waiting"
  /\ Joined
  /\ main' = IF refused THEN "failed" ELSE "working"
  /\ roots' = IF refused THEN roots ELSE roots \cup {root}
  /\ UNCHANGED <<asked, root, job, refused, updated, done, signal, meter, watched, screen>>

\* printAnalyzedDir; the virtual root of several gets its totals here.
PrintResult ==
  /\ main = "working" /\ root = asked.paths
  /\ updated' = (updated \/ Several)
  /\ main' = "printed" /\ screen' = "report"
  /\ UNCHANGED <<asked, root, roots, job, refused, done, signal, meter, watched>>

\* updateProgress asks the analyzer for its SignalGroup once.
GetDone ==
  /\ meter = "starting"
  /\ meter' = "watching" /\ watched' = root
  /\ UNCHANGED <<asked, main, root, roots, job, refused, updated, done, signal, screen>>

SeeDone ==
  /\ meter = "watching" /\ watched \in done
  /\ meter' = "calculating" /\ screen' = "meter"
  /\ UNCHANGED <<asked, main, root, roots, job, refused, updated, done, signal, watched>>

SeeStats ==
  /\ meter = "calculating" /\ signal
  /\ signal' = FALSE
  /\ meter' = "ended" /\ screen' = "meter"
  /\ UNCHANGED <<asked, main, root, roots, job, refused, updated, done, watched>>

\* One more turn of the progress line.
Turn ==
  /\ meter \in {"watching", "calculating", "reading"}
  /\ screen' = "meter"
  /\ UNCHANGED <<asked, main, root, roots, job, refused, updated, done, signal, meter, watched>>

Command == PrintFile \/ StartRoot \/ Wait \/ PrintResult
Job == Analyzed \/ ReportRead \/ UpdateStats \/ Send
Meter == GetDone \/ SeeDone \/ SeeStats

Next == Command \/ Job \/ Meter \/ Meet \/ Turn

-----------------------------------------------------------------------------
(* Properties *)

\* A report is printed once nobody else writes, for all of its roots and with
\* their totals; each meter watches the scan that is running.
OutputIsWhole ==
  /\ main = "printed" =>
       /\ screen = "report"
       /\ asked.kind # "file" => updated /\ roots = 1..asked.paths
  /\ meter \in {"watching", "calculating"} => watched = root
=============================================================================
