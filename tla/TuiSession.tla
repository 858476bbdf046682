----------------------------- MODULE TuiSession -----------------------------
(***************************************************************************)
(* Scanning from the terminal interface (tui/actions.go, tui/tui.go,        *)
(* tui/keys.go): a goroutine scans one root after another with the same      *)
(* analyzer, resetting it before each, while the interface thread can stop   *)
(* the scan, preview the tree found so far, ask to quit, or quit.  The       *)
(* finished tree reaches the interface in a closure the goroutine queues     *)
(* for the interface thread.                                                 *)
(*                                                                           *)
(* The analyzer is reduced to what ParallelScan shows of it: it publishes    *)
(* its root, lets workers open directories until there are none left or it is *)
(* cancelled, and returns.  A worker asks whether the scan is cancelled and    *)
(* opens its directory in two steps; AnalyzeDir opens the root without asking. *)
(***************************************************************************)
EXTENDS Integers, Sequences

CONSTANTS
  Roots,      \* how many paths the program is given
  RootDirs,   \* how many directories each of them is, itself included
  MaxScans    \* bound: scans in a session

ASSUME SessionAssumption == Roots \in Nat \ {0} /\ RootDirs \in Nat \ {0} /\ MaxScans \in Nat

VARIABLES
  pc,             \* where the scanning goroutine is
  given,          \* how many roots this scan has
  root,           \* the one it is at
  left,           \* directories of that root not opened yet
  entering,       \* workers that found the scan not cancelled and are about to open one
  published,      \* BaseAnalyzer.currentDir is not nil
  cancelled,      \* BaseAnalyzer.cancelled
  roots,          \* the roots scanned so far: whether each was completed
  scanning,       \* ui.scanning
  scanCancelled,  \* ui.scanCancelled
  requested,      \* ui.scanCancelRequested
  storing,        \* the interface thread is inside cancelScan
  previewing,     \* ui.previewing
  currentDir,     \* ui.currentDir
  savedDir,       \* ui.previewSavedDir
  progressPage,   \* the page "progress" is up
  dialog,         \* the page "confirm" is up, asking whether to quit
  elapsed,        \* the running scan has taken confirmQuitMinScanDuration
  longest,        \* ui.scanDuration has
  app,            \* "running" or "quit"
  scans,          \* scans started
  extra           \* history: roots started since the user asked to stop

goVars == <<pc, given, root, left, entering, published, roots, scans, extra>>
stopVars == <<cancelled, scanCancelled, requested, storing>>
viewVars == <<previewing, currentDir, savedDir, progressPage>>
quitVars == <<dialog, longest, app>>
vars == <<goVars, stopVars, viewVars, quitVars, scanning, elapsed>>

\* ui.currentDir: nothing yet, a preview, or the result of the n-th scan.
NoDir == 0
Preview == -1

Init ==
  /\ pc = "idle" /\ given = 0 /\ root = 0 /\ left = 0 /\ entering = 0 /\ roots = <<>> /\ scans = 0 /\ extra = 0
  /\ published = FALSE /\ cancelled = FALSE
  /\ scanning = FALSE /\ scanCancelled = FALSE /\ requested = FALSE /\ storing = FALSE
  /\ previewing = FALSE /\ currentDir = NoDir /\ savedDir = NoDir
  /\ progressPage = FALSE
  /\ dialog = FALSE /\ elapsed = FALSE /\ longest = FALSE /\ app = "running"

-----------------------------------------------------------------------------
(* The goroutine of AnalyzePath (one root) or AnalyzePaths (several) *)

\* Mutant: ResetProgress leaves the cancel flag.
ResetKeeping == published' = FALSE /\ UNCHANGED cancelled

\* Analyzer.ResetProgress()
ResetProgress == published' = FALSE /\ cancelled' = FALSE

\* The first scan, of all the roots, or a rescan, of all of them or of one
\* directory: no dialog, modal or preview is up.  With one root the analyzer is
\* reset here, by the interface thread.
AnalyzePaths(n) ==
  /\ ~scanning /\ ~dialog
  /\ scans < MaxScans
  /\ n = Roots \/ (n = 1 /\ scans > 0)
  /\ given' = n
  /\ scans' = scans + 1
  /\ progressPage' = TRUE
  /\ requested' = FALSE /\ scanCancelled' = FALSE
  /\ scanning' = TRUE /\ elapsed' = FALSE
  /\ roots' = <<>> /\ root' = 1 /\ extra' = 0
  /\ IF n = 1
     THEN ResetProgress /\ pc' = "analyzing" /\ left' = RootDirs /\ entering' = 1
     ELSE pc' = "resetting" /\ UNCHANGED <<published, cancelled, left, entering>>
  /\ UNCHANGED <<storing, previewing, currentDir, savedDir, quitVars>>

Reset ==
  /\ pc = "resetting"
  /\ ResetProgress
  /\ pc' = "analyzing"
  /\ left' = RootDirs /\ entering' = 1
  /\ extra' = IF requested THEN extra + 1 ELSE extra
  /\ UNCHANGED <<given, root, roots, scans, scanCancelled, requested, storing,
                 viewVars, quitVars, scanning, elapsed>>

\* Mutant: a worker does not ask whether the scan is cancelled.
NeverAsk ==
  /\ pc = "analyzing" /\ left < RootDirs /\ entering < left
  /\ entering' = entering + 1
  /\ UNCHANGED <<pc, given, root, left, published, roots, scans, extra, stopVars, viewVars,
                 quitVars, scanning, elapsed>>

\* The root has been read: a worker gets its slot and asks whether the scan is
\* cancelled.
AskCancelled ==
  /\ pc = "analyzing" /\ left < RootDirs /\ entering < left
  /\ ~cancelled
  /\ entering' = entering + 1
  /\ UNCHANGED <<pc, given, root, left, published, roots, scans, extra, stopVars, viewVars,
                 quitVars, scanning, elapsed>>

\* Who has asked opens its directory, cancelled since or not; the first is the
\* root, which nobody asks for.
OpenDir ==
  /\ pc = "analyzing" /\ entering > 0
  /\ entering' = entering - 1
  /\ left' = left - 1
  /\ UNCHANGED <<pc, given, root, published, roots, scans, extra, stopVars, viewVars,
                 quitVars, scanning, elapsed>>

\* AnalyzeDir publishes its root when it has read it ...
Publish ==
  /\ pc = "analyzing" /\ ~published /\ left < RootDirs
  /\ published' = TRUE
  /\ UNCHANGED <<pc, given, root, left, entering, roots, scans, extra, stopVars, viewVars,
                 quitVars, scanning, elapsed>>

\* ... and returns what there is when nobody is at work.
EndRoot ==
  /\ pc = "analyzing" /\ published /\ entering = 0
  /\ cancelled \/ left = 0
  /\ roots' = Append(roots, left = 0)
  /\ pc' = IF given = 1 THEN "posting" ELSE "checking"
  /\ UNCHANGED <<given, root, left, entering, published, scans, extra, stopVars, viewVars,
                 quitVars, scanning, elapsed>>

\* Mutant: the loop looks at the analyzer's flag instead of the request.
CheckAnalyzer ==
  /\ pc = "checking"
  /\ pc' = IF root = given THEN "posting" ELSE "resetting"
  /\ root' = IF pc' = "resetting" THEN root + 1 ELSE root
  /\ UNCHANGED <<given, left, entering, published, roots, scans, extra, stopVars, viewVars,
                 quitVars, scanning, elapsed>>

\* if ui.scanCancelRequested.Load() { break }
CheckRequested ==
  /\ pc = "checking"
  /\ pc' = IF requested \/ root = given THEN "posting" ELSE "resetting"
  /\ root' = IF pc' = "resetting" THEN root + 1 ELSE root
  /\ UNCHANGED <<given, left, entering, published, roots, scans, extra, stopVars, viewVars,
                 quitVars, scanning, elapsed>>

\* The queued closure, run by the interface thread: the result replaces what
\* was shown, a preview included.
Post ==
  /\ pc = "posting"
  /\ pc' = "idle"
  /\ scanning' = FALSE /\ scanCancelled' = FALSE
  /\ longest' = (longest \/ elapsed)
  /\ previewing' = FALSE /\ savedDir' = NoDir
  /\ currentDir' = scans
  /\ progressPage' = FALSE
  /\ UNCHANGED <<given, root, left, entering, published, roots, scans, extra, cancelled, requested,
                 storing, dialog, app, elapsed>>

\* Time passes.
Tick ==
  /\ scanning /\ ~elapsed
  /\ elapsed' = TRUE
  /\ UNCHANGED <<goVars, stopVars, viewVars, quitVars, scanning>>

-----------------------------------------------------------------------------
(* The interface thread: keys and signals *)

CanStop == scanning /\ ~scanCancelled

\* Mutant: stopping only cancels the analyzer.
StopAnalyzerOnly ==
  /\ cancelled' = TRUE
  /\ scanCancelled' = TRUE
  /\ UNCHANGED <<requested, storing, goVars, viewVars, quitVars, scanning, elapsed>>

\* cancelScan: first Analyzer.Cancel() ...
Stop ==
  /\ cancelled' = TRUE
  /\ scanCancelled' = TRUE
  /\ storing' = TRUE
  /\ UNCHANGED <<requested, goVars, viewVars, quitVars, scanning, elapsed>>

\* ... then scanCancelRequested.Store(true): the other goroutine may run in
\* between.
StoreRequest ==
  /\ storing
  /\ requested' = TRUE
  /\ storing' = FALSE
  /\ UNCHANGED <<cancelled, scanCancelled, goVars, viewVars, quitVars, scanning,
                 elapsed>>

Quit == app' = "quit" /\ UNCHANGED <<goVars, stopVars, viewVars, dialog, longest, scanning, elapsed>>

\* Esc on the progress page.
Esc == ~dialog /\ ~previewing /\ progressPage /\ CanStop /\ Stop

\* Ctrl+C: stop the scan, or quit if it is being stopped or there is none.  A
\* dialog is handed the key before handleCtrlC sees it, and tview quits.
CtrlC == IF ~dialog /\ CanStop THEN Stop ELSE Quit

\* SIGINT, delivered as an event of its own.
Interrupt == IF CanStop THEN Stop ELSE Quit

\* Tab: take a snapshot, if there is something to see.
EnterPreview ==
  /\ ~dialog /\ ~previewing /\ progressPage /\ published
  /\ previewing' = TRUE
  /\ savedDir' = currentDir
  /\ currentDir' = Preview
  /\ progressPage' = FALSE
  /\ UNCHANGED <<goVars, stopVars, quitVars, scanning, elapsed>>

\* Tab or Esc again.
ExitPreview ==
  /\ ~dialog /\ previewing
  /\ previewing' = FALSE
  /\ currentDir' = savedDir
  /\ savedDir' = NoDir
  /\ progressPage' = TRUE
  /\ UNCHANGED <<goVars, stopVars, quitVars, scanning, elapsed>>

WouldAsk == IF scanning THEN elapsed ELSE currentDir # NoDir /\ longest

\* q or Q: ask first if a long scan is at stake.
AskToQuit ==
  /\ ~dialog
  /\ IF WouldAsk THEN dialog' = TRUE /\ UNCHANGED app
     ELSE app' = "quit" /\ UNCHANGED dialog
  /\ UNCHANGED <<goVars, stopVars, viewVars, longest, scanning, elapsed>>

\* No, Yes, or "don't ask again", which quits as well.
Answer ==
  /\ dialog
  /\ dialog' = FALSE
  /\ app' \in {"running", "quit"}
  /\ UNCHANGED <<goVars, stopVars, viewVars, longest, scanning, elapsed>>

-----------------------------------------------------------------------------
\* What only the interface thread does: not while it is inside cancelScan.
Interface ==
  ~storing /\ ( \/ \E n \in 1..Roots : AnalyzePaths(n)
                \/ Post \/ Esc \/ CtrlC \/ Interrupt
                \/ EnterPreview \/ ExitPreview \/ AskToQuit \/ Answer )

Goroutine == Reset \/ AskCancelled \/ OpenDir \/ Publish \/ EndRoot \/ CheckRequested

Running == app = "running"

Next == Running /\ (Goroutine \/ Interface \/ StoreRequest \/ Tick)

\* The goroutine runs, its closure is run, cancelScan returns.
Spec ==
  /\ Init /\ [][Next]_vars
  /\ WF_vars(Running /\ Goroutine)
  /\ WF_vars(Running /\ ~storing /\ Post)
  /\ WF_vars(Running /\ StoreRequest)

-----------------------------------------------------------------------------
(* Properties *)

\* Every variable keeps its type, and the interface believes in a running scan
\* (ui.scanning) exactly while the goroutine has one.
TypeOK ==
  /\ pc \in {"idle", "resetting", "analyzing", "checking", "posting"}
  /\ given \in 0..Roots /\ root \in 0..given /\ left \in 0..RootDirs /\ entering \in 0..left /\ roots \in Seq(BOOLEAN)
  /\ scans \in 0..MaxScans /\ extra \in 0..Roots
  /\ currentDir \in -1..MaxScans /\ savedDir \in 0..MaxScans
  /\ {published, cancelled, scanning, scanCancelled, requested, storing, previewing,
      progressPage, dialog, elapsed, longest} \subseteq BOOLEAN
  /\ app \in {"running", "quit"}
  /\ scanning <=> pc # "idle"

\* While a tree is being built the keys that delete, rescan or run something
\* are dead: the progress page or the preview is up.
BrowsingIsBlocked == scanning => progressPage # previewing

\* A snapshot is on screen exactly while previewing, and previews do not
\* outlive their scan: nobody can delete from a snapshot.
PreviewIsTemporary ==
  /\ previewing <=> currentDir = Preview
  /\ previewing => scanning

\* The directories that no worker has been let into yet.
Unasked == left - entering

\* CONTEXT.md, "Stopped scan": no new work is scheduled once the user has
\* stopped the scan; who was let into a directory before may still open it.
StopIsPrompt == [][requested /\ pc = "analyzing" => Unasked' = Unasked]_vars

\* scanCancelRequested (actions.go): a stop takes effect at the end of the root the loop has begun with.
StopsAfterThisRoot == extra <= 1

\* AnalyzePaths: what is shown after a scan that nobody stopped is every root, complete.
UnstoppedIsComplete ==
  [][Post /\ ~scanCancelled => roots = [i \in 1..given |-> TRUE]]_vars

\* AnalyzePath, which resets the analyzer before the scan can be stopped: then
\* once the user's request is stored nobody is let into a directory, so that
\* only the root and what workers were about to open is still opened.
SingleStopIsPrompt ==
  [][given = 1 /\ requested /\ pc = "analyzing" => Unasked' = Unasked]_vars

\* A scan ends and its result, partial or not, takes the screen, whatever was
\* previewed or stopped, unless the user quits.
ScanEnds == scanning ~> (~scanning /\ currentDir = scans) \/ app = "quit"
=============================================================================
