----------------------------- MODULE PartsProofs -----------------------------
(***************************************************************************)
(* Theorems about the parts put together in Parts, for every value of the    *)
(* constants: the scan session of the terminal interface, the output without *)
(* an interface, the stable-order and the sequential scan and the preview of  *)
(* a scan, each as a specification of its own; and, at the end, what they    *)
(* show of PartsSpec.                                                        *)
(* The trash has a module of its own, TrashProofs.                           *)
(***************************************************************************)
EXTENDS Parts, TreeFacts

-----------------------------------------------------------------------------
(* The scan session of the terminal interface *)

\* The goroutine's position: the loop is at one of the given roots.
LoopInv ==
  /\ scanning => given \in 1..Roots /\ root \in 1..given
  /\ pc \in {"resetting", "checking"} => given # 1
  /\ given = 1 /\ scanning => root = 1

\* What is on screen: nothing to preview without a scan, and what a preview
\* replaced is kept.
ScreenInv ==
  /\ ~scanning => ~progressPage
  /\ ~previewing => savedDir = NoDir

\* A request to stop comes after the analyzer was cancelled, and only a stop
\* cancels it; a stop that waits to be stored holds up the interface thread.
StopInv ==
  /\ storing => scanning /\ scanCancelled
  /\ scanning /\ requested => scanCancelled
  /\ pc = "analyzing" /\ cancelled => scanCancelled
  /\ given = 1 /\ scanning /\ (storing \/ requested) => cancelled

\* A root is begun after a request at most once, and then the request is seen.
ExtraInv ==
  /\ extra \in {0, 1}
  /\ extra = 1 => requested
  /\ pc = "resetting" => extra = 0

\* Until the scan is stopped, the roots that were ended are complete.
Ended == IF pc \in {"checking", "posting"} THEN root ELSE root - 1
RootsInv ==
  scanning /\ ~scanCancelled =>
    /\ Len(roots) = Ended /\ \A i \in 1..Len(roots) : roots[i] = TRUE
    /\ pc = "posting" => root = given

\* The parts of TypeOK.
Numbers ==
  /\ given \in 0..Roots /\ root \in 0..given /\ left \in 0..RootDirs /\ entering \in 0..left
  /\ scans \in 0..MaxScans /\ extra \in 0..Roots
  /\ currentDir \in -1..MaxScans /\ savedDir \in 0..MaxScans
Flags ==
  /\ published \in BOOLEAN /\ cancelled \in BOOLEAN /\ scanning \in BOOLEAN
  /\ scanCancelled \in BOOLEAN /\ requested \in BOOLEAN /\ storing \in BOOLEAN
  /\ previewing \in BOOLEAN /\ progressPage \in BOOLEAN /\ dialog \in BOOLEAN
  /\ elapsed \in BOOLEAN /\ longest \in BOOLEAN
Places ==
  /\ pc \in {"idle", "resetting", "analyzing", "checking", "posting"}
  /\ app \in {"running", "quit"}
  /\ scanning <=> pc # "idle"

SessionInv ==
  /\ Numbers /\ Flags /\ Places /\ roots \in Seq(BOOLEAN)
  /\ BrowsingIsBlocked /\ PreviewIsTemporary
  /\ LoopInv /\ ScreenInv /\ StopInv /\ ExtraInv /\ RootsInv


LEMMA TypeParts == SessionInv => TypeOK
<1>1. {published, cancelled, scanning, scanCancelled, requested, storing, previewing, progressPage, dialog,
       elapsed, longest} \subseteq BOOLEAN <=> Flags
  BY DEF Flags
<1> QED
  BY <1>1, Zenon DEF SessionInv, TypeOK, Numbers, Places

LEMMA SessionStarts == Init => SessionInv
<1> SUFFICES ASSUME Init PROVE SessionInv
  OBVIOUS
<1>1. Numbers
  BY SessionAssumption DEF Init, Numbers, NoDir
<1>2. Flags /\ Places
  BY DEF Init, Flags, Places
<1>3. roots \in Seq(BOOLEAN)
  BY DEF Init
<1>4. BrowsingIsBlocked /\ PreviewIsTemporary /\ LoopInv /\ ScreenInv /\ StopInv /\ ExtraInv /\ RootsInv
  BY DEF Init, BrowsingIsBlocked, PreviewIsTemporary, LoopInv, ScreenInv, StopInv, ExtraInv, RootsInv,
         NoDir, Preview
<1> QED
  BY <1>1, <1>2, <1>3, <1>4 DEF SessionInv

\* What a step of the interface thread that only changes the screen or asks
\* to quit has to keep.
LEMMA ScreenKeeps ==
  ASSUME SessionInv, Flags', Places', UNCHANGED <<goVars, stopVars, scanning>>,
         currentDir' \in -1..MaxScans, savedDir' \in 0..MaxScans,
         BrowsingIsBlocked', PreviewIsTemporary', ScreenInv'
  PROVE  SessionInv'
<1>1. Numbers /\ roots \in Seq(BOOLEAN) /\ LoopInv /\ StopInv /\ ExtraInv /\ RootsInv
  BY DEF SessionInv
<1>2. UNCHANGED <<pc, given, root, left, entering, published, roots, scans, extra>>
  BY DEF goVars
<1>3. UNCHANGED <<cancelled, scanCancelled, requested, storing>>
  BY DEF stopVars
<1>4. Numbers' /\ roots' \in Seq(BOOLEAN)
  BY <1>1, <1>2 DEF Numbers
<1>5. Ended' = Ended
  BY <1>2 DEF Ended
<1>6. LoopInv' /\ StopInv' /\ ExtraInv' /\ RootsInv'
  BY <1>1, <1>2, <1>3, <1>5 DEF LoopInv, StopInv, ExtraInv, RootsInv
<1> QED
  BY <1>4, <1>6 DEF SessionInv

\* The screen, the questions and the ways out.
LEMMA KeysKeep ==
  ASSUME SessionInv, Tick \/ EnterPreview \/ ExitPreview \/ AskToQuit \/ Answer \/ Quit
  PROVE  SessionInv'
<1>0. Flags /\ Places /\ Numbers /\ BrowsingIsBlocked /\ PreviewIsTemporary /\ ScreenInv
  BY DEF SessionInv
<1>1. UNCHANGED <<goVars, stopVars, scanning>>
  BY DEF Tick, EnterPreview, ExitPreview, AskToQuit, Answer, Quit
<1>2. Flags' /\ Places'
  <2>1. Flags'
    <3>1. UNCHANGED <<published, cancelled, scanning, scanCancelled, requested, storing>> /\ longest' = longest
      BY <1>1 DEF goVars, stopVars, Tick, EnterPreview, ExitPreview, AskToQuit, Answer, Quit, quitVars
    <3>2. previewing' \in BOOLEAN /\ progressPage' \in BOOLEAN
      BY <1>0 DEF Flags, Tick, EnterPreview, ExitPreview, AskToQuit, Answer, Quit, viewVars
    <3>3. dialog' \in BOOLEAN
      BY <1>0 DEF Flags, Tick, EnterPreview, ExitPreview, AskToQuit, Answer, Quit, quitVars
    <3>4. elapsed' \in BOOLEAN
      BY <1>0 DEF Flags, Tick, EnterPreview, ExitPreview, AskToQuit, Answer, Quit
    <3> QED
      BY <1>0, <3>1, <3>2, <3>3, <3>4 DEF Flags
  <2>2. Places'
    BY <1>0 DEF Tick, EnterPreview, ExitPreview, AskToQuit, Answer, Quit, Places, goVars, viewVars, quitVars
  <2> QED
    BY <2>1, <2>2
<1>3. CASE EnterPreview
  <2>1. ~previewing /\ progressPage /\ previewing' = TRUE /\ savedDir' = currentDir /\ currentDir' = Preview
        /\ progressPage' = FALSE /\ scanning' = scanning
    BY <1>3 DEF EnterPreview
  <2>2. currentDir # Preview /\ scanning /\ currentDir \in -1..MaxScans
    BY <1>0, <2>1 DEF PreviewIsTemporary, ScreenInv, Numbers
  <2>3. currentDir' \in -1..MaxScans /\ savedDir' \in 0..MaxScans
    BY <2>1, <2>2, SessionAssumption DEF Preview
  <2>4. BrowsingIsBlocked' /\ PreviewIsTemporary' /\ ScreenInv'
    BY <2>1, <2>2 DEF BrowsingIsBlocked, PreviewIsTemporary, ScreenInv
  <2> QED
    BY <1>1, <1>2, <2>3, <2>4, ScreenKeeps
<1>4. CASE ExitPreview
  <2>1. previewing /\ previewing' = FALSE /\ currentDir' = savedDir /\ savedDir' = NoDir
        /\ progressPage' = TRUE /\ scanning' = scanning
    BY <1>4 DEF ExitPreview
  <2>2. scanning /\ savedDir \in 0..MaxScans
    BY <1>0, <2>1 DEF PreviewIsTemporary, Numbers
  <2>3. currentDir' \in -1..MaxScans /\ savedDir' \in 0..MaxScans /\ currentDir' # Preview
    BY <2>1, <2>2, SessionAssumption DEF Preview, NoDir
  <2>4. BrowsingIsBlocked' /\ PreviewIsTemporary' /\ ScreenInv'
    BY <2>1, <2>2, <2>3 DEF BrowsingIsBlocked, PreviewIsTemporary, ScreenInv
  <2> QED
    BY <1>1, <1>2, <2>3, <2>4, ScreenKeeps
<1>5. CASE UNCHANGED viewVars
  <2>1. UNCHANGED <<previewing, currentDir, savedDir, progressPage>> /\ scanning' = scanning
    BY <1>1, <1>5 DEF viewVars
  <2>2. currentDir' \in -1..MaxScans /\ savedDir' \in 0..MaxScans
    BY <1>0, <2>1 DEF Numbers
  <2>3. BrowsingIsBlocked' /\ PreviewIsTemporary' /\ ScreenInv'
    BY <1>0, <2>1 DEF BrowsingIsBlocked, PreviewIsTemporary, ScreenInv
  <2> QED
    BY <1>1, <1>2, <2>2, <2>3, ScreenKeeps
<1> QED
  BY <1>3, <1>4, <1>5 DEF Tick, AskToQuit, Answer, Quit

\* Stopping, in two steps.
LEMMA StopKeeps ==
  ASSUME SessionInv, (CanStop /\ Stop) \/ StoreRequest
  PROVE  SessionInv'
<1>0. /\ Flags /\ Places /\ Numbers /\ roots \in Seq(BOOLEAN) /\ BrowsingIsBlocked /\ PreviewIsTemporary
      /\ LoopInv /\ ScreenInv /\ StopInv /\ ExtraInv /\ RootsInv
  BY DEF SessionInv
<1>1. UNCHANGED <<pc, given, root, left, entering, published, roots, scans, extra>>
      /\ UNCHANGED <<previewing, currentDir, savedDir, progressPage, dialog, longest, app, scanning, elapsed>>
  BY DEF Stop, StoreRequest, goVars, viewVars, quitVars
<1>2. scanning /\ scanCancelled'
  BY <1>0 DEF CanStop, Stop, StoreRequest, StopInv
<1>3. Flags'
  BY <1>0, <1>1 DEF Stop, StoreRequest, Flags
<1>4. StopInv'
  BY <1>0, <1>1, <1>2 DEF Stop, StoreRequest, StopInv
<1>5. ExtraInv'
  BY <1>0, <1>1 DEF Stop, StoreRequest, ExtraInv
<1>6. RootsInv'
  BY <1>2 DEF RootsInv
<1>7. Numbers' /\ Places' /\ roots' \in Seq(BOOLEAN) /\ BrowsingIsBlocked' /\ PreviewIsTemporary' /\ LoopInv'
      /\ ScreenInv'
  BY <1>0, <1>1 DEF Numbers, Places, BrowsingIsBlocked, PreviewIsTemporary, LoopInv, ScreenInv
<1> QED
  BY <1>3, <1>4, <1>5, <1>6, <1>7 DEF SessionInv

\* A scan is started by the interface thread, with nothing previewed.
LEMMA StartKeeps ==
  ASSUME SessionInv, NEW n \in 1..Roots, AnalyzePaths(n)
  PROVE  SessionInv'
<1>0. /\ Flags /\ Places /\ Numbers /\ BrowsingIsBlocked /\ PreviewIsTemporary /\ ScreenInv /\ StopInv
  BY DEF SessionInv
<1>1. ~scanning /\ ~previewing /\ ~progressPage /\ ~storing /\ savedDir = NoDir
  BY <1>0 DEF AnalyzePaths, PreviewIsTemporary, ScreenInv, StopInv
<1>2. /\ scans < MaxScans /\ scans' = scans + 1 /\ given' = n /\ root' = 1 /\ roots' = <<>> /\ extra' = 0
      /\ progressPage' = TRUE /\ requested' = FALSE /\ scanCancelled' = FALSE /\ scanning' = TRUE
      /\ elapsed' = FALSE
      /\ UNCHANGED <<storing, previewing, currentDir, savedDir, dialog, longest, app>>
  BY DEF AnalyzePaths, quitVars
<1>3. /\ n = 1 => published' = FALSE /\ cancelled' = FALSE /\ pc' = "analyzing" /\ left' = RootDirs /\ entering' = 1
      /\ n # 1 => pc' = "resetting" /\ UNCHANGED <<published, cancelled, left, entering>>
  BY DEF AnalyzePaths, ResetProgress
<1>4. left' \in 0..RootDirs /\ entering' \in 0..left' /\ published' \in BOOLEAN /\ cancelled' \in BOOLEAN
  <2>1. left \in 0..RootDirs /\ entering \in 0..left /\ RootDirs \in 0..RootDirs /\ 1 \in 0..RootDirs
    BY <1>0, SessionAssumption DEF Numbers
  <2>2. published \in BOOLEAN /\ cancelled \in BOOLEAN
    BY <1>0 DEF Flags
  <2>3. CASE n = 1
    BY <1>3, <2>1, <2>3
  <2>4. CASE n # 1
    BY <1>3, <2>1, <2>2, <2>4
  <2> QED
    BY <2>3, <2>4
<1>5. Numbers'
  BY <1>0, <1>2, <1>4, SessionAssumption DEF Numbers
<1>6. Flags' /\ Places'
  BY <1>0, <1>1, <1>2, <1>3, <1>4 DEF Flags, Places
<1>7. BrowsingIsBlocked' /\ PreviewIsTemporary' /\ ScreenInv'
  BY <1>0, <1>1, <1>2 DEF BrowsingIsBlocked, PreviewIsTemporary, ScreenInv
<1>8. LoopInv' /\ StopInv' /\ ExtraInv'
  BY <1>1, <1>2, <1>3 DEF LoopInv, StopInv, ExtraInv
<1>9. RootsInv'
  <2>1. pc' \notin {"checking", "posting"}
    BY <1>3
  <2>2. Ended' = 0
    BY <1>2, <2>1 DEF Ended
  <2> QED
    BY <1>2, <2>1, <2>2 DEF RootsInv
<1> QED
  BY <1>2, <1>5, <1>6, <1>7, <1>8, <1>9 DEF SessionInv

\* What a step of the goroutine has to keep.
LEMMA GoroutineKeeps ==
  ASSUME SessionInv, UNCHANGED <<given, scans, viewVars, quitVars, scanning, elapsed>>,
         Places', root' \in 0..given, left' \in 0..RootDirs, entering' \in 0..left', roots' \in Seq(BOOLEAN), extra' \in 0..Roots,
         published' \in BOOLEAN, cancelled' \in BOOLEAN,
         UNCHANGED <<scanCancelled, requested, storing>>,
         LoopInv', StopInv', ExtraInv', RootsInv'
  PROVE  SessionInv'
<1>0. /\ Flags /\ Numbers /\ BrowsingIsBlocked /\ PreviewIsTemporary /\ ScreenInv
  BY DEF SessionInv
<1>1. UNCHANGED <<previewing, currentDir, savedDir, progressPage, dialog, longest, app>>
  BY DEF viewVars, quitVars
<1>2. Numbers' /\ Flags'
  BY <1>0, <1>1 DEF Numbers, Flags
<1>3. BrowsingIsBlocked' /\ PreviewIsTemporary' /\ ScreenInv'
  BY <1>0, <1>1 DEF BrowsingIsBlocked, PreviewIsTemporary, ScreenInv
<1> QED
  BY <1>2, <1>3 DEF SessionInv

LEMMA ResetKeeps ==
  ASSUME SessionInv, Reset
  PROVE  SessionInv'
<1>0. /\ Flags /\ Places /\ Numbers /\ roots \in Seq(BOOLEAN) /\ LoopInv /\ StopInv /\ ExtraInv /\ RootsInv
  BY DEF SessionInv
<1>1. /\ pc = "resetting" /\ pc' = "analyzing" /\ left' = RootDirs /\ entering' = 1 /\ published' = FALSE
      /\ cancelled' = FALSE /\ extra' = IF requested THEN extra + 1 ELSE extra
      /\ UNCHANGED <<given, root, roots, scans, scanCancelled, requested, storing, viewVars, quitVars, scanning,
                     elapsed>>
  BY DEF Reset, ResetProgress
<1>2. given # 1 /\ extra = 0 /\ scanning
  BY <1>0, <1>1 DEF LoopInv, ExtraInv, Places
<1>3. given \in 2..Roots
  BY <1>0, <1>2 DEF LoopInv
<1>4. extra' \in {0, 1} /\ (extra' = 1 => requested')
  BY <1>1, <1>2
<1>5. extra' \in 0..Roots /\ left' \in 0..RootDirs /\ entering' \in 0..left'
  BY <1>1, <1>3, <1>4, SessionAssumption
<1>6. LoopInv' /\ StopInv' /\ ExtraInv' /\ Places'
  <2>1. app' = app
    BY <1>1 DEF quitVars
  <2> QED
    BY <1>0, <1>1, <1>2, <1>4, <2>1 DEF LoopInv, StopInv, ExtraInv, Places
<1>7. Ended' = Ended
  BY <1>1 DEF Ended
<1>8. RootsInv'
  BY <1>0, <1>1, <1>7 DEF RootsInv
<1> QED
  BY <1>0, <1>1, <1>5, <1>6, <1>8, GoroutineKeeps DEF Numbers

\* Publishing, asking and opening leave the position where it is.
LEMMA WorkKeeps ==
  ASSUME SessionInv, Publish \/ AskCancelled \/ OpenDir
  PROVE  SessionInv'
<1>0. /\ Flags /\ Places /\ Numbers /\ roots \in Seq(BOOLEAN) /\ LoopInv /\ StopInv /\ ExtraInv /\ RootsInv
  BY DEF SessionInv
<1>1. /\ UNCHANGED <<given, root, roots, scans, extra, pc, cancelled, scanCancelled, requested, storing>>
      /\ UNCHANGED <<viewVars, quitVars, scanning, elapsed>>
  BY DEF Publish, AskCancelled, OpenDir, stopVars
<1>2. left' \in 0..RootDirs /\ entering' \in 0..left'
  BY <1>0, SessionAssumption DEF Numbers, Publish, AskCancelled, OpenDir
<1>3. published' \in BOOLEAN
  BY <1>0 DEF Flags, Publish, AskCancelled, OpenDir
<1>4. Ended' = Ended
  BY <1>1 DEF Ended
<1>5. LoopInv' /\ StopInv' /\ ExtraInv' /\ RootsInv' /\ Places'
  <2>1. app' = app
    BY <1>1 DEF quitVars
  <2> QED
    BY <1>0, <1>1, <1>4, <2>1 DEF LoopInv, StopInv, ExtraInv, RootsInv, Places
<1> QED
  BY <1>0, <1>1, <1>2, <1>3, <1>5, GoroutineKeeps DEF Numbers, Flags

\* A root ends: completed, unless the analyzer was cancelled, which only a
\* stop does.
LEMMA EndRootKeeps ==
  ASSUME SessionInv, EndRoot
  PROVE  SessionInv'
<1>0. /\ Flags /\ Places /\ Numbers /\ roots \in Seq(BOOLEAN) /\ LoopInv /\ StopInv /\ ExtraInv /\ RootsInv
  BY DEF SessionInv
<1>1. /\ pc = "analyzing" /\ (cancelled \/ left = 0) /\ roots' = Append(roots, left = 0)
      /\ pc' = (IF given = 1 THEN "posting" ELSE "checking")
      /\ UNCHANGED <<given, root, left, entering, published, scans, extra, cancelled, scanCancelled, requested, storing>>
      /\ UNCHANGED <<viewVars, quitVars, scanning, elapsed>>
  BY DEF EndRoot, stopVars
<1>2. scanning /\ app' = app
  BY <1>0, <1>1 DEF Places, quitVars
<1>3. LoopInv' /\ StopInv' /\ ExtraInv' /\ Places'
  BY <1>0, <1>1, <1>2 DEF LoopInv, StopInv, ExtraInv, Places
<1>4. roots' \in Seq(BOOLEAN)
  <2>1. (left = 0) \in BOOLEAN
    OBVIOUS
  <2> QED
    BY <1>0, <1>1, <2>1
<1>5. RootsInv'
  <2> SUFFICES ASSUME ~scanCancelled
               PROVE  /\ Len(roots') = Ended' /\ \A i \in 1..Len(roots') : roots'[i] = TRUE
                      /\ pc' = "posting" => root' = given'
    BY <1>1 DEF RootsInv
  <2>1. Ended = root - 1 /\ Ended' = root
    BY <1>1 DEF Ended
  <2>2. Len(roots) = root - 1 /\ \A i \in 1..Len(roots) : roots[i] = TRUE
    BY <1>0, <1>2, <2>1 DEF RootsInv
  <2>3. left = 0
    BY <1>0, <1>1 DEF StopInv
  <2>4. roots' = Append(roots, TRUE)
    BY <1>1, <2>3
  <2>5. root \in 1..given
    BY <1>0, <1>2 DEF LoopInv
  <2>6. Len(roots') = root /\ \A i \in 1..Len(roots') : roots'[i] = TRUE
    <3>1. Len(roots') = Len(roots) + 1 /\ roots'[Len(roots) + 1] = TRUE
          /\ \A i \in 1..Len(roots) : roots'[i] = roots[i]
      BY <1>0, <2>4
    <3>2. root \in Int
      BY <2>5
    <3>3. Len(roots') = root
      BY <2>2, <3>1, <3>2
    <3>4. ASSUME NEW i \in 1..Len(roots') PROVE roots'[i] = TRUE
      <4>1. CASE i = Len(roots) + 1
        BY <3>1, <4>1
      <4>2. CASE i \in 1..Len(roots)
        BY <2>2, <3>1, <4>2
      <4>3. Len(roots) = root - 1 /\ i \in 1..root
        BY <2>2, <3>3
      <4>4. i = Len(roots) + 1 \/ i \in 1..Len(roots)
        BY <3>2, <4>3
      <4> QED
        BY <4>1, <4>2, <4>4, Zenon
    <3> QED
      BY <3>3, <3>4
  <2>7. pc' = "posting" => root = given
    BY <1>0, <1>1, <1>2 DEF LoopInv
  <2> QED
    BY <1>1, <2>1, <2>6, <2>7
<1> QED
  BY <1>0, <1>1, <1>3, <1>4, <1>5, GoroutineKeeps DEF Numbers, Flags

LEMMA CheckKeeps ==
  ASSUME SessionInv, CheckRequested
  PROVE  SessionInv'
<1>0. /\ Flags /\ Places /\ Numbers /\ roots \in Seq(BOOLEAN) /\ LoopInv /\ StopInv /\ ExtraInv /\ RootsInv
  BY DEF SessionInv
<1>1. /\ pc = "checking"
      /\ UNCHANGED <<given, left, entering, published, roots, scans, extra, cancelled, scanCancelled, requested, storing>>
      /\ UNCHANGED <<viewVars, quitVars, scanning, elapsed>>
  BY DEF CheckRequested, stopVars
<1>2. scanning /\ app' = app /\ given # 1 /\ root \in 1..given /\ given \in 1..Roots
  BY <1>0, <1>1 DEF Places, quitVars, LoopInv
<1>3. CASE requested \/ root = given
  <2>1. pc' = "posting" /\ root' = root
    BY <1>3 DEF CheckRequested
  <2>2. LoopInv' /\ StopInv' /\ ExtraInv' /\ Places'
    BY <1>0, <1>1, <1>2, <2>1 DEF LoopInv, StopInv, ExtraInv, Places
  <2>3. Ended' = Ended
    BY <1>1, <2>1 DEF Ended
  <2>4. ~scanCancelled => root = given
    BY <1>0, <1>2, <1>3 DEF StopInv
  <2>5. RootsInv'
    BY <1>0, <1>1, <1>2, <2>1, <2>3, <2>4 DEF RootsInv
  <2> QED
    BY <1>0, <1>1, <1>2, <2>1, <2>2, <2>5, GoroutineKeeps DEF Numbers, Flags
<1>4. CASE ~(requested \/ root = given)
  <2>1. pc' = "resetting" /\ root' = root + 1
    BY <1>4 DEF CheckRequested
  <2>2. root' \in 1..given
    BY <1>2, <1>4, <2>1
  <2>3. extra = 0
    BY <1>0, <1>4 DEF ExtraInv
  <2>4. LoopInv' /\ StopInv' /\ ExtraInv' /\ Places'
    BY <1>0, <1>1, <1>2, <2>1, <2>2, <2>3 DEF LoopInv, StopInv, ExtraInv, Places
  <2>5. Ended' = Ended
    BY <1>1, <1>2, <2>1 DEF Ended
  <2>6. RootsInv'
    BY <1>0, <1>1, <1>2, <2>1, <2>5 DEF RootsInv
  <2> QED
    BY <1>0, <1>1, <1>2, <2>1, <2>2, <2>4, <2>6, GoroutineKeeps DEF Numbers, Flags
<1> QED
  BY <1>3, <1>4

\* The result takes the screen.  It is never posted before its scan counts.
LEMMA PostKeeps ==
  ASSUME SessionInv, Post, ~storing
  PROVE  SessionInv'
<1>0. /\ Flags /\ Places /\ Numbers /\ roots \in Seq(BOOLEAN) /\ LoopInv /\ ExtraInv
  BY DEF SessionInv
<1>1. /\ pc = "posting" /\ pc' = "idle" /\ scanning' = FALSE /\ scanCancelled' = FALSE
      /\ longest' = (longest \/ elapsed) /\ previewing' = FALSE /\ savedDir' = NoDir
      /\ currentDir' = scans /\ progressPage' = FALSE
      /\ UNCHANGED <<given, root, left, entering, published, roots, scans, extra, cancelled, requested,
                     storing, dialog, app, elapsed>>
  BY DEF Post
<1>2. Numbers' /\ currentDir' # Preview
  BY <1>0, <1>1, SessionAssumption DEF Numbers, NoDir, Preview
<1>3. longest' \in BOOLEAN
  BY <1>1
<1>4. Flags' /\ Places'
  BY <1>0, <1>1, <1>3 DEF Flags, Places
<1>5. BrowsingIsBlocked' /\ PreviewIsTemporary' /\ ScreenInv'
  BY <1>1, <1>2 DEF BrowsingIsBlocked, PreviewIsTemporary, ScreenInv
<1>6. LoopInv' /\ StopInv' /\ ExtraInv' /\ RootsInv'
  BY <1>0, <1>1 DEF LoopInv, StopInv, ExtraInv, RootsInv
<1> QED
  BY <1>0, <1>1, <1>2, <1>4, <1>5, <1>6 DEF SessionInv

LEMMA SessionStep == SessionInv /\ [Next]_vars => SessionInv'
<1> SUFFICES ASSUME SessionInv, [Next]_vars PROVE SessionInv'
  OBVIOUS
<1>1. CASE Next
  <2>1. CASE Goroutine
    BY <2>1, ResetKeeps, WorkKeeps, EndRootKeeps, CheckKeeps DEF Goroutine
  <2>2. CASE StoreRequest \/ Tick
    BY <2>2, StopKeeps, KeysKeep
  <2>3. CASE Interface
    <3>1. CASE \E n \in 1..Roots : AnalyzePaths(n)
      BY <3>1, StartKeeps
    <3>2. CASE Post
      BY <2>3, <3>2, PostKeeps DEF Interface
    <3>3. CASE Esc \/ CtrlC \/ Interrupt
      BY <3>3, StopKeeps, KeysKeep DEF Esc, CtrlC, Interrupt
    <3>4. CASE EnterPreview \/ ExitPreview \/ AskToQuit \/ Answer
      BY <3>4, KeysKeep
    <3> QED
      BY <2>3, <3>1, <3>2, <3>3, <3>4 DEF Interface
  <2> QED
    BY <1>1, <2>1, <2>2, <2>3 DEF Next
<1>2. CASE UNCHANGED vars
  <2>0. UNCHANGED <<goVars, stopVars, viewVars, quitVars, scanning, elapsed>>
    BY <1>2 DEF vars
  <2>1. UNCHANGED <<pc, given, root, left, entering, published, roots, scans, extra>>
        /\ UNCHANGED <<cancelled, scanCancelled, requested, storing>>
        /\ UNCHANGED <<previewing, currentDir, savedDir, progressPage>>
        /\ UNCHANGED <<dialog, longest, app, scanning, elapsed>>
    BY <2>0 DEF goVars, stopVars, viewVars, quitVars
  <2>2. Flags' /\ Places' /\ BrowsingIsBlocked' /\ PreviewIsTemporary' /\ ScreenInv'
        /\ currentDir' \in -1..MaxScans /\ savedDir' \in 0..MaxScans
    BY <2>1 DEF SessionInv, Flags, Places, Numbers, BrowsingIsBlocked, PreviewIsTemporary, ScreenInv
  <2> QED
    BY <2>0, <2>1, <2>2, ScreenKeeps
<1> QED
  BY <1>1, <1>2

LEMMA SessionIsSafe == Spec => []SessionInv
BY SessionStarts, SessionStep, PTL DEF Spec

\* Every variable of the session keeps its type.
THEOREM SessionTypes == Spec => []TypeOK
BY SessionIsSafe, TypeParts, PTL

\* While a scan runs either the progress page or the preview is up, so the
\* keys that delete or rescan are dead (tui/keys.go, tui/actions.go).
THEOREM KeysAreBlocked == Spec => []BrowsingIsBlocked
<1>1. SessionInv => BrowsingIsBlocked
  BY DEF SessionInv
<1> QED
  BY <1>1, SessionIsSafe, PTL

\* A snapshot is on screen exactly while previewing, and never after its scan.
THEOREM PreviewsEnd == Spec => []PreviewIsTemporary
<1>1. SessionInv => PreviewIsTemporary
  BY DEF SessionInv
<1> QED
  BY <1>1, SessionIsSafe, PTL

\* However many roots are scanned, at most one is begun after the request to
\* stop was stored (the loop of AnalyzePaths, tui/actions.go).
THEOREM StopTakesEffect == Spec => []StopsAfterThisRoot
<1>1. SessionInv => StopsAfterThisRoot
  BY DEF SessionInv, ExtraInv, StopsAfterThisRoot
<1> QED
  BY <1>1, SessionIsSafe, PTL

\* What is posted by a scan that nobody stopped is every root it was given,
\* each complete.
THEOREM UnstoppedScansAreWhole == Spec => UnstoppedIsComplete
<1>1. ASSUME SessionInv, [Next]_vars
      PROVE  [Post /\ ~scanCancelled => roots = [i \in 1..given |-> TRUE]]_vars
  <2> SessionInv /\ [Next]_vars
    BY <1>1
  <2> SUFFICES ASSUME Post, ~scanCancelled PROVE roots = [i \in 1..given |-> TRUE]
    OBVIOUS
  <2>1. pc = "posting" /\ scanning
    BY DEF Post, SessionInv, Places
  <2>2. /\ Len(roots) = root /\ root = given /\ \A i \in 1..Len(roots) : roots[i] = TRUE
    BY <2>1 DEF SessionInv, RootsInv, Ended
  <2>3. roots \in Seq(BOOLEAN)
    BY DEF SessionInv
  <2> QED
    BY <2>2, <2>3
<1> QED
  BY <1>1, SessionIsSafe, PTL DEF Spec, UnstoppedIsComplete

\* With one root no worker is let into a directory once the request to stop is
\* stored: the flag of the analyzer was set before, and nothing resets it.
THEOREM SingleStopsArePrompt == Spec => SingleStopIsPrompt
<1>1. ASSUME SessionInv, [Next]_vars
      PROVE  [given = 1 /\ requested /\ pc = "analyzing" => Unasked' = Unasked]_vars
  <2> SessionInv /\ [Next]_vars
    BY <1>1
  <2> SUFFICES ASSUME given = 1, requested, pc = "analyzing" PROVE Unasked' = Unasked
    OBVIOUS
  <2>0. left \in Int /\ entering \in Int
    BY SessionAssumption DEF SessionInv, Numbers
  <2>1. cancelled /\ scanning
    BY DEF SessionInv, Places, StopInv
  <2>2. CASE OpenDir
    BY <2>0, <2>2 DEF OpenDir, Unasked
  <2>3. ~AskCancelled /\ ~Reset /\ ~ \E n \in 1..Roots : AnalyzePaths(n)
    BY <2>1 DEF AskCancelled, Reset, AnalyzePaths
  <2>4. UNCHANGED <<left, entering>> \/ OpenDir
    BY <2>3 DEF Next, Goroutine, Interface, Publish, EndRoot, CheckRequested, Post, Esc, CtrlC, Interrupt, Stop, Quit,
           EnterPreview, ExitPreview, AskToQuit, Answer, StoreRequest, Tick, vars, goVars
  <2> QED
    BY <2>2, <2>4 DEF Unasked
<1> QED
  BY <1>1, SessionIsSafe, PTL DEF Spec, SingleStopIsPrompt

-----------------------------------------------------------------------------
(* The output without an interface, given any number of paths               *)
(* While a goroutine of a root is left the command waits for it, so what is   *)
(* written, and to the list of roots, follows one order.                      *)

Commands ==
  [kind : {"dirs"}, paths : 1..MaxPaths, showProgress : BOOLEAN]
    \cup [kind : {"file", "report"}, paths : {1}, showProgress : BOOLEAN]

\* Where the goroutines can be while the command is somewhere.
PrintPlaces ==
  /\ asked \in Commands
  /\ printer \in {"working", "waiting", "printed", "failed"}
  /\ job \in {"none", "analyzing", "updating", "sending", "ended"}
  /\ meter \in {"none", "starting", "watching", "calculating", "reading", "ended"}
  /\ printer # "waiting" => job \in {"none", "ended"} /\ meter \in {"none", "ended"}
  /\ refused => printer \in {"waiting", "failed"}
  /\ meter \in {"watching", "calculating"} => watched = rootNr

\* The roots that are done, and the one at work.
PrintRoots ==
  /\ rootNr \in 0..asked.paths
  /\ printer = "working" => gathered = 1..rootNr
  /\ printer = "waiting" => rootNr # 0 /\ gathered = 1..rootNr - 1
  /\ asked.kind = "file" => rootNr = 0

\* A single root has its totals when its goroutine is at its end.
PrintTotals ==
  asked.paths = 1 /\ rootNr # 0 /\ ~refused /\ job \in {"none", "sending", "ended"} => summed

PrintInv == PrintPlaces /\ PrintRoots /\ PrintTotals /\ Printing!OutputIsWhole

LEMMA PrintingStarts == Printing!Init => PrintInv
<1> SUFFICES ASSUME Printing!Init PROVE PrintInv
  OBVIOUS
<1>1. asked \in Commands /\ asked.paths \in Nat \ {0}
  BY PartsAssumption DEF Printing!Init, Commands
<1>2. PrintPlaces /\ PrintTotals /\ Printing!OutputIsWhole
  BY <1>1 DEF Printing!Init, PrintPlaces, PrintTotals, Printing!OutputIsWhole
<1>3. PrintRoots
  BY <1>1 DEF Printing!Init, PrintRoots
<1> QED
  BY <1>2, <1>3 DEF PrintInv

LEMMA PrintingStep == PrintInv /\ [Printing!Next]_(Printing!stdoutVars) => PrintInv'
<1> SUFFICES ASSUME PrintInv, [Printing!Next]_(Printing!stdoutVars) PROVE PrintInv'
  OBVIOUS
<1>0. PrintPlaces /\ PrintRoots /\ PrintTotals /\ Printing!OutputIsWhole
  BY DEF PrintInv
<1>1. asked.paths \in Nat \ {0} /\ (asked.kind # "dirs" => asked.paths = 1) /\ asked.showProgress \in BOOLEAN
  BY <1>0, PartsAssumption DEF PrintPlaces, Commands
<1>2. CASE Printing!PrintFile
  <2>1. /\ printer = "working" /\ asked.kind = "file" /\ printer' = "printed" /\ screen' = "report"
        /\ UNCHANGED <<asked, rootNr, gathered, job, refused, summed, doneRoots, signal, meter, watched>>
    BY <1>2 DEF Printing!PrintFile
  <2> QED
    BY <1>0, <2>1 DEF PrintInv, PrintPlaces, PrintRoots, PrintTotals, Printing!OutputIsWhole
<1>3. CASE Printing!StartRoot
  <2>1. /\ printer = "working" /\ asked.kind # "file" /\ rootNr < asked.paths /\ rootNr' = rootNr + 1
        /\ job' = "analyzing" /\ printer' = "waiting"
        /\ meter' \in {"none", "reading", "starting"}
        /\ UNCHANGED <<asked, gathered, refused, summed, doneRoots, watched, screen>>
    BY <1>3 DEF Printing!StartRoot
  <2>2. PrintRoots'
    BY <1>0, <1>1, <2>1 DEF PrintRoots
  <2>3. PrintPlaces' /\ PrintTotals' /\ Printing!OutputIsWhole'
    BY <1>0, <2>1 DEF PrintPlaces, PrintTotals, Printing!OutputIsWhole
  <2> QED
    BY <2>2, <2>3 DEF PrintInv
<1>4. CASE Printing!Job \/ Printing!Meet
  <2>1. UNCHANGED <<asked, printer, rootNr, gathered, watched>> /\ printer = "waiting"
    BY <1>0, <1>4 DEF PrintPlaces, Printing!Job, Printing!Analyzed, Printing!ReportRead, Printing!UpdateStats,
       Printing!Send, Printing!Meet
  <2>2. PrintRoots'
    BY <1>0, <2>1 DEF PrintRoots
  <2>3. PrintPlaces'
    BY <1>0, <1>4, <2>1 DEF PrintPlaces, Printing!Job, Printing!Analyzed, Printing!ReportRead,
       Printing!UpdateStats, Printing!Send, Printing!Meet, Printing!Several
  <2>4. PrintTotals'
    BY <1>0, <1>1, <1>4, <2>1 DEF PrintTotals, Printing!Job, Printing!Analyzed, Printing!ReportRead,
       Printing!UpdateStats, Printing!Send, Printing!Meet, Printing!Several
  <2>5. Printing!OutputIsWhole'
    BY <2>1, <2>3 DEF PrintPlaces, Printing!OutputIsWhole
  <2> QED
    BY <2>2, <2>3, <2>4, <2>5 DEF PrintInv
<1>5. CASE Printing!Wait
  <2>1. /\ printer = "waiting" /\ job = "ended" /\ meter \in {"none", "ended"}
        /\ printer' = IF refused THEN "failed" ELSE "working"
        /\ gathered' = IF refused THEN gathered ELSE gathered \cup {rootNr}
        /\ UNCHANGED <<asked, rootNr, job, refused, summed, doneRoots, signal, meter, watched, screen>>
    BY <1>5 DEF Printing!Wait, Printing!Joined
  <2>2. PrintRoots'
    <3>1. rootNr \in Nat \ {0} /\ gathered = 1..rootNr - 1
      BY <1>0, <1>1, <2>1 DEF PrintRoots
    <3>2. gathered \cup {rootNr} = 1..rootNr
      BY <3>1
    <3> QED
      BY <1>0, <2>1, <3>2 DEF PrintRoots
  <2>3. PrintPlaces' /\ PrintTotals' /\ Printing!OutputIsWhole'
    BY <1>0, <2>1 DEF PrintPlaces, PrintTotals, Printing!OutputIsWhole
  <2> QED
    BY <2>2, <2>3 DEF PrintInv
<1>6. CASE Printing!PrintResult
  <2>1. /\ printer = "working" /\ rootNr = asked.paths /\ summed' = (summed \/ asked.paths > 1)
        /\ printer' = "printed" /\ screen' = "report"
        /\ UNCHANGED <<asked, rootNr, gathered, job, refused, doneRoots, signal, meter, watched>>
    BY <1>6 DEF Printing!PrintResult, Printing!Several
  <2>2. gathered = 1..asked.paths
    BY <1>0, <2>1 DEF PrintRoots
  <2>3. ~refused /\ job \in {"none", "ended"} /\ meter \in {"none", "ended"}
    BY <1>0, <2>1 DEF PrintPlaces
  <2>4. summed'
    <3>1. asked.paths = 1 \/ asked.paths > 1
      BY <1>1
    <3>2. asked.paths = 1 => rootNr # 0
      BY <2>1
    <3> QED
      BY <1>0, <2>1, <2>3, <3>1, <3>2, Zenon DEF PrintTotals
  <2>5. PrintPlaces' /\ PrintRoots' /\ PrintTotals' /\ Printing!OutputIsWhole'
    BY <1>0, <2>1, <2>2, <2>3, <2>4 DEF PrintPlaces, PrintRoots, PrintTotals, Printing!OutputIsWhole
  <2> QED
    BY <2>5 DEF PrintInv
<1>7. CASE Printing!Meter \/ Printing!Turn
  <2>1. UNCHANGED <<asked, printer, rootNr, gathered, job, refused, summed>> /\ printer = "waiting"
    BY <1>0, <1>7 DEF PrintPlaces, Printing!Meter, Printing!GetDone, Printing!SeeDone, Printing!SeeStats, Printing!Turn
  <2>2. PrintRoots' /\ PrintTotals'
    BY <1>0, <2>1 DEF PrintRoots, PrintTotals
  <2>3. PrintPlaces'
    BY <1>0, <1>7, <2>1 DEF PrintPlaces, Printing!Meter, Printing!GetDone, Printing!SeeDone, Printing!SeeStats,
       Printing!Turn
  <2>4. Printing!OutputIsWhole'
    BY <2>1, <2>3 DEF PrintPlaces, Printing!OutputIsWhole
  <2> QED
    BY <2>2, <2>3, <2>4 DEF PrintInv
<1>8. CASE UNCHANGED Printing!stdoutVars
  BY <1>0, <1>8 DEF PrintInv, PrintPlaces, PrintRoots, PrintTotals, Printing!OutputIsWhole, Printing!stdoutVars
<1> QED
  BY <1>2, <1>3, <1>4, <1>5, <1>6, <1>7, <1>8 DEF Printing!Next, Printing!Command

\* Without an interface, the report is what was written last, it lists every
\* root it was asked for, with totals, and each progress goroutine watches the
\* scan that is running (stdout/stdout.go), for any number of paths.
THEOREM OutputsAreWhole ==
  Printing!Init /\ [][Printing!Next]_(Printing!stdoutVars) => []Printing!OutputIsWhole
<1>1. PrintInv => Printing!OutputIsWhole
  BY DEF PrintInv
<1> QED
  BY <1>1, PrintingStarts, PrintingStep, PTL

-----------------------------------------------------------------------------
(* The stable-order scan, of any tree with any number of slots *)

\* The tree of the scan is the one extended here.
LEMMA SameTree ==
  /\ Stable!Entries = Entries /\ Stable!SubDirs = Dirs \ {Root}
  /\ \A d : Stable!Children(d) = Children(d)
  BY DEF Stable!Entries, Entries, Stable!SubDirs, Stable!Children, Children

LEMMA StableTree ==
  /\ Root \in Dirs /\ Root \notin Entries /\ IsFiniteSet(Dirs)
  /\ \A d \in Dirs \ {Root} : d \in Entries /\ Parent[d] \in Dirs /\ d \in Children(Parent[d])
  /\ \A e \in Entries : Parent[e] \in Dirs /\ e \in Children(Parent[e])
  /\ \A d \in Dirs : \A e \in Children(d) : e \in Entries /\ Parent[e] = d
  /\ \A e \in Entries : e \in Files \/ e \in Dirs \ {Root}
  /\ \A e \in Files : e \notin Dirs
  BY TreeAssumption DEF Entries, Children

\* What a sequence lists, and what one more entry changes.
LEMMA AppendFacts ==
  ASSUME NEW s \in Seq(Entries), NEW e \in Entries, NEW t, t = Append(s, e)
  PROVE  /\ t \in Seq(Entries) /\ Len(s) \in Nat /\ Len(t) = Len(s) + 1
         /\ DOMAIN s = 1..Len(s) /\ DOMAIN t = 1..Len(s) + 1
         /\ Stable!ToSet(t) = Stable!ToSet(s) \cup {e}
         /\ t[Len(s) + 1] = e
         /\ \A i \in DOMAIN s : i \in DOMAIN t /\ t[i] = s[i]
<1>1. /\ t \in Seq(Entries) /\ Len(s) \in Nat /\ Len(t) = Len(s) + 1
      /\ DOMAIN s = 1..Len(s) /\ DOMAIN t = 1..Len(s) + 1
      /\ t[Len(s) + 1] = e
      /\ \A i \in DOMAIN s : i \in DOMAIN t /\ t[i] = s[i]
  OBVIOUS
<1>2. \A i \in DOMAIN t : i \in DOMAIN s \/ i = Len(s) + 1
  BY <1>1
<1>3. Len(s) + 1 \in DOMAIN t
  BY <1>1
<1>4. Stable!ToSet(t) = Stable!ToSet(s) \cup {e}
  BY <1>1, <1>2, <1>3 DEF Stable!ToSet
<1> QED
  BY <1>1, <1>4

\* The types of its variables, without numbers.
StableTypes ==
  /\ caller \in {"idle", "scanning", "waiting", "locking", "returned"}
  /\ goroutine \in [Dirs -> {"none", "spawned", "admitted", "walking", "returned", "finished", "refused"}]
  /\ collector \in [Dirs -> {"none", "receiving", "adding", "done"}]
  /\ unlooked \in [Dirs -> SUBSET Entries]
  /\ channel \in [Dirs -> SUBSET Entries] /\ received \in [Dirs -> SUBSET Entries]
  /\ unread \subseteq Dirs /\ stopped \in BOOLEAN
Sequences ==
  /\ indexed \in [Dirs -> Seq(Entries)]
  /\ added \in [Dirs -> Seq(Entries)]

\* AnalyzeDir waits when the root's own loop is over.
CallerInv ==
  /\ caller = "idle" => \A d \in Dirs : goroutine[d] = "none"
  /\ caller = "scanning" => goroutine[Root] \in {"admitted", "walking"}
  /\ caller \in {"waiting", "locking", "returned"} => goroutine[Root] = "finished"
  /\ goroutine[Root] = "admitted" => \A d \in Dirs \ {Root} : goroutine[d] = "none"

\* processDir ends by starting the collector of its directory.
CollectorInv ==
  \A d \in Dirs : collector[d] = "none" <=> goroutine[d] \notin {"returned", "finished"}

\* What the loop has seen and has yet to see belongs to its directory.
EntriesInv ==
  \A d \in Dirs :
    /\ unlooked[d] \subseteq Children(d)
    /\ \A e \in Stable!ToSet(indexed[d]) : e \in Children(d) /\ e \notin StableSkip
    /\ goroutine[d] \in {"none", "spawned", "admitted", "refused"} =>
         unlooked[d] = {} /\ Stable!ToSet(indexed[d]) = {}

\* Indices are given in the order of the listing.
PlaceInv ==
  \A d \in Dirs : \A m \in DOMAIN indexed[d] :
    /\ \A n \in DOMAIN indexed[d] : m < n => Place[indexed[d][m]] < Place[indexed[d][n]]
    /\ \A x \in unlooked[d] : Place[indexed[d][m]] < Place[x]

\* Every entry with an index is sent once: a file at once, a directory when its
\* goroutine is at its end, refused or not.
SentInv ==
  /\ \A d \in Dirs :
       /\ channel[d] \cap received[d] = {}
       /\ channel[d] \cup received[d] \subseteq Stable!ToSet(indexed[d])
       /\ \A e \in Stable!ToSet(indexed[d]) \cap Files : e \in channel[d] \cup received[d]
       /\ collector[d] = "none" => received[d] = {}
       /\ collector[d] \in {"adding", "done"} => received[d] = Stable!ToSet(indexed[d])
  /\ \A d \in Dirs \ {Root} :
       /\ goroutine[d] # "none" <=> d \in Stable!ToSet(indexed[Parent[d]])
       /\ goroutine[d] \in {"finished", "refused"} <=> d \in channel[Parent[d]] \cup received[Parent[d]]

\* What was added is a beginning of what is to be added.
AddedInv ==
  \A d \in Dirs :
    /\ collector[d] \in {"none", "receiving"} => added[d] = <<>>
    /\ collector[d] = "done" => Stable!Missing(d) = {}
    /\ \A e \in Stable!ToSet(added[d]) : e \in Stable!ToSet(indexed[d]) /\ (e \in Dirs => goroutine[e] # "refused")
    /\ \A m \in Stable!Missing(d) : \A n \in DOMAIN indexed[d] : m < n => indexed[d][n] \notin Stable!ToSet(added[d])

\* The wait group counts the directories from their wait.Add to the end of
\* their collectors.
Live == {d \in Dirs : goroutine[d] = "walking" \/ collector[d] \in {"receiving", "adding"}}
CountInv ==
  /\ stableValue = Cardinality(Live) /\ stableLocked \in BOOLEAN
  /\ ~stableLocked => caller \in {"waiting", "locking", "returned"} /\ Live = {}
  /\ caller = "returned" => Live = {}

\* Until the user stops the scan nothing listed is left out.
LossInv ==
  ~stopped =>
    \A d \in Dirs :
      /\ goroutine[d] # "refused"
      /\ goroutine[d] \in {"returned", "finished"} => unlooked[d] = {}
      /\ goroutine[d] \in {"walking", "returned", "finished"} /\ d \notin unread =>
           \A e \in Children(d) \ StableSkip : e \in unlooked[d] \cup Stable!ToSet(indexed[d])

StableInv ==
  /\ StableTypes /\ Sequences /\ CallerInv /\ CollectorInv /\ EntriesInv /\ PlaceInv /\ SentInv
  /\ AddedInv /\ CountInv /\ LossInv /\ Stable!OrderIsKept

\* A goroutine that is not at its end is waited for by its directory.
LEMMA AwaitedParents ==
  ASSUME StableInv, NEW d \in Dirs \ {Root}, goroutine[d] \in {"spawned", "admitted", "walking", "returned"}
  PROVE  Parent[d] \in Live /\ collector[Parent[d]] \in {"none", "receiving"}
<1>0. StableTypes /\ CallerInv /\ CollectorInv /\ EntriesInv /\ SentInv
  BY DEF StableInv
<1>1. Parent[d] \in Dirs
  BY StableTree
<1>2. d \in Stable!ToSet(indexed[Parent[d]]) /\ d \notin received[Parent[d]]
  BY <1>0 DEF SentInv
<1>3. collector[Parent[d]] \in {"none", "receiving"}
  BY <1>0, <1>1, <1>2 DEF SentInv, StableTypes
<1>4. collector[Parent[d]] = "none" => goroutine[Parent[d]] = "walking"
  BY <1>0, <1>1, <1>2 DEF CollectorInv, EntriesInv, StableTypes
<1> QED
  BY <1>1, <1>3, <1>4 DEF Live

\* With nobody in the wait group the scan is over ...
LEMMA QuietScan ==
  ASSUME StableInv, Live = {}, goroutine[Root] = "finished"
  PROVE  \A d \in Dirs : goroutine[d] \in {"none", "finished", "refused"} /\ collector[d] \in {"none", "done"}
<1>0. StableTypes
  BY DEF StableInv
<1> SUFFICES ASSUME NEW d \in Dirs
             PROVE  goroutine[d] \in {"none", "finished", "refused"} /\ collector[d] \in {"none", "done"}
  OBVIOUS
<1>1. goroutine[d] # "walking" /\ collector[d] \notin {"receiving", "adding"}
  BY DEF Live
<1>2. goroutine[d] \notin {"spawned", "admitted", "returned"}
  BY AwaitedParents
<1> QED
  BY <1>0, <1>1, <1>2 DEF StableTypes

\* ... so while anybody is at work AnalyzeDir has not returned, nor can it.
LEMMA BusyScan ==
  ASSUME StableInv, NEW d \in Dirs,
         goroutine[d] \in {"spawned", "admitted", "walking", "returned"} \/ collector[d] \in {"receiving", "adding"}
  PROVE  stableLocked = TRUE /\ caller \in {"scanning", "waiting", "locking"}
<1>0. StableTypes /\ CallerInv /\ CollectorInv /\ CountInv
  BY DEF StableInv
<1>1. ~(Live = {} /\ goroutine[Root] = "finished")
  BY QuietScan
<1>2. caller # "idle"
  BY <1>0 DEF CallerInv, CollectorInv
<1> QED
  BY <1>0, <1>1, <1>2 DEF CountInv, CallerInv, StableTypes

LEMMA RootStates ==
  ASSUME StableInv
  PROVE  goroutine[Root] \in {"none", "admitted", "walking", "finished"}
<1>0. StableTypes /\ CallerInv
  BY DEF StableInv
<1> QED
  BY <1>0, StableTree DEF CallerInv, StableTypes

LEMMA StableStarts == Stable!Init => StableInv
<1> SUFFICES ASSUME Stable!Init PROVE StableInv
  OBVIOUS
<1>1. /\ caller = "idle" /\ unread = {} /\ stopped = FALSE /\ stableValue = 0 /\ stableLocked = TRUE
      /\ \A d \in Dirs : /\ goroutine[d] = "none" /\ collector[d] = "none" /\ unlooked[d] = {}
                         /\ indexed[d] = <<>> /\ channel[d] = {} /\ received[d] = {} /\ added[d] = <<>>
  BY DEF Stable!Init, Stable!Everywhere, Stable!WaitInit
<1>2. StableTypes /\ Sequences
  <2>1. <<>> \in Seq(Entries)
    OBVIOUS
  <2>2. Sequences
    BY <2>1 DEF Stable!Init, Stable!Everywhere, Sequences
  <2>3. StableTypes
    BY DEF Stable!Init, Stable!Everywhere, StableTypes
  <2> QED
    BY <2>2, <2>3
<1>3. \A d \in Dirs : Stable!ToSet(indexed[d]) = {} /\ Stable!ToSet(added[d]) = {} /\ DOMAIN indexed[d] = {}
                      /\ DOMAIN added[d] = {}
  BY <1>1 DEF Stable!ToSet
<1>4. CallerInv /\ CollectorInv /\ EntriesInv
  BY <1>1, <1>3 DEF CallerInv, CollectorInv, EntriesInv
<1>5. SentInv
  BY <1>1, <1>3, StableTree DEF SentInv
<1>6. AddedInv
  BY <1>1, <1>3 DEF AddedInv
<1>7. PlaceInv /\ Stable!OrderIsKept
  BY <1>3 DEF PlaceInv, Stable!OrderIsKept
<1>8. Live = {}
  BY <1>1 DEF Live
<1>9. CountInv
  BY <1>1, <1>8, FS_EmptySet DEF CountInv
<1>10. LossInv
  BY <1>1 DEF LossInv
<1> QED
  BY <1>2, <1>4, <1>5, <1>6, <1>7, <1>9, <1>10 DEF StableInv

\* What was added stays a beginning as long as the adding directories and what
\* they were sent stay.
LEMMA AddedKeeps ==
  ASSUME StableInv, added' = added,
         \A d \in Dirs :
           \/ collector[d] \in {"none", "receiving"} /\ collector'[d] \in {"none", "receiving", "adding"}
           \/ /\ collector'[d] = collector[d] /\ indexed'[d] = indexed[d]
              /\ \A e \in Dirs \cap Stable!ToSet(indexed[d]) : goroutine'[e] = "refused" <=> goroutine[e] = "refused"
  PROVE  AddedInv' /\ Stable!OrderIsKept'
<1>0. AddedInv /\ Stable!OrderIsKept /\ SentInv
  BY DEF StableInv
<1>1. Stable!OrderIsKept'
  BY <1>0 DEF Stable!OrderIsKept
<1> DEFINE Part(d) ==
    /\ collector[d] \in {"none", "receiving"} => added[d] = <<>>
    /\ collector[d] = "done" => Stable!Missing(d) = {}
    /\ \A e \in Stable!ToSet(added[d]) : e \in Stable!ToSet(indexed[d]) /\ (e \in Dirs => goroutine[e] # "refused")
    /\ \A m \in Stable!Missing(d) : \A n \in DOMAIN indexed[d] : m < n => indexed[d][n] \notin Stable!ToSet(added[d])
<1>2. ASSUME NEW d \in Dirs PROVE Part(d)'
  <2>1. CASE collector[d] \in {"none", "receiving"} /\ collector'[d] \in {"none", "receiving", "adding"}
    <3>1. added'[d] = <<>>
      BY <1>0, <2>1 DEF AddedInv
    <3>2. Stable!ToSet(added'[d]) = {}
      BY <3>1 DEF Stable!ToSet
    <3> QED
      BY <2>1, <3>1, <3>2
  <2>2. CASE /\ collector'[d] = collector[d] /\ indexed'[d] = indexed[d]
             /\ \A e \in Dirs \cap Stable!ToSet(indexed[d]) : goroutine'[e] = "refused" <=> goroutine[e] = "refused"
    <3>1. Stable!Missing(d)' = Stable!Missing(d)
      BY <2>2 DEF Stable!Missing, Stable!ToSet
    <3>2. Part(d)
      BY <1>0 DEF AddedInv
    <3>3. \A e \in Stable!ToSet(added[d]) : e \in Stable!ToSet(indexed[d])
      BY <3>2
    <3> QED
      BY <2>2, <3>1, <3>2, <3>3
  <2> QED
    BY <2>1, <2>2
<1> QED
  BY <1>1, <1>2 DEF AddedInv

\* The wait group's part when nobody joins or leaves it.
LEMMA CountKeeps ==
  ASSUME StableInv, UNCHANGED <<stableValue, stableLocked>>,
         stableLocked = TRUE, caller' # "returned", Live' = Live
  PROVE  CountInv'
  BY DEF StableInv, CountInv

\* AnalyzeDir: it starts, reads the counter, takes the lock; the user cancels.
LEMMA CallerSteps ==
  ASSUME StableInv, Stable!Start \/ Stable!AnalyzeDir \/ Stable!Cancel
  PROVE  StableInv'
<1>0. /\ StableTypes /\ Sequences /\ CallerInv /\ CollectorInv /\ EntriesInv /\ PlaceInv /\ SentInv
      /\ AddedInv /\ CountInv /\ LossInv /\ Stable!OrderIsKept
  BY DEF StableInv
<1>1. UNCHANGED <<collector, unlooked, indexed, channel, received, added, unread>>
  BY DEF Stable!Start, Stable!AnalyzeDir, Stable!WaitRead, Stable!WaitLock, Stable!Cancel
<1>2. Sequences' /\ PlaceInv'
  BY <1>0, <1>1 DEF Sequences, PlaceInv
<1>3. CASE Stable!Start
  <2>1. /\ caller = "idle" /\ caller' = "scanning" /\ stopped' = stopped
        /\ UNCHANGED <<stableValue, stableLocked>>
        /\ goroutine' = [goroutine EXCEPT ![Root] = "admitted"]
    BY <1>3 DEF Stable!Start, Stable!waitVars
  <2>2. \A x \in Dirs : goroutine[x] = "none" /\ goroutine'[x] = IF x = Root THEN "admitted" ELSE goroutine[x]
    BY <1>0, <2>1 DEF StableTypes, CallerInv
  <2>3. StableTypes'
    BY <1>0, <1>1, <2>1 DEF StableTypes
  <2>4. CallerInv' /\ CollectorInv' /\ EntriesInv'
    BY <1>0, <1>1, <2>1, <2>2, StableTree DEF CallerInv, CollectorInv, EntriesInv
  <2>5. SentInv'
    BY <1>0, <1>1, <2>2, StableTree DEF SentInv
  <2>6. AddedInv' /\ Stable!OrderIsKept'
    <3>1. \A d \in Dirs : collector[d] = "none"
      BY <1>0, <2>2 DEF CollectorInv
    <3> QED
      BY <1>1, <3>1, AddedKeeps
  <2>7. Live' = Live
    BY <1>1, <2>2 DEF Live
  <2>8. CountInv'
    BY <1>0, <2>1, <2>7 DEF CountInv
  <2>9. LossInv'
    BY <1>0, <1>1, <2>1, <2>2 DEF LossInv
  <2> QED
    BY <1>2, <2>3, <2>4, <2>5, <2>6, <2>8, <2>9 DEF StableInv
<1>4. CASE Stable!AnalyzeDir
  <2>1. UNCHANGED <<goroutine, stopped, stableValue>> /\ caller \in {"waiting", "locking"}
        /\ caller' \in {"locking", "returned"}
    BY <1>4 DEF Stable!AnalyzeDir, Stable!WaitRead, Stable!WaitLock, Stable!WaitAcquire, Stable!waitVars
  <2>2. /\ stableLocked' \in BOOLEAN /\ (~stableLocked' => ~stableLocked)
        /\ caller' = "returned" => stableValue <= 0 \/ ~stableLocked
    <3>1. stableLocked \in BOOLEAN /\ stableValue = Cardinality(Live)
      BY <1>0 DEF CountInv
    <3>2. stableValue \in Nat
      BY <3>1, StableTree, FS_Subset, FS_CardinalityType DEF Live
    <3>3. CASE Stable!WaitRead
      BY <3>1, <3>2, <3>3 DEF Stable!WaitRead, Stable!MustBlock, Stable!waitVars
    <3>4. CASE Stable!WaitLock
      BY <3>1, <3>4 DEF Stable!WaitLock, Stable!WaitAcquire
    <3> QED
      BY <1>4, <3>3, <3>4 DEF Stable!AnalyzeDir
  <2>3. StableTypes' /\ CallerInv' /\ CollectorInv' /\ EntriesInv' /\ SentInv' /\ LossInv'
    BY <1>0, <1>1, <2>1 DEF StableTypes, CallerInv, CollectorInv, EntriesInv, SentInv, LossInv
  <2>4. AddedInv' /\ Stable!OrderIsKept'
    BY <1>1, <2>1, AddedKeeps
  <2>5. Live' = Live
    BY <1>1, <2>1 DEF Live
  <2>6. caller' = "returned" => Live = {}
    <3>1. IsFiniteSet(Live) /\ Cardinality(Live) \in Nat
      BY StableTree, FS_Subset, FS_CardinalityType DEF Live
    <3>2. stableValue <= 0 => Live = {}
      BY <1>0, <3>1, FS_EmptySet DEF CountInv
    <3> QED
      BY <1>0, <2>2, <3>2 DEF CountInv
  <2>7. CountInv'
    BY <1>0, <2>1, <2>2, <2>5, <2>6 DEF CountInv
  <2> QED
    BY <1>2, <2>3, <2>4, <2>7 DEF StableInv
<1>5. CASE Stable!Cancel
  <2>1. UNCHANGED <<goroutine, caller, stableValue, stableLocked>> /\ stopped' = TRUE
    BY <1>5 DEF Stable!Cancel, Stable!waitVars
  <2>2. StableTypes' /\ CallerInv' /\ CollectorInv' /\ EntriesInv' /\ SentInv' /\ LossInv'
    BY <1>0, <1>1, <2>1 DEF StableTypes, CallerInv, CollectorInv, EntriesInv, SentInv, LossInv
  <2>3. AddedInv' /\ Stable!OrderIsKept'
    BY <1>1, <2>1, AddedKeeps
  <2>4. CountInv'
    BY <1>0, <1>1, <2>1 DEF CountInv, Live
  <2> QED
    BY <1>2, <2>2, <2>3, <2>4 DEF StableInv
<1> QED
  BY <1>3, <1>4, <1>5

\* A goroutine gets its slot.
LEMMA AcquireKeeps ==
  ASSUME StableInv, NEW d \in Dirs, Stable!Acquire(d)
  PROVE  StableInv'
<1>0. /\ StableTypes /\ Sequences /\ CallerInv /\ CollectorInv /\ EntriesInv /\ PlaceInv /\ SentInv
      /\ AddedInv /\ CountInv /\ LossInv /\ Stable!OrderIsKept
  BY DEF StableInv
<1>1. /\ goroutine[d] = "spawned" /\ goroutine' = [goroutine EXCEPT ![d] = "admitted"]
      /\ UNCHANGED <<caller, collector, unlooked, indexed, channel, received, added, unread, stopped,
                     stableValue, stableLocked>>
  BY DEF Stable!Acquire, Stable!waitVars
<1>2. \A x \in Dirs : goroutine'[x] = IF x = d THEN "admitted" ELSE goroutine[x]
  BY <1>0, <1>1 DEF StableTypes
<1>3. d # Root
  BY <1>1, RootStates
<1>4. StableTypes' /\ Sequences' /\ PlaceInv'
  BY <1>0, <1>1 DEF StableTypes, Sequences, PlaceInv
<1>5. CallerInv' /\ CollectorInv' /\ EntriesInv'
  BY <1>0, <1>1, <1>2, <1>3, StableTree, BusyScan DEF CallerInv, CollectorInv, EntriesInv
<1>6. SentInv'
  BY <1>0, <1>1, <1>2, <1>3 DEF SentInv
<1>7. AddedInv' /\ Stable!OrderIsKept'
  BY <1>1, <1>2, AddedKeeps
<1>8. Live' = Live
  BY <1>1, <1>2 DEF Live
<1>9. CountInv'
  BY <1>1, <1>8, BusyScan, CountKeeps
<1>10. LossInv'
  BY <1>0, <1>1, <1>2 DEF LossInv
<1> QED
  BY <1>4, <1>5, <1>6, <1>7, <1>9, <1>10 DEF StableInv

\* A goroutine ends, with or without a directory to send: to a collector that
\* has not got everything.
LEMMA SendsKeep ==
  ASSUME StableInv, NEW d \in Dirs, Stable!SendNil(d) \/ Stable!SendDir(d)
  PROVE  StableInv'
<1>0. /\ StableTypes /\ Sequences /\ CallerInv /\ CollectorInv /\ EntriesInv /\ PlaceInv /\ SentInv
      /\ AddedInv /\ CountInv /\ LossInv /\ Stable!OrderIsKept
  BY DEF StableInv
<1> DEFINE end == IF Stable!SendNil(d) THEN "refused" ELSE "finished"
<1>1. /\ UNCHANGED <<caller, collector, unlooked, indexed, received, added, unread, stopped,
                     stableValue, stableLocked>>
      /\ channel' = [channel EXCEPT ![Parent[d]] = @ \cup {d}]
  BY DEF Stable!SendNil, Stable!SendDir, Stable!Send, Stable!waitVars
<1>2. /\ goroutine[d] \in {"admitted", "returned"}
      /\ \/ goroutine[d] = "admitted" /\ d # Root /\ stopped /\ end = "refused"
         \/ goroutine[d] = "returned" /\ end = "finished"
      /\ goroutine' = [goroutine EXCEPT ![d] = end]
  BY DEF Stable!SendNil, Stable!SendDir
<1> HIDE DEF end
<1>3. d # Root /\ Parent[d] \in Dirs /\ d \in Children(Parent[d]) /\ d \in Entries
  BY <1>2, RootStates, StableTree
<1>4. /\ \A x \in Dirs : goroutine'[x] = IF x = d THEN end ELSE goroutine[x]
      /\ \A x \in Dirs : channel'[x] = IF x = Parent[d] THEN channel[x] \cup {d} ELSE channel[x]
  BY <1>0, <1>1, <1>2, <1>3 DEF StableTypes
<1>5. end \in {"finished", "refused"}
  BY <1>2
<1>6. StableTypes' /\ Sequences' /\ PlaceInv'
  <2>1. goroutine' \in [Dirs -> {"none", "spawned", "admitted", "walking", "returned", "finished", "refused"}]
    BY <1>0, <1>2, <1>5 DEF StableTypes
  <2>2. channel' \in [Dirs -> SUBSET Entries]
    BY <1>0, <1>1, <1>3 DEF StableTypes
  <2> QED
    BY <1>0, <1>1, <2>1, <2>2 DEF StableTypes, Sequences, PlaceInv
<1>7. collector[Parent[d]] \in {"none", "receiving"} /\ d \in Stable!ToSet(indexed[Parent[d]])
      /\ d \notin channel[Parent[d]] \cup received[Parent[d]]
  BY <1>0, <1>2, <1>3, AwaitedParents DEF SentInv
<1>8. CallerInv' /\ CollectorInv' /\ EntriesInv'
  BY <1>0, <1>1, <1>2, <1>3, <1>4, BusyScan, StableTree DEF CallerInv, CollectorInv, EntriesInv
<1>9. SentInv'
  <2>1. ASSUME NEW x \in Dirs
        PROVE  /\ channel'[x] \cap received'[x] = {}
               /\ channel'[x] \cup received'[x] \subseteq Stable!ToSet(indexed'[x])
               /\ \A e \in Stable!ToSet(indexed'[x]) \cap Files : e \in channel'[x] \cup received'[x]
               /\ collector'[x] = "none" => received'[x] = {}
               /\ collector'[x] \in {"adding", "done"} => received'[x] = Stable!ToSet(indexed'[x])
    BY <1>0, <1>1, <1>4, <1>7 DEF SentInv
  <2>2. ASSUME NEW x \in Dirs \ {Root}
        PROVE  /\ goroutine'[x] # "none" <=> x \in Stable!ToSet(indexed'[Parent[x]])
               /\ goroutine'[x] \in {"finished", "refused"} <=> x \in channel'[Parent[x]] \cup received'[Parent[x]]
    BY <1>0, <1>1, <1>2, <1>4, <1>5, <1>7, StableTree DEF SentInv
  <2> QED
    BY <2>1, <2>2 DEF SentInv
<1>10. AddedInv' /\ Stable!OrderIsKept'
  <2>1. ASSUME NEW x \in Dirs, x # Parent[d] PROVE d \notin Stable!ToSet(indexed[x])
    BY <1>0, <2>1, StableTree DEF EntriesInv
  <2>2. \A x \in Dirs : \A e \in Dirs \cap Stable!ToSet(indexed[x]) :
          x # Parent[d] => (goroutine'[e] = "refused" <=> goroutine[e] = "refused")
    BY <1>4, <2>1
  <2> QED
    BY <1>1, <1>7, <2>2, AddedKeeps
<1>11. Live' = Live
  BY <1>1, <1>2, <1>4, <1>5 DEF Live
<1>12. CountInv'
  BY <1>1, <1>2, <1>11, BusyScan, CountKeeps
<1>13. LossInv'
  BY <1>0, <1>1, <1>2, <1>4 DEF LossInv
<1> QED
  BY <1>6, <1>8, <1>9, <1>10, <1>12, <1>13 DEF StableInv

\* A directory joins the wait group and is read.
LEMMA ReadKeeps ==
  ASSUME StableInv, NEW d \in Dirs, Stable!ReadDir(d)
  PROVE  StableInv'
<1>0. /\ StableTypes /\ Sequences /\ CallerInv /\ CollectorInv /\ EntriesInv /\ PlaceInv /\ SentInv
      /\ AddedInv /\ CountInv /\ LossInv /\ Stable!OrderIsKept
  BY DEF StableInv
<1>1. /\ goroutine[d] = "admitted" /\ goroutine' = [goroutine EXCEPT ![d] = "walking"]
      /\ stableValue' = stableValue + 1 /\ stableLocked' = stableLocked
      /\ UNCHANGED <<caller, collector, indexed, channel, received, added, stopped>>
  BY DEF Stable!ReadDir, Stable!WaitAdd
<1>2. PICK read \in SUBSET Children(d), some \in BOOLEAN :
        /\ some \/ read = Children(d)
        /\ unlooked' = [unlooked EXCEPT ![d] = read]
        /\ unread' = IF some THEN unread \cup {d} ELSE unread
  BY SameTree DEF Stable!ReadDir
<1>3. /\ \A x \in Dirs : goroutine'[x] = IF x = d THEN "walking" ELSE goroutine[x]
      /\ \A x \in Dirs : unlooked'[x] = IF x = d THEN read ELSE unlooked[x]
      /\ read = Children(d) \/ d \in unread'
      /\ unread \subseteq unread' /\ unread' \subseteq Dirs
  BY <1>0, <1>1, <1>2 DEF StableTypes
<1>4. StableTypes' /\ Sequences'
  <2>1. read \in SUBSET Entries
    BY StableTree
  <2> QED
    BY <1>0, <1>1, <1>2, <1>3, <2>1 DEF StableTypes, Sequences
<1>5. CallerInv' /\ CollectorInv'
  BY <1>0, <1>1, <1>3, BusyScan, StableTree DEF CallerInv, CollectorInv
<1>6. EntriesInv'
  BY <1>0, <1>1, <1>3 DEF EntriesInv
<1>7. PlaceInv'
  <2>1. DOMAIN indexed[d] = {}
    BY <1>0, <1>1 DEF EntriesInv, Stable!ToSet
  <2> QED
    BY <1>0, <1>1, <1>3, <2>1 DEF PlaceInv
<1>8. SentInv'
  BY <1>0, <1>1, <1>3 DEF SentInv
<1>9. AddedInv' /\ Stable!OrderIsKept'
  BY <1>1, <1>3, AddedKeeps
<1>10. CountInv'
  <2>1. Live' = Live \cup {d} /\ d \notin Live
    BY <1>0, <1>1, <1>3 DEF Live, CollectorInv
  <2>2. IsFiniteSet(Live)
    BY StableTree, FS_Subset DEF Live
  <2>3. Cardinality(Live') = Cardinality(Live) + 1
    BY <2>1, <2>2, FS_AddElement
  <2>4. stableLocked = TRUE /\ caller # "returned"
    BY <1>1, BusyScan
  <2> QED
    BY <1>0, <1>1, <2>3, <2>4 DEF CountInv
<1>11. LossInv'
  BY <1>0, <1>1, <1>3 DEF LossInv
<1> QED
  BY <1>4, <1>5, <1>6, <1>7, <1>8, <1>9, <1>10, <1>11 DEF StableInv

\* What the loop's taking the next entry means: the rest comes later in the
\* listing, and nobody but the loop is disturbed.
LEMMA TakeFacts ==
  ASSUME StableInv, NEW d \in Dirs, NEW e, Stable!Take(d, e), Stable!PlacesDiffer
  PROVE  /\ goroutine[d] = "walking" /\ collector[d] = "none" /\ stopped = FALSE
         /\ e \in unlooked[d] /\ e \in Children(d) /\ e \in Entries /\ Parent[e] = d
         /\ e \notin Stable!ToSet(indexed[d])
         /\ \A x \in Dirs : unlooked'[x] = IF x = d THEN unlooked[d] \ {e} ELSE unlooked[x]
         /\ unlooked' \in [Dirs -> SUBSET Entries]
         /\ \A x \in unlooked'[d] : Place[e] < Place[x]
         /\ UNCHANGED <<caller, collector, received, added, stopped, stableValue, stableLocked>>
         /\ stableLocked = TRUE /\ caller # "returned"
<1>0. StableTypes /\ CollectorInv /\ EntriesInv /\ PlaceInv /\ Sequences
  BY DEF StableInv
<1>1. /\ goroutine[d] = "walking" /\ ~stopped /\ e \in unlooked[d]
      /\ \A x \in unlooked[d] : Place[e] <= Place[x]
      /\ unlooked' = [unlooked EXCEPT ![d] = @ \ {e}]
      /\ UNCHANGED <<caller, collector, received, added, stopped, stableValue, stableLocked>>
  BY DEF Stable!Take, Stable!waitVars
<1>2. unlooked[d] \subseteq Children(d) /\ e \in Entries /\ Parent[e] = d
  BY <1>0, <1>1, StableTree DEF EntriesInv
<1>3. \A x \in Dirs : unlooked'[x] = IF x = d THEN unlooked[d] \ {e} ELSE unlooked[x]
  BY <1>0, <1>1 DEF StableTypes
<1>4. unlooked' \in [Dirs -> SUBSET Entries]
  BY <1>0, <1>1 DEF StableTypes
<1>5. ASSUME NEW x \in unlooked'[d] PROVE Place[e] < Place[x]
  <2>1. x \in Entries /\ Parent[x] = d /\ x # e /\ Place[e] <= Place[x]
    BY <1>1, <1>2, <1>3, StableTree
  <2>2. Place[e] # Place[x] /\ Place[e] \in Nat /\ Place[x] \in Nat
    BY <1>2, <2>1, SameTree DEF Stable!PlacesDiffer
  <2> QED
    BY <2>1, <2>2
<1>6. e \notin Stable!ToSet(indexed[d])
  <2> SUFFICES ASSUME NEW m \in DOMAIN indexed[d], indexed[d][m] = e PROVE FALSE
    BY DEF Stable!ToSet
  <2>1. Place[e] < Place[e] /\ Place[e] \in Nat
    BY <1>0, <1>1, <1>2, SameTree DEF PlaceInv, Stable!PlacesDiffer
  <2> QED
    BY <2>1
<1>7. stableLocked = TRUE /\ caller # "returned"
  BY <1>1, BusyScan
<1>8. collector[d] = "none"
  BY <1>0, <1>1 DEF CollectorInv
<1>9. stopped = FALSE
  BY <1>0, <1>1 DEF StableTypes
<1> QED
  BY <1>1, <1>2, <1>3, <1>4, <1>5, <1>6, <1>7, <1>8, <1>9

\* An entry that is skipped, or whose Info fails, gets no index.
LEMMA PassOverKeeps ==
  ASSUME StableInv, Stable!PlacesDiffer, NEW d \in Dirs, NEW e \in Entries, Stable!Skipped(d, e) \/ Stable!FileFails(d, e)
  PROVE  StableInv'
<1>0. /\ StableTypes /\ Sequences /\ CallerInv /\ CollectorInv /\ EntriesInv /\ PlaceInv /\ SentInv
      /\ AddedInv /\ CountInv /\ LossInv /\ Stable!OrderIsKept
  BY DEF StableInv
<1>1. /\ Stable!Take(d, e) /\ UNCHANGED <<goroutine, indexed, channel>>
      /\ e \in StableSkip \/ unread' = unread \cup {d}
      /\ unread' = unread \/ unread' = unread \cup {d}
  BY DEF Stable!Skipped, Stable!FileFails
<1>2. /\ goroutine[d] = "walking" /\ collector[d] = "none" /\ stopped = FALSE
      /\ e \in unlooked[d] /\ e \in Children(d)
      /\ \A x \in Dirs : unlooked'[x] = IF x = d THEN unlooked[d] \ {e} ELSE unlooked[x]
      /\ unlooked' \in [Dirs -> SUBSET Entries]
      /\ UNCHANGED <<caller, collector, received, added, stopped, stableValue, stableLocked>>
      /\ stableLocked = TRUE /\ caller # "returned"
  BY <1>1, TakeFacts
<1>3. StableTypes' /\ Sequences' /\ CallerInv' /\ CollectorInv' /\ EntriesInv' /\ PlaceInv' /\ SentInv'
  <2>1. StableTypes'
    BY <1>0, <1>1, <1>2 DEF StableTypes
  <2>2. Sequences' /\ CallerInv' /\ CollectorInv' /\ SentInv'
    BY <1>0, <1>1, <1>2 DEF Sequences, CallerInv, CollectorInv, SentInv
  <2>3. EntriesInv'
    BY <1>0, <1>1, <1>2 DEF EntriesInv
  <2>4. PlaceInv'
    <3>1. indexed' = indexed /\ \A x \in Dirs : unlooked'[x] \subseteq unlooked[x]
      BY <1>1, <1>2
    <3> QED
      BY <1>0, <3>1 DEF PlaceInv
  <2> QED
    BY <2>1, <2>2, <2>3, <2>4
<1>4. AddedInv' /\ Stable!OrderIsKept'
  BY <1>1, <1>2, AddedKeeps
<1>5. Live' = Live
  BY <1>1, <1>2 DEF Live
<1>6. CountInv'
  BY <1>2, <1>5, CountKeeps
<1>7. LossInv'
  BY <1>0, <1>1, <1>2 DEF LossInv
<1> QED
  BY <1>3, <1>4, <1>6, <1>7 DEF StableInv

\* An entry that gets the next index: a file is sent at once, a directory gets
\* a goroutine.
LEMMA IndexKeeps ==
  ASSUME StableInv, Stable!PlacesDiffer, NEW d \in Dirs, NEW e \in Entries, Stable!SendFile(d, e) \/ Stable!SpawnDir(d, e)
  PROVE  StableInv'
<1>0. /\ StableTypes /\ Sequences /\ CallerInv /\ CollectorInv /\ EntriesInv /\ PlaceInv /\ SentInv
      /\ AddedInv /\ CountInv /\ LossInv /\ Stable!OrderIsKept
  BY DEF StableInv
<1>1. /\ Stable!Take(d, e) /\ unread' = unread /\ e \notin StableSkip
      /\ indexed' = [indexed EXCEPT ![d] = Append(@, e)]
      /\ \/ e \in Files /\ channel' = [channel EXCEPT ![d] = @ \cup {e}] /\ goroutine' = goroutine
         \/ e \in Dirs /\ goroutine' = [goroutine EXCEPT ![e] = "spawned"] /\ channel' = channel
  BY DEF Stable!SendFile, Stable!SpawnDir, Stable!Send
<1>2. /\ goroutine[d] = "walking" /\ collector[d] = "none" /\ stopped = FALSE
      /\ e \in unlooked[d] /\ e \in Children(d) /\ Parent[e] = d
      /\ e \notin Stable!ToSet(indexed[d])
      /\ \A x \in Dirs : unlooked'[x] = IF x = d THEN unlooked[d] \ {e} ELSE unlooked[x]
      /\ unlooked' \in [Dirs -> SUBSET Entries]
      /\ \A x \in unlooked'[d] : Place[e] < Place[x]
      /\ UNCHANGED <<caller, collector, received, added, stopped, stableValue, stableLocked>>
      /\ stableLocked = TRUE /\ caller # "returned"
  BY <1>1, TakeFacts
<1> DEFINE s == indexed[d]
           t == Append(s, e)
<1>3. s \in Seq(Entries)
  BY <1>0 DEF Sequences
<1>4. /\ t \in Seq(Entries) /\ Len(s) \in Nat
      /\ DOMAIN s = 1..Len(s) /\ DOMAIN t = 1..Len(s) + 1
      /\ Stable!ToSet(t) = Stable!ToSet(s) \cup {e}
      /\ t[Len(s) + 1] = e
      /\ \A i \in DOMAIN s : i \in DOMAIN t /\ t[i] = s[i]
  <2>1. ASSUME NEW q \in Seq(Entries), NEW u, u = Append(q, e)
        PROVE  /\ u \in Seq(Entries) /\ Len(q) \in Nat
               /\ DOMAIN q = 1..Len(q) /\ DOMAIN u = 1..Len(q) + 1
    BY <2>1, AppendFacts
  <2>2. ASSUME NEW q \in Seq(Entries), NEW u, u = Append(q, e)
        PROVE  Stable!ToSet(u) = Stable!ToSet(q) \cup {e}
    BY <2>2, AppendFacts
  <2>3. ASSUME NEW q \in Seq(Entries), NEW u, u = Append(q, e)
        PROVE  u[Len(q) + 1] = e /\ \A i \in DOMAIN q : i \in DOMAIN u /\ u[i] = q[i]
    BY <2>3, AppendFacts
  <2> QED
    BY <1>3, <2>1, <2>2, <2>3, Zenon
<1>5. \A x \in Dirs : indexed'[x] = IF x = d THEN t ELSE indexed[x]
  BY <1>0, <1>1 DEF Sequences
<1>6. indexed' \in [Dirs -> Seq(Entries)]
  BY <1>0, <1>1, <1>4 DEF Sequences
<1> HIDE DEF t
<1>7. \A x \in Dirs : Stable!ToSet(indexed'[x]) = IF x = d THEN Stable!ToSet(indexed[d]) \cup {e}
                                                  ELSE Stable!ToSet(indexed[x])
  BY <1>4, <1>5
<1>8. /\ e \in Files /\ e \notin Dirs
         /\ \A x \in Dirs : /\ goroutine'[x] = goroutine[x]
                            /\ channel'[x] = IF x = d THEN channel[d] \cup {e} ELSE channel[x]
         /\ channel' \in [Dirs -> SUBSET Entries] /\ goroutine' = goroutine
      \/ /\ e \in Dirs \ {Root} /\ e \notin Files
         /\ \A x \in Dirs : /\ goroutine'[x] = IF x = e THEN "spawned" ELSE goroutine[x]
                            /\ channel'[x] = channel[x]
         /\ goroutine' \in [Dirs -> {"none", "spawned", "admitted", "walking", "returned", "finished", "refused"}]
         /\ channel' = channel /\ goroutine[e] = "none"
  <2>1. CASE e \in Files
    <3>1. e \notin Dirs /\ channel' = [channel EXCEPT ![d] = @ \cup {e}] /\ goroutine' = goroutine
      BY <1>1, <2>1, StableTree
    <3>2. channel \in [Dirs -> SUBSET Entries]
      BY <1>0 DEF StableTypes
    <3> QED
      BY <2>1, <3>1, <3>2
  <2>2. CASE e \in Dirs
    <3>1. e \in Dirs \ {Root} /\ e \notin Files
      BY <2>2, StableTree
    <3>2. goroutine[e] = "none"
      BY <1>0, <1>2, <3>1 DEF SentInv
    <3> QED
      BY <1>0, <1>1, <3>1, <3>2 DEF StableTypes
  <2> QED
    BY <2>1, <2>2, StableTree
<1>9. StableTypes' /\ Sequences'
  BY <1>0, <1>1, <1>2, <1>6, <1>8 DEF StableTypes, Sequences
<1>10. CallerInv' /\ CollectorInv'
  <2>1. caller # "idle"
    BY <1>0, <1>2 DEF CallerInv
  <2>2. goroutine'[Root] = goroutine[Root]
    BY <1>8, StableTree
  <2>3. CallerInv'
    BY <1>0, <1>2, <2>1, <2>2 DEF CallerInv
  <2>4. CollectorInv'
    BY <1>0, <1>2, <1>8 DEF CollectorInv
  <2> QED
    BY <2>3, <2>4
<1>11. EntriesInv'
  <2>1. ASSUME NEW x \in Dirs
        PROVE  /\ unlooked'[x] \subseteq Children(x)
               /\ \A y \in Stable!ToSet(indexed'[x]) : y \in Children(x) /\ y \notin StableSkip
               /\ goroutine'[x] \in {"none", "spawned", "admitted", "refused"} =>
                    unlooked'[x] = {} /\ Stable!ToSet(indexed'[x]) = {}
    <3>1. CASE x = d
      BY <1>0, <1>1, <1>2, <1>7, <1>8, <3>1 DEF EntriesInv
    <3>2. CASE x # d
      BY <1>0, <1>2, <1>7, <1>8, <3>2 DEF EntriesInv
    <3> QED
      BY <3>1, <3>2
  <2> QED
    BY <2>1 DEF EntriesInv
<1>12. PlaceInv'
  <2>1. ASSUME NEW x \in Dirs, NEW m \in DOMAIN indexed'[x]
        PROVE  /\ \A n \in DOMAIN indexed'[x] : m < n => Place[indexed'[x][m]] < Place[indexed'[x][n]]
               /\ \A y \in unlooked'[x] : Place[indexed'[x][m]] < Place[y]
    <3>1. CASE x # d
      <4>1. indexed'[x] = indexed[x] /\ unlooked'[x] = unlooked[x]
        BY <1>2, <1>5, <3>1
      <4> QED
        BY <1>0, <4>1 DEF PlaceInv
    <3>2. CASE x = d
      <4>1. indexed'[x] = t /\ unlooked'[x] = unlooked[d] \ {e}
        BY <1>2, <1>5, <3>2
      <4>2. \A i \in DOMAIN t : i \in DOMAIN s \/ i = Len(s) + 1
        BY <1>4
      <4>3. \A i \in DOMAIN s : i < Len(s) + 1 /\ Place[t[i]] < Place[e]
        BY <1>0, <1>2, <1>4 DEF PlaceInv
      <4>4. CASE m = Len(s) + 1
        <5>1. \A n \in DOMAIN t : ~(m < n)
          BY <1>4, <4>4
        <5> QED
          BY <1>2, <1>4, <3>2, <4>1, <4>4, <5>1
      <4>5. CASE m \in DOMAIN s
        <5>1. \A y \in unlooked[d] : Place[t[m]] < Place[y]
          BY <1>0, <1>4, <4>5 DEF PlaceInv
        <5>2. ASSUME NEW n \in DOMAIN t, m < n PROVE Place[t[m]] < Place[t[n]]
          <6>1. CASE n \in DOMAIN s
            BY <1>0, <1>4, <4>5, <5>2, <6>1 DEF PlaceInv
          <6>2. CASE n = Len(s) + 1
            BY <1>4, <4>3, <4>5, <6>2
          <6> QED
            BY <4>2, <6>1, <6>2
        <5> QED
          BY <4>1, <5>1, <5>2
      <4> QED
        BY <4>1, <4>2, <4>4, <4>5
    <3> QED
      BY <3>1, <3>2
  <2> QED
    BY <2>1 DEF PlaceInv
<1>13. SentInv'
  <2>1. ASSUME NEW x \in Dirs
        PROVE  /\ channel'[x] \cap received'[x] = {}
               /\ channel'[x] \cup received'[x] \subseteq Stable!ToSet(indexed'[x])
               /\ \A y \in Stable!ToSet(indexed'[x]) \cap Files : y \in channel'[x] \cup received'[x]
               /\ collector'[x] = "none" => received'[x] = {}
               /\ collector'[x] \in {"adding", "done"} => received'[x] = Stable!ToSet(indexed'[x])
    <3>1. CASE x = d
      BY <1>0, <1>2, <1>7, <1>8, <3>1 DEF SentInv
    <3>2. CASE x # d
      BY <1>0, <1>2, <1>7, <1>8, <3>2 DEF SentInv
    <3> QED
      BY <3>1, <3>2
  <2>2. ASSUME NEW x \in Dirs \ {Root}
        PROVE  /\ goroutine'[x] # "none" <=> x \in Stable!ToSet(indexed'[Parent[x]])
               /\ goroutine'[x] \in {"finished", "refused"} <=> x \in channel'[Parent[x]] \cup received'[Parent[x]]
    <3>1. Parent[x] \in Dirs
      BY StableTree
    <3>2. /\ goroutine[x] # "none" <=> x \in Stable!ToSet(indexed[Parent[x]])
          /\ goroutine[x] \in {"finished", "refused"} <=> x \in channel[Parent[x]] \cup received[Parent[x]]
      BY <1>0 DEF SentInv
    <3>3. CASE x = e
      BY <1>2, <1>7, <1>8, <3>1, <3>2, <3>3
    <3>4. CASE x # e
      BY <1>2, <1>7, <1>8, <3>1, <3>2, <3>4
    <3> QED
      BY <3>3, <3>4
  <2> QED
    BY <2>1, <2>2 DEF SentInv
<1>14. AddedInv' /\ Stable!OrderIsKept'
  <2>1. \A x \in Dirs : goroutine'[x] = "refused" <=> goroutine[x] = "refused"
    BY <1>8
  <2> QED
    BY <1>2, <1>5, <2>1, AddedKeeps
<1>15. Live' = Live
  BY <1>2, <1>8 DEF Live
<1>16. CountInv'
  BY <1>2, <1>15, CountKeeps
<1>17. LossInv'
  BY <1>0, <1>1, <1>2, <1>7, <1>8 DEF LossInv
<1> QED
  BY <1>9, <1>10, <1>11, <1>12, <1>13, <1>14, <1>16, <1>17 DEF StableInv

\* The loop ends: the collector takes the directory's place in the wait group.
LEMMA EndKeeps ==
  ASSUME StableInv, NEW d \in Dirs, Stable!EndLoop(d)
  PROVE  StableInv'
<1>0. /\ StableTypes /\ Sequences /\ CallerInv /\ CollectorInv /\ EntriesInv /\ PlaceInv /\ SentInv
      /\ AddedInv /\ CountInv /\ LossInv /\ Stable!OrderIsKept
  BY DEF StableInv
<1> DEFINE end == IF d = Root THEN "finished" ELSE "returned"
<1>1. /\ goroutine[d] = "walking" /\ (stopped \/ unlooked[d] = {})
      /\ collector' = [collector EXCEPT ![d] = "receiving"]
      /\ goroutine' = [goroutine EXCEPT ![d] = end]
      /\ caller' = IF d = Root THEN "waiting" ELSE caller
      /\ UNCHANGED <<unlooked, indexed, channel, received, added, unread, stopped, stableValue, stableLocked>>
  BY DEF Stable!EndLoop, Stable!waitVars
<1>2. /\ collector[d] = "none" /\ end \in {"finished", "returned"}
      /\ \A x \in Dirs : goroutine'[x] = IF x = d THEN end ELSE goroutine[x]
      /\ \A x \in Dirs : collector'[x] = IF x = d THEN "receiving" ELSE collector[x]
  BY <1>0, <1>1 DEF StableTypes, CollectorInv
<1>3. d # Root => end = "returned" /\ caller' = caller
  BY <1>1
<1>4. d = Root => end = "finished" /\ caller' = "waiting"
  BY <1>1
<1> HIDE DEF end
<1>5. stableLocked = TRUE /\ caller \in {"scanning", "waiting", "locking"}
  BY <1>1, BusyScan
<1>6. StableTypes' /\ Sequences' /\ PlaceInv'
  <2>1. caller' \in {"idle", "scanning", "waiting", "locking", "returned"}
    BY <1>3, <1>4, <1>5
  <2>2. goroutine' \in [Dirs -> {"none", "spawned", "admitted", "walking", "returned", "finished", "refused"}]
        /\ collector' \in [Dirs -> {"none", "receiving", "adding", "done"}]
    BY <1>0, <1>1, <1>2 DEF StableTypes
  <2> QED
    BY <1>0, <1>1, <2>1, <2>2 DEF StableTypes, Sequences, PlaceInv
<1>7. CallerInv'
  <2>1. CASE d = Root
    <3>1. goroutine'[Root] = "finished" /\ caller' = "waiting"
      BY <1>2, <1>4, <2>1, StableTree
    <3> QED
      BY <3>1 DEF CallerInv
  <2>2. CASE d # Root
    <3>1. goroutine'[Root] = goroutine[Root] /\ caller' = caller /\ caller # "idle"
      BY <1>2, <1>3, <1>5, <2>2, StableTree
    <3>2. goroutine[Root] # "admitted"
      BY <1>0, <1>1, <2>2 DEF CallerInv
    <3> QED
      BY <1>0, <3>1, <3>2 DEF CallerInv
  <2> QED
    BY <2>1, <2>2
<1>8. CollectorInv' /\ EntriesInv'
  BY <1>0, <1>1, <1>2 DEF CollectorInv, EntriesInv
<1>9. SentInv'
  BY <1>0, <1>1, <1>2, <1>3 DEF SentInv
<1>10. AddedInv' /\ Stable!OrderIsKept'
  <2>1. \A x \in Dirs : goroutine'[x] = "refused" <=> goroutine[x] = "refused"
    BY <1>1, <1>2
  <2> QED
    BY <1>1, <1>2, <2>1, AddedKeeps
<1>11. Live' = Live
  BY <1>1, <1>2 DEF Live
<1>12. CountInv'
  BY <1>1, <1>3, <1>4, <1>5, <1>11, CountKeeps
<1>13. LossInv'
  BY <1>0, <1>1, <1>2 DEF LossInv
<1> QED
  BY <1>6, <1>7, <1>8, <1>9, <1>10, <1>12, <1>13 DEF StableInv

\* The collector takes what was sent, and begins to add when it has everything.
LEMMA ReceiveKeeps ==
  ASSUME StableInv, NEW d \in Dirs, Stable!AllReceived(d) \/ \E e \in Entries : Stable!Receive(d, e)
  PROVE  StableInv'
<1>0. /\ StableTypes /\ Sequences /\ CallerInv /\ CollectorInv /\ EntriesInv /\ PlaceInv /\ SentInv
      /\ AddedInv /\ CountInv /\ LossInv /\ Stable!OrderIsKept
  BY DEF StableInv
<1>1. /\ collector[d] = "receiving"
      /\ UNCHANGED <<caller, goroutine, unlooked, indexed, added, unread, stopped, stableValue, stableLocked>>
  BY DEF Stable!AllReceived, Stable!Receive, Stable!waitVars
<1>2. stableLocked = TRUE /\ caller \in {"scanning", "waiting", "locking"}
  BY <1>1, BusyScan
<1>3. Sequences' /\ PlaceInv' /\ CallerInv' /\ EntriesInv' /\ LossInv'
  BY <1>0, <1>1 DEF Sequences, PlaceInv, CallerInv, EntriesInv, LossInv
<1>4. CASE Stable!AllReceived(d)
  <2>1. /\ received[d] = Stable!ToSet(indexed[d]) /\ collector' = [collector EXCEPT ![d] = "adding"]
        /\ UNCHANGED <<channel, received>>
    BY <1>4 DEF Stable!AllReceived
  <2>2. \A x \in Dirs : collector'[x] = IF x = d THEN "adding" ELSE collector[x]
    BY <1>0, <2>1 DEF StableTypes
  <2>3. StableTypes'
    BY <1>0, <1>1, <2>1 DEF StableTypes
  <2>4. CollectorInv' /\ SentInv'
    BY <1>0, <1>1, <2>1, <2>2 DEF CollectorInv, SentInv
  <2>5. AddedInv' /\ Stable!OrderIsKept'
    BY <1>1, <2>2, AddedKeeps
  <2>6. Live' = Live
    BY <1>1, <2>2 DEF Live
  <2>7. CountInv'
    BY <1>1, <1>2, <2>6, CountKeeps
  <2> QED
    BY <1>3, <2>3, <2>4, <2>5, <2>7 DEF StableInv
<1>5. ASSUME NEW e \in Entries, Stable!Receive(d, e) PROVE StableInv'
  <2>1. /\ e \in channel[d] /\ collector' = collector
        /\ received' = [received EXCEPT ![d] = @ \cup {e}] /\ channel' = [channel EXCEPT ![d] = @ \ {e}]
    BY <1>5 DEF Stable!Receive
  <2>2. /\ \A x \in Dirs : received'[x] = IF x = d THEN received[d] \cup {e} ELSE received[x]
        /\ \A x \in Dirs : channel'[x] = IF x = d THEN channel[d] \ {e} ELSE channel[x]
    BY <1>0, <2>1 DEF StableTypes
  <2>3. StableTypes'
    <3>1. received' \in [Dirs -> SUBSET Entries] /\ channel' \in [Dirs -> SUBSET Entries]
      BY <1>0, <2>1 DEF StableTypes
    <3> QED
      BY <1>0, <1>1, <2>1, <3>1 DEF StableTypes
  <2>4. CollectorInv'
    BY <1>0, <1>1, <2>1 DEF CollectorInv
  <2>5. SentInv'
    <3>1. \A x \in Dirs : channel'[x] \cup received'[x] = channel[x] \cup received[x]
      BY <2>1, <2>2
    <3>2. \A x \in Dirs : channel'[x] \cap received'[x] = {}
      BY <1>0, <2>2 DEF SentInv
    <3>3. \A x \in Dirs : x # d => received'[x] = received[x]
      BY <2>2
    <3> QED
      BY <1>0, <1>1, <2>1, <3>1, <3>2, <3>3, StableTree DEF SentInv
  <2>6. AddedInv' /\ Stable!OrderIsKept'
    BY <1>1, <2>1, AddedKeeps
  <2>7. Live' = Live
    BY <1>1, <2>1 DEF Live
  <2>8. CountInv'
    BY <1>1, <1>2, <2>7, CountKeeps
  <2> QED
    BY <1>3, <2>3, <2>4, <2>5, <2>6, <2>8 DEF StableInv
<1> QED
  BY <1>4, <1>5

\* The first of what is missing is added: it comes after all that was.
LEMMA AddKeeps ==
  ASSUME StableInv, Stable!PlacesDiffer, NEW d \in Dirs, Stable!Add(d)
  PROVE  StableInv'
<1>0. /\ StableTypes /\ Sequences /\ CallerInv /\ CollectorInv /\ EntriesInv /\ PlaceInv /\ SentInv
      /\ AddedInv /\ CountInv /\ LossInv /\ Stable!OrderIsKept
  BY DEF StableInv
<1>1. /\ collector[d] = "adding"
      /\ UNCHANGED <<caller, goroutine, collector, unlooked, indexed, channel, received, unread, stopped,
                     stableValue, stableLocked>>
  BY DEF Stable!Add, Stable!waitVars
<1>2. PICK k \in Stable!Missing(d) :
        /\ \A j \in Stable!Missing(d) : k <= j
        /\ added' = [added EXCEPT ![d] = Append(@, indexed[d][k])]
  BY DEF Stable!Add
<1> DEFINE s == added[d]
           e == indexed[d][k]
           t == Append(s, e)
<1>3. k \in DOMAIN indexed[d] /\ e \notin Stable!ToSet(s) /\ (e \in Dirs => goroutine[e] # "refused")
  BY <1>2 DEF Stable!Missing
<1>4. e \in Stable!ToSet(indexed[d]) /\ e \in Entries
  <2>1. e \in Stable!ToSet(indexed[d])
    BY <1>3 DEF Stable!ToSet
  <2> QED
    BY <1>0, <2>1, StableTree DEF EntriesInv
<1>5. s \in Seq(Entries)
  BY <1>0 DEF Sequences
<1>6. /\ t \in Seq(Entries) /\ Len(s) \in Nat
      /\ DOMAIN s = 1..Len(s) /\ DOMAIN t = 1..Len(s) + 1
      /\ Stable!ToSet(t) = Stable!ToSet(s) \cup {e}
      /\ t[Len(s) + 1] = e
      /\ \A i \in DOMAIN s : i \in DOMAIN t /\ t[i] = s[i]
  <2>1. ASSUME NEW v \in Entries, NEW q \in Seq(Entries), NEW u, u = Append(q, v)
        PROVE  /\ u \in Seq(Entries) /\ Len(q) \in Nat
               /\ DOMAIN q = 1..Len(q) /\ DOMAIN u = 1..Len(q) + 1
    BY <2>1, AppendFacts
  <2>2. ASSUME NEW v \in Entries, NEW q \in Seq(Entries), NEW u, u = Append(q, v)
        PROVE  Stable!ToSet(u) = Stable!ToSet(q) \cup {v}
    BY <2>2, AppendFacts
  <2>3. ASSUME NEW v \in Entries, NEW q \in Seq(Entries), NEW u, u = Append(q, v)
        PROVE  u[Len(q) + 1] = v /\ \A i \in DOMAIN q : i \in DOMAIN u /\ u[i] = q[i]
    BY <2>3, AppendFacts
  <2> HIDE DEF e, s
  <2> QED
    BY <1>4, <1>5, <2>1, <2>2, <2>3, Zenon
<1>7. \A x \in Dirs : added'[x] = IF x = d THEN t ELSE added[x]
  BY <1>0, <1>2 DEF Sequences
<1>8. added' \in [Dirs -> Seq(Entries)]
  BY <1>0, <1>2, <1>6 DEF Sequences
<1> HIDE DEF t
<1>9. Sequences'
  BY <1>0, <1>1, <1>8 DEF Sequences
<1>10. StableTypes' /\ CallerInv' /\ CollectorInv' /\ EntriesInv' /\ PlaceInv' /\ SentInv' /\ LossInv'
  BY <1>0, <1>1 DEF StableTypes, CallerInv, CollectorInv, EntriesInv, PlaceInv, SentInv, LossInv
<1>11. Live' = Live
  BY <1>1 DEF Live
<1>12. CountInv'
  <2>1. stableLocked = TRUE /\ caller # "returned"
    BY <1>1, BusyScan
  <2> QED
    BY <1>1, <1>11, <2>1, CountKeeps
<1>13. ASSUME NEW m \in DOMAIN indexed[d], indexed[d][m] \in Stable!ToSet(s) PROVE m < k
  <2>1. ~(k < m)
    BY <1>0, <1>2, <1>13 DEF AddedInv
  <2>2. m # k
    BY <1>3, <1>13
  <2>3. m \in Nat /\ k \in Nat
    BY <1>0, <1>3 DEF Sequences
  <2> QED
    BY <2>1, <2>2, <2>3
<1>14. Stable!OrderIsKept'
  <2>1. ASSUME NEW i \in DOMAIN s PROVE Place[s[i]] < Place[e]
    <3>1. s[i] \in Stable!ToSet(s)
      BY DEF Stable!ToSet
    <3>2. PICK m \in DOMAIN indexed[d] : indexed[d][m] = s[i]
      BY <1>0, <3>1 DEF AddedInv, Stable!ToSet
    <3>3. m < k
      BY <1>13, <3>1, <3>2
    <3> QED
      BY <1>0, <1>3, <3>2, <3>3 DEF PlaceInv
  <2>2. \A i \in DOMAIN t : i \in DOMAIN s \/ i = Len(s) + 1
    BY <1>6
  <2>3. ASSUME NEW i \in DOMAIN t, NEW j \in DOMAIN t, i < j PROVE Place[t[i]] < Place[t[j]]
    <3>1. i \in DOMAIN s /\ t[i] = s[i]
      BY <1>6, <2>2, <2>3
    <3>2. CASE j \in DOMAIN s
      BY <1>0, <1>6, <2>3, <3>1, <3>2 DEF Stable!OrderIsKept
    <3>3. CASE j = Len(s) + 1
      BY <1>6, <2>1, <3>1, <3>3
    <3> QED
      BY <2>2, <3>2, <3>3
  <2> HIDE DEF s
  <2> QED
    BY <1>0, <1>7, <2>3 DEF Stable!OrderIsKept
<1>15. AddedInv'
  <2> DEFINE Part(x) ==
        /\ collector[x] \in {"none", "receiving"} => added[x] = <<>>
        /\ collector[x] = "done" => Stable!Missing(x) = {}
        /\ \A y \in Stable!ToSet(added[x]) :
             y \in Stable!ToSet(indexed[x]) /\ (y \in Dirs => goroutine[y] # "refused")
        /\ \A m \in Stable!Missing(x) : \A n \in DOMAIN indexed[x] :
             m < n => indexed[x][n] \notin Stable!ToSet(added[x])
  <2>1. \A x \in Dirs : Part(x)
    BY <1>0 DEF AddedInv
  <2>2. ASSUME NEW x \in Dirs, x # d PROVE Part(x)'
    <3>1. added'[x] = added[x]
      BY <1>7, <2>2
    <3>2. Stable!Missing(x)' = Stable!Missing(x)
      BY <1>1, <3>1 DEF Stable!Missing
    <3>3. Part(x)
      BY <2>1
    <3> QED
      BY <1>1, <3>1, <3>2, <3>3
  <2>3. Part(d)'
    <3>1. added'[d] = t
      BY <1>7
    <3>2. Stable!Missing(d)' \subseteq Stable!Missing(d) \ {k}
      BY <1>1, <1>6, <3>1 DEF Stable!Missing
    <3>3. \A y \in Stable!ToSet(t) : y \in Stable!ToSet(indexed[d]) /\ (y \in Dirs => goroutine[y] # "refused")
      BY <1>3, <1>4, <1>6, <2>1
    <3>4. ASSUME NEW m \in Stable!Missing(d) \ {k}, NEW n \in DOMAIN indexed[d], m < n
          PROVE  indexed[d][n] \notin Stable!ToSet(t)
      <4>1. indexed[d][n] \notin Stable!ToSet(s)
        BY <2>1, <3>4
      <4>2. k <= m /\ k \in DOMAIN indexed[d] /\ m \in DOMAIN indexed[d]
        BY <1>2, <1>3 DEF Stable!Missing
      <4>3. k \in Nat /\ m \in Nat /\ n \in Nat
        BY <1>0, <4>2 DEF Sequences
      <4>4. k < n
        BY <3>4, <4>2, <4>3
      <4>5. indexed[d][k] # indexed[d][n]
        <5>1. Place[indexed[d][k]] < Place[indexed[d][n]]
          BY <1>0, <1>3, <4>4 DEF PlaceInv
        <5>2. indexed[d][k] \in Entries /\ indexed[d][n] \in Entries
          BY <1>0, <1>3 DEF Sequences
        <5>3. \A x \in Entries : Place[x] \in Nat
          BY SameTree DEF Stable!PlacesDiffer
        <5> QED
          BY <5>1, <5>2, <5>3
      <4> QED
        BY <1>6, <4>1, <4>5
    <3> QED
      BY <1>1, <3>1, <3>2, <3>3, <3>4
  <2> QED
    BY <2>2, <2>3 DEF AddedInv
<1> QED
  BY <1>9, <1>10, <1>12, <1>14, <1>15 DEF StableInv

\* The collector leaves the wait group, and opens its lock if it is the last.
LEMMA DoneKeeps ==
  ASSUME StableInv, NEW d \in Dirs, Stable!Done(d)
  PROVE  StableInv'
<1>0. /\ StableTypes /\ Sequences /\ CallerInv /\ CollectorInv /\ EntriesInv /\ PlaceInv /\ SentInv
      /\ AddedInv /\ CountInv /\ LossInv /\ Stable!OrderIsKept
  BY DEF StableInv
<1>1. /\ collector[d] = "adding" /\ Stable!Missing(d) = {}
      /\ collector' = [collector EXCEPT ![d] = "done"]
      /\ stableValue' = stableValue - 1 /\ stableLocked' = (stableLocked /\ stableValue' # 0)
      /\ UNCHANGED <<caller, goroutine, unlooked, indexed, channel, received, added, unread, stopped>>
  BY DEF Stable!Done, Stable!WaitDone
<1>2. \A x \in Dirs : collector'[x] = IF x = d THEN "done" ELSE collector[x]
  BY <1>0, <1>1 DEF StableTypes
<1>3. Sequences' /\ PlaceInv' /\ CallerInv' /\ EntriesInv' /\ LossInv' /\ Stable!OrderIsKept'
  BY <1>0, <1>1 DEF Sequences, PlaceInv, CallerInv, EntriesInv, LossInv, Stable!OrderIsKept
<1>4. StableTypes'
  BY <1>0, <1>1 DEF StableTypes
<1>5. CollectorInv' /\ SentInv'
  BY <1>0, <1>1, <1>2 DEF CollectorInv, SentInv
<1>6. AddedInv'
  <2>1. \A x \in Dirs : Stable!Missing(x)' = Stable!Missing(x)
    BY <1>1 DEF Stable!Missing
  <2> QED
    BY <1>0, <1>1, <1>2, <2>1 DEF AddedInv
<1>7. CountInv'
  <2>1. Live' = Live \ {d} /\ d \in Live
    BY <1>0, <1>1, <1>2 DEF Live, CollectorInv
  <2>2. IsFiniteSet(Live) /\ IsFiniteSet(Live')
    BY <2>1, StableTree, FS_Subset DEF Live
  <2>3. Cardinality(Live') = Cardinality(Live) - 1
    BY <2>1, <2>2, FS_RemoveElement
  <2>4. stableLocked = TRUE /\ caller \in {"scanning", "waiting", "locking"}
    BY <1>1, BusyScan
  <2>5. stableValue' = Cardinality(Live') /\ stableLocked' \in BOOLEAN
    BY <1>0, <1>1, <2>3 DEF CountInv
  <2>6. ~stableLocked' => Live' = {}
    BY <1>1, <2>2, <2>4, <2>5, FS_EmptySet
  <2>7. Live' = {} => caller # "scanning"
    <3>1. CASE caller = "scanning"
      <4>1. goroutine[Root] = "walking" \/ goroutine[Root] = "admitted"
        BY <1>0, <3>1 DEF CallerInv
      <4>2. d # Root
        BY <1>0, <1>1, <4>1 DEF CollectorInv
      <4>3. goroutine[d] \in {"returned", "finished"}
        BY <1>0, <1>1 DEF CollectorInv
      <4> QED
        BY <1>0, <2>1, <4>1, <4>2, <4>3, StableTree DEF CallerInv, Live
    <3> QED
      BY <3>1
  <2> QED
    BY <1>1, <2>4, <2>5, <2>6, <2>7 DEF CountInv
<1> QED
  BY <1>3, <1>4, <1>5, <1>6, <1>7 DEF StableInv

LEMMA StableStep ==
  ASSUME StableInv, Stable!PlacesDiffer, [Stable!Next]_(Stable!stableVars)
  PROVE  StableInv'
<1>1. CASE Stable!Start \/ Stable!AnalyzeDir \/ Stable!Cancel
  BY <1>1, CallerSteps
<1>2. ASSUME NEW d \in Dirs, Stable!Goroutine(d) PROVE StableInv'
  <2>1. CASE Stable!Acquire(d)
    BY <2>1, AcquireKeeps
  <2>2. CASE Stable!SendNil(d) \/ Stable!SendDir(d)
    BY <2>2, SendsKeep
  <2>3. CASE Stable!ReadDir(d)
    BY <2>3, ReadKeeps
  <2>4. CASE Stable!EndLoop(d)
    BY <2>4, EndKeeps
  <2>5. ASSUME NEW e \in Entries, Stable!Skipped(d, e) \/ Stable!FileFails(d, e) PROVE StableInv'
    BY <2>5, PassOverKeeps
  <2>6. ASSUME NEW e \in Entries, Stable!SendFile(d, e) \/ Stable!SpawnDir(d, e) PROVE StableInv'
    BY <2>6, IndexKeeps
  <2> QED
    BY <1>2, <2>1, <2>2, <2>3, <2>4, <2>5, <2>6, SameTree DEF Stable!Goroutine
<1>3. ASSUME NEW d \in Dirs, Stable!Collector(d) PROVE StableInv'
  <2>1. CASE Stable!AllReceived(d) \/ \E e \in Entries : Stable!Receive(d, e)
    BY <2>1, ReceiveKeeps
  <2>2. CASE Stable!Add(d)
    BY <2>2, AddKeeps
  <2>3. CASE Stable!Done(d)
    BY <2>3, DoneKeeps
  <2> QED
    BY <1>3, <2>1, <2>2, <2>3, SameTree DEF Stable!Collector
<1>4. CASE UNCHANGED Stable!stableVars
  <2>1. UNCHANGED <<caller, goroutine, collector, unlooked, indexed, channel, received, added,
                    unread, stopped, stableValue, stableLocked>>
    BY <1>4 DEF Stable!stableVars, Stable!waitVars
  <2>2. StableTypes' /\ Sequences' /\ CallerInv' /\ CollectorInv' /\ EntriesInv' /\ PlaceInv'
    BY <2>1 DEF StableInv, StableTypes, Sequences, CallerInv, CollectorInv, EntriesInv, PlaceInv
  <2>3. SentInv' /\ LossInv'
    BY <2>1 DEF StableInv, SentInv, LossInv
  <2>4. CountInv'
    BY <2>1 DEF StableInv, CountInv, Live
  <2>5. AddedInv' /\ Stable!OrderIsKept'
    BY <2>1, AddedKeeps
  <2> QED
    BY <2>2, <2>3, <2>4, <2>5 DEF StableInv
<1> QED
  BY <1>1, <1>2, <1>3, <1>4 DEF Stable!Next

LEMMA StableIsSafe ==
  ASSUME Stable!PlacesDiffer
  PROVE  Stable!Spec => []StableInv
BY StableStarts, StableStep, PTL DEF Stable!Spec

\* The stable-order analyzer keeps every directory's entries in the order of
\* the listing, whatever order its goroutines end in, nothing twice, in any
\* tree, with any number of slots (parallel_stable.go).
THEOREM OrderIsStable ==
  ASSUME Stable!PlacesDiffer
  PROVE  Stable!Spec => []Stable!OrderIsKept
<1>1. StableInv => Stable!OrderIsKept
  BY DEF StableInv
<1> QED
  BY <1>1, StableIsSafe, PTL

\* What is in the tree when AnalyzeDir returns hangs from the root and, unless
\* the user stopped it, is all there is below what could be read.
LEMMA QuietTreeIsWhole ==
  ASSUME StableInv, Live = {}, goroutine[Root] = "finished"
  PROVE  Stable!Contract!HangsFromRoot /\ (stopped \/ Stable!Contract!Complete)
<1>0. /\ StableTypes /\ Sequences /\ CollectorInv /\ EntriesInv /\ SentInv /\ AddedInv /\ LossInv
  BY DEF StableInv
<1> DEFINE Linked == UNION {Stable!ToSet(added[x]) : x \in Dirs}
<1>1. \A x \in Dirs : goroutine[x] \in {"none", "finished", "refused"} /\ collector[x] \in {"none", "done"}
  BY QuietScan
<1>2. ASSUME NEW x \in Dirs, NEW y \in Stable!ToSet(indexed[x]), y \in Dirs => goroutine[y] # "refused"
      PROVE  y \in Linked
  <2>1. goroutine[x] = "finished"
    BY <1>0, <1>1 DEF EntriesInv
  <2>2. collector[x] = "done"
    BY <1>0, <1>1, <2>1 DEF CollectorInv
  <2>3. Stable!Missing(x) = {}
    BY <1>0, <2>2 DEF AddedInv
  <2>4. y \in Stable!ToSet(added[x])
    BY <1>2, <2>3 DEF Stable!Missing, Stable!ToSet
  <2> QED
    BY <2>4
<1>3. ASSUME NEW y \in Linked
      PROVE  \E x \in Dirs : y \in Stable!ToSet(indexed[x]) /\ y \in Stable!ToSet(added[x])
  BY <1>0 DEF AddedInv
<1>4. ASSUME NEW y \in Linked PROVE y \in Entries /\ y \in Stable!ToSet(indexed[Parent[y]])
                                    /\ (y \in Dirs => goroutine[y] = "finished")
  <2>1. PICK x \in Dirs : y \in Stable!ToSet(indexed[x]) /\ y \in Stable!ToSet(added[x])
    BY <1>3
  <2>2. y \in Entries /\ Parent[y] = x
    BY <1>0, <2>1, StableTree DEF EntriesInv
  <2>3. y \in Dirs => y \in Dirs \ {Root} /\ goroutine[y] # "none"
    BY <1>0, <2>1, <2>2, StableTree DEF SentInv
  <2>4. y \in Dirs => goroutine[y] # "refused"
    BY <1>0, <2>1 DEF AddedInv
  <2> QED
    BY <1>1, <2>1, <2>2, <2>3, <2>4
<1> HIDE DEF Linked
<1>5. ASSUME NEW y \in Linked PROVE Parent[y] = Root \/ Parent[y] \in Linked
  <2> DEFINE p == Parent[y]
  <2>1. p \in Dirs /\ y \in Stable!ToSet(indexed[p])
    BY <1>4, StableTree
  <2>2. goroutine[p] = "finished"
    BY <1>0, <1>1, <2>1 DEF EntriesInv
  <2>3. CASE p # Root
    <3>1. p \in Stable!ToSet(indexed[Parent[p]]) /\ Parent[p] \in Dirs
      BY <1>0, <2>1, <2>2, <2>3, StableTree DEF SentInv
    <3> QED
      BY <1>2, <2>2, <3>1
  <2> QED
    BY <2>3
<1>6. ASSUME ~stopped, NEW e \in Entries \ StableSkip, Parent[e] \in Linked \cup {Root}, Parent[e] \notin unread
      PROVE  e \in Linked
  <2>1. Parent[e] \in Dirs /\ e \in Children(Parent[e])
    BY StableTree
  <2>2. goroutine[Parent[e]] = "finished"
    BY <1>4, <1>6, <2>1
  <2>3. e \in Stable!ToSet(indexed[Parent[e]])
    BY <1>0, <1>6, <2>1, <2>2 DEF LossInv
  <2>4. e \in Dirs => goroutine[e] # "refused"
    BY <1>0, <1>6 DEF LossInv
  <2> QED
    BY <1>2, <2>1, <2>3, <2>4
<1>7. Stable!Contract!HangsFromRoot
  BY <1>5 DEF Stable!Contract!HangsFromRoot, Linked
<1>8. stopped \/ Stable!Contract!Complete
  BY <1>6 DEF Stable!Contract!Complete, Stable!Contract!Entries, Entries, Linked
<1> QED
  BY <1>7, <1>8

\* AnalyzeDir returns: it reads the counter at zero, or gets the lock that the
\* last collector opened.
LEMMA ReturnIsFinish ==
  ASSUME StableInv, Stable!AnalyzeDir, caller' = "returned"
  PROVE  Stable!Contract!Finish
<1>0. StableTypes /\ CallerInv /\ CountInv
  BY DEF StableInv
<1>1. caller \in {"waiting", "locking"} /\ UNCHANGED <<goroutine, collector, added, unread, stopped>>
  BY DEF Stable!AnalyzeDir, Stable!WaitRead, Stable!WaitLock
<1>2. goroutine[Root] = "finished"
  BY <1>0, <1>1 DEF CallerInv
<1>3. Live = {}
  <2>1. Live' = Live
    BY <1>1 DEF Live
  <2>2. StableInv'
    BY CallerSteps
  <2>3. CountInv'
    BY <2>2 DEF StableInv
  <2> QED
    BY <2>1, <2>3 DEF CountInv
<1>4. Stable!Contract!HangsFromRoot /\ (stopped \/ Stable!Contract!Complete)
  BY <1>2, <1>3, QuietTreeIsWhole
<1> QED
  BY <1>1, <1>4 DEF Stable!Contract!Finish

\* The collector's Add links the entry it adds, for the first time.
LEMMA AddIsLink ==
  ASSUME StableInv, NEW d \in Dirs, Stable!Add(d)
  PROVE  \E e \in Entries \ StableSkip : Stable!Contract!Link(e)
<1>0. /\ StableTypes /\ Sequences /\ EntriesInv /\ AddedInv
  BY DEF StableInv
<1>1. /\ collector[d] = "adding" /\ UNCHANGED <<caller, unread, stopped>>
  BY DEF Stable!Add
<1>2. PICK k \in Stable!Missing(d) : added' = [added EXCEPT ![d] = Append(@, indexed[d][k])]
  BY DEF Stable!Add
<1> DEFINE e == indexed[d][k]
<1>3. k \in DOMAIN indexed[d] /\ e \notin Stable!ToSet(added[d])
  BY <1>2 DEF Stable!Missing
<1>4. e \in Stable!ToSet(indexed[d])
  BY <1>3 DEF Stable!ToSet
<1>5. e \in Entries \ StableSkip /\ Parent[e] = d
  BY <1>0, <1>4, StableTree DEF EntriesInv
<1>6. \A x \in Dirs : Stable!ToSet(added'[x]) = IF x = d THEN Stable!ToSet(added[d]) \cup {e} ELSE Stable!ToSet(added[x])
  <2>1. ASSUME NEW v \in Entries, NEW q \in Seq(Entries)
        PROVE  Stable!ToSet(Append(q, v)) = Stable!ToSet(q) \cup {v}
    BY AppendFacts
  <2>2. added[d] \in Seq(Entries)
    BY <1>0 DEF Sequences
  <2>3. Stable!ToSet(Append(added[d], e)) = Stable!ToSet(added[d]) \cup {e}
    BY <1>5, <2>1, <2>2
  <2>4. \A x \in Dirs : added'[x] = IF x = d THEN Append(added[d], e) ELSE added[x]
    BY <1>0, <1>2 DEF Sequences
  <2> QED
    BY <2>3, <2>4
<1>7. ASSUME NEW x \in Dirs PROVE e \notin Stable!ToSet(added[x])
  <2>1. CASE x = d
    BY <1>3, <2>1
  <2>2. CASE x # d
    BY <1>0, <1>5, <2>2, StableTree DEF AddedInv, EntriesInv
  <2> QED
    BY <2>1, <2>2
<1>8. caller \in {"scanning", "waiting", "locking"}
  BY <1>1, BusyScan
<1> HIDE DEF e
<1> DEFINE Linked == UNION {Stable!ToSet(added[x]) : x \in Dirs}
<1>9. Linked' = Linked \cup {e}
  <2>1. \A y \in Linked' : y \in Linked \cup {e}
    BY <1>6
  <2>2. \A x \in Dirs : \A y \in Stable!ToSet(added[x]) : y \in Stable!ToSet(added'[x])
    BY <1>6
  <2>3. e \in Stable!ToSet(added'[d])
    BY <1>6
  <2>4. \A y \in Linked \cup {e} : y \in Linked'
    BY <2>2, <2>3
  <2> QED
    BY <2>1, <2>4
<1>10. e \notin Linked
  BY <1>7
<1>11. Stable!Contract!Link(e)
  <2> HIDE DEF Linked
  <2>1. caller # "idle" /\ caller # "returned" /\ caller' # "idle" /\ caller' # "returned"
    BY <1>1, <1>8
  <2> QED
    BY <1>1, <1>9, <1>10, <2>1 DEF Stable!Contract!Link, Linked
<1> QED
  BY <1>5, <1>11

\* Every other step of a goroutine or a collector is a step inside the scan.
LEMMA InsideSteps ==
  ASSUME StableInv, NEW d \in Dirs, Stable!Goroutine(d) \/ Stable!Collector(d), ~Stable!Add(d)
  PROVE  [Stable!Contract!Next]_(Stable!Contract!contractVars)
<1>0. StableTypes /\ CollectorInv
  BY DEF StableInv
<1>1. /\ goroutine[d] \in {"spawned", "admitted", "walking", "returned"} \/ collector[d] \in {"receiving", "adding"}
      /\ caller' = caller \/ caller' = "waiting"
      /\ UNCHANGED <<added, stopped>>
      /\ unread' = unread \/ unread' = unread \cup {d}
  BY <1>0 DEF Stable!Goroutine, Stable!Acquire, Stable!SendNil, Stable!ReadDir, Stable!EndLoop, Stable!SendDir,
        Stable!Skipped, Stable!FileFails, Stable!SendFile, Stable!SpawnDir, Stable!Take,
        Stable!Collector, Stable!AllReceived, Stable!Done, Stable!Receive
<1>2. caller \in {"scanning", "waiting", "locking"} /\ caller' \in {"scanning", "waiting", "locking"}
  BY <1>1, BusyScan
<1>3. CASE unread' = unread
  BY <1>1, <1>2, <1>3 DEF Stable!Contract!contractVars
<1>4. CASE unread' = unread \cup {d}
  <2>1. Stable!Contract!Break(d)
    BY <1>1, <1>2, <1>4 DEF Stable!Contract!Break
  <2> QED
    BY <2>1 DEF Stable!Contract!Next
<1> QED
  BY <1>1, <1>3, <1>4

LEMMA StableBegins == Stable!Init => Stable!Contract!Init
<1> SUFFICES ASSUME Stable!Init PROVE Stable!Contract!Init
  OBVIOUS
<1>1. caller = "idle" /\ unread = {} /\ stopped = FALSE /\ \A d \in Dirs : added[d] = <<>>
  BY DEF Stable!Init, Stable!Everywhere
<1>2. \A d \in Dirs : Stable!ToSet(added[d]) = {}
  BY <1>1 DEF Stable!ToSet
<1> QED
  BY <1>1, <1>2 DEF Stable!Contract!Init

LEMMA StableRefines ==
  ASSUME StableInv, [Stable!Next]_(Stable!stableVars)
  PROVE  [Stable!Contract!Next]_(Stable!Contract!contractVars)
<1>1. CASE Stable!Start
  <2>1. Stable!Contract!Begin
    BY <1>1 DEF Stable!Start, Stable!Contract!Begin
  <2> QED
    BY <2>1 DEF Stable!Contract!Next
<1>2. CASE Stable!Cancel
  <2>1. Stable!Contract!Cancel
    BY <1>2 DEF Stable!Cancel, Stable!Contract!Cancel
  <2> QED
    BY <2>1 DEF Stable!Contract!Next
<1>3. CASE Stable!AnalyzeDir
  <2>1. CASE caller' = "returned"
    BY <1>3, <2>1, ReturnIsFinish DEF Stable!Contract!Next
  <2>2. CASE caller' # "returned"
    <3>1. /\ caller = "waiting" /\ caller' = "locking" /\ UNCHANGED <<added, unread, stopped>>
      BY <1>3, <2>2 DEF Stable!AnalyzeDir, Stable!WaitRead, Stable!WaitLock
    <3> QED
      BY <3>1 DEF Stable!Contract!contractVars
  <2> QED
    BY <2>1, <2>2
<1>4. ASSUME NEW d \in Dirs, Stable!Goroutine(d) \/ Stable!Collector(d)
      PROVE  [Stable!Contract!Next]_(Stable!Contract!contractVars)
  <2>1. CASE Stable!Add(d)
    BY <2>1, AddIsLink DEF Stable!Contract!Next, Stable!Contract!Entries, Entries
  <2> QED
    BY <1>4, <2>1, InsideSteps
<1>5. CASE UNCHANGED Stable!stableVars
  BY <1>5 DEF Stable!stableVars, Stable!Contract!contractVars
<1> QED
  BY <1>1, <1>2, <1>3, <1>4, <1>5 DEF Stable!Next

\* The stable-order analyzer keeps the contract of a scan: what it links hangs
\* from the root when AnalyzeDir returns, complete unless the user stopped it,
\* and nothing changes from then on (parallel_stable.go).
THEOREM StableKeepsContract ==
  ASSUME Stable!PlacesDiffer
  PROVE  Stable!Spec => Stable!KeepsContract
BY StableBegins, StableRefines, StableIsSafe, PTL DEF Stable!Spec, Stable!KeepsContract

-----------------------------------------------------------------------------
(* The preview of a running scan, of any scan that keeps the contract *)

\* What the induction needs of the scan: only entries are linked.
SnapInv == linked \subseteq Entries /\ copying \in {"no", "yes", "done"} /\ Snapshot!PreviewIsBetween /\ Snapshot!DueIsRest

LEMMA ParentIsDir == \A e \in Entries : Parent[e] \in Dirs
  BY TreeAssumption

LEMMA FirstSnapshot == Snapshot!PreviewInit => SnapInv
  BY DEF Snapshot!PreviewInit, Snapshot!Init, SnapInv, Snapshot!PreviewIsBetween, Snapshot!DueIsRest

\* The scan only adds to the tree.
LEMMA ScanAdds ==
  ASSUME Snapshot!Scan
  PROVE  linked \subseteq linked' /\ linked' \subseteq linked \cup Entries
  BY DEF Snapshot!Entries, Entries, Snapshot!Scan, Snapshot!Begin, Snapshot!Finish, Snapshot!Cancel, Snapshot!Link, Snapshot!Break

LEMMA ScanKeeps ==
  ASSUME SnapInv, Snapshot!Scan
  PROVE  SnapInv'
<1>1. linked \subseteq linked' /\ linked' \subseteq Entries
  BY ScanAdds DEF SnapInv
<1>2. UNCHANGED <<copying, due, copied, before>>
  BY DEF Snapshot!Scan
<1> QED
  BY <1>1, <1>2 DEF SnapInv, Snapshot!PreviewIsBetween, Snapshot!DueIsRest

LEMMA AskKeeps ==
  ASSUME SnapInv, Snapshot!GetCurrentDir
  PROVE  SnapInv'
<1>1. linked' = linked /\ copying' = "yes" /\ due' = {Root} /\ copied' = {} /\ before' = linked
  BY DEF Snapshot!GetCurrentDir, Snapshot!contractVars
<1>2. Snapshot!PreviewIsBetween'
  BY <1>1 DEF Snapshot!PreviewIsBetween
<1>3. Snapshot!DueIsRest'
  BY <1>1 DEF Snapshot!DueIsRest
<1> QED
  BY <1>1, <1>2, <1>3 DEF SnapInv

\* Copying a directory makes its directories due; its files hold nothing.
LEMMA CopyKeeps ==
  ASSUME SnapInv, NEW d \in Dirs, Snapshot!SnapshotDir(d)
  PROVE  SnapInv'
<1>1. /\ copying = "yes" /\ d \in due
      /\ copied' = copied \cup Snapshot!Linked(d)
      /\ due' = (due \ {d}) \cup (Snapshot!Linked(d) \cap Dirs)
      /\ linked' = linked /\ copying' = copying /\ before' = before
  BY DEF Snapshot!SnapshotDir, Snapshot!contractVars
<1>2. Snapshot!Linked(d) \subseteq linked /\ \A e \in Snapshot!Linked(d) : Parent[e] = d
  BY DEF Snapshot!Linked, Snapshot!Children
<1>3. Snapshot!PreviewIsBetween'
  <2>1. d \in copied \cup {Root}
    BY <1>1 DEF SnapInv, Snapshot!DueIsRest
  <2> QED
    BY <1>1, <1>2, <2>1 DEF SnapInv, Snapshot!PreviewIsBetween
<1>4. Snapshot!DueIsRest'
  <2>1. due' \subseteq (copied' \cap Dirs) \cup {Root}
    BY <1>1 DEF SnapInv, Snapshot!DueIsRest
  <2>2. ASSUME NEW e \in before', Parent[e] \in copied' \cup {Root}
        PROVE  e \in copied' \/ Parent[e] \in due'
    <3>1. e \in Entries /\ e \in linked /\ Parent[e] \in Dirs
      BY <1>1, ParentIsDir DEF SnapInv, Snapshot!DueIsRest
    <3>2. CASE Parent[e] = d
      BY <1>1, <3>1, <3>2 DEF Snapshot!Linked, Snapshot!Children, Snapshot!Entries, Entries
    <3>3. CASE Parent[e] # d /\ Parent[e] \in copied \cup {Root}
      BY <1>1, <3>3 DEF SnapInv, Snapshot!DueIsRest
    <3>4. CASE Parent[e] \in Snapshot!Linked(d)
      BY <1>1, <3>1, <3>4
    <3> QED
      BY <1>1, <2>2, <3>2, <3>3, <3>4
  <2> QED
    BY <1>1, <2>1, <2>2 DEF SnapInv, Snapshot!DueIsRest
<1> QED
  BY <1>1, <1>3, <1>4 DEF SnapInv

LEMMA ShowKeeps ==
  ASSUME SnapInv, Snapshot!EnterPreview
  PROVE  SnapInv'
<1>1. /\ copying = "yes" /\ due = {} /\ copying' = "done"
      /\ UNCHANGED <<linked, due, copied, before>>
  BY DEF Snapshot!EnterPreview, Snapshot!contractVars
<1> QED
  BY <1>1 DEF SnapInv, Snapshot!PreviewIsBetween, Snapshot!DueIsRest

LEMMA SnapshotStep == SnapInv /\ [Snapshot!PreviewNext]_(Snapshot!previewVars) => SnapInv'
<1> SUFFICES ASSUME SnapInv, [Snapshot!PreviewNext]_(Snapshot!previewVars) PROVE SnapInv'
  OBVIOUS
<1>1. CASE UNCHANGED Snapshot!previewVars
  BY <1>1 DEF Snapshot!previewVars, Snapshot!contractVars, SnapInv, Snapshot!PreviewIsBetween, Snapshot!DueIsRest
<1>2. CASE Snapshot!Scan
  BY <1>2, ScanKeeps
<1>3. CASE Snapshot!GetCurrentDir
  BY <1>3, AskKeeps
<1>4. CASE Snapshot!EnterPreview
  BY <1>4, ShowKeeps
<1>5. ASSUME NEW d \in Dirs, Snapshot!SnapshotDir(d) PROVE SnapInv'
  BY <1>5, CopyKeeps
<1> QED
  BY <1>1, <1>2, <1>3, <1>4, <1>5 DEF Snapshot!PreviewNext

\* A preview never shows what was not found, and never misses what had been
\* found when the user asked for it, whatever the scan does meanwhile.
THEOREM PreviewBetween == Snapshot!PreviewSpec => []Snapshot!PreviewIsBetween
<1>1. SnapInv => Snapshot!PreviewIsBetween
  BY DEF SnapInv
<1> QED
  BY <1>1, FirstSnapshot, SnapshotStep, PTL DEF Snapshot!PreviewSpec

-----------------------------------------------------------------------------
(* A cancel of the parallel scan, its slots counted on their own: without the *)
(* rest of the invariant of ParallelScanProofs                                *)

\* Who is about to open a directory holds a slot, and so do those who have
\* opened one since the cancel: nobody passes the check after it.
Entering == {d \in Dirs \ {Root} : worker[d] = "entering"}
LateOrEntering == (late \ {Root}) \cup Entering

PromptInv ==
  /\ worker \in [Dirs -> Parallel!WorkerStates]
  /\ holders \subseteq Dirs /\ Cardinality(holders) <= Slots
  /\ \A d \in Dirs \ {Root} : worker[d] \in Parallel!Holding => d \in holders
  /\ late \subseteq Dirs
  /\ cancelScan \in BOOLEAN
  /\ ~cancelScan => late = {}
  /\ Cardinality(LateOrEntering) <= Slots

\* Fewer than some that are few enough.
LEMMA FewEnough ==
  ASSUME NEW S \in SUBSET Dirs, NEW T \in SUBSET S, Cardinality(S) <= Slots
  PROVE  Cardinality(T) <= Slots
<1>1. IsFiniteSet(S)
  BY TreeAssumption, FS_Subset
<1>2. Cardinality(T) <= Cardinality(S) /\ Cardinality(T) \in Nat /\ Cardinality(S) \in Nat
  BY <1>1, FS_Subset, FS_CardinalityType
<1> QED
  BY <1>2, PartsAssumption

LEMMA PromptStarts == Parallel!Init => PromptInv
<1> SUFFICES ASSUME Parallel!Init PROVE PromptInv
  OBVIOUS
<1>1. /\ worker = [d \in Dirs |-> "idle"] /\ holders = {} /\ late = {} /\ cancelScan = FALSE
  BY DEF Parallel!Init, Parallel!Everywhere
<1>2. LateOrEntering = {} /\ Cardinality({}) = 0
  BY <1>1, FS_EmptySet DEF LateOrEntering, Entering
<1>3. Cardinality(holders) <= Slots /\ Cardinality(LateOrEntering) <= Slots
  BY <1>1, <1>2, PartsAssumption
<1> QED
  BY <1>1, <1>3 DEF PromptInv, Parallel!WorkerStates, Parallel!Holding

\* A step that lets nobody in: whoever is late or about to open a directory
\* was so before.
LEMMA PromptKept ==
  ASSUME PromptInv, worker' \in [Dirs -> Parallel!WorkerStates],
         holders' \subseteq Dirs, Cardinality(holders') <= Slots,
         late' \subseteq Dirs, cancelScan' \in BOOLEAN, ~cancelScan' => late' = {},
         \A d \in Dirs \ {Root} :
           /\ worker'[d] \in Parallel!Holding => d \in holders'
           /\ worker'[d] = "entering" => worker[d] = "entering"
           /\ d \in late' => d \in late \/ worker[d] = "entering"
  PROVE  PromptInv'
<1>1. LateOrEntering \in SUBSET Dirs /\ LateOrEntering' \in SUBSET LateOrEntering
  BY DEF PromptInv, LateOrEntering, Entering
<1>2. Cardinality(LateOrEntering') <= Slots
  BY <1>1, FewEnough DEF PromptInv
<1> QED
  BY <1>2 DEF PromptInv

\* A worker that changes its state and keeps what it holds.
LEMMA PromptMoves ==
  ASSUME PromptInv, NEW d \in Dirs, NEW s \in Parallel!WorkerStates,
         worker' = [worker EXCEPT ![d] = s], d # Root => s # "entering",
         s \in Parallel!Holding /\ d # Root => worker[d] \in Parallel!Holding,
         UNCHANGED <<holders, late, cancelScan>>
  PROVE  PromptInv'
<1>1. /\ worker' \in [Dirs -> Parallel!WorkerStates] /\ worker'[d] = s
      /\ \A x \in Dirs \ {d} : worker'[x] = worker[x]
  BY DEF PromptInv
<1>2. ASSUME NEW x \in Dirs \ {Root}
      PROVE  /\ worker'[x] \in Parallel!Holding => x \in holders'
             /\ worker'[x] = "entering" => worker[x] = "entering"
             /\ x \in late' => x \in late
  BY <1>1 DEF PromptInv
<1> QED
  BY <1>1, <1>2, PromptKept DEF PromptInv

\* Steps of others: the workers are left alone.
LEMMA PromptElsewhere ==
  ASSUME PromptInv, UNCHANGED <<worker, holders, late>>, cancelScan' \in BOOLEAN, cancelScan => cancelScan'
  PROVE  PromptInv'
BY DEF PromptInv, LateOrEntering, Entering

LEMMA SameSize == \A S : Parallel!Cardinality(S) = Cardinality(S)
  BY DEF Parallel!Cardinality, Cardinality

\* Taking a slot, and giving it back.
LEMMA PromptSlots ==
  ASSUME PromptInv, NEW d \in Dirs, Parallel!Acquire(d) \/ Parallel!Release(d)
  PROVE  PromptInv'
<1>1. /\ \A x \in Dirs \ {d} : worker'[x] = worker[x]
      /\ worker' \in [Dirs -> Parallel!WorkerStates] /\ worker'[d] # "entering"
      /\ UNCHANGED <<late, cancelScan>>
  BY DEF PromptInv, Parallel!Acquire, Parallel!Release, Parallel!WorkerStates
<1>2. IsFiniteSet(holders) /\ holders \subseteq Dirs
  BY TreeAssumption, FS_Subset DEF PromptInv
<1>3. CASE Parallel!Acquire(d)
  <2>1. Cardinality(holders) < Slots /\ holders' = holders \cup {d}
    BY <1>3, SameSize DEF Parallel!Acquire
  <2>2. Cardinality(holders) \in Nat
    BY <1>2, FS_CardinalityType
  <2>3. Cardinality(holders \cup {d}) \in {Cardinality(holders), Cardinality(holders) + 1}
    BY <1>2, FS_AddElement
  <2>4. Cardinality(holders') <= Slots
    BY <2>1, <2>2, <2>3, PartsAssumption
  <2>5. ASSUME NEW x \in Dirs \ {Root}
        PROVE  /\ worker'[x] \in Parallel!Holding => x \in holders'
               /\ worker'[x] = "entering" => worker[x] = "entering"
               /\ x \in late' => x \in late
    BY <1>1, <2>1 DEF PromptInv
  <2> QED
    BY <1>1, <1>2, <2>1, <2>4, <2>5, PromptKept DEF PromptInv
<1>4. CASE Parallel!Release(d)
  <2>1. holders' = holders \ {d} /\ worker'[d] \in {"sending", "sendingNil"}
    BY <1>4 DEF Parallel!Release, PromptInv
  <2>2. Cardinality(holders') <= Slots
    BY <1>2, <2>1, FewEnough DEF PromptInv
  <2>3. ASSUME NEW x \in Dirs \ {Root}
        PROVE  /\ worker'[x] \in Parallel!Holding => x \in holders'
               /\ worker'[x] = "entering" => worker[x] = "entering"
               /\ x \in late' => x \in late
    BY <1>1, <2>1 DEF PromptInv, Parallel!Holding
  <2> QED
    BY <1>1, <1>2, <2>1, <2>2, <2>3, PromptKept DEF PromptInv
<1> QED
  BY <1>3, <1>4

\* The check lets a worker in only before a cancel, when nobody is late and
\* everyone who is about to open a directory holds a slot.
LEMMA PromptChecks ==
  ASSUME PromptInv, NEW d \in Dirs, Parallel!CheckCancelled(d)
  PROVE  PromptInv'
<1>1. /\ worker[d] = "admitted" /\ UNCHANGED <<holders, late, cancelScan>>
      /\ worker' = [worker EXCEPT ![d] = IF cancelScan THEN "refused" ELSE "entering"]
  BY DEF Parallel!CheckCancelled
<1>2. CASE cancelScan
  BY <1>1, <1>2, PromptMoves DEF Parallel!WorkerStates, Parallel!Holding
<1>3. CASE ~cancelScan
  <2>1. /\ worker' \in [Dirs -> Parallel!WorkerStates] /\ worker'[d] = "entering"
        /\ \A x \in Dirs \ {d} : worker'[x] = worker[x]
    BY <1>1, <1>3 DEF PromptInv, Parallel!WorkerStates
  <2>2. late' = {}
    BY <1>1, <1>3 DEF PromptInv
  <2>3. \A x \in Dirs \ {Root} : worker'[x] \in Parallel!Holding => x \in holders'
    BY <1>1, <2>1 DEF PromptInv, Parallel!Holding
  <2>4. holders \in SUBSET Dirs /\ LateOrEntering' \in SUBSET holders
    BY <1>1, <2>2, <2>3 DEF PromptInv, LateOrEntering, Entering, Parallel!Holding
  <2>5. Cardinality(LateOrEntering') <= Slots
    BY <2>4, FewEnough DEF PromptInv
  <2> QED
    BY <1>1, <1>3, <2>1, <2>2, <2>3, <2>5 DEF PromptInv
<1> QED
  BY <1>2, <1>3

\* Who opens a directory after the cancel was about to.
LEMMA PromptOpens ==
  ASSUME PromptInv, NEW d \in Dirs, Parallel!OpenDir(d)
  PROVE  PromptInv'
<1>1. /\ worker[d] = "entering" /\ worker' = [worker EXCEPT ![d] = "scanning"]
      /\ UNCHANGED <<holders, cancelScan>> /\ late' = IF cancelScan THEN late \cup {d} ELSE late
  BY DEF Parallel!OpenDir
<1>2. /\ worker' \in [Dirs -> Parallel!WorkerStates] /\ worker'[d] = "scanning"
      /\ \A x \in Dirs \ {d} : worker'[x] = worker[x]
  BY <1>1 DEF PromptInv, Parallel!WorkerStates
<1>3. late' \subseteq Dirs /\ (~cancelScan' => late' = {})
  BY <1>1 DEF PromptInv
<1>4. ASSUME NEW x \in Dirs \ {Root}
      PROVE  /\ worker'[x] \in Parallel!Holding => x \in holders'
             /\ worker'[x] = "entering" => worker[x] = "entering"
             /\ x \in late' => x \in late \/ worker[x] = "entering"
  BY <1>1, <1>2 DEF PromptInv, Parallel!Holding
<1> QED
  BY <1>1, <1>2, <1>3, <1>4, PromptKept DEF PromptInv

LEMMA PromptWorkers ==
  ASSUME PromptInv, NEW d \in Dirs, Parallel!Worker(d)
  PROVE  PromptInv'
<1>1. CASE Parallel!Acquire(d) \/ Parallel!Release(d)
  BY <1>1, PromptSlots
<1>2. CASE Parallel!CheckCancelled(d)
  BY <1>2, PromptChecks
<1>3. CASE Parallel!OpenDir(d)
  BY <1>3, PromptOpens
<1>4. CASE Parallel!EndLoop(d)
  <2> DEFINE s == IF d = Root THEN "finished" ELSE "leaving"
  <2>1. /\ worker[d] = "scanning" /\ worker' = [worker EXCEPT ![d] = s]
        /\ UNCHANGED <<holders, late, cancelScan>>
    BY <1>4 DEF Parallel!EndLoop
  <2>2. s \in Parallel!WorkerStates /\ s # "entering" /\ worker[d] \in Parallel!Holding
    BY <2>1 DEF Parallel!WorkerStates, Parallel!Holding
  <2> HIDE DEF s
  <2> QED
    BY <2>1, <2>2, PromptMoves
<1>5. ASSUME NEW e \in Parallel!Entries,
             Parallel!SkipEntry(d, e) \/ Parallel!AddFile(d, e) \/ Parallel!FailFile(d, e)
      PROVE  PromptInv'
  <2>1. UNCHANGED <<worker, holders, late, cancelScan>>
    BY <1>5 DEF Parallel!SkipEntry, Parallel!AddFile, Parallel!FailFile, Parallel!TakeEntry
  <2> QED
    BY <2>1, PromptElsewhere DEF PromptInv
<1>6. ASSUME NEW e \in Parallel!Entries, Parallel!SpawnSubDir(d, e)
      PROVE  PromptInv'
  <2>1. e \in Dirs /\ worker' = [worker EXCEPT ![e] = "queued"] /\ UNCHANGED <<holders, late, cancelScan>>
    BY <1>6 DEF Parallel!SpawnSubDir, Parallel!TakeEntry
  <2> QED
    BY <2>1, PromptMoves DEF Parallel!WorkerStates, Parallel!Holding
<1> QED
  BY <1>1, <1>2, <1>3, <1>4, <1>5, <1>6 DEF Parallel!Worker

LEMMA PromptStep == PromptInv /\ [Parallel!Next]_(Parallel!vars) => PromptInv'
<1> SUFFICES ASSUME PromptInv, [Parallel!Next]_(Parallel!vars) PROVE PromptInv'
  OBVIOUS
<1>1. CASE UNCHANGED <<worker, holders, late, cancelScan>>
  BY <1>1, PromptElsewhere DEF PromptInv
<1>2. CASE UNCHANGED Parallel!vars
  BY <1>1, <1>2 DEF Parallel!vars
<1>3. CASE Parallel!Start
  <2>1. worker' = [worker EXCEPT ![Root] = "entering"] /\ UNCHANGED <<holders, late, cancelScan>>
    BY <1>3 DEF Parallel!Start
  <2> QED
    BY <2>1, TreeAssumption, PromptMoves DEF Parallel!WorkerStates
<1>4. CASE Parallel!AnalyzeDir \/ Parallel!Tick \/ Parallel!ReadProgress
  BY <1>1, <1>4 DEF Parallel!AnalyzeDir, Parallel!Publish, Parallel!WaitRead, Parallel!WaitLock,
     Parallel!StopProgress, Parallel!Return, Parallel!Tick, Parallel!ReadProgress, Parallel!scanVars
<1>5. CASE Parallel!ResetProgress
  <2>1. /\ worker' = [d \in Dirs |-> "idle"] /\ late' = {} /\ holders' = holders /\ cancelScan' = FALSE
    BY <1>5 DEF Parallel!ResetProgress, Parallel!Everywhere
  <2> QED
    BY <2>1, PromptKept DEF PromptInv, Parallel!WorkerStates, Parallel!Holding
<1>6. CASE Parallel!Cancel
  <2>1. UNCHANGED <<worker, holders, late>> /\ cancelScan' = TRUE
    BY <1>6 DEF Parallel!Cancel, Parallel!scanVars
  <2> QED
    BY <2>1, PromptElsewhere
<1>7. ASSUME NEW d \in Dirs, Parallel!Worker(d)
      PROVE  PromptInv'
  BY <1>7, PromptWorkers
<1>8. ASSUME NEW p \in Dirs, Parallel!Collector(p)
      PROVE  PromptInv'
  <2>1. CASE Parallel!CollectorDone(p)
    BY <1>1, <2>1 DEF Parallel!CollectorDone
  <2>2. ASSUME NEW c \in Parallel!SubDirs, Parallel!Receive(p, c)
        PROVE  PromptInv'
    <3>1. c \in Dirs /\ worker' = [worker EXCEPT ![c] = "finished"] /\ UNCHANGED <<holders, late, cancelScan>>
      BY <2>2 DEF Parallel!Receive, Parallel!SubDirs
    <3> QED
      BY <3>1, PromptMoves DEF Parallel!WorkerStates, Parallel!Holding
  <2> QED
    BY <1>8, <2>1, <2>2 DEF Parallel!Collector
<1> QED
  BY <1>2, <1>3, <1>4, <1>5, <1>6, <1>7, <1>8 DEF Parallel!Next, Parallel!User

LEMMA PromptIsFew == PromptInv => CancelIsPrompt
<1> SUFFICES ASSUME PromptInv PROVE CancelIsPrompt
  OBVIOUS
<1>1. LateOrEntering \in SUBSET Dirs /\ late \ {Root} \in SUBSET LateOrEntering
  BY DEF PromptInv, LateOrEntering, Entering
<1>2. Cardinality(late \ {Root}) <= Slots
  BY <1>1, FewEnough DEF PromptInv
<1> QED
  BY <1>2, SameSize DEF CancelIsPrompt, Parallel!CancelIsPrompt

-----------------------------------------------------------------------------
(* The sequential scan, of any tree and by any rules about which its stack    *)
(* agrees with git                                                            *)

LEMMA SequentialTree ==
  /\ Sequential!Entries = Entries /\ Sequential!Contract!Entries = Entries
  /\ \A d : Sequential!Children(d) = Children(d)
  /\ \A s : Sequential!Last(s) = s[Len(s)]
  BY DEF Sequential!Entries, Sequential!Contract!Entries, Entries, Sequential!Children, Children, Sequential!Last

\* What is to be left out.
Gone == Skip \cup Sequential!Ignored

\* The stack inside a directory.
StackIn(d) == Sequential!Pushed(IF d = Root THEN <<>> ELSE Sequential!StackFor[d], d)

StackEquation(f) ==
  f = [e \in Entries |-> Sequential!Pushed(IF Parent[e] = Root THEN <<>> ELSE f[Parent[e]], Parent[e])]

LEMMA StackExists == \E f : StackEquation(f)
<1> DEFINE Own(d) == [base |-> Sequential!Base(d), lines |-> Sequential!Merged(Rules[d].own, Rules[d].exclude)]
           V == Seq({Own(d) : d \in Dirs})
           start == [e \in Entries |-> Sequential!Pushed(<<>>, Parent[e])]
           step == [p \in Entries \X V |-> Sequential!Pushed(p[2], Parent[p[1]])]
<1>1. <<>> \in V
  OBVIOUS
<1>2. ASSUME NEW s \in V, NEW d \in Dirs
      PROVE  Sequential!Pushed(s, d) \in V
  <2> DEFINE o == Own(d)
  <2>1. o \in {Own(x) : x \in Dirs}
    OBVIOUS
  <2> DEFINE All == {Own(x) : x \in Dirs}
  <2>2. Sequential!Pushed(s, d) \in {s, Append(s, o)}
    BY DEF Sequential!Pushed, Sequential!Push
  <2>3. Append(s, o) \in V
    <3> HIDE DEF o, All
    <3>1. o \in All /\ s \in Seq(All)
      BY <2>1 DEF All
    <3>2. Append(s, o) \in Seq(All)
      BY <3>1
    <3> QED
      BY <3>2 DEF All
  <2> HIDE DEF V, o
  <2> QED
    BY <2>2, <2>3
<1>3. \A e \in Entries : Parent[e] \in Dirs /\ (Parent[e] = Root \/ Parent[e] \in Entries)
  BY TreeAssumption DEF Entries
<1>4. /\ start \in [Entries -> V] /\ step \in [Entries \X V -> V]
      /\ \A e \in Entries : start[e] = Sequential!Pushed(<<>>, Parent[e])
      /\ \A e \in Entries : \A v \in V : step[<<e, v>>] = Sequential!Pushed(v, Parent[e])
  <2> HIDE DEF V
  <2> QED
    BY <1>1, <1>2, <1>3
<1>5. PICK f \in [Entries -> V] : \A e \in Entries :
        f[e] = IF Parent[e] = Root THEN start[e] ELSE step[<<e, f[Parent[e]]>>]
  <2> DEFINE v == <<>>
  <2>1. start \in [Entries -> V] /\ step \in [Entries \X V -> V] /\ v \in V
    BY <1>1, <1>4
  <2> HIDE DEF V, start, step, v
  <2> QED
    BY <2>1, RecursionDown
<1>6. ASSUME NEW e \in Entries
      PROVE  f[e] = Sequential!Pushed(IF Parent[e] = Root THEN <<>> ELSE f[Parent[e]], Parent[e])
  <2> HIDE DEF V, start, step
  <2>1. CASE Parent[e] = Root
    BY <1>4, <1>5, <2>1
  <2>2. CASE Parent[e] # Root
    <3>1. f[Parent[e]] \in V
      BY <1>3, <1>5, <2>2
    <3> QED
      BY <1>4, <1>5, <2>2, <3>1
  <2> QED
    BY <2>1, <2>2
<1>7. f = [e \in Entries |-> Sequential!Pushed(IF Parent[e] = Root THEN <<>> ELSE f[Parent[e]], Parent[e])]
  <2> HIDE DEF V, start, step
  <2> QED
    BY <1>5, <1>6
<1> QED
  BY <1>7 DEF StackEquation

\* An entry is looked at with the stack inside its directory.
LEMMA StackForIs == \A e \in Entries : Sequential!StackFor[e] = StackIn(Parent[e])
<1>1. Sequential!StackFor = CHOOSE f : StackEquation(f)
  BY SequentialTree DEF Sequential!StackFor, StackEquation
<1>2. StackEquation(Sequential!StackFor)
  BY <1>1, StackExists
<1> QED
  BY <1>2 DEF StackEquation, StackIn

\* The calls: a path from the root, each directory taken from the listing of
\* the one before it, with the stack inside it.
Frames == [dir : Dirs, left : SUBSET Entries, stack : {StackIn(d) : d \in Dirs}]
CallTypes ==
  /\ walker \in {"idle", "scanning", "returned"} /\ halted \in BOOLEAN
  /\ frames \in Seq(Frames)
  /\ found \in [Dirs -> SUBSET Entries]
  /\ walker # "scanning" => frames = <<>>
CallInv ==
  /\ frames # <<>> => frames[1].dir = Root
  /\ \A i \in 1..Len(frames) :
       /\ frames[i].stack = StackIn(frames[i].dir)
       /\ frames[i].left \subseteq Children(frames[i].dir) \ found[frames[i].dir]
       /\ \A j \in 1..Len(frames) : frames[i].dir = frames[j].dir => i = j
  /\ \A i \in 1..Len(frames) : i > 1 =>
       /\ frames[i].dir \in Entries \ Gone /\ Parent[frames[i].dir] = frames[i - 1].dir
       /\ frames[i].dir \notin found[frames[i - 1].dir] \cup frames[i - 1].left

\* Something is found only in directories that were entered, and is not to be
\* left out.
Called(d) == \E i \in 1..Len(frames) : frames[i].dir = d
LinkedBelow(d) == d \in Entries /\ d \in found[Parent[d]]
FoundInv ==
  /\ \A d \in Dirs : found[d] \subseteq Children(d) \ Gone
  /\ \A d \in Dirs : found[d] # {} => d = Root \/ Called(d) \/ LinkedBelow(d)
  /\ frames = <<>> /\ walker # "returned" => found[Root] = {}
  /\ walker = "idle" => ~halted /\ troubled = {} /\ \A d \in Dirs : found[d] = {}

\* Without a cancel, what is not found yet is still to be taken or is being
\* walked; and what was walked is complete.
CompleteInv ==
  /\ \A i \in 1..Len(frames) : \A e \in Children(frames[i].dir) \ Gone :
       \/ e \in found[frames[i].dir] \/ e \in frames[i].left \/ frames[i].dir \in troubled
       \/ i < Len(frames) /\ frames[i + 1].dir = e
  /\ \A d \in Dirs : LinkedBelow(d) \/ (d = Root /\ walker = "returned") =>
       \A e \in Children(d) \ Gone : e \in found[d] \/ d \in troubled

SequentialInv == CallTypes /\ CallInv /\ FoundInv /\ (~halted => CompleteInv)

LEMMA SequentialStarts == Sequential!Init => SequentialInv
<1> SUFFICES ASSUME Sequential!Init PROVE SequentialInv
  OBVIOUS
<1>1. /\ walker = "idle" /\ frames = <<>> /\ Len(frames) = 0 /\ troubled = {} /\ halted = FALSE
      /\ found \in [Dirs -> SUBSET Entries] /\ \A d \in Dirs : found[d] = {}
  BY DEF Sequential!Init
<1>2. \A d \in Entries : Parent[d] \in Dirs
  BY TreeAssumption
<1>3. CallTypes
  <2>1. <<>> \in Seq(Frames)
    OBVIOUS
  <2>2. frames \in Seq(Frames) /\ walker \in {"idle", "scanning", "returned"} /\ halted \in BOOLEAN
    BY <1>1, <2>1
  <2> QED
    BY <1>1, <2>2 DEF CallTypes
<1>4. CallInv /\ FoundInv
  BY <1>1, TreeAssumption DEF CallInv, FoundInv
<1>5. CompleteInv
  BY <1>1, <1>2 DEF CompleteInv, LinkedBelow
<1> QED
  BY <1>3, <1>4, <1>5 DEF SequentialInv

LEMMA GoneFacts ==
  /\ Gone \subseteq Entries
  /\ Root \in Dirs /\ Root \notin Entries
  /\ \A e \in Entries : Parent[e] \in Dirs /\ (Parent[e] = Root \/ Parent[e] \in Entries)
  /\ \A d \in Dirs : d = Root \/ d \in Entries
  /\ \A d : \A e \in Children(d) : e \in Entries /\ Parent[e] = d
BY TreeAssumption, SequentialTree DEF Entries, Children, Gone, Sequential!Ignored

\* The call that runs.
LEMMA TopFacts ==
  ASSUME CallTypes, frames # <<>>
  PROVE  /\ Len(frames) \in Nat /\ Len(frames) >= 1
         /\ Sequential!Top = frames[Len(frames)] /\ frames[Len(frames)] \in Frames
         /\ \A i \in 1..Len(frames) : frames[i].dir \in Dirs /\ frames[i] \in Frames
<1>1. Len(frames) \in Nat /\ Len(frames) >= 1 /\ \A i \in 1..Len(frames) : frames[i] \in Frames
  BY DEF CallTypes
<1>2. \A f \in Frames : f.dir \in Dirs
  BY DEF Frames
<1> QED
  BY <1>1, <1>2 DEF Sequential!Top

\* Taking an entry changes what is left to the call that runs.
TakenFrom(next, e) ==
  /\ next \in Seq(Frames) /\ Len(next) = Len(frames) /\ next # <<>>
  /\ \A i \in 1..Len(frames) :
       /\ next[i].dir = frames[i].dir /\ next[i].stack = frames[i].stack
       /\ next[i].left = IF i = Len(frames) THEN frames[i].left \ {e} ELSE frames[i].left

LEMMA LeftFacts ==
  ASSUME CallTypes, frames # <<>>, NEW e
  PROVE  TakenFrom(Sequential!Left(e), e)
<1> DEFINE n == Len(frames)
           new == [frames[n] EXCEPT !.left = @ \ {e}]
<1>1. n \in Nat /\ n >= 1 /\ frames[n] \in Frames /\ frames \in Seq(Frames)
  BY TopFacts DEF CallTypes
<1>2. new \in Frames /\ new.dir = frames[n].dir /\ new.stack = frames[n].stack /\ new.left = frames[n].left \ {e}
  BY <1>1 DEF Frames
<1> DEFINE next == Sequential!Left(e)
<1>3. next = [frames EXCEPT ![n] = new]
  BY <1>1 DEF Sequential!Left
<1> HIDE DEF new, n, next
<1>4. next \in Seq(Frames) /\ Len(next) = Len(frames) /\ next # <<>>
      /\ \A i \in 1..Len(frames) : next[i] = IF i = n THEN new ELSE frames[i]
  BY <1>1, <1>2, <1>3 DEF n
<1>5. TakenFrom(next, e)
  BY <1>2, <1>4 DEF n, TakenFrom
<1> QED
  BY <1>5 DEF next

\* The entry at hand is in the listing of the call that runs and not found
\* yet, and the stack says what git says of it.
LEMMA ReadyFacts ==
  ASSUME Sequential!AgreesWithGit, SequentialInv, NEW e \in Entries, Sequential!Ready(e)
  PROVE  /\ frames # <<>> /\ ~halted /\ walker = "scanning"
         /\ e \in frames[Len(frames)].left /\ Parent[e] = frames[Len(frames)].dir
         /\ e \notin found[Parent[e]] /\ ~Called(e)
         /\ Parent[e] \notin Gone
         /\ Sequential!Wanted(e) <=> e \notin Gone
<1> DEFINE n == Len(frames)
<1>0. CallTypes /\ CallInv
  BY DEF SequentialInv
<1>1. frames # <<>> /\ ~halted /\ e \in frames[n].left /\ Sequential!Top = frames[n]
  BY <1>0, TopFacts DEF Sequential!Ready
<1>2. walker = "scanning" /\ n \in Nat /\ n >= 1 /\ frames[n].dir \in Dirs
  BY <1>0, <1>1, TopFacts DEF CallTypes
<1>3. /\ frames[n].stack = StackIn(frames[n].dir)
      /\ e \in Children(frames[n].dir) /\ e \notin found[frames[n].dir]
  BY <1>0, <1>1, <1>2 DEF CallInv
<1>4. Parent[e] = frames[n].dir
  BY <1>3, GoneFacts
<1>5. Parent[e] \notin Gone
  <2>1. CASE n = 1
    BY <1>0, <1>1, <1>4, <2>1, GoneFacts DEF CallInv
  <2>2. CASE n > 1
    BY <1>0, <1>2, <1>4, <2>2 DEF CallInv
  <2>3. n = 1 \/ n > 1
    <3>1. n \in Nat /\ n >= 1
      BY <1>2
    <3> HIDE DEF n
    <3> QED
      BY <3>1
  <2> QED
    BY <2>1, <2>2, <2>3
<1>6. Sequential!StackFor[e] = Sequential!Top.stack
  BY <1>1, <1>3, <1>4, StackForIs
<1>7. e \notin Skip => (Sequential!StackMatch(Sequential!Top.stack, Sequential!PathOf[e], e \in Dirs) <=> e \in Sequential!Ignored)
  BY <1>5, <1>6, SequentialTree DEF Sequential!AgreesWithGit, Gone
<1>8. Sequential!Wanted(e) <=> e \notin Gone
  BY <1>7 DEF Sequential!Wanted, Gone
<1>9. ~Called(e)
  <2> SUFFICES ASSUME NEW i \in 1..n, frames[i].dir = e PROVE FALSE
    BY DEF Called
  <2>1. i # 1
    BY <1>0, <1>1, GoneFacts DEF CallInv
  <2>2. i > 1 /\ i - 1 \in 1..n
    BY <1>2, <2>1
  <2>3. frames[i - 1].dir = frames[n].dir /\ n \in 1..n
    BY <1>0, <1>2, <1>4, <2>2 DEF CallInv
  <2>4. i - 1 = n
    BY <1>0, <2>2, <2>3 DEF CallInv
  <2> QED
    BY <1>2, <2>4
<1> QED
  BY <1>1, <1>2, <1>3, <1>4, <1>5, <1>8, <1>9

\* An entry is skipped, fails or is added.
LEMMA TakeKeeps ==
  ASSUME SequentialInv, NEW e \in Entries, frames # <<>>, ~halted,
         e \in frames[Len(frames)].left, Parent[e] = frames[Len(frames)].dir,
         UNCHANGED <<walker, halted>>, frames' = Sequential!Left(e), troubled \subseteq troubled',
         \/ found' = found
         \/ found' = [found EXCEPT ![Parent[e]] = @ \cup {e}] /\ e \in Files \ Gone,
         e \in Gone \/ e \in found'[Parent[e]] \/ Parent[e] \in troubled'
  PROVE  SequentialInv'
<1> DEFINE n == Len(frames)
<1>0. CallTypes /\ CallInv /\ FoundInv /\ CompleteInv
  BY DEF SequentialInv
<1>1. /\ n \in Nat /\ n >= 1 /\ frames' \in Seq(Frames) /\ Len(frames') = n /\ frames' # <<>>
      /\ \A i \in 1..n :
           /\ frames'[i].dir = frames[i].dir /\ frames'[i].stack = frames[i].stack
           /\ frames'[i].left = IF i = n THEN frames[i].left \ {e} ELSE frames[i].left
  <2>1. CallTypes /\ frames # <<>>
    BY <1>0
  <2>2. n \in Nat /\ n >= 1
    BY <2>1, TopFacts
  <2>3. TakenFrom(Sequential!Left(e), e)
    BY <2>1, LeftFacts
  <2>4. TakenFrom(frames', e)
    BY <2>3
  <2> QED
    BY <2>2, <2>4 DEF TakenFrom
<1>2. /\ found' \in [Dirs -> SUBSET Entries] /\ Parent[e] \in Dirs
      /\ \A d \in Dirs : /\ found[d] \subseteq found'[d]
                         /\ d # Parent[e] => found'[d] = found[d]
      /\ found'[Parent[e]] = found[Parent[e]] \/ (found'[Parent[e]] = found[Parent[e]] \cup {e} /\ e \in Files \ Gone)
  BY <1>0, GoneFacts DEF CallTypes
<1>3. CallTypes'
  BY <1>0, <1>1, <1>2 DEF CallTypes
<1>4. \A i \in 1..n : frames[i].dir \in Dirs /\ (frames[i].dir = Parent[e] => i = n)
  BY <1>0, <1>1, TopFacts DEF CallInv
<1>5. CallInv'
  <2>1. ASSUME NEW i \in 1..n
        PROVE  frames'[i].left \subseteq Children(frames'[i].dir) \ found'[frames'[i].dir]
    <3>1. frames[i].left \subseteq Children(frames[i].dir) \ found[frames[i].dir]
      BY <1>0 DEF CallInv
    <3>2. CASE i = n
      <4>1. /\ frames'[i].left = frames[i].left \ {e} /\ frames'[i].dir = Parent[e]
            /\ frames[i].dir = Parent[e]
        BY <1>1, <3>2
      <4>2. found'[Parent[e]] \subseteq found[Parent[e]] \cup {e}
        BY <1>2
      <4> QED
        BY <3>1, <4>1, <4>2
    <3>3. CASE i # n
      BY <1>1, <1>2, <1>4, <3>1, <3>3
    <3> QED
      BY <3>2, <3>3
  <2>2. ASSUME NEW i \in 1..n, i > 1
        PROVE  /\ frames'[i].dir \in Entries \ Gone /\ Parent[frames'[i].dir] = frames'[i - 1].dir
               /\ frames'[i].dir \notin found'[frames'[i - 1].dir] \cup frames'[i - 1].left
    <3>1. i - 1 \in 1..n /\ i - 1 # n
      BY <1>1, <2>2
    <3>2. frames[i - 1].dir # Parent[e] /\ frames[i - 1].dir \in Dirs
      BY <1>4, <3>1
    <3>3. /\ frames'[i].dir = frames[i].dir /\ frames'[i - 1].dir = frames[i - 1].dir
          /\ frames'[i - 1].left = frames[i - 1].left
      BY <1>1, <3>1
    <3>4. found'[frames[i - 1].dir] = found[frames[i - 1].dir]
      BY <1>2, <3>2
    <3>5. /\ frames[i].dir \in Entries \ Gone /\ Parent[frames[i].dir] = frames[i - 1].dir
          /\ frames[i].dir \notin found[frames[i - 1].dir] \cup frames[i - 1].left
      BY <1>0, <2>2 DEF CallInv
    <3> QED
      BY <3>3, <3>4, <3>5
  <2>3. \A i, j \in 1..n : frames'[i].dir = frames'[j].dir => i = j
    BY <1>0, <1>1 DEF CallInv
  <2>4. 1 \in 1..n
    BY <1>1
  <2> QED
    BY <1>0, <1>1, <2>1, <2>2, <2>3, <2>4 DEF CallInv
<1>6. \A d : Called(d)' <=> Called(d)
  BY <1>1 DEF Called
<1>7. \A d \in Dirs : LinkedBelow(d) => LinkedBelow(d)'
  BY <1>2, GoneFacts DEF LinkedBelow
<1>8. Called(Parent[e]) /\ e \in Children(Parent[e])
  <2>1. n \in 1..n
    BY <1>1
  <2> QED
    BY <1>0, <2>1 DEF Called, CallInv
<1>9. FoundInv'
  <2>1. \A d \in Dirs : found'[d] \subseteq Children(d) \ Gone
    BY <1>0, <1>2, <1>8 DEF FoundInv
  <2>2. \A d \in Dirs : found'[d] # {} => d = Root \/ Called(d)' \/ LinkedBelow(d)'
    BY <1>0, <1>2, <1>6, <1>7, <1>8 DEF FoundInv
  <2> QED
    BY <1>0, <1>1, <2>1, <2>2 DEF FoundInv, CallTypes
<1>10. CompleteInv'
  <2>1. ASSUME NEW i \in 1..n, NEW x \in Children(frames[i].dir) \ Gone
        PROVE  \/ x \in found'[frames[i].dir] \/ x \in frames'[i].left \/ frames[i].dir \in troubled'
               \/ i < n /\ frames[i + 1].dir = x
    <3>1. \/ x \in found[frames[i].dir] \/ x \in frames[i].left \/ frames[i].dir \in troubled
          \/ i < n /\ frames[i + 1].dir = x
      BY <1>0 DEF CompleteInv
    <3>2. CASE x \in frames[i].left /\ x \notin frames'[i].left
      BY <1>1, <2>1, <3>2
    <3> QED
      BY <1>2, <1>4, <3>1, <3>2
  <2>2. ASSUME NEW i \in 1..n, NEW x \in Children(frames'[i].dir) \ Gone
        PROVE  \/ x \in found'[frames'[i].dir] \/ x \in frames'[i].left \/ frames'[i].dir \in troubled'
               \/ i < n /\ frames'[i + 1].dir = x
    <3>1. i < n => i + 1 \in 1..n
      BY <1>1
    <3> QED
      BY <1>1, <2>1, <3>1
  <2>3. ASSUME NEW d \in Dirs, LinkedBelow(d)' \/ (d = Root /\ walker' = "returned"),
               NEW x \in Children(d) \ Gone
        PROVE  x \in found'[d] \/ d \in troubled'
    <3>1. walker' # "returned"
      BY <1>0 DEF CallTypes
    <3>2. CASE LinkedBelow(d)
      BY <1>0, <1>2, <3>2 DEF CompleteInv
    <3>3. CASE ~LinkedBelow(d)
      <4>1. d = e
        BY <1>2, <2>3, <3>1, <3>3, GoneFacts DEF LinkedBelow
      <4>2. e \in found'[Parent[e]] /\ e \notin found[Parent[e]]
        BY <2>3, <3>1, <3>3, <4>1 DEF LinkedBelow
      <4> QED
        BY <1>2, <4>1, <4>2, TreeAssumption
    <3> QED
      BY <3>2, <3>3
  <2> QED
    BY <1>1, <2>2, <2>3 DEF CompleteInv
<1> QED
  BY <1>3, <1>5, <1>9, <1>10 DEF SequentialInv

LEMMA AppendedFrame ==
  ASSUME NEW s \in Seq(Frames), NEW new \in Frames
  PROVE  /\ Append(s, new) \in Seq(Frames) /\ Len(Append(s, new)) = Len(s) + 1 /\ Append(s, new) # <<>>
         /\ \A i \in 1..Len(s) : Append(s, new)[i] = s[i]
         /\ Append(s, new)[Len(s) + 1] = new
  OBVIOUS

\* A directory is entered from the listing it is in.
LEMMA DescendKeeps ==
  ASSUME Sequential!AgreesWithGit, SequentialInv, NEW e \in Entries, Sequential!Descend(e)
  PROVE  SequentialInv'
<1> DEFINE n == Len(frames)
           L == Sequential!Left(e)
<1>0. CallTypes /\ CallInv /\ FoundInv /\ CompleteInv /\ Sequential!Ready(e) /\ Sequential!Wanted(e) /\ e \in Dirs
  BY ReadyFacts DEF SequentialInv, Sequential!Descend
<1>1. /\ frames # <<>> /\ ~halted /\ walker = "scanning" /\ e \in frames[n].left /\ Parent[e] = frames[n].dir
      /\ e \notin found[Parent[e]] /\ ~Called(e) /\ e \notin Gone
  BY <1>0, ReadyFacts
<1>2. PICK read \in SUBSET Children(e), partial \in BOOLEAN :
        /\ partial \/ read = Children(e)
        /\ frames' = Append(L, [dir |-> e, left |-> read, stack |-> Sequential!StackAt(e, L)])
        /\ troubled' = IF partial THEN troubled \cup {e} ELSE troubled
        /\ UNCHANGED <<walker, found, halted>>
  BY SequentialTree DEF Sequential!Descend, Sequential!Enter
<1>3. n \in Nat /\ n >= 1 /\ frames[n] \in Frames /\ TakenFrom(L, e)
  BY <1>0, <1>1, TopFacts, LeftFacts
<1>4. Sequential!StackAt(e, L) = StackIn(e)
  <2>1. L # <<>> /\ Len(L) = n /\ L[n].stack = frames[n].stack
    <3>1. n \in 1..n
      BY <1>3
    <3> HIDE DEF L
    <3> QED
      BY <1>3, <3>1 DEF TakenFrom
  <2>2. frames[n].stack = StackIn(Parent[e])
    BY <1>0, <1>1, <1>3 DEF CallInv
  <2>3. Sequential!StackFor[e] = StackIn(Parent[e]) /\ e # Root
    BY StackForIs, GoneFacts
  <2> HIDE DEF L
  <2> QED
    BY <2>1, <2>2, <2>3, SequentialTree DEF Sequential!StackAt, StackIn
<1> DEFINE new == [dir |-> e, left |-> read, stack |-> StackIn(e)]
<1>5. new \in Frames /\ new.dir = e /\ new.left = read /\ new.stack = StackIn(e)
  BY <1>0, GoneFacts DEF Frames
<1>6. frames' = Append(L, new)
  BY <1>2, <1>4
<1>7. /\ frames' \in Seq(Frames) /\ Len(frames') = n + 1 /\ frames' # <<>>
      /\ \A i \in 1..n : frames'[i] = L[i]
      /\ frames'[n + 1] = new
  <2>1. L \in Seq(Frames) /\ Len(L) = n
    BY <1>3 DEF TakenFrom
  <2> HIDE DEF L, new
  <2> QED
    BY <1>5, <1>6, <2>1, AppendedFrame
<1>8. /\ \A i \in 1..n :
           /\ frames'[i].dir = frames[i].dir /\ frames'[i].stack = frames[i].stack
           /\ frames'[i].left = IF i = n THEN frames[i].left \ {e} ELSE frames[i].left
      /\ frames'[n + 1].dir = e /\ frames'[n + 1].left = read /\ frames'[n + 1].stack = StackIn(e)
  <2> HIDE DEF L, new
  <2> QED
    BY <1>3, <1>5, <1>7 DEF TakenFrom
<1> HIDE DEF L, new
<1>9. CallTypes'
  BY <1>0, <1>1, <1>2, <1>7 DEF CallTypes
<1>10. found[e] = {}
  BY <1>0, <1>1, GoneFacts DEF FoundInv, LinkedBelow
<1>11. 1..Len(frames') = 1..n \cup {n + 1} /\ n + 1 \notin 1..n /\ n \in 1..n /\ 1 \in 1..n
  BY <1>3, <1>7
<1>12. CallInv'
  <2>1. frames'[1].dir = Root
    BY <1>0, <1>1, <1>8, <1>11 DEF CallInv
  <2>2. ASSUME NEW i \in 1..n
        PROVE  /\ frames'[i].stack = StackIn(frames'[i].dir)
               /\ frames'[i].left \subseteq Children(frames'[i].dir) \ found[frames'[i].dir]
               /\ frames'[i].dir # e
               /\ \A j \in 1..n : frames'[i].dir = frames'[j].dir => i = j
    BY <1>0, <1>1, <1>8 DEF CallInv, Called
  <2>3. ASSUME NEW i \in 1..n, i > 1
        PROVE  /\ frames'[i].dir \in Entries \ Gone /\ Parent[frames'[i].dir] = frames'[i - 1].dir
               /\ frames'[i].dir \notin found[frames'[i - 1].dir] \cup frames'[i - 1].left
    <3>1. i - 1 \in 1..n /\ i - 1 # n
      BY <1>3, <2>3
    <3>2. /\ frames'[i].dir = frames[i].dir /\ frames'[i - 1].dir = frames[i - 1].dir
          /\ frames'[i - 1].left = frames[i - 1].left
      BY <1>8, <3>1
    <3> QED
      BY <1>0, <2>3, <3>2 DEF CallInv
  <2>4. /\ frames'[n + 1].stack = StackIn(frames'[n + 1].dir)
        /\ frames'[n + 1].left \subseteq Children(frames'[n + 1].dir) \ found[frames'[n + 1].dir]
    BY <1>8, <1>10
  <2>5. /\ frames'[n + 1].dir \in Entries \ Gone /\ Parent[frames'[n + 1].dir] = frames'[n].dir
        /\ frames'[n + 1].dir \notin found[frames'[n].dir] \cup frames'[n].left
    BY <1>1, <1>8, <1>11
  <2>6. n + 1 - 1 = n /\ found' = found
    BY <1>2, <1>3
  <2>7. \A i \in 1..Len(frames') : i > 1 =>
          /\ frames'[i].dir \in Entries \ Gone /\ Parent[frames'[i].dir] = frames'[i - 1].dir
          /\ frames'[i].dir \notin found'[frames'[i - 1].dir] \cup frames'[i - 1].left
    BY <1>11, <2>3, <2>5, <2>6
  <2>8. \A i \in 1..Len(frames') :
          /\ frames'[i].stack = StackIn(frames'[i].dir)
          /\ frames'[i].left \subseteq Children(frames'[i].dir) \ found'[frames'[i].dir]
          /\ \A j \in 1..Len(frames') : frames'[i].dir = frames'[j].dir => i = j
    BY <1>8, <1>11, <2>2, <2>4, <2>6
  <2> QED
    BY <2>1, <2>7, <2>8 DEF CallInv
<1>13. FoundInv'
  <2>1. \A d : Called(d) => Called(d)'
    BY <1>8, <1>11 DEF Called
  <2>2. \A d \in Dirs : LinkedBelow(d)' <=> LinkedBelow(d)
    BY <1>2 DEF LinkedBelow
  <2> QED
    BY <1>0, <1>1, <1>2, <1>7, <2>1, <2>2 DEF FoundInv
<1>14. CompleteInv'
  <2>1. ASSUME NEW i \in 1..n, NEW x \in Children(frames'[i].dir) \ Gone
        PROVE  \/ x \in found[frames'[i].dir] \/ x \in frames'[i].left \/ frames'[i].dir \in troubled'
               \/ frames'[i + 1].dir = x
    <3>1. \/ x \in found[frames[i].dir] \/ x \in frames[i].left \/ frames[i].dir \in troubled
          \/ i < n /\ frames[i + 1].dir = x
      BY <1>0, <1>8, <2>1 DEF CompleteInv
    <3>2. i < n => i + 1 \in 1..n
      BY <1>3
    <3>3. CASE i = n /\ x = e
      BY <1>8, <3>3
    <3>4. CASE ~(i = n /\ x = e)
      BY <1>2, <1>8, <3>1, <3>2, <3>4
    <3> QED
      BY <3>3, <3>4
  <2>2. \A x \in Children(e) \ Gone : x \in read \/ e \in troubled'
    BY <1>2
  <2>3. \A i \in 1..n : i < Len(frames')
    BY <1>3, <1>7
  <2>4. \A i \in 1..Len(frames') : \A x \in Children(frames'[i].dir) \ Gone :
          \/ x \in found'[frames'[i].dir] \/ x \in frames'[i].left \/ frames'[i].dir \in troubled'
          \/ i < Len(frames') /\ frames'[i + 1].dir = x
    BY <1>2, <1>8, <1>11, <2>1, <2>2, <2>3
  <2>5. troubled \subseteq troubled' /\ walker' # "returned"
    BY <1>1, <1>2
  <2>6. \A d \in Dirs : LinkedBelow(d)' <=> LinkedBelow(d)
    BY <1>2 DEF LinkedBelow
  <2> QED
    BY <1>0, <1>2, <2>4, <2>5, <2>6 DEF CompleteInv
<1> QED
  BY <1>9, <1>12, <1>13, <1>14 DEF SequentialInv

LEMMA EnterRootKeeps ==
  ASSUME SequentialInv, Sequential!EnterRoot
  PROVE  SequentialInv'
<1>0. CallTypes /\ CallInv /\ FoundInv /\ (~halted => CompleteInv)
  BY DEF SequentialInv
<1>1. walker = "scanning" /\ frames = <<>> /\ found[Root] = {}
  BY <1>0 DEF Sequential!EnterRoot, FoundInv
<1>2. PICK read \in SUBSET Children(Root), partial \in BOOLEAN :
        /\ partial \/ read = Children(Root)
        /\ frames' = Append(<<>>, [dir |-> Root, left |-> read, stack |-> Sequential!StackAt(Root, <<>>)])
        /\ troubled' = IF partial THEN troubled \cup {Root} ELSE troubled
        /\ UNCHANGED <<walker, found, halted>>
  BY SequentialTree DEF Sequential!EnterRoot, Sequential!Enter
<1>3. Sequential!StackAt(Root, <<>>) = StackIn(Root)
  BY DEF Sequential!StackAt, StackIn
<1> DEFINE new == [dir |-> Root, left |-> read, stack |-> StackIn(Root)]
<1>4. new \in Frames /\ new.dir = Root /\ new.left = read /\ new.stack = StackIn(Root)
  BY GoneFacts DEF Frames
<1>5. frames' = Append(<<>>, new)
  BY <1>2, <1>3
<1> HIDE DEF new
<1>6. frames' \in Seq(Frames) /\ Len(frames') = 1 /\ frames' # <<>> /\ frames'[1] = new
  BY <1>4, <1>5
<1>7. 1..Len(frames') = {1}
  BY <1>6
<1>8. /\ \A i \in 1..Len(frames') : i = 1
      /\ frames'[1].dir = Root /\ frames'[1].left = read /\ frames'[1].stack = StackIn(Root)
  BY <1>4, <1>6, <1>7
<1>9. CallTypes'
  BY <1>0, <1>1, <1>2, <1>6 DEF CallTypes
<1>10. CallInv'
  <2>1. \A i \in 1..Len(frames') : ~(i > 1)
    BY <1>8
  <2> QED
    BY <1>1, <1>2, <1>8, <2>1 DEF CallInv
<1>11. FoundInv'
  <2>1. \A d \in Dirs : ~Called(d)
    BY <1>1 DEF Called
  <2>2. \A d \in Dirs : LinkedBelow(d)' <=> LinkedBelow(d)
    BY <1>2 DEF LinkedBelow
  <2> QED
    BY <1>0, <1>1, <1>2, <1>6, <2>1, <2>2 DEF FoundInv
<1>12. ~halted => CompleteInv'
  <2>1. \A d \in Dirs : LinkedBelow(d)' <=> LinkedBelow(d)
    BY <1>2 DEF LinkedBelow
  <2>2. troubled \subseteq troubled' /\ walker' # "returned"
    BY <1>1, <1>2
  <2>3. \A x \in Children(Root) : x \in read \/ Root \in troubled'
    BY <1>2
  <2> QED
    BY <1>0, <1>2, <1>8, <2>1, <2>2, <2>3 DEF CompleteInv
<1> QED
  BY <1>2, <1>9, <1>10, <1>11, <1>12 DEF SequentialInv

LEMMA ShorterSeq ==
  ASSUME NEW S, NEW s \in Seq(S), NEW m \in Nat, m <= Len(s)
  PROVE  /\ SubSeq(s, 1, m) \in Seq(S) /\ Len(SubSeq(s, 1, m)) = m
         /\ \A i \in 1..m : SubSeq(s, 1, m)[i] = s[i]
  OBVIOUS

\* A call returns: its directory is linked, and the root's is the last.
LEMMA ReturnKeeps ==
  ASSUME SequentialInv, Sequential!Return
  PROVE  SequentialInv'
<1> DEFINE n == Len(frames)
           c == frames[n].dir
           p == frames[n - 1].dir
<1>0. CallTypes /\ CallInv /\ FoundInv /\ (~halted => CompleteInv)
  BY DEF SequentialInv
<1>1. frames # <<>> /\ n \in Nat /\ n >= 1 /\ Sequential!Top = frames[n] /\ c \in Dirs
  BY <1>0, TopFacts DEF Sequential!Return
<1>2. /\ halted \/ frames[n].left = {}
      /\ frames' = SubSeq(frames, 1, n - 1) /\ UNCHANGED <<troubled, halted>>
  BY <1>1 DEF Sequential!Return, Sequential!Popped
<1>3. /\ frames' \in Seq(Frames) /\ Len(frames') = n - 1
      /\ \A i \in 1..(n - 1) : frames'[i] = frames[i]
  <2>1. frames \in Seq(Frames) /\ n - 1 \in Nat /\ n - 1 <= n
    BY <1>0, <1>1 DEF CallTypes
  <2> DEFINE short == SubSeq(frames, 1, n - 1)
  <2>2. short \in Seq(Frames) /\ Len(short) = n - 1 /\ \A i \in 1..(n - 1) : short[i] = frames[i]
    BY <2>1, ShorterSeq
  <2>3. frames' = short
    BY <1>2
  <2> HIDE DEF short
  <2> QED
    BY <2>2, <2>3
<1>4. frames[1].dir = Root
  BY <1>0, <1>1 DEF CallInv
<1>5. walker = "scanning"
  BY <1>0, <1>1 DEF CallTypes
<1>6. ~halted => \A x \in Children(c) \ Gone : x \in found[c] \/ c \in troubled
  <2>1. n \in 1..n /\ ~(n < n)
    BY <1>1
  <2> QED
    BY <1>0, <1>2, <2>1 DEF CompleteInv
<1>7. CASE n = 1
  <2>1. frames' = <<>> /\ Sequential!Popped = <<>> /\ 1..Len(frames') = {} /\ c = Root
    BY <1>2, <1>3, <1>4, <1>7 DEF Sequential!Popped
  <2>2. walker' = "returned" /\ found' = found
    BY <2>1 DEF Sequential!Return
  <2>3. CallTypes' /\ CallInv'
    BY <1>0, <1>2, <1>3, <2>1, <2>2 DEF CallTypes, CallInv
  <2>4. \A d \in Dirs : LinkedBelow(d)' <=> LinkedBelow(d)
    BY <2>2 DEF LinkedBelow
  <2>5. \A d : Called(d) => d = Root
    <3>1. \A i \in 1..n : i = 1
      BY <1>7
    <3> QED
      BY <1>4, <3>1 DEF Called
  <2>6. FoundInv'
    BY <1>0, <2>2, <2>4, <2>5 DEF FoundInv
  <2>7. ~halted => CompleteInv'
    BY <1>0, <1>2, <1>6, <2>1, <2>2, <2>4 DEF CompleteInv
  <2> QED
    BY <1>2, <2>3, <2>6, <2>7 DEF SequentialInv
<1>8. CASE n > 1
  <2>1. n - 1 \in 1..n /\ n \in 1..n /\ n - 1 \in 1..(n - 1) /\ 1 \in 1..(n - 1) /\ \A i \in 1..(n - 1) : i \in 1..n /\ i # n
    BY <1>1, <1>8
  <2>2. /\ c \in Entries \ Gone /\ Parent[c] = p /\ c \notin found[p] \cup frames[n - 1].left
    BY <1>0, <1>8, <2>1 DEF CallInv
  <2>3. p \in Dirs /\ Sequential!Last(Sequential!Popped) = frames[n - 1] /\ Sequential!Popped # <<>>
    <3>1. p \in Dirs
      BY <2>2, GoneFacts
    <3>2. Sequential!Popped = frames'
      BY <1>2 DEF Sequential!Popped
    <3>3. frames'[Len(frames')] = frames[n - 1] /\ frames' # <<>>
      BY <1>3, <2>1
    <3> QED
      BY <3>1, <3>2, <3>3, SequentialTree
  <2>4. found' = [found EXCEPT ![p] = @ \cup {c}] /\ walker' = walker
    BY <1>1, <2>3 DEF Sequential!Return
  <2>5. /\ found' \in [Dirs -> SUBSET Entries] /\ found'[p] = found[p] \cup {c}
        /\ \A d \in Dirs : found[d] \subseteq found'[d] /\ (d # p => found'[d] = found[d])
    BY <1>0, <2>2, <2>3, <2>4 DEF CallTypes
  <2>6. CallTypes'
    BY <1>0, <1>2, <1>3, <1>5, <2>4, <2>5 DEF CallTypes
  <2>7. \A i \in 1..(n - 1) : frames[i].dir \in Dirs /\ (frames[i].dir = p => i = n - 1)
    BY <1>0, <1>1, <2>1, TopFacts DEF CallInv
  <2>8. CallInv'
    <3>1. ASSUME NEW i \in 1..(n - 1)
          PROVE  /\ frames[i].stack = StackIn(frames[i].dir)
                 /\ frames[i].left \subseteq Children(frames[i].dir) \ found'[frames[i].dir]
                 /\ \A j \in 1..(n - 1) : frames[i].dir = frames[j].dir => i = j
      <4>1. /\ frames[i].stack = StackIn(frames[i].dir)
            /\ frames[i].left \subseteq Children(frames[i].dir) \ found[frames[i].dir]
            /\ \A j \in 1..(n - 1) : frames[i].dir = frames[j].dir => i = j
        BY <1>0, <2>1 DEF CallInv
      <4>2. CASE i = n - 1
        BY <2>2, <2>5, <4>1, <4>2
      <4>3. CASE i # n - 1
        BY <2>5, <2>7, <4>1, <4>3
      <4> QED
        BY <4>2, <4>3
    <3>2. ASSUME NEW i \in 1..(n - 1), i > 1
          PROVE  /\ frames[i].dir \in Entries \ Gone /\ Parent[frames[i].dir] = frames[i - 1].dir
                 /\ frames[i].dir \notin found'[frames[i - 1].dir] \cup frames[i - 1].left
      <4>1. i - 1 \in 1..(n - 1) /\ i - 1 # n - 1
        BY <1>1, <3>2
      <4>2. found'[frames[i - 1].dir] = found[frames[i - 1].dir]
        BY <2>5, <2>7, <4>1
      <4> QED
        BY <1>0, <2>1, <3>2, <4>2 DEF CallInv
    <3>3. \A i \in 1..(n - 1) : i > 1 => i - 1 \in 1..(n - 1)
      BY <1>1
    <3>4. \A i \in 1..Len(frames') :
            /\ frames'[i].stack = StackIn(frames'[i].dir)
            /\ frames'[i].left \subseteq Children(frames'[i].dir) \ found'[frames'[i].dir]
            /\ \A j \in 1..Len(frames') : frames'[i].dir = frames'[j].dir => i = j
      BY <1>3, <3>1
    <3>5. \A i \in 1..Len(frames') : i > 1 =>
            /\ frames'[i].dir \in Entries \ Gone /\ Parent[frames'[i].dir] = frames'[i - 1].dir
            /\ frames'[i].dir \notin found'[frames'[i - 1].dir] \cup frames'[i - 1].left
      BY <1>3, <3>2, <3>3
    <3>6. frames'[1].dir = Root
      BY <1>3, <1>4, <2>1
    <3> QED
      BY <3>4, <3>5, <3>6 DEF CallInv
  <2>9. /\ \A d \in Dirs : LinkedBelow(d) => LinkedBelow(d)'
        /\ \A d \in Dirs : d = c => LinkedBelow(d)'
        /\ \A d \in Dirs : LinkedBelow(d)' => LinkedBelow(d) \/ d = c
    <3>1. ASSUME NEW d \in Dirs, LinkedBelow(d) PROVE LinkedBelow(d)'
      BY <2>5, <3>1, GoneFacts DEF LinkedBelow
    <3>2. ASSUME NEW d \in Dirs, d = c PROVE LinkedBelow(d)'
      BY <2>2, <2>5, <3>2 DEF LinkedBelow
    <3>3. ASSUME NEW d \in Dirs, LinkedBelow(d)' PROVE LinkedBelow(d) \/ d = c
      <4>1. d \in Entries /\ d \in found'[Parent[d]] /\ Parent[d] \in Dirs
        BY <3>3, GoneFacts DEF LinkedBelow
      <4>2. d \in found[Parent[d]] \/ d = c
        <5> HIDE DEF c, p
        <5> QED
          BY <2>5, <4>1
      <4> QED
        BY <4>1, <4>2 DEF LinkedBelow
    <3> QED
      BY <3>1, <3>2, <3>3
  <2>10. FoundInv'
    <3>1. c \in Children(p)
      BY <2>2, GoneFacts DEF Children
    <3>2. \A d \in Dirs : found'[d] \subseteq Children(d) \ Gone
      BY <1>0, <2>2, <2>5, <3>1 DEF FoundInv
    <3>3. ASSUME NEW d, Called(d) PROVE d = c \/ Called(d)'
      <4>1. PICK i \in 1..n : frames[i].dir = d
        BY <3>3 DEF Called
      <4>2. i = n \/ i \in 1..(n - 1)
        BY <1>1
      <4> QED
        BY <1>3, <4>1, <4>2 DEF Called
    <3>4. \A d : d = p => Called(d)'
      <4>1. n - 1 \in 1..Len(frames') /\ frames'[n - 1].dir = p
        BY <1>3, <2>1
      <4> QED
        BY <4>1 DEF Called
    <3>5. ASSUME NEW d \in Dirs, found'[d] # {} PROVE d = Root \/ Called(d)' \/ LinkedBelow(d)'
      <4>1. CASE d = p
        BY <3>4, <4>1
      <4>2. CASE d # p
        <5>1. found[d] # {}
          BY <2>5, <3>5, <4>2
        <5>2. d = Root \/ Called(d) \/ LinkedBelow(d)
          BY <1>0, <5>1 DEF FoundInv
        <5> QED
          BY <2>9, <3>3, <5>2
      <4> QED
        BY <4>1, <4>2
    <3>6. frames' # <<>> /\ walker' # "idle"
      BY <1>3, <1>5, <2>1, <2>4
    <3> QED
      BY <3>2, <3>5, <3>6 DEF FoundInv
  <2>11. ~halted => CompleteInv'
    <3> SUFFICES ASSUME ~halted PROVE CompleteInv'
      OBVIOUS
    <3>1. ASSUME NEW i \in 1..(n - 1), NEW x \in Children(frames[i].dir) \ Gone
          PROVE  \/ x \in found'[frames[i].dir] \/ x \in frames[i].left \/ frames[i].dir \in troubled
                 \/ i < n - 1 /\ frames[i + 1].dir = x
      <4>1. \/ x \in found[frames[i].dir] \/ x \in frames[i].left \/ frames[i].dir \in troubled
            \/ i < n /\ frames[i + 1].dir = x
        BY <1>0, <2>1, <3>1 DEF CompleteInv
      <4>2. CASE i = n - 1
        <5>1. i + 1 = n /\ frames[i].dir = p
          BY <1>1, <4>2
        <5> QED
          BY <2>3, <2>5, <4>1, <5>1
      <4>3. CASE i # n - 1
        <5>1. i < n - 1
          BY <1>1, <4>3
        <5> QED
          BY <2>5, <2>7, <4>1, <5>1
      <4> QED
        BY <4>2, <4>3
    <3>2. \A i \in 1..(n - 1) : i < n - 1 => i + 1 \in 1..(n - 1)
      BY <1>1
    <3>3. \A i \in 1..Len(frames') : \A x \in Children(frames'[i].dir) \ Gone :
            \/ x \in found'[frames'[i].dir] \/ x \in frames'[i].left \/ frames'[i].dir \in troubled'
            \/ i < Len(frames') /\ frames'[i + 1].dir = x
      BY <1>2, <1>3, <3>1, <3>2
    <3>4. \A x \in Children(c) \ Gone : x \in found'[c] \/ c \in troubled'
      BY <1>1, <1>2, <1>6, <2>5
    <3>5. ASSUME NEW d \in Dirs, LinkedBelow(d)' \/ (d = Root /\ walker' = "returned")
          PROVE  \A x \in Children(d) \ Gone : x \in found'[d] \/ d \in troubled'
      BY <1>0, <1>2, <1>5, <2>4, <2>5, <2>9, <3>4, <3>5 DEF CompleteInv
    <3> QED
      BY <3>3, <3>5 DEF CompleteInv
  <2> QED
    BY <1>2, <2>6, <2>8, <2>10, <2>11 DEF SequentialInv
<1>9. n = 1 \/ n > 1
  <2>1. n \in Nat /\ n >= 1
    BY <1>1
  <2> HIDE DEF n
  <2> QED
    BY <2>1
<1> QED
  BY <1>7, <1>8, <1>9

LEMMA SetOutKeeps ==
  ASSUME SequentialInv, Sequential!Start
  PROVE  SequentialInv'
<1>1. walker = "idle" /\ walker' = "scanning" /\ UNCHANGED <<frames, found, troubled, halted>>
  BY DEF Sequential!Start
<1>2. frames = <<>> /\ Len(frames) = 0
  BY <1>1 DEF SequentialInv, CallTypes
<1>3. CallTypes' /\ CallInv'
  BY <1>1, <1>2 DEF SequentialInv, CallTypes, CallInv
<1>4. \A d \in Dirs : LinkedBelow(d)' <=> LinkedBelow(d)
  BY <1>1 DEF LinkedBelow
<1>5. \A d \in Dirs : Called(d)' <=> Called(d)
  BY <1>1 DEF Called
<1>6. \A d \in Dirs : found[d] = {}
  BY <1>1 DEF SequentialInv, FoundInv
<1>7. FoundInv'
  BY <1>1, <1>6, GoneFacts DEF FoundInv
<1>8. ~halted' => CompleteInv'
  BY <1>1, <1>2, <1>4 DEF SequentialInv, CompleteInv
<1> QED
  BY <1>3, <1>7, <1>8 DEF SequentialInv

LEMMA HaltKeeps ==
  ASSUME SequentialInv, Sequential!Cancel
  PROVE  SequentialInv'
<1>1. walker = "scanning" /\ halted' = TRUE /\ UNCHANGED <<walker, frames, found, troubled>>
  BY DEF Sequential!Cancel
<1>2. CallTypes' /\ CallInv'
  BY <1>1 DEF SequentialInv, CallTypes, CallInv
<1>3. \A d \in Dirs : (LinkedBelow(d)' <=> LinkedBelow(d)) /\ (Called(d)' <=> Called(d))
  BY <1>1 DEF LinkedBelow, Called
<1>4. FoundInv'
  BY <1>1, <1>3 DEF SequentialInv, FoundInv
<1> QED
  BY <1>1, <1>2, <1>4 DEF SequentialInv

\* What the steps that take an entry do, in the words of the invariant.
LEMMA TakesAre ==
  ASSUME Sequential!AgreesWithGit, SequentialInv, NEW e \in Entries,
         Sequential!SkipEntry(e) \/ Sequential!FileFails(e) \/ Sequential!AddFile(e)
  PROVE  /\ frames # <<>> /\ ~halted /\ walker = "scanning"
         /\ e \in frames[Len(frames)].left /\ Parent[e] = frames[Len(frames)].dir
         /\ e \notin found[Parent[e]]
         /\ UNCHANGED <<walker, halted>> /\ frames' = Sequential!Left(e)
         /\ \/ Sequential!SkipEntry(e) /\ e \in Gone /\ UNCHANGED <<found, troubled>>
            \/ /\ Sequential!FileFails(e) /\ found' = found
               /\ troubled' = troubled \cup {Parent[e]}
            \/ /\ Sequential!AddFile(e) /\ e \in Files \ Gone
               /\ found' = [found EXCEPT ![Parent[e]] = @ \cup {e}] /\ troubled' = troubled
<1>1. Sequential!Ready(e) /\ frames' = Sequential!Left(e) /\ UNCHANGED <<walker, halted>>
  BY DEF Sequential!SkipEntry, Sequential!FileFails, Sequential!AddFile, Sequential!Take
<1>2. /\ frames # <<>> /\ ~halted /\ walker = "scanning"
      /\ e \in frames[Len(frames)].left /\ Parent[e] = frames[Len(frames)].dir
      /\ e \notin found[Parent[e]]
      /\ Sequential!Wanted(e) <=> e \notin Gone
  BY <1>1, ReadyFacts
<1>3. Sequential!Top.dir = Parent[e]
  BY <1>2 DEF Sequential!Top
<1>4. \/ Sequential!SkipEntry(e) /\ e \in Gone /\ UNCHANGED <<found, troubled>>
      \/ /\ Sequential!FileFails(e) /\ found' = found
         /\ troubled' = troubled \cup {Parent[e]}
      \/ /\ Sequential!AddFile(e) /\ e \in Files \ Gone
         /\ found' = [found EXCEPT ![Parent[e]] = @ \cup {e}] /\ troubled' = troubled
  BY <1>2, <1>3 DEF Sequential!SkipEntry, Sequential!FileFails, Sequential!AddFile
<1> QED
  BY <1>1, <1>2, <1>4

LEMMA TakesKeep ==
  ASSUME Sequential!AgreesWithGit, SequentialInv, NEW e \in Entries,
         Sequential!SkipEntry(e) \/ Sequential!FileFails(e) \/ Sequential!AddFile(e)
  PROVE  SequentialInv'
<1>1. /\ frames # <<>> /\ ~halted
      /\ e \in frames[Len(frames)].left /\ Parent[e] = frames[Len(frames)].dir
      /\ UNCHANGED <<walker, halted>> /\ frames' = Sequential!Left(e)
  BY TakesAre
<1>2. \/ e \in Gone /\ UNCHANGED <<found, troubled>>
      \/ found' = found /\ troubled' = troubled \cup {Parent[e]}
      \/ /\ e \in Files \ Gone /\ troubled' = troubled
         /\ found' = [found EXCEPT ![Parent[e]] = @ \cup {e}]
  BY TakesAre
<1>3. found \in [Dirs -> SUBSET Entries] /\ Parent[e] \in Dirs
  BY GoneFacts DEF SequentialInv, CallTypes
<1>4. /\ troubled \subseteq troubled'
      /\ \/ found' = found
         \/ found' = [found EXCEPT ![Parent[e]] = @ \cup {e}] /\ e \in Files \ Gone
      /\ e \in Gone \/ e \in found'[Parent[e]] \/ Parent[e] \in troubled'
  BY <1>2, <1>3
<1> QED
  BY <1>1, <1>4, TakeKeeps

LEMMA SequentialStep ==
  ASSUME Sequential!AgreesWithGit, SequentialInv, [Sequential!Next]_(Sequential!sequentialVars)
  PROVE  SequentialInv'
<1>1. CASE UNCHANGED Sequential!sequentialVars
  <2>1. UNCHANGED <<walker, frames, found, troubled, halted>>
    BY <1>1 DEF Sequential!sequentialVars
  <2>2. CallTypes' /\ CallInv'
    BY <2>1 DEF SequentialInv, CallTypes, CallInv
  <2>3. \A d \in Dirs : (LinkedBelow(d)' <=> LinkedBelow(d)) /\ (Called(d)' <=> Called(d))
    BY <2>1 DEF LinkedBelow, Called
  <2>4. FoundInv' /\ (~halted' => CompleteInv')
    BY <2>1, <2>3 DEF SequentialInv, FoundInv, CompleteInv
  <2> QED
    BY <2>2, <2>4 DEF SequentialInv
<1>2. CASE Sequential!Start
  BY <1>2, SetOutKeeps
<1>3. CASE Sequential!EnterRoot
  BY <1>3, EnterRootKeeps
<1>4. CASE Sequential!Cancel
  BY <1>4, HaltKeeps
<1>5. CASE Sequential!Return
  BY <1>5, ReturnKeeps
<1>6. ASSUME NEW e \in Entries, Sequential!SkipEntry(e) \/ Sequential!FileFails(e) \/ Sequential!AddFile(e)
      PROVE  SequentialInv'
  BY <1>6, TakesKeep
<1>7. ASSUME NEW e \in Entries, Sequential!Descend(e)
      PROVE  SequentialInv'
  BY <1>7, DescendKeeps
<1> QED
  BY <1>1, <1>2, <1>3, <1>4, <1>5, <1>6, <1>7, SequentialTree DEF Sequential!Next

-----------------------------------------------------------------------------
(* The contract *)

AllFound == UNION {found[d] : d \in Dirs}

\* What is found is found in its directory, once.
LEMMA FoundIsBelow ==
  ASSUME SequentialInv
  PROVE  /\ \A e : e \in AllFound <=> e \in Entries /\ e \in found[Parent[e]]
         /\ AllFound \subseteq Entries \ Gone
<1>1. /\ \A d \in Dirs : \A e \in found[d] : e \in Entries \ Gone /\ Parent[e] = d
  BY GoneFacts DEF SequentialInv, FoundInv
<1>2. \A e : e \in AllFound <=> \E d \in Dirs : e \in found[d]
  BY DEF AllFound
<1> QED
  BY <1>1, <1>2, GoneFacts

LEMMA FoundGrows ==
  ASSUME SequentialInv, NEW e \in Entries \ Gone, e \notin found[Parent[e]],
         found' = [found EXCEPT ![Parent[e]] = @ \cup {e}],
         walker = "scanning", UNCHANGED <<walker, troubled, halted>>
  PROVE  \E x \in Sequential!Contract!Entries \ Gone : Sequential!Contract!Link(x)
<1>1. found \in [Dirs -> SUBSET Entries] /\ Parent[e] \in Dirs
  BY GoneFacts DEF SequentialInv, CallTypes
<1>2. \A d \in Dirs : found'[d] = IF d = Parent[e] THEN found[d] \cup {e} ELSE found[d]
  BY <1>1
<1> DEFINE new == UNION {found'[d] : d \in Dirs}
           old == UNION {found[d] : d \in Dirs}
<1>3. \A x : x \in new <=> x = e \/ x \in old
  BY <1>1, <1>2
<1>4. new = old \cup {e}
  <2> HIDE DEF new, old
  <2> QED
    BY <1>3
<1>5. e \notin old
  BY FoundIsBelow DEF AllFound
<1>6. Sequential!Contract!Link(e)
  <2>1. walker' = walker /\ troubled' = troubled /\ halted' = halted
    OBVIOUS
  <2>2. (CASE walker = "idle" -> "idle" [] walker = "returned" -> "finished" [] OTHER -> "running") = "running"
    OBVIOUS
  <2> HIDE DEF old
  <2>3. UNION {found'[d] : d \in Dirs} = old \cup {e}
    BY <1>4
  <2> QED
    BY <1>5, <2>1, <2>2, <2>3 DEF Sequential!Contract!Link, old
<1> QED
  BY <1>6, SequentialTree

\* What the scan found when the root returns hangs from the root, and is
\* complete unless the user cancelled.
LEMMA ReturnedIsWhole ==
  ASSUME SequentialInv, frames # <<>>, Len(frames) = 1, halted \/ frames[1].left = {}
  PROVE  Sequential!Contract!HangsFromRoot /\ (halted \/ Sequential!Contract!Complete)
<1>1. frames[1].dir = Root /\ \A i \in 1..Len(frames) : i = 1
  BY DEF SequentialInv, CallInv
<1>2. \A d : Called(d) => d = Root
  BY <1>1 DEF Called
<1>3. ASSUME NEW e \in AllFound
      PROVE  Parent[e] = Root \/ Parent[e] \in AllFound
  <2>1. e \in Entries /\ e \in found[Parent[e]] /\ Parent[e] \in Dirs
    BY FoundIsBelow, GoneFacts
  <2>2. Parent[e] = Root \/ LinkedBelow(Parent[e])
    BY <1>2, <2>1 DEF SequentialInv, FoundInv
  <2> QED
    BY <2>2, FoundIsBelow DEF LinkedBelow
<1>4. Sequential!Contract!HangsFromRoot
  BY <1>3 DEF Sequential!Contract!HangsFromRoot, AllFound
<1>5. ASSUME ~halted, NEW e \in Entries \ Gone, Parent[e] \in AllFound \cup {Root}
      PROVE  e \in AllFound \/ Parent[e] \in troubled
  <2>0. Parent[e] \in Dirs /\ e \in Children(Parent[e]) /\ CompleteInv
    BY <1>5, GoneFacts DEF Children, SequentialInv
  <2>1. CASE Parent[e] = Root
    <3>1. 1 \in 1..Len(frames) /\ ~(1 < Len(frames))
      OBVIOUS
    <3>2. e \in found[Root] \/ Root \in troubled
      BY <1>1, <1>5, <2>0, <2>1, <3>1 DEF CompleteInv
    <3> QED
      BY <1>5, <2>1, <3>2, FoundIsBelow
  <2>2. CASE Parent[e] \in AllFound
    <3>1. LinkedBelow(Parent[e])
      BY <2>2, FoundIsBelow DEF LinkedBelow
    <3>2. e \in found[Parent[e]] \/ Parent[e] \in troubled
      BY <1>5, <2>0, <3>1 DEF CompleteInv
    <3> QED
      BY <1>5, <3>2, FoundIsBelow
  <2> QED
    BY <1>5, <2>1, <2>2
<1>6. ~halted => Sequential!Contract!Complete
  BY <1>5, SequentialTree DEF Sequential!Contract!Complete, AllFound, Gone
<1> QED
  BY <1>4, <1>6

LEMMA ReturnIsLink ==
  ASSUME SequentialInv, Sequential!Return
  PROVE  \/ Sequential!Contract!Finish
         \/ \E x \in Sequential!Contract!Entries \ Gone : Sequential!Contract!Link(x)
<1> DEFINE n == Len(frames)
           c == frames[n].dir
<1>0. CallTypes /\ CallInv
  BY DEF SequentialInv
<1>1. frames # <<>> /\ n \in Nat /\ n >= 1 /\ Sequential!Top = frames[n] /\ walker = "scanning"
  BY <1>0, TopFacts DEF Sequential!Return, CallTypes
<1>2. /\ halted \/ frames[n].left = {} 
      /\ Sequential!Popped = SubSeq(frames, 1, n - 1) /\ UNCHANGED <<troubled, halted>>
  BY <1>1 DEF Sequential!Return, Sequential!Popped
<1>3. /\ Sequential!Popped \in Seq(Frames) /\ Len(Sequential!Popped) = n - 1
      /\ \A i \in 1..(n - 1) : Sequential!Popped[i] = frames[i]
  <2>1. frames \in Seq(Frames) /\ n - 1 \in Nat /\ n - 1 <= n
    BY <1>0, <1>1 DEF CallTypes
  <2> DEFINE short == SubSeq(frames, 1, n - 1)
  <2>2. short \in Seq(Frames) /\ Len(short) = n - 1 /\ \A i \in 1..(n - 1) : short[i] = frames[i]
    BY <2>1, ShorterSeq
  <2>3. Sequential!Popped = short
    BY <1>2
  <2> HIDE DEF short
  <2> QED
    BY <2>2, <2>3
<1>4. CASE n = 1
  <2>1. Sequential!Popped = <<>>
    BY <1>3, <1>4
  <2>2. walker' = "returned" /\ found' = found
    BY <2>1 DEF Sequential!Return
  <2>3. Sequential!Contract!HangsFromRoot /\ (halted \/ Sequential!Contract!Complete)
    BY <1>1, <1>2, <1>4, ReturnedIsWhole
  <2>4. Sequential!Contract!Finish
    BY <1>1, <1>2, <2>2, <2>3 DEF Sequential!Contract!Finish
  <2> QED
    BY <2>4
<1>5. CASE n > 1
  <2>1. n \in 1..n /\ n - 1 \in 1..(n - 1)
    BY <1>1, <1>5
  <2>2. /\ c \in Entries \ Gone /\ Parent[c] = frames[n - 1].dir /\ c \notin found[frames[n - 1].dir]
    BY <1>0, <1>5, <2>1 DEF CallInv
  <2>3. Sequential!Last(Sequential!Popped) = frames[n - 1] /\ Sequential!Popped # <<>>
    BY <1>3, <1>5, <2>1, SequentialTree
  <2>4. found' = [found EXCEPT ![Parent[c]] = @ \cup {c}] /\ UNCHANGED walker
    BY <1>1, <2>2, <2>3 DEF Sequential!Return
  <2> HIDE DEF c
  <2> QED
    BY <1>1, <1>2, <2>2, <2>4, FoundGrows
<1>6. n = 1 \/ n > 1
  <2>1. n \in Nat /\ n >= 1
    BY <1>1
  <2> HIDE DEF n
  <2> QED
    BY <2>1
<1> QED
  BY <1>4, <1>5, <1>6

\* A listing that broke flags its directory.
LEMMA EnterIsBreak ==
  ASSUME NEW d \in Dirs, NEW under, Sequential!Enter(d, under), walker = "scanning"
  PROVE  Sequential!Contract!Break(d) \/ UNCHANGED Sequential!Contract!contractVars
<1>1. UNCHANGED <<walker, found, halted>> /\ (troubled' = troubled \cup {d} \/ troubled' = troubled)
  BY DEF Sequential!Enter
<1>2. CASE troubled' = troubled \cup {d}
  BY <1>1, <1>2 DEF Sequential!Contract!Break
<1>3. CASE troubled' = troubled
  BY <1>1, <1>3 DEF Sequential!Contract!contractVars
<1> QED
  BY <1>1, <1>2, <1>3

LEMMA SequentialRefines ==
  ASSUME Sequential!AgreesWithGit, SequentialInv, [Sequential!Next]_(Sequential!sequentialVars)
  PROVE  [Sequential!Contract!Next]_(Sequential!Contract!contractVars)
<1>0. \A x \in Sequential!Contract!Entries \ Gone : Sequential!Contract!Link(x) => Sequential!Contract!Next
  BY DEF Sequential!Contract!Next, Gone
<1>1. CASE UNCHANGED Sequential!sequentialVars
  BY <1>1 DEF Sequential!sequentialVars, Sequential!Contract!contractVars
<1>2. CASE Sequential!Start
  <2>1. Sequential!Contract!Begin
    BY <1>2 DEF Sequential!Start, Sequential!Contract!Begin
  <2> QED
    BY <2>1 DEF Sequential!Contract!Next
<1>3. CASE Sequential!EnterRoot
  <2>1. Sequential!Contract!Break(Root) \/ UNCHANGED Sequential!Contract!contractVars
    BY <1>3, EnterIsBreak, GoneFacts DEF Sequential!EnterRoot
  <2> QED
    BY <2>1, GoneFacts DEF Sequential!Contract!Next
<1>4. CASE Sequential!Cancel
  <2>1. Sequential!Contract!Cancel
    BY <1>4 DEF Sequential!Cancel, Sequential!Contract!Cancel
  <2> QED
    BY <2>1 DEF Sequential!Contract!Next
<1>5. CASE Sequential!Return
  BY <1>0, <1>5, ReturnIsLink DEF Sequential!Contract!Next
<1>6. ASSUME NEW e \in Entries, Sequential!SkipEntry(e) \/ Sequential!FileFails(e) \/ Sequential!AddFile(e)
      PROVE  [Sequential!Contract!Next]_(Sequential!Contract!contractVars)
  <2>1. /\ walker = "scanning" /\ UNCHANGED <<walker, halted>> /\ e \notin found[Parent[e]]
        /\ \/ UNCHANGED <<found, troubled>>
           \/ found' = found /\ troubled' = troubled \cup {Parent[e]}
           \/ /\ e \in Files \ Gone /\ troubled' = troubled
              /\ found' = [found EXCEPT ![Parent[e]] = @ \cup {e}]
    BY <1>6, TakesAre
  <2>2. CASE UNCHANGED <<found, troubled>>
    BY <2>1, <2>2 DEF Sequential!Contract!contractVars
  <2>3. CASE found' = found /\ troubled' = troubled \cup {Parent[e]}
    <3>1. Sequential!Contract!Break(Parent[e])
      BY <2>1, <2>3 DEF Sequential!Contract!Break
    <3> QED
      BY <3>1, GoneFacts DEF Sequential!Contract!Next
  <2>4. CASE /\ e \in Files \ Gone /\ troubled' = troubled
             /\ found' = [found EXCEPT ![Parent[e]] = @ \cup {e}]
    BY <1>0, <2>1, <2>4, FoundGrows
  <2> QED
    BY <2>1, <2>2, <2>3, <2>4
<1>7. ASSUME NEW e \in Entries, Sequential!Descend(e)
      PROVE  [Sequential!Contract!Next]_(Sequential!Contract!contractVars)
  <2>1. walker = "scanning" /\ e \in Dirs
    BY <1>7, ReadyFacts DEF Sequential!Descend
  <2>2. Sequential!Contract!Break(e) \/ UNCHANGED Sequential!Contract!contractVars
    BY <1>7, <2>1, EnterIsBreak DEF Sequential!Descend
  <2> QED
    BY <2>1, <2>2 DEF Sequential!Contract!Next
<1> QED
  BY <1>1, <1>2, <1>3, <1>4, <1>5, <1>6, <1>7, SequentialTree DEF Sequential!Next

LEMMA SequentialBegins == Sequential!Init => Sequential!Contract!Init
<1> SUFFICES ASSUME Sequential!Init PROVE Sequential!Contract!Init
  OBVIOUS
<1>1. walker = "idle" /\ troubled = {} /\ halted = FALSE /\ \A d \in Dirs : found[d] = {}
  BY DEF Sequential!Init
<1>2. UNION {found[d] : d \in Dirs} = {}
  BY <1>1
<1> QED
  BY <1>1, <1>2 DEF Sequential!Contract!Init

-----------------------------------------------------------------------------
(* The parts together *)

\* A step of one part leaves the variables of the others alone.
LEMMA OtherSteps ==
  ASSUME [PartsNext]_allVars
  PROVE  /\ which' = which
         /\ which # "session" => UNCHANGED vars
         /\ which # "parallel" => UNCHANGED parallelVars
         /\ which # "stable" => UNCHANGED stableVars
         /\ which # "sequential" => UNCHANGED sequentialVars
         /\ which # "preview" => UNCHANGED previewVars
         /\ which # "printing" => UNCHANGED printVars
<1>1. CASE UNCHANGED allVars
  BY <1>1 DEF allVars
<1>2. CASE PartsNext
  BY <1>2 DEF PartsNext, Session, Idle, OnlySession, OnlyParallel, OnlyStable, OnlySequential,
     OnlyPreview, OnlyTrash, OnlyStartup, OnlyPrinting, OnlyStats
<1> QED
  BY <1>1, <1>2

\* So every step is one of each part, or none.
LEMMA SessionSteps ==
  ASSUME [PartsNext]_allVars
  PROVE  [Next]_vars
<1>1. CASE UNCHANGED allVars
  BY <1>1 DEF allVars
<1>2. CASE PartsNext /\ which = "session"
  BY <1>2 DEF PartsNext, Session, Idle, Next, Goroutine, Interface
<1> QED
  BY <1>1, <1>2, OtherSteps

LEMMA StableSteps ==
  ASSUME [PartsNext]_allVars
  PROVE  [Stable!Next]_(Stable!stableVars)
<1>1. CASE UNCHANGED stableVars
  BY <1>1 DEF stableVars, Stable!stableVars, Stable!waitVars
<1>2. CASE PartsNext /\ which = "stable"
  BY <1>2, SameTree DEF PartsNext, Session, Idle, Stable!Next, Stable!Goroutine, Stable!Collector, Stable!AnalyzeDir
<1>3. CASE UNCHANGED allVars
  BY <1>1, <1>3 DEF allVars
<1> QED
  BY <1>1, <1>2, <1>3, OtherSteps

LEMMA ParallelSteps ==
  ASSUME [PartsNext]_allVars
  PROVE  [Parallel!Next]_(Parallel!vars)
<1>1. CASE UNCHANGED parallelVars
  BY <1>1 DEF parallelVars, Parallel!vars, Parallel!waitVars
<1>2. CASE PartsNext /\ which = "parallel"
  BY <1>2 DEF PartsNext, Session, Idle, Parallel!Next
<1>3. CASE UNCHANGED allVars
  BY <1>1, <1>3 DEF allVars
<1> QED
  BY <1>1, <1>2, <1>3, OtherSteps

LEMMA SequentialSteps ==
  ASSUME [PartsNext]_allVars
  PROVE  [Sequential!Next]_(Sequential!sequentialVars)
<1>1. CASE UNCHANGED sequentialVars
  BY <1>1 DEF sequentialVars, Sequential!sequentialVars
<1>2. CASE PartsNext /\ which = "sequential"
  BY <1>2, SequentialTree DEF PartsNext, Session, Idle, Sequential!Next
<1>3. CASE UNCHANGED allVars
  BY <1>1, <1>3 DEF allVars
<1> QED
  BY <1>1, <1>2, <1>3, OtherSteps

LEMMA PreviewSteps ==
  ASSUME [PartsNext]_allVars
  PROVE  [Snapshot!PreviewNext]_(Snapshot!previewVars)
<1>1. CASE UNCHANGED previewVars
  BY <1>1 DEF previewVars, Snapshot!previewVars, Snapshot!contractVars
<1>2. CASE PartsNext /\ which = "preview"
  BY <1>2 DEF PartsNext, Session, Idle, Snapshot!PreviewNext
<1>3. CASE UNCHANGED allVars
  BY <1>1, <1>3 DEF allVars
<1> QED
  BY <1>1, <1>2, <1>3, OtherSteps

LEMMA PrintingSteps ==
  ASSUME [PartsNext]_allVars
  PROVE  [Printing!Next]_(Printing!stdoutVars)
<1>1. CASE UNCHANGED printVars
  BY <1>1 DEF printVars, Printing!stdoutVars
<1>2. CASE PartsNext /\ which = "printing"
  BY <1>2 DEF PartsNext, Session, Idle, Printing!Next, Printing!Command, Printing!Job, Printing!Meter
<1>3. CASE UNCHANGED allVars
  BY <1>1, <1>3 DEF allVars
<1> QED
  BY <1>1, <1>2, <1>3, OtherSteps

\* A session keeps its keys off a tree that is being built and its previews to
\* its scan, and stops after the root it is at; a preview lies between the trees
\* before and after its copy; the output without an interface is that of all
\* roots and nobody writes over it (tui, snapshotDir, stdout).
THEOREM SessionsAreSound == PartsSpec => []SessionIsSound
<1> DEFINE Inv == SessionInv /\ SnapInv /\ (which = "printing" => PrintInv)
<1>1. PartsInit => Inv
  BY SessionStarts, FirstSnapshot, PrintingStarts DEF PartsInit
<1>2. Inv /\ [PartsNext]_allVars => Inv'
  BY SessionStep, SessionSteps, SnapshotStep, PreviewSteps, PrintingStep, PrintingSteps, OtherSteps
<1>3. Inv => SessionIsSound
  BY TypeParts DEF SessionInv, SnapInv, PrintInv, SessionIsSound, StopsAfterThisRoot, ExtraInv
<1> QED
  BY <1>1, <1>2, <1>3, PTL DEF PartsSpec

\* The stable-order scan lists what it found in the order of the directory, in
\* whatever order its goroutines end (parallel_stable.go).
THEOREM OrderStays == PartsSpec => []OrderIsKept
<1>1. PartsInit => StableInv
  BY StableStarts DEF PartsInit
<1>2. StableInv /\ [PartsNext]_allVars => StableInv'
  BY StableStep, StableSteps, PartsAssumption
<1>3. StableInv => OrderIsKept
  BY DEF StableInv, OrderIsKept
<1> QED
  BY <1>1, <1>2, <1>3, PTL DEF PartsSpec

\* After a cancel no more directories are opened than there are slots, the root
\* apart, with any number of slots and any tree (parallel.go: a queued worker
\* looks at the cancel flag when it has its slot).
THEOREM CancelsArePrompt == PartsSpec => []CancelIsPrompt
<1>1. PartsInit => PromptInv
  BY PromptStarts DEF PartsInit
<1>2. PromptInv /\ [PartsNext]_allVars => PromptInv'
  BY PromptStep, ParallelSteps
<1> QED
  BY <1>1, <1>2, PromptIsFew, PTL DEF PartsSpec

\* The stable-order scan and, by rules about which its stack agrees with git, the
\* sequential scan promise what the parallel one does: what is handed over hangs
\* from the root and, unless the user cancelled, lacks nothing that is not
\* skipped, ignored or flagged (parallel_stable.go, sequential.go).
THEOREM ContractsStayKept ==
  ASSUME Sequential!AgreesWithGit
  PROVE  PartsSpec => ContractsAreKept
<1> DEFINE Inv == StableInv /\ SequentialInv
<1>1. PartsInit => Inv /\ Stable!Contract!Init /\ Sequential!Contract!Init
  BY StableStarts, StableBegins, SequentialStarts, SequentialBegins DEF PartsInit
<1>2. Inv /\ [PartsNext]_allVars => Inv'
  BY StableStep, StableSteps, PartsAssumption, SequentialStep, SequentialSteps
<1>3. Inv /\ [PartsNext]_allVars => [which = "stable" => [Stable!Contract!Next]_(Stable!Contract!contractVars)]_stableVars
  BY StableRefines, StableSteps
<1>4. Inv /\ [PartsNext]_allVars => [which = "sequential" => [Sequential!Contract!Next]_(Sequential!Contract!contractVars)]_sequentialVars
  BY SequentialRefines, SequentialSteps
<1> QED
  BY <1>1, <1>2, <1>3, <1>4, PTL DEF PartsSpec, ContractsAreKept
=============================================================================
