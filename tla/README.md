# A verification project for gtu

gtu (a fork of gdu) walks directory trees with many goroutines, sums sizes and
token counts, and lets the user browse the result in a terminal, in a browser
or as text, and delete from it.  The modules beside this file are TLA+ models
of that program, read from its Go source; TLC checks them on small instances
and TLAPS proves theorems about them.  Paths below are relative to the
repository (`src/` in PROJECT.json).

Run, in this directory:

    tlc -workers 2 -config MCParallelScan.cfg MCParallelScan   # any cfg of the table below
    tlapm ParallelScanProofs.tla                               # or any module of section 5

## 1. Inventory

| component | state | operations | hard part | what makes it correct |
|---|---|---|---|---|
| **Parallel analyzer** `pkg/analyze/{parallel,analyzer,wait}.go` | `Dir.Files` and flags under construction, a process-wide semaphore, the hand-made wait group, `cancelled`, progress channels | `AnalyzeDir`, `processDir`, `Cancel`, `ResetProgress`, `UpdateProgress` | one goroutine per directory plus one collector per directory; cancel at any moment; unreadable entries; the result is used without locks afterwards | nothing runs after hand-over; the (partial) tree is whole; no silent loss; cancel is prompt; the scan ends |
| **Top-dir analyzer** `pkg/analyze/{parallel_top_dir,top_dir}.go` | atomic totals per first-level directory, a set of inodes, the same semaphore and wait group | `AnalyzeDir`, `processSubDir`, `TopDir.AddUsage`, `UpdateStats` | goroutine if a slot is free, recursion in place otherwise; the wait group is not a wait group | each item and inode once; the report is final; the scan ends |
| **Stable-order and sequential analyzers** `pkg/analyze/{parallel_stable,sequential}.go` | as the parallel one; an indexed channel; a stack of `.gitignore` files | `AnalyzeDir` | order of results restored by position; rules that hold below a directory only | the contract of the parallel scan; the order of the listing |
| **Stored scan** `pkg/analyze/{stored,storage}.go` | directories in BadgerDB, a reference count on the open store | `AnalyzeDir`, `Open`, `checkCount`, `StoredDir.*` | `wait.Add` inside the goroutine it counts; store reopened under load | records are of one scan; references are balanced; totals in the store are sums |
| **SQLite scan** `pkg/analyze/sqlite.go` | rows, one transaction per scan, items loaded lazily | insert, finalize, remove and update ancestors | check-then-insert, statements that fail in the middle, a process that ends, items that are stale | rows form the tree; totals are sums; what is loaded is a whole scan |
| **Deletion** `tui/{background,marked,delete_action,actions}.go`, `pkg/remove/{remove,parallel}.go` | tree, sizes, disk, rows on screen, marks, cursor, dialog, `deleteQueue`, worker count | mark, ask, confirm, queue, remove, unlink, subtract, refresh | workers beside a user who navigates; removals that fail half-way; rows as stale snapshots | only what was asked is deleted; what is left on disk stays listed; sizes are sums; the queue drains |
| **Trash** `pkg/remove/trash*.go` | `files/` and `info/` | reserve, move, roll back | failure and end of the process between steps; other devices; other programs | an item is never lost; info and item go together |
| **Terminal session** `tui/{actions,tui,keys}.go`, `pkg/analyze/virtualroot.go` | `scanning`, `scanCancelled`, `scanCancelRequested`, `previewing`, `currentDir`, pages | `AnalyzePath(s)`, `cancelScan`, preview, quit, signals | a scanning goroutine per session, closures queued for the interface thread, one analyzer reset per root | deleting is impossible while scanning; previews do not outlive scans; a stop is honoured |
| **Scan preview** `pkg/analyze/file.go`, `tui/keys.go` | a recursive copy of the tree | `GetCurrentDir`, `snapshotDir` | copied while workers append | the copy hangs together and misses nothing that was there |
| **Totals and hard links** `pkg/analyze/file.go`, `pkg/fs/file.go` | `Size`, `Usage`, `ItemCount`, flags, the inode map | `UpdateStats`, `RemoveFile`, `subtractStats`, rescan | one inode counted once but removed often; empty directories; filters | a total does not depend on the order of the scan, and stays a sum |
| **Web interface** `webui/*.go` | the tree, `scanning`, hub of subscribers, action tokens | `AnalyzePaths`, `handleTree`, `handleDeleteNode`, `handleEvents` | handlers in parallel with the scan and with each other; full subscriber buffers | a size is taken off once; the client learns that the scan is over; every request is answered |
| **Non-interactive output** `stdout/stdout.go`, `pkg/analyze/top.go` | a goroutine that works, one that shows progress, channels between them | `AnalyzePath(s)`, `ReadAnalysis` | progress and report share one output; the analyzer is reset per root | the report comes last, whole; the command ends |
| **Reports** `report/{export,import}.go` | a tree and its JSON | whole, summarized, top, depth-limited export; import | totals of what was cut off are pinned, the others computed anew | a report read back shows what was exported |
| **Start-up** `cmd/gtu/app/app.go`, `pkg/device/dev.go` | flags, the database and the output file | `App.Run` | effects outside the program before a later step fails; analyzers that replace one another | roots are disjoint; the analyzer that scans is told the options; a rejected start costs nothing |
| **Gitignore**, **time filter** `pkg/{gitignore,timefilter}` | none | pure functions | last match wins over a stack; durations that wrap | agree with git and with the flags |
| **Ignore options**, **token counting**, **archives**, **formatting**, **web frontend**, device tables | none or private | pure functions and I/O | - | not modelled |

How they interact: an interface (terminal, web, text, export) owns one analyzer.
It calls `ResetProgress`, then `AnalyzeDir` in a goroutine, polls `GetProgress`
until `GetDone()`, may call `Cancel` and `GetCurrentDir` meanwhile, then owns the
returned tree, computes totals and shows it.  Deleting changes disk and tree
through `pkg/remove`.  The semaphore `concurrencyLimit` is one per process.

## 2. Plan

Written: the scans with their contract, the databases, deletion, the sessions and
interfaces, and the algorithms between them (section 3).  What is left, in order:

1. proofs about `Startup` (`RootsAreDisjoint`), `DirStats` and `Report`, as far as
   recursion over sequences can be reasoned about; that the stack of `.gitignore`
   files agrees with git for a class of rules (`AgreesWithGit`), so that the contract
   of the sequential scan need not suppose it;
2. the export interface's goroutines, which differ from `Stdout`'s in the order of
   their last steps; archives as directories of their own; background deletion in
   a stored tree.

## 3. Modules

### Scans

* **WaitGroup** is `pkg/analyze/wait.go`: a value and a mutex that is locked at
  `Init`, unlocked by every `Done` that brings the value to 0 (if it is locked),
  and locked by a `Wait` that saw a positive value.  **ScanTree** holds what the
  scans share: directories, files, `Parent`, which entries are skipped.
* **ScanContract**: what every scan promises its caller.  Entries appear while it
  runs; it finishes only with a tree that hangs from the root and is complete
  unless the user cancelled or a directory says it is broken; from then on nothing
  is touched.
* **ParallelScan**: one goroutine per directory (acquire a slot, check the cancel
  flag, `processDir`, release, send), one collector per directory (receive from
  each child, append, `wait.Done`), `AnalyzeDir` (wait, stop the progress ticker,
  broadcast, return), the ticker, the user's `Cancel`, and `ResetProgress` with the
  next scan.  An entry is skipped if it is in `Skip`; reading a directory yields
  some of its entries or fails.  The test of the cancel flag in the listing loop and
  the start of the child's goroutine are one step, because nothing between them is
  visible to others; receiving a child and appending it are one step, because only
  that collector and the loop append and appends commute.
* **TopDirScan**: first-level directories get a goroutine each; below,
  `processSubDir` is a frame that either holds a slot and runs as a goroutine, or
  runs in its caller's place.  The inode set is a `sync.Map` whose `LoadOrStore` is
  atomic.  Cancel is left out: `stdout` is its only caller and never cancels.
* **StableScan**: files and results of sub-directories go through one channel with
  their index, the entry's `Place` in the listing; the collector keeps what it receives
  in `indexedItems` and adds it in that order.  A goroutine that gets its slot after a
  cancel sends nil.  Channel and map are sets of what is in them: no index is sent
  twice, and receiving and adding go by the index.
* **SequentialScan** on **Gitignore**: the recursion as a stack of frames, each with
  the stack of `.gitignore` files it was given.
* **TreeSnapshot**: the preview's copy over any scan that keeps `ScanContract`.
  Each directory is copied under its own lock, in any order the scan may have put
  them; the history variable `before` is the tree when the copy was asked for.

### Databases

`Databases` puts the next four together for any values of the constants, as `Parts`
does the other parts; `MCDatabases` gives the values, `DatabasesProofs` has the proofs.

* **StoredScan**: goroutines that count themselves with `wait.Add` only when they
  run, `AnalyzeDir` that waits, sleeps and drops its reference (`overslept` if
  somebody was still at work: what happens then is not promised), records by path,
  the store that is reopened every `ReopenAt` operations, the process that ends, and
  `UpdateStats`, which loads, sums and commits directory by directory.
* **StoredTree**: browsing, deleting and emptying in such a tree.  An object is what
  was loaded of a record; a removed directory whose record stays can come back
  (`ghosts`).
* **SqliteScan**: one goroutine per directory, each with a slot, the table as the
  scan sees it and as the next process will (`committed`), inode look-up and insert
  as two steps, failing statements (`failed`), cancels, and `AnalyzeDir` that loads
  what it finds.  Rows go into a transaction or, when `BeginBulkInsert` fails, into
  the database directly, or into statements that are closed (`bulk`).  The end of the
  process within a scan leaves what was inserted directly and any part of an open
  transaction (`torn`): the rollback journal is in memory (`sqlite.go:59-64`).
* **SqliteTree**: items loaded lazily with the parent they were reached through,
  removals that subtract from the loaded items and then, in one transaction, from
  the rows; behind the modal or by workers (`stale` if one subtracts an outdated
  size).

### Deleting

* **TreeSizes**, **HardLinks**: entries below an entry, the sum of sizes as the scan
  and `updateStats` compute it, sums over a listing; inodes.  **TreeFacts** has the
  lemmas about them (section 5).
* **DeleteQueue**: two modes, as the option: behind a blocking modal, or by background
  workers fed from `deleteQueue`.  `disk` is what is left on disk; `files` and `size`
  are the tree; `rows` is the table as last drawn; `marked` and `cursor` are row
  numbers into it, 0 being the row `..`.  The keys that mark and delete refuse that
  row; answering the dialog reads the row again and does not.  So any item may be
  queued, also a parent and the root, and reading a missing row, or asking the root
  for its parent, is a panic (`panicked`), which ends the program.  A job removes its
  item's subtree from disk, or some of it when it fails; then it unlinks, reads the
  totals, and subtracts them up the ancestors, one directory per step, since each is
  locked by itself.  `requested`, `agreed` and `failed` are history.
* **Trash**: workers that want one name, each taking a candidate, creating its
  `.trashinfo` exclusively, looking again and moving by rename or copy; roll-backs
  that fail, all or in part, without anybody being told (`unremoved`); another program
  that reserves names or does not; the end of the process; the user's own command,
  after which the item may be there and not be seen (`unseen`).  An item is a set of
  parts copied and removed one by one.

### Interfaces

* **TuiSession**: the scanning goroutine of `AnalyzePath`/`AnalyzePaths` with an
  analyzer reduced to what `ParallelScan` shows of it (a worker asks whether the scan
  is cancelled and opens its directory in two steps, `entering`), and the interface
  thread: Esc, Tab, Ctrl+C, SIGINT, q, the dialog's answer.  `cancelScan` is two
  steps, since the other goroutine can run between `Analyzer.Cancel()` and
  `scanCancelRequested.Store(true)`.
* **WebSession**: the goroutine of `AnalyzePath`/`AnalyzePaths`, with the order of
  their last steps as it differs between one root and several; one `pollProgress` per
  root, which builds a status and then publishes it; the hub with its retained
  message and bounded channels; `handleEvents` per client; `handleDeleteNode` per
  request under `actionMu`.  A message is only the state it reports.  `owed` is
  history.
* **Stdout**: the command's goroutine, the one that works and the progress line, over
  a channel with room for one (scans) or none (reports).
* **Startup**: `App.Run`, one action per stage, with what each has done to the database
  and the output file when a later one fails.

### Algorithms

* **DirStats**: `Dir.Files` in the order of the scan, `updateStats` as a fold over it
  with the inode map, flags, removal, emptying, rescan.  **Report** on it: what the four
  kinds of report contain, what an import pins and what it computes, the top list.
* **Gitignore** with git's rules as the reference, **TimeFilter** with machine
  integers of `Width` bits and the meaning of the flags as the reference.

## 4. Runs

| run | bounds | shows |
|---|---|---|
| parallel_scan | 5 directories on three levels, 2 files, 1 ignored directory, 2 slots | safety of the scan; `IInv` as TLC checked it before it was proved; refinement of `ScanContract` |
| top_dir_scan | 6 directories on four levels, 5 files, a hard link across two first-level directories, 1 slot | counting, hand-over and liveness |
| top_dir_early_wait | as above, 2 slots | finding: Wait returns early |
| delete_queue | 3 directories, one of them empty, and a file; 2 workers and 2 deletions, or the modal and 3 | what holds in both modes, what the modal adds, and that the queue drains |
| delete_stale_dir, delete_stale_row, delete_retry | 2 directories, 4 files, one worker | findings |
| tui_stop_lost | 2 roots of 3 directories | finding: a stop between roots is wiped out |
| web_session | 1 client and 1 or 2 roots; 1 request and 2 roots; 2 requests and 1 root; channels of 2 messages, 3 directories on three levels, one of them empty | the end of the scan is told, pollers stop, requests are answered, sizes stay sums |
| web_stale_status | the same | finding: a late poller's message is retained |
| databases | a chain of 3 directories, the last of them empty, 2 links of one inode, 1 other file; 2 slots; 2 calls or scans; 2 or 3 removals, 2 workers; reopening every 3 operations | trees and totals in the databases, across failures, cancels, the end of the process and removals; that scans return |
| parts | one tree of 4 directories on three levels and 4 files, two of them links; 1 slot; sessions of 3 roots with 3 directories each; 2 items, 2 parts, 2 names in the trash; 4 command lines, 3 mounts; up to 3 roots printed; 2 removals, emptyings or rescans; pairs of ignore lines; bounds and durations of 6 bits | everything else (below) |

`Parts` and `Databases` put modules together that share no state: a variable
`which` picks the one a behaviour is of, each keeps its actions and its fairness, and
the properties are conjunctions of what each module states under its own name
(`SessionIsSound`, `TreesAreWhole`, `StartIsRight` ...).  Both are for any values of the
constants, and theorems are proved about them; `MCParts` and `MCDatabases` only give
values.  In the run `parts`:

* the single slot is the hardest case for the liveness of the concurrent scans: any
  worker that kept it while waiting for a child would stop everything.  `CancelIsPrompt`
  is checked there, because with one slot a short chain of directories is enough to
  break it;
* `ContractsAreKept` is the refinement of `ScanContract` by the stable-order and the
  sequential scan, the latter with git's own verdict as what may be skipped; that the
  stack of the sequential scan has that verdict of every entry in its tree is a
  conjunct of `FiltersAreMeant`;
* `SessionIsSound` is about what the interfaces show: blocked keys, previews, stops,
  the copy of a running scan, the printed report;
* `AllEnd` is one leads-to for all parts, since no two run in one behaviour.

Why the bounds are enough to mean something: the scans have a directory inside a
directory inside a first-level directory, more directories than slots, and a
sibling to interleave with; deletions have an item and its ancestor, an empty
directory, two workers and a second request after a failure; sessions have a root before, at and after
the stop, and a scan after a stopped one; web sessions have a full channel, a
late poller, an item and its directory deleted at once; the trash has a contested
name, a free one, and one retry; totals have a link in two directories, one of them
removed or rescanned after the other; durations are long enough to wrap.  Clients and
handlers of the web interface share nothing but `scanning` and `topDir`, which change
once, so they are checked in sessions of their own; subscribers do not affect one
another.

Deadlock checking is on for `parallel_scan`, whose system can always reset; the
other systems come to rest and say so.

### What the properties except

Some properties hold only where the code can keep them; each exception is a
conjunct or a history variable of its own, and stands for something to know:

* Sizes are sums, and 512 more for a directory that the scan found empty
  (`TreeSizes!EmptySize`, `resolveDirStats`): a removal only subtracts, so a directory
  that becomes empty later counts nothing.
* `DeleteQueue`: that only agreed items are deleted, that sizes stay sums and that
  nobody panics is promised behind the modal until a deletion fails; in the background
  the runs with an expected violation show how it goes wrong.  What is promised there,
  too, is that only what was queued is removed, and that it is listed until then.
  That `deleteQueue` holds 1000 items is not in the model: it is filled from a
  goroutine of its own, for which nobody waits.
* `StoredScan`: the second of sleep was enough (`overslept`): what goes wrong when it was
  not is modelled, and excluded by no property.  `StoredTree`: no directory was removed
  (`ghosts`), since its record stays in the store and comes back when its parent is
  loaded again; emptying a file takes it off the screen and
  off the record until a rescan (`remove.go:28-37` adds to an object that is not the
  record's).
* `SqliteTree`: in the background, no removal started from an outdated row (`stale`); a
  file that was emptied is gone from the rows, since `AddFile` does nothing there
  (`sqlite.go:769`).
* `SqliteScan`: what a process that ended within a scan left in the file (`torn`) need
  not be a tree, nor whole, nor have sums: with the journal in memory nothing rolls an
  open transaction back, and the next call loads it.  Left out are a machine that
  crashes, a file so torn that SQLite refuses it, and a `ClearItems` that fails.  A
  scan the user stopped is committed and loaded as if it were whole; a rescan of a
  directory returns the root of the database (`sqlite.go:908-917`), which `given`
  shows.  Two goroutines may both count a linked inode, as they do in the run.
* `DirStats`: until a link that counted nothing is removed; item counts are sums as long
  as no file was emptied, because the file that `EmptyFileFromDir` adds comes without
  counting (`remove.go:28-37`), and only without file filters, with which a
  directory that holds no file counts as one item, whatever is in it.  The comment of
  `resolveDirStats` speaks of a directory's own size, which the code adds only to
  empty ones, as 512 bytes; `'.'` of a directory whose error was removed stays.
* `Report`: filters are not written, so items hidden by them are recomputed; an inode
  with one link in the report and one that was cut off counts again; selected
  attributes without inodes count both links.
* `Startup`: `.gitignore` support is switched on before a database or `--sequential`
  replaces the analyzer; and with several roots and no interface,
  `stdout.go:254-259` creates a new analyzer after all options were set on the old
  one, so that `--follow-symlinks`, the time filters and the others have no effect
  (`ForRoots`).  Errors that the scan or the interface returns afterwards
  (`app.go:826-835`) are left out.
* `Trash`: a `.trashinfo` file that could not be removed stays, and so does what could
  not be removed of a copy; after the user's own command an item that `lstat` cannot
  see is taken for gone.  Across devices the roll-back of a failed copy removes what
  it found at the name, also somebody else's entry.
* `Gitignore`: lines that take something back name files; after `*` and `!*/` git
  descends where this code has its own verdict.  `.git/info/exclude` is read after
  `.gitignore`, where git gives `.gitignore` the last word.
* `TimeFilter`: durations that 64 bits of nanoseconds can hold; others wrap silently.
* `TreeSnapshot`: the preview is called a point-in-time view (`keys.go:299-302`), but
  directories are copied one after another; what holds is that it lies between the
  tree at the request and the tree at the end of the copy.

### Fairness

`ParallelScan`, `StableScan`, the database scans: weak fairness for each goroutine, as
the Go scheduler gives to runnable goroutines, and for file-system calls and
statements to return; nothing for the user or for the ticker and whoever reads its
updates.  `TopDirScan`: only that some goroutine moves as long as one can, since all
of them end.  `DeleteQueue`, `Trash`: each worker.  `TuiSession`: the goroutine, its
queued closure, and the rest of `cancelScan`; the user owes nothing.  `Stdout`: the
three goroutines; its progress line may turn for ever in between, since Go's `select`
chooses at random between the ticker and the closed channel.  `WebSession`: each
goroutine; a poller stops if it can again and again (again `select`), and a waiting
request gets the mutex (Go's mutexes do not starve a waiter); clients need not leave
or come.

### Mutants

Each property of each passing run has a mutant: an operator beside the one it
replaces, marked "Mutant", that is a plausible bug in the mapped code (a slot kept
too long, a result not awaited, a flag not reset) and that breaks the property.

### Findings

* `top_dir_early_wait`: `wait.go:34` promises that Wait blocks until the value
  is 0.  The value may pass through 0 while first-level goroutines, which are not
  counted, still walk; the mutex is then open for good.
* `delete_stale_dir`: a background worker unlinks from the directory on screen.
* `delete_stale_row`: a refresh during the dialog changes what "yes" deletes.  When it
  took the last row the cursor is on `..`, and "yes" queues the parent directory, which
  `keys.go:615` means to exclude and `actions.go:297` does not look for; the model has
  this case, too.
* `delete_retry`: after a partial failure, deleting again subtracts twice.
* `tui_stop_lost`: a stop between two roots is undone by the next root's reset.
* `web_stale_status`: a poller that built "scanning" before the end publishes it
  after "done", and new clients are greeted with it for ever.

Met but without a run: what the section above lists, and that with the quit dialog
open, Ctrl+C does not stop the scan and keep its results (`tui/keys.go:94`) but quits
(`TuiSession!CtrlC`).  `trash_command.go:63-64` promises that an item leaves the tree
only when it is really gone, and any error of `lstat` counts as that (`Trash!unseen`).
A regular file given as one of several paths is scanned as a
directory (`stdout.go:262-284`), which `stdout.go:202-205` avoids for a single one.

## 5. Proofs

| module | about | theorems |
|---|---|---|
| ParallelScanProofs | `ParallelScan` | `TypeCorrect`, `QuietHandover`, `PartialTreeWhole`, `NothingLost`, `PromptCancel`, `ImplementsContract` |
| TopDirScanProofs | `TopDirScan` | `SlotsAreCounted`, `ItemsAreCounted`, `InodesAreCounted`, `ReportsAreFinal` |
| DeleteQueueProofs | `DeleteQueue` | `DeleteIsSound`, `NothingIsHidden`, `OnlyRequestedLeaves`, `SizesStaySums`, `ModalKeepsTheTree`, `AgreedItemsOnly` |
| WebSessionProofs | `WebSession` | `SessionIsSound`, `SizesHold`, `NothingIsHidden` |
| DatabasesProofs | `Databases`: SQLite and badger, scanning and browsing | `TreesStayWhole`, `TotalsStaySums`, `NothingGetsHidden`, `ScreensStayTrue`, `WholeScansAreLoaded`, `ReferencesBalance` |
| PartsProofs | `Parts`: session, output, parallel, stable and sequential scan, preview | `SessionsAreSound`, `OrderStays`, `CancelsArePrompt`, `ContractsStayKept` of the parts together; `UnstoppedScansAreWhole`, `SingleStopsArePrompt`, `KeysAreBlocked`, `PreviewsEnd`, `StopTakesEffect`, `OutputsAreWhole`, `OrderIsStable`, `StableKeepsContract`, `PreviewBetween` of one |
| TrashProofs | `Parts`: trash | `TrashKeeps` of the parts together, `TrashLosesNothing` of the trash |
| TreeFacts | `ScanTree`, `TreeSizes` | lemmas only |

### Assumptions

Each is a named `ASSUME` of the module that declares the constants, and TLC evaluates it
on every instance.

* The tree (`TreeAssumption`, `AcyclicAssumption`, `BytesAssumption`): finitely many
  directories and files, each but the root in one directory, none below itself: of any
  set of directories below the root, one lies in none of the others.  File systems
  refuse hard links to directories, and the scans do not descend into symbolic links.
  Sizes are natural numbers.
* Links of an inode have one size (`TopDirScan!InodeAssumption`): they are one file.
* Names in a directory tell its entries apart (`DeleteQueue!NamesAssumption`,
  `Stable!PlacesDiffer` in `PartsAssumption`): the places in one listing differ; two rows
  that natural order does not tell apart may be drawn either way, which
  `NamesAssumption` leaves out.
* What a scan skips are entries; the bounds on requests, calls and scans are natural
  numbers, and the store is reopened after a positive number of operations
  (`DatabasesAssumption`).
* There are finitely many deletion workers, a slot where a scan needs one, at least one
  root and room in a channel.
* `ContractsStayKept` supposes `SequentialScan!AgreesWithGit`: of every entry the walk
  looks at, the stack of `.gitignore` files on the way says what git says.  That is not
  so for all rules (section 4, `Gitignore`), so it is a hypothesis of that theorem and
  no assumption of a module; the run `parts` checks that its rules meet it.
* Values of different kinds differ: no handler of the web interface is "none"; the other
  program that uses the trash is none of the items; an item consists of something.

### Induction over trees and data

The library's induction theorems take an operator as parameter and cannot be used here.
`TreeFacts` goes round that: a property is the set of what has it, and if that were not
everything there would be a minimal element outside, by the well-foundedness of strict
subsets, of the natural numbers, or of the tree (`AcyclicAssumption`).  From this
follow induction over finite sets, upward and downward in the tree; that the recursive
functions of the model satisfy their equations; that `SumOver`, a fold over a set, adds what
is added, takes off what is removed and is 0 for nothing; and that a subtree is closed
under listing.  So the totals of `TopDirScan`, `DeleteQueue`, `WebSession` and the
databases are proved for every tree, not only compared on the instances.

### Parallel scan

One inductive invariant, `IInv`, for every tree, every set of skipped entries and every
number of slots.  The properties themselves are not inductive: that nothing runs after
hand-over depends on the wait group's value counting exactly the directories being read
or collected (`WaitInv`), on a collector being live as long as it is owed a result
(`OwedInv`), and on every running worker being owed to its parent (`AwaitedInv`): by
induction up the tree a running worker keeps the root's collector, and so the value,
alive.  `LinkInv` (finished workers are linked) and `TodoInv` give wholeness, `LossInv`
the absence of silent loss, `LateInv` bounds the directories opened after a cancel by
the slots held at that moment.  `ImplementsContract` maps every step to one of
`ScanContract`.

### Top-dir scan

* `ControlInv`: a directory being walked is called, or hangs by calls and slots from a
  goroutine of the first level; `waitValue` is the number of goroutines that hold a
  slot or have yet to report their end.  So at the end no slot is held
  (`SlotsAreCounted`), and nothing walks past a Wait that did wait (`FinalInv`).
* `CountInv`: what the total of a first-level directory and the tallies of the frames
  below it hold is the number of entries taken from listings below it.  When all
  frames have ended, everything that is listed was taken: `ItemsAreCounted`.
* `SizeInv`: the same for bytes, with `linkedItems` being exactly the inodes taken, in
  one sum over all first-level directories, because which of them an inode is counted
  in depends on the race: `InodesAreCounted`.
* `SummaryInv`: `updateStats` sums what was read.  With `FinalInv`, `ReportsAreFinal`.

`ReportIsFinal` says "unless Wait returned early" and speaks of the true size only of a
root that could be read; the finding of `top_dir_early_wait` is the other case.

### Deletion

`DeleteInv` has two parts.  In both modes, whatever fails (`QueueInv`): what is on disk
is listed where it is, a worker that unlinks has removed all of what it unlinks, and
the entries a worker removes lie at or below something requested, be it a parent or the
root; so `NothingIsHidden` and `OnlyRequestedLeaves`.  Behind the modal and until a
deletion fails (`ModalInv`): one goroutine works, the directory on screen is the one
the rows were drawn from, every queued item is listed there once (`QueueIsListed`), the items of a job still to be done
are in the tree (`JobIsListed`), and exactly the directories a job has yet to reach are
off, by exactly what it subtracts (`SizesAreOff`).  So `SizesStaySums` and
`ModalKeepsTheTree`; and, because rows cannot change while the user is asked,
`AgreedItemsOnly`.  In the background these fail, as the runs with an expected violation
show.

### Web session

Only the holder of `actionMu` changes disk and tree.  While it walks up, one directory is
off, the next one, by the amount it takes off (`SizesAreOffByPending`), and each directory
on the way is listed in the one above (`WalkStaysInTree`).  The subtle step is unlinking:
what `findNode` found must still be found, which needs that no directory is below itself.

### Databases

Four inductive invariants, one per component; a step of `DatabasesSpec` is a step of one
of them.

* SQLite scan (`SqliteScanInv`).  A directory that is at work is owed to the one
  above, which waits for it (`Owes`); so when the root is finished nothing is under
  way, and rows appear from the top down, each below the row of its directory
  (`ScanRows`).  A directory's running total is the sum of its rows but those of the
  directories it is still owed (`ScanTotals`, `Added`), its flag covers theirs
  (`ScanFlags`), and what it listed is in the table, still to do, being inserted or
  walked, or told by `!` (`ScanMisses`).  What the next process finds is the table of
  a scan that ended, or nothing, unless a process ended within a scan and left
  something: `CommittedInv` says so, and the theorems except that case.  `RowsAreSums`
  holds of a cancelled scan, but not after a failed statement.
* SQLite tree (`DatabaseTreeInv`).  Loaded items are reached from each other as their
  rows are (`ItemsInv`), so that what is subtracted reaches exactly the directories
  whose sums change.  Behind the modal one job runs, its item is on screen, and the
  items above agree with their rows except for what it has yet to write (`Modal`); in
  the background a removal may start from an item older than its row, which is what
  `stale` records.  Rows are removed after the disk (`RemovedFirst`), so nothing is
  hidden.
* Stored scan (`StoredInv`).  `opens` counts who holds the store: `AnalyzeDir`, or the
  directories `UpdateStats` is at (`References`); a goroutine was started by the one
  above, which lists it, and its record is written before it leaves (`Goroutines`,
  `RecordsInv`).  `UpdateStats` comes back up through directories it went down through
  (`Descent`), and what it has updated is the sum of what it updated below
  (`LoadedInv`).  When the second of sleep was too short, only what relates goroutines to
  the listings they were started from is left of it.
* Stored tree (`BrowsingInv`).  What is shown are the rows of the object that was loaded;
  a removal subtracts from the records of the directories above, and from no others.

### Parts

* Parallel scan: who is about to open a directory holds a slot, and after a cancel
  nobody joins those who are about to or have opened one since (`PromptInv`).  This is
  `PromptCancel` of ParallelScanProofs for the instance in `Parts`, with the part of
  `IInv` it needs; a theorem of an instance cannot be cited.
* Session: the goroutine's position follows `scanning`; with one root no
  worker is let into a directory once a request to stop is stored, because it is stored
  after the analyzer was cancelled, in two steps that hold up the interface thread (`StopInv`); roots
  that were ended are whole until the scan is stopped; after a request one more root is
  begun at most, and then its check sees the request (`ExtraInv`).
* Output: what is gathered is that of the roots in order, up to the one the job is at,
  and the progress goroutine is past its last line before the result is printed.
* Stable scan (`StableInv`): every entry of a listing is with the loop, a goroutine, the
  channel, the index or the tree; a directory that works is awaited by its parent's
  collector (`AwaitedParents`), so that the wait group's value stays positive until the
  root's collector is done (`QuietScan`).  What is added has the places up to one point,
  and everything still to come has a later place: `OrderIsStable`.
* Sequential scan (`SequentialInv`).  The calls are a path from the root, each directory
  taken from the listing of the one before and not yet found in it, with the stack of
  the rules on the way (`CallInv`); something is found only in directories that are
  called or linked (`FoundInv`), so that the tree hangs together although a directory is
  linked only when its call returns; without a cancel, what is neither found nor gone
  is still listed, is being called, or its directory is flagged (`CompleteInv`).
* Preview: what is missing lies in a directory whose copy is due, and only copied
  directories are due (`DueIsRest`).
* Trash: an item is whole at its place until it was moved (`WholeUntilMoved`); whoever
  is checking, moving or copying holds the `.trashinfo` of its name (`Reserved`); what
  already lies at the name of a move that has not begun is no item's, while what a
  copying mover has there is its own (`NameIsFree`).  So no roll-back takes away what
  another item has put there, whether it succeeds or not.  `KeptInv` adds that each
  `.trashinfo` is that of a move under way, of an entry, or one that could not be
  removed, that only what left its place or was not seen is off the tree, and that
  copies are made only across devices.

A step of `PartsSpec` is a step of one part and a stutter of the others (`SessionSteps`,
`StableSteps`, `TrashSteps` ...); with it the invariants of the parts are invariants of the
whole, and the theorems name the very properties the run checks.

### Only model-checked

* Liveness (`AllEnd`, `QueueDrains`, `ScanEnds`, `ScansReturn` ...): fairness and
  ENABLED are outside TLAPS.
* `StartIsRight`, `TotalsAreExact`, `ReportsAreTrue` and `FiltersAreMeant`: `Startup`,
  `DirStats`, `Report`, `Gitignore` and `TimeFilter` compare recursions over sequences
  with references, which needs induction over data.

## 6. Not modelled

Archives, annexed files and symlinks (items that are data to the scans), token and
image counting, the translation of ignore options into regular expressions, tables
and formatting, the web frontend, platform I/O.  "components" in PROJECT.json has each
part's reason, and what the modelled ones leave out.
