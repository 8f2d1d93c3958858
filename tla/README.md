# Verification of porTUI

porTUI (repository root `src/`, C++20, macOS) shows the processes that own
network sockets in a live terminal table and terminates the ones the user
marks.  This directory holds TLA+ models of the program, the TLC
configurations that check them on small instances, and theorems about them
whose proofs TLAPS checks.  `PROJECT.json` lists the components, the runs, the
mutants that show what each property catches, the source lines of every
definition, the findings, the hazards and the theorems.

Paths below are relative to the repository root, which is `src/` here: the
file `src/core/diff.cpp` of porTUI is `src/src/core/diff.cpp` in `PROJECT.json`.

## Inventory

| part | source | state | operations | what is hard |
|---|---|---|---|---|
| parallel scanner | `src/scanner/parallel_scanner.cpp` | generation counter, completion counter, `scan_pids_`, one buffer per worker, fallback cache | construct, `Scan`, destroy; a persistent pool of 4 to 8 workers | two condition variables, members used without the mutex, wrap of the generation counter, shutdown |
| serial scanner | `src/scanner/serial_scanner.cpp` | fallback cache | `Scan` | sequential; must agree with the parallel one |
| scanner support | `src/scanner/scanner_support.cpp` | none | `ListAllPids`, `ListProcessFds`, `ScanPid`, `FinalizeSnapshot` | growth of the descriptor buffer at its limits, what the calls of libproc count in, entries of one socket in any order |
| lsof fallback | `src/scanner/lsof_fallback.cpp` | cached entries, time of the last refresh | `AppendTo`, `CollectLsofFallback` | entries of processes that have exited, a failed `lsof` cached for five seconds, ports and states in one text |
| process usage | `src/core/process_usage.cpp` | CPU time per pid of the previous sample | `PopulateProcessUsage` | pids reused between two samples, processes that exit or are denied between listing, reading and `ps` |
| snapshot pipeline | `src/core/snapshot_pipeline.cpp` | latest update, `running_`, `stop_requested_`, the thread | `Start`, `Stop`, `Latest`, `Run` | publication racing a stop, restart, a reader that misses updates |
| diff | `src/core/diff.cpp` | none | `DiffSnapshots` | several entries that share a key |
| process killer | `src/core/process_killer.cpp` | pending requests, results, `stopping_` | `Dispatch`, `DispatchForce`, `DrainResults`, destroy; four workers | shutdown with queued requests, processes that exit, linger or are replaced during the wait between signal and probe (1 s for SIGTERM, 100 ms for SIGKILL) |
| live table | `src/tui/live_table.cpp` | groups, focus, marks, prompts, menus, pending kills | event handler, `Refresh`, `DrainKillResults`, `Render` | results of kills and new snapshots arrive between any two keys |
| application | `src/app.cpp`, `src/main.cpp` | none | `RunApp`, benchmark, watch | |
| debug output | `src/core/debug.cpp` | none | formatting | |

How they interact.  `RunLiveTable` owns the table; the table owns a pipeline
and a killer; the pipeline owns one scanner, which its thread calls.  The
table polls: a Custom event every 100 ms calls `Latest` of the pipeline and
`DrainResults` of the killer; keys call `Dispatch` and `DispatchForce`.  The
event handler runs on one thread, so the table shares nothing with others
but what the two mutexes of pipeline and killer guard.  The scanners own an
lsof cache each; `Run` of the pipeline calls the diff.

What makes each part correct:

* scanners: a scan reads each process as often as it was listed, however the
  work was split, merges what was read of a socket into one entry, and always
  returns; the destructor returns.  A listing has all there was to list.
* lsof fallback: rows of processes that have gone go away within the interval,
  a failure is not kept longer than an answer, no socket is shown twice, a line
  gives the entry that was printed.
* process usage: a share is of CPU time the process itself used in the time it
  is divided by; no process has two rows.
* pipeline: nothing is published after a stop request, every diff is against
  what readers were given before, `Stop` returns without waiting for the
  interval, a restarted pipeline works.
* diff: what is reported is what changed, each entry once.
* killer: every request is executed and answered exactly once, also when the
  killer is being destroyed; a result claims nothing about a process that is
  not true of it.
* table: the focus is on a process that exists and stays on it, the table is
  what the latest snapshot, the filter and the sort mode say, marks survive
  what is not their business, the row of the focus is drawn, nothing is killed
  without a confirmation.

## Modules

| module | models | specification |
|---|---|---|
| `ScanData` | listings, snapshots and the appending of lsof entries | data only |
| `Scanner` | the interface `Scanner`: what either scanner promises | abstract |
| `ParallelScanner` | the pool, `Scan`, destructor | implements `Scanner` |
| `Sorting` | `std::sort` and what is left when elements are dropped, with definitions that proofs can expand | operators |
| `KillData` | requests and results | data only |
| `KillService` | the interface of `ProcessKiller`: what the table relies on | abstract |
| `ProcessKiller` | queue, workers, signals, probes, destructor; processes that exit, become zombies, are reaped, and whose pid is used again | implements `KillService` |
| `Diff` | `DiffSnapshots` as a function of two snapshots | operators |
| `ScanSupport` | `FinalizeSnapshot`, `AppendFallbackEntries`, the loops of both scanners, `ListAllPids` and `ListProcessFds` with their growing buffers | operators |
| `LsofReport` | `CollectLsofFallback`: from the lines of `lsof` to entries; extends `ScanSupport` | operators |
| `TableLayout` | which rows the table draws | operators |
| `ProcessWorld` | the processes a pass observes, what sockets they have (none, only such as lsof gives no entry of, others), their CPU time, the clock | environment |
| `FallbackCache` | a scan of `ParallelScanner` that cannot list the processes and skips the cache, or ends with `LsofFallbackCache::AppendTo` while `lsof` reads them; extends `ProcessWorld` | component |
| `ProcessUsage` | `PopulateProcessUsage`; extends `ProcessWorld` | component |
| `SamplePass` | passes of the pipeline's thread: a scan that ends with `FallbackCache`, then `ProcessUsage` | composition |
| `SnapshotPipeline` | owner, thread and reader of the pipeline; uses `Diff` | |
| `LiveTable` | every event of the table; extends `KillService`, and has the pipeline as what it publishes | |
| `MC...` | constants for TLC; `MCFunctions` also what the operators are to mean, and a caller that calls them | |
| `SequenceLemmas` | facts about sorted sequences, subsequences, folds and flattened sequences that the proofs share | lemmas |
| `...Proofs` | theorems about the module of that name; `FunctionsProofs` about `MCFunctions`, and with it `Diff`, `LsofReport` and `TableLayout` | |

The table composes with what the killer *promises*, not with its threads:
`ProcessKiller` is shown to implement `KillService`, and `LiveTable` is checked
with `KillService`, which answers when and what it likes.  Likewise
`ParallelScanner` implements `Scanner`.  `SamplePass` is what one iteration of
`SnapshotPipeline::Run` observes of the processes; what it does with the
snapshot is in `SnapshotPipeline`, which takes any sequence of snapshots.

### How state and actions correspond to the code

* A variable has the name of the member or local variable without the
  underscore at its end.  Variables the code has not are commented where they
  are declared: where a thread is (`pc`, `caller`, `owner`), what the last
  `Scan` returned (`snapshot` of `ParallelScanner`), the process a signal
  reached (`reached`), numbers of requests, the update `captured_at_` would
  tell as new (`unseen`), what the SIGKILL prompt on the screen names
  (`prompted`).
* A critical section of a mutex is one action; what a thread does without it
  is split into actions of their own, so that other threads come between.
  A thread blocked in a wait of a condition variable leaves it by a
  notification or by a spurious wakeup and then evaluates its predicate anew.
  A notification after the mutex was released is an action of its own.
* In `ProcessKiller` every call of `kill` is an action, because processes exit
  and pids are reused between them.
* In `LiveTable` one event is one action, with everything its handler calls:
  `CustomEvent` is `Refresh` and `DrainKillResults`.  The handler looks at the
  prompts, the filter, the menus and the table in this order; `Mode` is that
  order and guards every key.  Unhandled keys change nothing and are left out.
  FTXUI draws after one *or several* events, so `Render` is an action.
* A process stands for the sockets `ScanPid` reads from it, a snapshot of the
  scanners for how often each process contributed.  The diff and the pipeline
  know a snapshot as the sequence of entries per key.  The table knows it as
  the processes with sockets, their names and the numbers it sorts by.
* `SamplePass` keeps an instant as its age: `refresh_age` is `now` minus
  `last_refresh_`, `age` is `now` minus the `now` of the last pass, and a refresh
  that never was has the age of the interval, at which the code refreshes as
  well.  An age stops at the bound from which on the code, or the property, no
  longer tells ages apart.  `pc` of the thread is where it is in its pass;
  the loop over the pids and the reading of `lsof` are one step per process,
  with whatever the processes do in between.  The snapshot and the rows are
  kept by pid, each with its source.  A share is the difference of two CPU
  times and the time it is divided by, both exact.  CPU time belongs to a
  process, not to a pid: it starts at 0 again when the pid is reused.
* A process of `SamplePass` is "quiet", "listening" or "open".  `ScanPid` reads
  sockets of the last two; `CollectLsofFallback` makes entries of the lines of
  the last only, because it drops what is printed with a state behind the local
  port (`lsof_fallback.cpp:61`).  `FailListing` is the return of
  `parallel_scanner.cpp:53`: the snapshot is empty, and the cache is neither
  appended nor refreshed.  `PopulateProcessUsage` lists on its own and may get
  any of the processes there are.
* `Listed` is the loop of both listings: a call fills the buffer, what it
  returns is divided, and the quotient decides whether the buffer grows.
  `proc_pidinfo` returns bytes, so that in `ListProcessFds` the quotient is the
  number of descriptors; `proc_listallpids` returns the number of pids, so that
  in `ListAllPids` it is a quarter of it (`SizeOfPid`), and pid 0 is taken out of
  what is left.
* The lines of `lsof` are sequences of tokens, one for each part the parser
  tells apart; names and protocols are numbers, for they are only compared.  A
  line that is not `complete` is one with columns missing; a pid that is no
  number is 0, for both are skipped.  The header is left out.
* `Sorted` puts each element where `std::sort` would; elements that compare
  equal stay in their order, which the code leaves open.  `OrderDoesNotMatter`
  says that nothing depends on it.  The loops of the sequential code are folds,
  or recursive functions, over the step they repeat (`Compact`,
  `AppendFallbackEntry`, `Match`, `Capacity`).
* `SortGroups` is the set of ordered arrangements; it has one element because
  the comparison ends with the pid.  The sort is applied to the filtered
  processes, the code filters the sorted ones.

An operator whose name ends with `Slip` is a plausible mistake at the
definition that follows it: a property is worth its run when a slip breaks it.
No specification uses one.

## Runs

All bounds are in the `.cfg` files and the `MC` modules.

| run | question | properties |
|---|---|---|
| `parallel_scanner` | every interleaving of caller and four workers | safety, `DestroyReturns`, refinement of `Scanner`, which includes that a scan returns |
| `killer_pool` | owner, two workers, three requests | each request in one place, no lost wakeup, shutdown |
| `killer_progress` | two requests, pids that are used again | truth of results, progress, refinement of `KillService` |
| `functions` | calls of the sequential functions with all inputs over small sets | what each returns against what it is to mean: diffs, final snapshots, one source per socket, serial against parallel loop, listings of descriptors, lines of `lsof`, the window of rows |
| `sample_pass` | processes that start, open and close sockets, compute, exit and are replaced while a pass reads them; listings, `lsof` and `ps` may fail | types, how old and how complete entries of `lsof` are, what shares are of, rows of usage |
| `pipeline_stop` | start, stop, restart, destroy at any moment | safety, action properties, `StopReturns`, `ReadersCatchUp` |
| `table_browse` | keys that move, mark, sort, filter, theme, against changing snapshots | focus, groups, marks |
| `table_kill` | marks, prompts and answers, with menus and filter in between | what a prompt asks about; every process that resisted is offered for SIGKILL |
| `killer_zombie`, `table_unseen`, `lsof_listen`, `pid_listing` | disagreements, see below | one property each, violated |

### Bounds and why they are enough

* `parallel_scanner`: four workers is the least pool the code makes.  The
  listing of two processes leaves workers inactive, the one of five gives one
  worker two.  A generation modulus of 2 makes the counter wrap after every
  second scan, which is the worst case there is: a worker that could miss one
  scan would mistake the next for it.  Scans repeat without bound.
* `killer_pool`, `killer_progress`: two of the four workers, which is
  what it takes for one to overtake the other; they are symmetrical, and the
  theorems are about any number.  Batches are one process, and several with a
  process twice, porTUI's own pid and an invalid one.  Three requests keep both
  workers busy with one queued.  `MaxIncarnation` 2 lets a pid be reused
  by processes of the same or another user: once is enough for a probe to meet
  the wrong process.
* `functions`: for the diff two keys (pid, port, protocol) with up to two
  entries of two names and two details each: keys do not interact in the code,
  and two entries of a key are the least for which the greedy matching can go
  wrong.  Snapshots of up to four entries (`MaxEntries`) of sockets that share a
  pid, a port or a name, in every order and state, so that two entries of a
  socket may have another's between them.  Listings of up to five places
  (`MaxListing`) over three processes, for pools of four and eight: shorter and
  longer than the pool, with processes twice.  Buffers that start at 2, 3 or
  the hint and end at 8 (`MaxCapacity`), for three calls with up to ten
  descriptors there (`MaxThere`): one below, at and above every capacity, and 3
  does not double to 8.  Lines with every protocol, port (0, a star and one too
  large included), host, peer, and state, with `(LISTEN)` and `(CLOSED)` where
  there is no peer; lines without a process or with columns missing.  Tables of up to 20 rows in terminals from
  0 to 40 lines, where the limits change between 20 and 34.
* `pid_listing`: the same buffers, with pids 0 to 9.
* `sample_pass`: an interval of 3 ticks, runs of `lsof` of up to 2
  (`MaxLsof`), so that the interval is longer than a run as in the code;
  `Horizon` is their sum by assumption.  A process uses at most 4 ticks of CPU
  (`MaxCpu`) and a reading takes at most 1 (`MaxDelay`), so that samples differ
  within a pass, between passes and after the pid was reused.  One pid is
  enough: cache, samples and rows of different pids meet only in the clock
  and in `pc`, and the theorems are about any number of them.
* `pipeline_stop`: two processes which a scan reads one after the other, so
  that one scan may mix what was never there together.  Starts and scans
  repeat without bound.
* `table_browse`: three processes, three snapshots in which either of two is
  missing, two names one of which contains the other, queries of one
  character, two of the five sort modes, two of the three themes.  The sort
  modes differ only in the number they compare, and the theorems are about any.
* `table_kill`: two processes, either of which may be missing or marked, two
  requests or answers about (`MaxOutstanding`), which is what it takes for an
  answer to wait while the prompt for another is open.  No characters are
  typed (`MaxQuery` 0).  `MaxQuery` and `MaxOutstanding` are the only bounds
  that guards of the module name, besides `MaxRequests` and `MaxIncarnation` of
  `ProcessKiller`.

### Fairness

* Threads that can run keep running: weak fairness of the caller's and of each
  worker's steps.  No caller is obliged to begin a call, no process to exit,
  nobody to press a key, and a spurious wakeup need not happen.
* A time-out that the code relies on for an answer (the wait between signal
  and probe) passes, as `sleep_for` returns.
* `SamplePass` has no fairness: what it says is about steps.  That `lsof` and
  `ps` return at all is assumed (`MaxLsof`, and the fairness of the pipeline's
  thread); the code has no time-out for them.
* `StopReturns` is checked under a specification in which the interval of
  the pipeline need *not* pass, so that it shows `Stop` does not depend on it.
  `ReadersCatchUp` assumes `IntervalsPass`, strong fairness, because a
  spurious wakeup may take the thread out of the wait for a moment any number
  of times; `wait_for` keeps its deadline over wakeups.
* `LiveTable`: the Custom event of the ticker thread comes again and again,
  the loop draws, an exited loop ends and the killer does as `KillService`
  promises, which the runs on `ProcessKiller` show.

`ParallelScanner`, `ProcessKiller` and `LiveTable` stop after destruction and
have an explicit stuttering step there, so deadlock is checked everywhere.

## Findings

* `killer_zombie` (`src/core/process_killer.cpp:38`): the probe `kill(pid, 0)`
  succeeds for a zombie, so a process that SIGTERM did end and whose parent has
  not reaped it is reported as "still running after SIGTERM" and offered for
  SIGKILL.
* `table_unseen` (`src/tui/live_table.cpp:249`): the SIGKILL prompt opens by
  itself in a Custom event and takes the very next key, drawn or not; a `y`
  typed for something else confirms it.
* `lsof_listen` (`src/scanner/lsof_fallback.cpp:61`): `lsof` prints `(LISTEN)`
  behind the port, the text after the last colon is then no number, and the line
  is dropped: no listening TCP socket ever comes from `lsof`, although
  `ParseState` looks for it.  A bound socket that neither listens nor is
  connected, printed with `(CLOSED)`, is dropped likewise.  `LsofIsRead` says
  exactly which lines give an entry, and `FallbackIsComplete` speaks of
  processes with sockets whose lines do.
* `pid_listing` (`src/scanner/scanner_support.cpp:134`): `proc_listallpids` returns
  the number of pids, `ListAllPids` divides it by `sizeof(int)` as if it were
  bytes.  It keeps the first quarter of what was listed, and as the quotient
  never reaches the capacity the buffer never grows: `PidBufferStays` proves
  that the first call is the last.  Everything said of scans starts from what
  `ListAllPids` returned.

Seen while modelling, without a run: the footer of an applied filter promises
"esc: clear" (`src/tui/live_table.cpp:843`), where Escape quits
(`src/tui/live_table.cpp:397`); a result drained while the SIGKILL prompt
is open is appended without removing duplicates, and the status line
(`src/tui/live_table.cpp:251`) counts such a process twice; with a row expanded
in a terminal of fewer than 29 lines, the 18 lines `ExpandedGroupLimit` sets
aside, the details and the three rows it grants at least are more than the
height; a filter that matches nothing shows "No
IPv4/IPv6 sockets found in the latest scan." (`src/tui/live_table.cpp:695`); a
failed listing makes `ParallelScanner` return nothing at all where
`SerialScanner` still appends lsof's entries (`Scanner` allows both).

## Proofs

TLAPS checks these for every value of the constants that satisfies the named
assumptions.  Those say that the data have their types, that pools and moduli
are not empty, and that a listing that succeeded is not empty:

* `ListingsAssumption`, `PoolAssumption`, `PidsAssumption`, `KillerAssumption`,
  `PipelineAssumption`, `TableAssumption`, `WorldAssumption`, `CacheAssumption`,
  `UsageAssumption` and `HorizonAssumption` of the state machines.
* `NumeralAssumption` of `LsofReport`: a numeral stands for a natural number and
  is not one of the other tokens.
* `InputsAssumption` of `MCFunctions`: a pool has workers, names are finitely
  many numbers, the sizes of inputs are natural numbers, and three calls are
  enough to double the smallest buffer up to the largest.  That last part is
  only about the caller in `MCFunctions`, whose calls see three numbers of
  descriptors: `FdListingComplete` is the same for any capacities and as many calls as
  the doubling takes (the code's loop has no bound on them).

| module | theorems | argument |
|---|---|---|
| `ParallelScannerProofs` | `TypeCorrect`, `Unlocked`, `Wakeups`, `InStep`, `Complete`, `Refines` | `TypeOK /\ PoolInv` is inductive. `PoolInv` counts: the completion counter is the number of workers that remember the current generation and are not in their loop; when it reaches `WorkerCount` none is scanning, which is what makes the unlocked merge and the unlocked reads of `scan_pids_` safe. `ShareInv`, inductive relative to it, says what buffers hold: a worker's entries are in bijection with the positions of its stride below `pid_index`, and a worker that completed has stored its whole share. The shares partition the readable positions, so the merge counts each process as often as it was listed, and a return of `Scan` is a step of `Scanner` |
| `ProcessKillerProofs` | `TypeCorrect`, `Once`, `Wakeups`, `Shutdown`, `Truth`, `Refines` | `TypeOK /\ KillerInv` is inductive. `EachRequestOnce` needs that a busy worker keeps its request and stores a result with its number, and `Shutdown` that a worker returns only from an empty queue after which nobody adds to it. `Truth` adds `TruthInv`: the incarnations of a pid only go up, so the process a signal reached is the one that has the pid now or an earlier one, and what has ended stays so. `Refines` adds `AnswerInv`, that a stored result answers the request it was made for, and counts: what `KillService` holds as asked of a pid is the number of its places in the queue plus the workers that have it. A dispatch adds to that count, the worker that takes a request moves it from one summand to the other, a result lowers it by one; every other step leaves the promise alone |
| `SnapshotPipelineProofs` | `TypeCorrect`, `NoThreadLeft`, `DiffsAgainstPublished`, `NothingAfterStop`, `UpdatesTellDifferences` | `TypeOK /\ PipelineInv` is inductive; the two action properties follow from it step by step |
| `LiveTableProofs` | `TypeCorrect`, `PromptsAsk`, `FocusExists`, `TableIsCurrent`, `MarksListed`, `FocusFollows`, `MarksStay`, `OneMode` | `IInv`: the groups are an ordered arrangement of exactly the processes that the filter shows, so the row of a process exists, marks are processes of the snapshot, and a focus within the groups stays within them. The action properties go through the three ways in which groups change: a query, a sort mode, a new snapshot. `MenusTyped` is inductive by itself; `PromptsTyped`, relative to `IInv`, says that what a prompt asks about is a sequence of pids which is not empty while the prompt is open, also when an answer or a snapshot changes it underneath; together they are `TypeOK` and more. `OneMode` is inductive as it stands: a key opens a mode only where none is open |
| `SamplePassProofs` | `TypeCorrect`, `FallbackRecent`, `FallbackComplete`, `SharesEarned`, `OneRowEach` | `TypeOK /\ PassInv` is inductive. Its parts: `CacheInv` bounds how long ago a cached process was last seen with sockets by the age of the cache, `SampleInv` relates samples to the CPU time their process had since, and `RowsInv` says which rows a pass has made so far. `FallbackComplete` is about the scans that could list the processes: one that could not leaves `entries` and `refresh_age` as they were, and with them `CacheInv` |
| `ScanSupportProofs` | `SnapshotFinal`, `SourcesKept`, `OrderDoesNotMatter`, `ScansAgree` | the sorts rearrange their input; the merge is a fold whose state after `k` entries satisfies `IsCompacted`: each socket among those entries has one entry, which stands for all of them (`StandsFor`: their number, the most telling of their states). That entries of a socket are next to each other after the first sort is what makes comparing with the last one enough. `StandsFor` does not depend on the order, and the last sort puts different sockets in one order only, so the final snapshot is the same for every rearrangement of what was read; the strides of any number of workers are a rearrangement of the serial order, hence both scanners agree |
| `FunctionsProofs` | `DiffExact`, `FinalizeExact`, `OneSource`, `ScannersSame`, `FdsListed`, `LsofRead`, `FocusShown`, `FdListingComplete`, `PidBufferStays`, `LineIsRead`, `FocusAlwaysDrawn` | what `functions` checks, for inputs of any size. The caller only calls with inputs of its sets (`CallInv`), so each property is a theorem about one function. Diff: `MatchInv` says which entries are taken and which unmatched after `k` of the previous ones. Lines of `lsof`: a name is one, two or three parts (`NameParts`), the first arrow ends the local address (`LocalAddress`), a numeral after the last colon is the port (`PortAfterColon`), and with a state behind it there is none, whatever the hosts consist of and whatever the state is called. Window: arithmetic on the limits, by cases on whether the table fits and on which end of it the window touches |

The inductive invariants of the state machines (`PoolInv`, `KillerInv`,
`PipelineInv`, `PassInv`) were checked with TLC before they were proved; the runs
check what follows from them.  The proofs have one lemma per action or group of
actions, and lemmas on the data beneath (`MergedType`, `SameRemainder`,
`KeptFinite`, `SortedGroups`, `RowOfPid`...).  `SequenceLemmas` has those that
several modules need: that a recursive definition over an interval has the
function it defines (`FoldExists`, `RecursionExists`), which is what unfolding a
fold of the community modules comes down to; that a stable sort rearranges
and orders (`SortedByKey`, `SortedUnique`); where the elements of a flattened
sequence are (`FlattenLayout`).  Induction is over sets of numbers
(`NatInductionOnSets`, `InductionUpTo`): the set of the `k` for which the
invariant of a loop holds.

Only model-checked: what is said about progress (`DestroyReturns`,
`RequestsAnswered`, `StopReturns`, `ReadersCatchUp`, `ResistantIsOffered`, and the
fairness of `Scanner` and `KillService` in `ImplementsScanner` and
`ImplementsKillService`), because liveness under fairness and ENABLED are out of
the prover's reach.  The steps of the two refinements are proved (`Refines`
in both modules), and so is every invariant and every other action property of
the passing runs.

## Not modelled

* What `ScanPid` reads of a process through the system calls of libproc: data,
  which the scanners share out and merge.  Of their return values only those of
  the listings are modelled, by what they count.
* `DecodeCommandName`, formatting, colours, the benchmark, the watch mode's
  printing, the command line and the debug output: no state, and no property
  here is about them.
* In the table: highlights and when they expire, the CPU history, the texts
  of status lines.
* Exceptions (out of memory, threads that cannot be created) and a `lsof` or
  `ps` that hangs: the code does not handle them.

## Plan

Done: the concurrent core (scanner pool, killer, pipeline), the table on top of
the killer's promise, the sequential functions against their meaning, the
passes with the lsof cache and the usage figures, the inductive invariants of
the state machines, both refinements step by step, and the sequential
functions for inputs of any size.  Left, in this order:

1. What the pieces give together: that an update of the pipeline whose scans
   are final snapshots (`SnapshotFinal`) carries a diff that is exact
   (`DiffExact`) against what readers had before (`DiffsAgainstPublished`).
2. Lines of `lsof` in any number: that `CollectLsofFallback` of many lines is one
   entry for each socket that one of them reports.
3. Highlights of the table, with updates that are missed because `latest_`
   holds only one.
4. The pipeline with `SamplePass` as the source of its snapshots, in place of
   any sequence of them.
