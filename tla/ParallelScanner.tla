-------------------------- MODULE ParallelScanner --------------------------
(***************************************************************************)
(* The worker pool of src/scanner/parallel_scanner.cpp: one caller (the    *)
(* thread that calls Scan and later runs the destructor) and WorkerCount   *)
(* persistent workers behind one mutex and two condition variables.        *)
(*                                                                         *)
(* A critical section of mutex_ is one action.  What the code reads or     *)
(* writes without the mutex (the workers' loops over scan_pids_, the       *)
(* caller's merge of worker_entries_) is a separate action, so every       *)
(* interleaving with it exists.  A thread blocked in a wait is "asleep"    *)
(* and leaves that state only by a notify or by a spurious wakeup, after   *)
(* which it takes the mutex and evaluates its predicate again.             *)
(***************************************************************************)
EXTENDS ScanData, Integers, FiniteSetsExt

CONSTANTS
  WorkerCount,     \* worker_count_
  GenerationMod    \* the modulus of scan_generation_, 2^64 in the build

ASSUME PoolAssumption ==
  /\ WorkerCount \in Nat \ {0}
  /\ GenerationMod \in Nat
  /\ GenerationMod > 1

VARIABLES
  \* the members mutex_ guards
  stopping, scan_generation, active_workers, completed_workers, scan_pids,
  worker_entries,
  \* fallback_cache_, touched by the caller only: the processes of entries_,
  \* and whether last_refresh_ was ever set
  cached_pids, refreshed,
  \* the caller: where it is, and what the last Scan returned
  caller, snapshot,
  \* the workers: where each one is, and its local variables
  pc, seen_generation, my_active, pid_index, entries

pool == <<stopping, scan_generation, active_workers, completed_workers,
          scan_pids, worker_entries>>
cache == <<cached_pids, refreshed>>
locals == <<pc, seen_generation, my_active, pid_index, entries>>
vars == <<pool, cache, caller, snapshot, locals>>

\* worker_index runs from 0.
Workers == 0 .. WorkerCount - 1

\* caller: outside Scan; blocked on work_completed_; notified, to evaluate
\* the predicate; past it, the mutex released; stopping_ set but nobody
\* notified; joining the workers; the destructor returned.
CallerStates ==
  {"idle", "waiting", "woken", "merging", "stopping", "joining", "destroyed"}

\* pc: about to evaluate the predicate; blocked on work_ready_; in the loop
\* over scan_pids_, the mutex released; returned.
WorkerStates == {"check", "asleep", "scanning", "exited"}

NextGeneration(g) == IF g + 1 = GenerationMod THEN 0 ELSE g + 1

\* work_ready_.notify_all().  The slip: notify_one().
WorkersNotifiedSlip ==
  [w \in Workers |->
     IF pc[w] = "asleep" /\ \A v \in 0 .. w - 1 : pc[v] # "asleep" THEN "check" ELSE pc[w]]
WorkersNotified == [w \in Workers |-> IF pc[w] = "asleep" THEN "check" ELSE pc[w]]

----------------------------------------------------------------------------
Init ==
  /\ stopping = FALSE
  /\ scan_generation = 0
  /\ active_workers = 0
  /\ completed_workers = 0
  /\ scan_pids = <<>>
  /\ worker_entries = [w \in Workers |-> <<>>]
  /\ cached_pids = {}
  /\ refreshed = FALSE
  /\ caller = "idle"
  /\ snapshot = EmptySnapshot
  /\ pc = [w \in Workers |-> "check"]
  /\ seen_generation = [w \in Workers |-> 0]
  /\ my_active = [w \in Workers |-> 0]
  /\ pid_index = [w \in Workers |-> 0]
  /\ entries = [w \in Workers |-> <<>>]

----------------------------------------------------------------------------
(* The caller *)

\* Scan, ListAllPids failed: the early return, before pool and fallback.
ScanNothing ==
  /\ caller = "idle"
  /\ snapshot' = EmptySnapshot
  /\ UNCHANGED <<pool, cache, caller, locals>>

\* How many workers take a share of the listing.
ActiveWorkers(listing) == Min({WorkerCount, Len(listing)})

\* Scan, up to the wait on work_completed_.
BeginScan(listing) ==
  /\ caller = "idle"
  /\ caller' = "waiting"
  /\ scan_pids' = listing
  /\ active_workers' = ActiveWorkers(listing)
  /\ worker_entries' = [w \in Workers |-> <<>>]
  /\ completed_workers' = 0
  /\ scan_generation' = NextGeneration(scan_generation)
  /\ pc' = WorkersNotified
  /\ UNCHANGED <<stopping, cache, snapshot, seen_generation, my_active, pid_index, entries>>

CallerWakesSpuriously ==
  /\ caller = "waiting"
  /\ caller' = "woken"
  /\ UNCHANGED <<pool, cache, snapshot, locals>>

\* The predicate of work_completed_.wait.  The slip: the caller waits for the
\* active workers only.
CheckCompletedSlip ==
  /\ caller = "woken"
  /\ caller' = IF completed_workers >= active_workers THEN "merging" ELSE "waiting"
  /\ UNCHANGED <<pool, cache, snapshot, locals>>
CheckCompleted ==
  /\ caller = "woken"
  /\ caller' = IF completed_workers = WorkerCount THEN "merging" ELSE "waiting"
  /\ UNCHANGED <<pool, cache, snapshot, locals>>

\* The places of the merged vector: those of the workers' vectors.
MergedPlaces == UNION {{w} \X DOMAIN worker_entries[w] : w \in Workers}

\* What the merged vector amounts to once finalized.
Merged ==
  [p \in Pids |->
     Cardinality({place \in MergedPlaces : worker_entries[place[1]][place[2]] = p})]

\* LsofFallbackCache::AppendTo refreshes its entries when it never did, or
\* when the interval has passed (due).
EntriesAfter(due, lsof) == IF due \/ ~refreshed THEN lsof ELSE cached_pids

\* Scan, from the merge to the return.
FinishScan(due, lsof) ==
  /\ caller = "merging"
  /\ caller' = "idle"
  /\ refreshed' = TRUE
  /\ cached_pids' = EntriesAfter(due, lsof)
  /\ snapshot' = AppendFallback(Merged, cached_pids')
  /\ UNCHANGED <<pool, locals>>

\* The destructor, in three steps: set stopping_, notify, join.
BeginDestroy ==
  /\ caller = "idle"
  /\ caller' = "stopping"
  /\ stopping' = TRUE
  /\ UNCHANGED <<scan_generation, active_workers, completed_workers, scan_pids,
                 worker_entries, cache, snapshot, locals>>

NotifyStop ==
  /\ caller = "stopping"
  /\ caller' = "joining"
  /\ pc' = WorkersNotified
  /\ UNCHANGED <<pool, cache, snapshot, seen_generation, my_active, pid_index, entries>>

JoinWorkers ==
  /\ caller = "joining"
  /\ \A w \in Workers : pc[w] = "exited"
  /\ caller' = "destroyed"
  /\ UNCHANGED <<pool, cache, snapshot, locals>>

----------------------------------------------------------------------------
(* Worker w *)

\* The predicate of work_ready_.wait.  The slips: it looks at the generation
\* counter but not at the one already seen; it does not look at stopping_.
HasWorkSlip(w) == stopping \/ scan_generation # 0
HasWorkDeafSlip(w) == scan_generation # seen_generation[w]
HasWork(w) == stopping \/ scan_generation # seen_generation[w]

Sleep(w) ==
  /\ pc[w] = "check"
  /\ ~HasWork(w)
  /\ pc' = [pc EXCEPT ![w] = "asleep"]
  /\ UNCHANGED <<pool, cache, caller, snapshot, seen_generation, my_active, pid_index, entries>>

WakeSpuriously(w) ==
  /\ pc[w] = "asleep"
  /\ pc' = [pc EXCEPT ![w] = "check"]
  /\ UNCHANGED <<pool, cache, caller, snapshot, seen_generation, my_active, pid_index, entries>>

Exit(w) ==
  /\ pc[w] = "check"
  /\ stopping
  /\ pc' = [pc EXCEPT ![w] = "exited"]
  /\ UNCHANGED <<pool, cache, caller, snapshot, seen_generation, my_active, pid_index, entries>>

TakeScan(w) ==
  /\ pc[w] = "check"
  /\ HasWork(w)
  /\ ~stopping
  /\ pc' = [pc EXCEPT ![w] = "scanning"]
  /\ seen_generation' = [seen_generation EXCEPT ![w] = scan_generation]
  /\ my_active' = [my_active EXCEPT ![w] = active_workers]
  /\ pid_index' = [pid_index EXCEPT ![w] = w]
  /\ entries' = [entries EXCEPT ![w] = <<>>]
  /\ UNCHANGED <<pool, cache, caller, snapshot>>

\* The loop runs for the active workers only, while pid_index is in range.
\* The slip: the range ends one short.
HasPidSlip(w) == w < my_active[w] /\ pid_index[w] + 1 < Len(scan_pids)
HasPid(w) == w < my_active[w] /\ pid_index[w] < Len(scan_pids)

ScanOnePid(w) ==
  /\ pc[w] = "scanning"
  /\ HasPid(w)
  /\ entries' = [entries EXCEPT ![w] = @ \o ScanPid(scan_pids[pid_index[w] + 1])]
  /\ pid_index' = [pid_index EXCEPT ![w] = @ + my_active[w]]
  /\ UNCHANGED <<pool, cache, caller, snapshot, pc, seen_generation, my_active>>

\* work_completed_.notify_one() by the worker that makes the count done.  The
\* slip: the last active worker notifies.
CallerNotifiedSlip(done) ==
  IF done = active_workers /\ caller = "waiting" THEN "woken" ELSE caller
CallerNotified(done) ==
  IF done = WorkerCount /\ caller = "waiting" THEN "woken" ELSE caller

\* The second critical section, after which the locals of the iteration go
\* out of scope.
StoreEntries(w) ==
  /\ pc[w] = "scanning"
  /\ ~HasPid(w)
  /\ pc' = [pc EXCEPT ![w] = "check"]
  /\ worker_entries' = [worker_entries EXCEPT ![w] = entries[w]]
  /\ completed_workers' = completed_workers + 1
  /\ caller' = CallerNotified(completed_workers')
  /\ my_active' = [my_active EXCEPT ![w] = 0]
  /\ pid_index' = [pid_index EXCEPT ![w] = 0]
  /\ entries' = [entries EXCEPT ![w] = <<>>]
  /\ UNCHANGED <<stopping, scan_generation, active_workers, scan_pids, cache,
                 snapshot, seen_generation>>

----------------------------------------------------------------------------
Worker(w) ==
  \/ Sleep(w)
  \/ Exit(w)
  \/ TakeScan(w)
  \/ ScanOnePid(w)
  \/ StoreEntries(w)

\* The owner's calls: none of them has to happen.
Call ==
  \/ ScanNothing
  \/ \E listing \in Listings : BeginScan(listing)
  \/ BeginDestroy

\* The rest of a call that has begun.
Proceed ==
  \/ CheckCompleted
  \/ \E due \in BOOLEAN, lsof \in Reports : FinishScan(due, lsof)
  \/ NotifyStop
  \/ JoinWorkers

SpuriousWakeup ==
  \/ CallerWakesSpuriously
  \/ \E w \in Workers : WakeSpuriously(w)

\* Nothing is left to do once the destructor has returned.
Terminated ==
  /\ caller = "destroyed"
  /\ UNCHANGED vars

Next ==
  \/ Call
  \/ Proceed
  \/ \E w \in Workers : Worker(w)
  \/ SpuriousWakeup
  \/ Terminated

\* Every thread that can run keeps running; no wakeup is granted that the
\* code did not notify.
Fairness == WF_vars(Proceed) /\ \A w \in Workers : WF_vars(Worker(w))

Spec == Init /\ [][Next]_vars /\ Fairness

----------------------------------------------------------------------------
(* Properties *)

TypeOK ==
  /\ stopping \in BOOLEAN
  /\ scan_generation \in 0 .. GenerationMod - 1
  /\ active_workers \in 0 .. WorkerCount
  /\ completed_workers \in 0 .. WorkerCount
  /\ scan_pids \in Seq(Pids)
  /\ worker_entries \in [Workers -> Seq(Pids)]
  /\ cached_pids \in Reports \cup {{}}
  /\ refreshed \in BOOLEAN
  /\ caller \in CallerStates
  /\ snapshot \in [Pids -> Nat]
  /\ pc \in [Workers -> WorkerStates]
  /\ seen_generation \in [Workers -> 0 .. GenerationMod - 1]
  /\ my_active \in [Workers -> 0 .. WorkerCount]
  /\ pid_index \in [Workers -> Nat]
  /\ entries \in [Workers -> Seq(Pids)]

\* The members that are used without mutex_ never meet a conflicting access:
\* no worker is in its loop (reading scan_pids_, about to write its buffer)
\* while the caller is where it writes scan_pids_, reads worker_entries_ or
\* destroys them (parallel_scanner.cpp lines 62 and 70 against 98 to 108).
NoUnlockedConflict ==
  caller \notin {"waiting", "woken"} => \A w \in Workers : pc[w] # "scanning"

\* No wakeup is lost: a worker sleeps only when it has nothing to do or the
\* notification it needs is still to come, and the caller sleeps only while
\* some worker has not completed the scan.
NoLostWakeup ==
  /\ \A w \in Workers :
       pc[w] = "asleep" => ~HasWork(w) \/ caller = "stopping"
  /\ caller = "waiting" => completed_workers < WorkerCount

\* When the caller merges, the buffers hold each listed process libproc can
\* read as often as it was listed and nothing else: the strides of the active
\* workers neither overlap nor leave a gap, and no buffer is of another scan.
MergeIsComplete ==
  caller = "merging" =>
    \A p \in Pids : Merged[p] = IF p \in Hidden THEN 0 ELSE Occurrences(scan_pids, p)

\* No worker misses a scan or takes one twice: between two scans every worker
\* has seen the current generation, whatever value the counter wrapped to.
WorkersInStep ==
  caller \in {"idle", "merging"} =>
    \A w \in Workers : seen_generation[w] = scan_generation

\* The workers that have stored their entries of the current scan.
Completed ==
  {w \in Workers : pc[w] \in {"check", "asleep"} /\ seen_generation[w] = scan_generation}

\* The invariant that carries the others.  The counter the caller waits for
\* agrees with the generations the workers remember, a worker is in its loop
\* only for the current scan while the caller waits, and workers return only
\* once the destructor began.
PoolInv ==
  /\ stopping <=> caller \in {"stopping", "joining", "destroyed"}
  /\ \A w \in Workers : pc[w] = "exited" => stopping
  /\ \A w \in Workers : pc[w] = "scanning" =>
       caller \in {"waiting", "woken"} /\ seen_generation[w] = scan_generation
  /\ caller \in {"waiting", "woken"} => completed_workers = Cardinality(Completed)
  /\ WorkersInStep
  /\ NoLostWakeup

\* The destructor returns: every worker notices stopping_ and can be joined.
DestroyReturns == caller = "stopping" ~> caller = "destroyed"

\* The pool implements what a Scanner promises, in particular that a Scan that
\* has begun returns.
Promise == INSTANCE Scanner WITH
  phase <- CASE caller \in {"waiting", "woken", "merging"} -> "scanning"
             [] caller = "idle" -> "idle"
             [] OTHER -> "closed",
  listing <- scan_pids

ImplementsScanner == Promise!Spec
=============================================================================
