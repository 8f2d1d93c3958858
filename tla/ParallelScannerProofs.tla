----------------------- MODULE ParallelScannerProofs -----------------------
(***************************************************************************)
(* For any number of workers, any listings and any modulus of the          *)
(* generation counter: the worker pool is type correct, touches its        *)
(* unlocked members without conflict, loses no wakeup and leaves no        *)
(* worker out of step.                                                     *)
(***************************************************************************)
EXTENDS ParallelScanner, FiniteSetTheorems, FunctionTheorems, TLAPS

IInv == TypeOK /\ PoolInv

\* The smaller of two numbers is one of them.
LEMMA MinOfTwo ==
  ASSUME NEW a \in Nat, NEW b \in Nat
  PROVE  Min({a, b}) \in {a, b} /\ Min({a, b}) <= a /\ Min({a, b}) <= b
<1>1. \E x \in {a, b} : \A y \in {a, b} : x <= y
  <2>1. CASE a <= b
    BY <2>1
  <2>2. CASE b <= a
    BY <2>2
  <2> QED BY <2>1, <2>2
<1> QED BY <1>1 DEF Min

\* The workers are finitely many: WorkerCount of them.
LEMMA WorkersCardinality ==
  IsFiniteSet(Workers) /\ Cardinality(Workers) = WorkerCount
BY PoolAssumption, FS_Interval DEF Workers

\* A worker set with all of the pool's size is the pool.
LEMMA FullSet ==
  ASSUME NEW S \in SUBSET Workers
  PROVE  /\ IsFiniteSet(S)
         /\ Cardinality(S) \in 0 .. WorkerCount
         /\ Cardinality(S) = WorkerCount => S = Workers
BY WorkersCardinality, FS_Subset, FS_CardinalityType, PoolAssumption

LEMMA NextGenerationDiffers ==
  ASSUME NEW g \in 0 .. GenerationMod - 1
  PROVE  NextGeneration(g) \in 0 .. GenerationMod - 1 /\ NextGeneration(g) # g
BY PoolAssumption DEF NextGeneration

\* Whatever the buffers hold, their merge is a count.
LEMMA MergedType ==
  ASSUME worker_entries \in [Workers -> Seq(Pids)]
  PROVE  Merged \in [Pids -> Nat]
<1> DEFINE Places == [w \in Workers |-> {w} \X DOMAIN worker_entries[w]]
           All == {Places[w] : w \in Workers}
<1>1. ASSUME NEW w \in Workers
      PROVE  IsFiniteSet(Places[w])
  <2>1. worker_entries[w] \in Seq(Pids) /\ Len(worker_entries[w]) \in Nat
    OBVIOUS
  <2>2. DOMAIN worker_entries[w] = 1 .. Len(worker_entries[w])
    BY <2>1
  <2>3. IsFiniteSet(DOMAIN worker_entries[w])
    BY <2>1, <2>2, FS_Interval
  <2>4. IsFiniteSet({w})
    BY FS_Singleton
  <2>5. IsFiniteSet({w} \X DOMAIN worker_entries[w])
    BY <2>3, <2>4, FS_Product
  <2> QED BY <2>5
<1>2. IsFiniteSet(All)
  <2>1. Places \in Surjection(Workers, All)
    BY DEF Surjection
  <2> HIDE DEF Places, All
  <2> QED BY <2>1, WorkersCardinality, FS_Surjection
<1>3. IsFiniteSet(MergedPlaces)
  <2>1. \A T \in All : IsFiniteSet(T)
    BY <1>1
  <2>2. IsFiniteSet(UNION All)
    BY <1>2, <2>1, FS_UNION
  <2>3. MergedPlaces = UNION All
    BY DEF MergedPlaces
  <2> QED BY <2>2, <2>3
<1>4. \A p : Cardinality({place \in MergedPlaces : worker_entries[place[1]][place[2]] = p}) \in Nat
  BY <1>3, FS_Subset, FS_CardinalityType
<1> QED BY <1>4 DEF Merged

LEMMA InitInv == Init => IInv
<1> SUFFICES ASSUME Init PROVE IInv
  OBVIOUS
<1>1. TypeOK
  <2>1. worker_entries \in [Workers -> Seq(Pids)] /\ entries \in [Workers -> Seq(Pids)]
    BY DEF Init
  <2>2. /\ scan_generation \in 0 .. GenerationMod - 1
        /\ seen_generation \in [Workers -> 0 .. GenerationMod - 1]
    BY PoolAssumption DEF Init
  <2>3. /\ active_workers \in 0 .. WorkerCount /\ completed_workers \in 0 .. WorkerCount
        /\ my_active \in [Workers -> 0 .. WorkerCount]
    BY PoolAssumption DEF Init
  <2>4. scan_pids \in Seq(Pids) /\ snapshot \in [Pids -> Nat]
    BY DEF Init, EmptySnapshot
  <2>5. pc \in [Workers -> WorkerStates] /\ pid_index \in [Workers -> Nat]
    BY DEF Init, WorkerStates
  <2>6. /\ stopping \in BOOLEAN /\ refreshed \in BOOLEAN
        /\ caller \in CallerStates /\ cached_pids \in Reports \cup {{}}
    BY DEF Init, CallerStates
  <2> QED BY <2>1, <2>2, <2>3, <2>4, <2>5, <2>6 DEF TypeOK
<1>2. PoolInv
  BY DEF Init, PoolInv, WorkersInStep, NoLostWakeup
<1> QED BY <1>1, <1>2 DEF IInv

\* The steps of the caller that leave the pool and the workers alone.
LEMMA CallerStep ==
  ASSUME IInv, ScanNothing \/ CallerWakesSpuriously \/ JoinWorkers
  PROVE  IInv'
<1> USE DEF IInv, pool, cache, locals
<1>1. CASE ScanNothing
  BY <1>1 DEF ScanNothing, TypeOK, PoolInv, WorkersInStep, NoLostWakeup, HasWork,
              Completed, EmptySnapshot
<1>2. CASE CallerWakesSpuriously
  BY <1>2 DEF CallerWakesSpuriously, TypeOK, PoolInv, WorkersInStep, NoLostWakeup,
              HasWork, Completed, CallerStates
<1>3. CASE JoinWorkers
  BY <1>3 DEF JoinWorkers, TypeOK, PoolInv, WorkersInStep, NoLostWakeup,
              HasWork, Completed, CallerStates
<1> QED BY <1>1, <1>2, <1>3

LEMMA BeginScanStep ==
  ASSUME IInv, NEW listing \in Listings, BeginScan(listing)
  PROVE  IInv'
<1> USE DEF IInv, BeginScan, cache
<1>1. listing \in Seq(Pids) /\ Len(listing) \in Nat
  BY ListingsAssumption
<1>2. TypeOK'
  <2>1. active_workers' \in 0 .. WorkerCount
    BY <1>1, MinOfTwo, PoolAssumption DEF ActiveWorkers
  <2>2. scan_generation' \in 0 .. GenerationMod - 1
    BY NextGenerationDiffers DEF TypeOK
  <2>3. worker_entries' \in [Workers -> Seq(Pids)]
    OBVIOUS
  <2> QED BY <1>1, <2>1, <2>2, <2>3, PoolAssumption
          DEF TypeOK, CallerStates, WorkersNotified, WorkerStates
\* The new generation is one no worker has seen.
<1>3. \A w \in Workers : seen_generation'[w] # scan_generation'
  BY NextGenerationDiffers DEF TypeOK, PoolInv, WorkersInStep
<1>4. \A w \in Workers : pc'[w] \notin {"scanning", "asleep"}
  BY DEF TypeOK, PoolInv, WorkersNotified
<1>5. completed_workers' = Cardinality(Completed')
  <2>1. Completed' = {}
    BY <1>3 DEF Completed
  <2> QED BY <2>1, FS_EmptySet
<1>6. NoLostWakeup'
  BY <1>4, PoolAssumption DEF NoLostWakeup
<1>7. ~stopping' /\ \A w \in Workers : pc'[w] # "exited"
  BY DEF PoolInv, WorkersNotified, TypeOK
<1> QED BY <1>2, <1>4, <1>5, <1>6, <1>7 DEF PoolInv, WorkersInStep

LEMMA CheckCompletedStep ==
  ASSUME IInv, CheckCompleted
  PROVE  IInv'
<1> USE DEF IInv, CheckCompleted, pool, cache, locals
<1>1. TypeOK'
  BY DEF TypeOK, CallerStates
<1>2. CASE completed_workers = WorkerCount
  <2>1. Completed = Workers
    BY <1>2, FullSet DEF PoolInv, Completed
  <2>2. \A w \in Workers : pc[w] # "scanning" /\ seen_generation[w] = scan_generation
    BY <2>1 DEF Completed
  <2> QED BY <1>1, <1>2, <2>2
          DEF PoolInv, WorkersInStep, NoLostWakeup, HasWork, Completed
<1>3. CASE completed_workers # WorkerCount
  <2>1. NoLostWakeup'
    BY <1>3, PoolAssumption DEF TypeOK, PoolInv, NoLostWakeup, HasWork
  <2>2. Completed' = Completed
    BY DEF Completed
  <2> QED BY <1>1, <1>3, <2>1, <2>2 DEF PoolInv, WorkersInStep
<1> QED BY <1>2, <1>3

LEMMA FinishScanStep ==
  ASSUME IInv, NEW due \in BOOLEAN, NEW lsof \in Reports, FinishScan(due, lsof)
  PROVE  IInv'
<1> USE DEF IInv, FinishScan, EntriesAfter, pool, locals
<1>1. TypeOK'
  <2>1. snapshot' \in [Pids -> Nat]
    BY MergedType DEF TypeOK, AppendFallback
  <2>2. cached_pids' \in Reports \cup {{}}
    BY DEF TypeOK
  <2> QED BY <2>1, <2>2 DEF TypeOK, CallerStates
<1> QED BY <1>1 DEF PoolInv, WorkersInStep, NoLostWakeup, HasWork, Completed

LEMMA DestructorStep ==
  ASSUME IInv, BeginDestroy \/ NotifyStop
  PROVE  IInv'
<1> USE DEF IInv, cache, pool, locals
<1>1. CASE BeginDestroy
  BY <1>1 DEF BeginDestroy, TypeOK, CallerStates, PoolInv, WorkersInStep, NoLostWakeup,
              HasWork, Completed
<1>2. CASE NotifyStop
  BY <1>2 DEF NotifyStop, TypeOK, CallerStates, PoolInv, WorkersInStep, NoLostWakeup,
              HasWork, Completed, WorkersNotified, WorkerStates
<1> QED BY <1>1, <1>2

\* A worker that goes to sleep, wakes up or returns keeps its generation.
LEMMA IdleWorkerStep ==
  ASSUME IInv, NEW w \in Workers, Sleep(w) \/ WakeSpuriously(w) \/ Exit(w)
  PROVE  IInv'
<1> USE DEF IInv, cache, pool
<1>1. TypeOK'
  BY DEF Sleep, WakeSpuriously, Exit, TypeOK, WorkerStates
<1>2. caller \in {"waiting", "woken"} => Completed' = Completed
  BY DEF Sleep, WakeSpuriously, Exit, TypeOK, PoolInv, Completed
<1>3. NoLostWakeup'
  BY DEF Sleep, WakeSpuriously, Exit, TypeOK, PoolInv, NoLostWakeup, HasWork
<1> QED BY <1>1, <1>2, <1>3
        DEF Sleep, WakeSpuriously, Exit, TypeOK, PoolInv, WorkersInStep

LEMMA TakeScanStep ==
  ASSUME IInv, NEW w \in Workers, TakeScan(w)
  PROVE  IInv'
<1> USE DEF IInv, TakeScan, cache, pool
<1>1. TypeOK'
  BY DEF TypeOK, WorkerStates, Workers
\* Between two scans there is nothing new to take.
<1>2. caller \in {"waiting", "woken"}
  BY DEF TypeOK, CallerStates, PoolInv, WorkersInStep, HasWork
<1>3. Completed' = Completed
  BY DEF TypeOK, Completed, HasWork
<1>4. NoLostWakeup'
  BY DEF TypeOK, PoolInv, NoLostWakeup, HasWork
<1> QED BY <1>1, <1>2, <1>3, <1>4 DEF TypeOK, PoolInv, WorkersInStep

LEMMA ScanOnePidStep ==
  ASSUME IInv, NEW w \in Workers, ScanOnePid(w)
  PROVE  IInv'
<1> USE DEF IInv, ScanOnePid, cache, pool
<1>1. TypeOK'
  <2>1. my_active[w] \in Nat /\ pid_index[w] \in Nat /\ pid_index[w] < Len(scan_pids)
    BY PoolAssumption DEF TypeOK, HasPid
  <2>2. scan_pids[pid_index[w] + 1] \in Pids
    BY <2>1 DEF TypeOK
  <2>3. entries' \in [Workers -> Seq(Pids)]
    BY <2>2 DEF TypeOK, ScanPid
  <2>4. pid_index' \in [Workers -> Nat]
    BY <2>1, SMTT(40) DEF TypeOK
  <2> QED BY <2>3, <2>4 DEF TypeOK
<1> QED BY <1>1 DEF PoolInv, WorkersInStep, NoLostWakeup, HasWork, Completed

LEMMA StoreEntriesStep ==
  ASSUME IInv, NEW w \in Workers, StoreEntries(w)
  PROVE  IInv'
<1> USE DEF IInv, StoreEntries, CallerNotified, cache
<1>1. caller \in {"waiting", "woken"} /\ seen_generation[w] = scan_generation
  BY DEF PoolInv
\* The worker joins those that have completed the scan.
<1>2. Completed' = Completed \cup {w} /\ w \notin Completed
  BY <1>1 DEF TypeOK, Completed
<1>3. /\ completed_workers' = Cardinality(Completed')
      /\ completed_workers' \in 0 .. WorkerCount
  <2>1. Completed \in SUBSET Workers /\ Completed' \in SUBSET Workers
    BY DEF Completed
  <2>2. IsFiniteSet(Completed) /\ Cardinality(Completed') \in 0 .. WorkerCount
    BY <2>1, FullSet
  <2>3. Cardinality(Completed') = Cardinality(Completed) + 1
    BY <1>2, <2>2, FS_AddElement
  <2> QED BY <1>1, <2>2, <2>3 DEF PoolInv
<1>4. TypeOK'
  BY <1>3, PoolAssumption DEF TypeOK, CallerStates, WorkerStates
<1>5. NoLostWakeup'
  BY <1>1, <1>3, PoolAssumption DEF TypeOK, PoolInv, NoLostWakeup, HasWork
<1>6. caller' \in {"waiting", "woken"}
  BY <1>1
<1> QED BY <1>1, <1>3, <1>4, <1>5, <1>6 DEF TypeOK, PoolInv, WorkersInStep

LEMMA NextInv == IInv /\ [Next]_vars => IInv'
<1> SUFFICES ASSUME IInv, [Next]_vars PROVE IInv'
  OBVIOUS
<1>1. CASE Call
  BY <1>1, CallerStep, BeginScanStep, DestructorStep DEF Call
<1>2. CASE Proceed
  BY <1>2, CheckCompletedStep, FinishScanStep, DestructorStep, CallerStep DEF Proceed
<1>3. ASSUME NEW w \in Workers, Worker(w) PROVE IInv'
  BY <1>3, IdleWorkerStep, TakeScanStep, ScanOnePidStep, StoreEntriesStep DEF Worker
<1>4. CASE SpuriousWakeup
  BY <1>4, CallerStep, IdleWorkerStep DEF SpuriousWakeup
<1>5. CASE UNCHANGED vars
  BY <1>5 DEF vars, pool, cache, locals, IInv, TypeOK, PoolInv, WorkersInStep,
              NoLostWakeup, HasWork, Completed
<1>6. CASE Terminated
  BY <1>5, <1>6 DEF Terminated
<1> QED BY <1>1, <1>2, <1>3, <1>4, <1>5, <1>6 DEF Next

----------------------------------------------------------------------------
LEMMA Invariance == Spec => []IInv
BY InitInv, NextInv, PTL DEF Spec

\* Every member and every local variable keeps its type; in particular the
\* count of completed workers never passes worker_count_, and no worker reads
\* scan_pids_ outside its range.
THEOREM TypeCorrect == Spec => []TypeOK
<1>1. IInv => TypeOK
  BY DEF IInv
<1> QED BY <1>1, Invariance, PTL

\* The members used without mutex_ never meet a conflicting access.
THEOREM Unlocked == Spec => []NoUnlockedConflict
<1>1. IInv => NoUnlockedConflict
  BY DEF IInv, PoolInv, NoUnlockedConflict
<1> QED BY <1>1, Invariance, PTL

\* No notification of work_ready_ or work_completed_ is lost.
THEOREM Wakeups == Spec => []NoLostWakeup
<1>1. IInv => NoLostWakeup
  BY DEF IInv, PoolInv
<1> QED BY <1>1, Invariance, PTL

\* Between two scans every worker has seen the current generation.
THEOREM InStep == Spec => []WorkersInStep
<1>1. IInv => WorkersInStep
  BY DEF IInv, PoolInv
<1> QED BY <1>1, Invariance, PTL
----------------------------------------------------------------------------
(* The strides: what the buffers of the workers hold.                      *)

\* The positions of listing l below n that are worker w's among A active ones,
\* of the processes libproc can read.
Share(l, A, w, n) ==
  {i \in 1 .. Len(l) : i <= n /\ (i - 1) % A = w /\ l[i] \notin Hidden}

\* Buffer s holds exactly those positions, each once.
Carries(s, l, A, w, n) ==
  \E f \in [1 .. Len(s) -> Share(l, A, w, n)] :
    /\ \A i, j \in 1 .. Len(s) : f[i] = f[j] => i = j
    /\ \A x \in Share(l, A, w, n) : \E i \in 1 .. Len(s) : f[i] = x
    /\ \A i \in 1 .. Len(s) : s[i] = l[f[i]]

\* A worker in its loop has what its share holds below pid_index, a worker
\* that completed the scan has stored all of its share.
ShareInv ==
  /\ caller \in {"waiting", "woken", "merging"} => active_workers > 0
  /\ \A w \in Workers : pc[w] = "scanning" =>
       /\ my_active[w] = active_workers
       /\ w < active_workers => pid_index[w] % active_workers = w
       /\ Carries(entries[w], scan_pids, active_workers, w, pid_index[w])
  /\ caller \in {"waiting", "woken", "merging"} =>
       \A w \in Completed :
         Carries(worker_entries[w], scan_pids, active_workers, w, Len(scan_pids))

\* Numbers less than A apart with the same remainder are equal.
LEMMA SameRemainder ==
  ASSUME NEW A \in Nat, A > 0, NEW n \in Nat, NEW x \in Nat,
         x % A = n % A, n <= x, x < n + A
  PROVE  x = n
<1> DEFINE q == n \div A
           r == x \div A
<1>1. n = A * q + (n % A) /\ q \in Nat /\ n % A \in 0 .. A - 1
  OBVIOUS
<1>2. x = A * r + (x % A) /\ r \in Nat
  OBVIOUS
<1>3. r >= q /\ r <= q
  <2> HIDE DEF q, r
  <2>1. A * r >= A * q /\ A * r < A * q + A
    BY <1>1, <1>2
  <2>2. CASE r < q
    <3>1. r + 1 <= q /\ A * (r + 1) <= A * q
      BY <1>1, <1>2, <2>2
    <3>2. A * (r + 1) = A * r + A
      BY <1>2
    <3> QED BY <2>1, <3>1, <3>2, <1>1, <1>2
  <2>3. CASE r > q
    <3>1. A * (q + 1) <= A * r
      BY <1>1, <1>2, <2>3
    <3>2. A * (q + 1) = A * q + A
      BY <1>1
    <3> QED BY <2>1, <3>1, <3>2, <1>1, <1>2
  <2> QED BY <2>2, <2>3, <1>1, <1>2
<1> QED BY <1>1, <1>2, <1>3

\* One stride further the remainder is the same.
LEMMA NextRemainder ==
  ASSUME NEW A \in Nat, A > 0, NEW n \in Nat
  PROVE  (n + A) % A = n % A
<1> DEFINE q == n \div A
           m == n + A
           r == m \div A
<1>1. n = A * q + (n % A) /\ q \in Nat /\ n % A \in 0 .. A - 1
  OBVIOUS
<1>2. m = A * r + (m % A) /\ r \in Nat /\ m % A \in 0 .. A - 1
  OBVIOUS
<1>3. r = q + 1
  <2> DEFINE a == n % A
             b == m % A
  <2> HIDE DEF q, r, a, b
  <2>1. A * r + b = A * q + A + a /\ a \in 0 .. A - 1 /\ b \in 0 .. A - 1
    BY <1>1, <1>2 DEF m, a, b
  <2>2. A * (q + 1) = A * q + A /\ A * (r + 1) = A * r + A
    BY <1>1, <1>2
  <2>3. CASE r < q + 1
    <3>1. A * (r + 1) <= A * (q + 1)
      BY <1>1, <1>2, <2>3
    <3>2. A * r >= A * q + a + A - b
      BY <1>1, <1>2, <2>1
    <3>3. A * (r + 1) > A * q + A
      BY <1>1, <1>2, <2>1, <2>2, <3>2
    <3> QED BY <1>1, <1>2, <2>2, <3>1, <3>3
  <2>4. CASE r > q + 1
    <3>1. A * (q + 2) <= A * r
      BY <1>1, <1>2, <2>4
    <3>2. A * (q + 2) = A * q + A + A
      BY <1>1
    <3> QED BY <1>1, <1>2, <2>1, <3>1, <3>2
  <2> QED BY <1>1, <1>2, <2>3, <2>4
<1>4. A * (q + 1) = A * q + A
  BY <1>1
<1> QED BY <1>1, <1>2, <1>3, <1>4

\* Below worker w's first position it has no share; a worker beyond the active
\* ones has none at all.
LEMMA NoShare ==
  ASSUME NEW l \in Seq(Pids), NEW A \in Nat, A > 0, NEW w \in Nat, NEW n \in Nat,
         n = w \/ w >= A
  PROVE  Share(l, A, w, n) = {} /\ Carries(<<>>, l, A, w, n)
<1>1. ASSUME NEW i \in 1 .. Len(l), i <= n, (i - 1) % A = w
      PROVE  FALSE
  <2>1. i - 1 \in Nat /\ (i - 1) % A \in 0 .. A - 1
    BY <1>1
  <2>2. w < A /\ n = w
    BY <1>1, <2>1
  <2>3. i - 1 \in 0 .. A - 1
    BY <1>1, <2>1, <2>2
  <2>4. (i - 1) % A = i - 1
    BY <2>3
  <2> QED BY <1>1, <2>1, <2>2, <2>4
<1>2. Share(l, A, w, n) = {}
  BY <1>1 DEF Share
<1>3. Carries(<<>>, l, A, w, n)
  <2> DEFINE f == [i \in 1 .. Len(<<>>) |-> i]
  <2>1. 1 .. Len(<<>>) = {}
    OBVIOUS
  <2>2. f \in [1 .. Len(<<>>) -> Share(l, A, w, n)]
    BY <2>1
  <2> QED BY <1>2, <2>1, <2>2 DEF Carries
<1> QED BY <1>2, <1>3

\* The next stride adds one position to the share, unless it is Hidden.
LEMMA NextStride ==
  ASSUME NEW l \in Seq(Pids), NEW A \in Nat, A > 0, NEW w \in 0 .. A - 1,
         NEW n \in Nat, n % A = w, n < Len(l)
  PROVE  Share(l, A, w, n + A) =
           Share(l, A, w, n) \cup (IF l[n + 1] \in Hidden THEN {} ELSE {n + 1})
<1>1. ASSUME NEW i \in 1 .. Len(l), (i - 1) % A = w, i <= n + A, ~(i <= n)
      PROVE  i = n + 1
  <2>1. i - 1 \in Nat /\ n <= i - 1 /\ i - 1 < n + A
    BY <1>1
  <2>2. i - 1 = n
    BY <1>1, <2>1, SameRemainder
  <2> QED BY <2>2
<1>2. ASSUME NEW i \in 1 .. Len(l), i <= n
      PROVE  i <= n + A
  BY <1>2
<1>3. n + 1 \in 1 .. Len(l) /\ n + 1 <= n + A /\ (n + 1) - 1 = n /\ ~(n + 1 <= n)
  OBVIOUS
<1> QED BY <1>1, <1>2, <1>3 DEF Share

\* Reading the next process of the share keeps the buffer in step with it.
LEMMA ReadCarries ==
  ASSUME NEW l \in Seq(Pids), NEW A \in Nat, A > 0, NEW w \in 0 .. A - 1,
         NEW n \in Nat, n % A = w, n < Len(l),
         NEW s \in Seq(Pids), Carries(s, l, A, w, n)
  PROVE  Carries(s \o ScanPid(l[n + 1]), l, A, w, n + A)
<1> DEFINE S == Share(l, A, w, n)
           T == Share(l, A, w, n + A)
<1>1. CASE l[n + 1] \in Hidden
  <2>1. T = S
    <3>1. T = S \cup (IF l[n + 1] \in Hidden THEN {} ELSE {n + 1})
      BY NextStride
    <3> QED BY <1>1, <3>1
  <2>2. s \o ScanPid(l[n + 1]) = s
    BY <1>1 DEF ScanPid
  <2> QED BY <2>1, <2>2, SMTT(40) DEF Carries
<1>2. CASE l[n + 1] \notin Hidden
  <2> DEFINE t == Append(s, l[n + 1])
  <2>1. T = S \cup {n + 1} /\ n + 1 \notin S
    BY <1>2, NextStride DEF Share
  <2>2. l[n + 1] \in Pids
    OBVIOUS
  <2>3. s \o ScanPid(l[n + 1]) = t
    BY <1>2, <2>2 DEF ScanPid
  <2>4. /\ Len(t) = Len(s) + 1 /\ Len(s) \in Nat
        /\ t[Len(s) + 1] = l[n + 1]
        /\ \A i \in 1 .. Len(s) : t[i] = s[i]
    BY <2>2
  <2>5. PICK f \in [1 .. Len(s) -> S] :
          /\ \A i, j \in 1 .. Len(s) : f[i] = f[j] => i = j
          /\ \A x \in S : \E i \in 1 .. Len(s) : f[i] = x
          /\ \A i \in 1 .. Len(s) : s[i] = l[f[i]]
    BY DEF Carries
  <2> DEFINE g == [i \in 1 .. Len(t) |-> IF i = Len(s) + 1 THEN n + 1 ELSE f[i]]
  <2> HIDE DEF S, T, t
  <2>6. /\ 1 .. Len(t) = 1 .. Len(s) \cup {Len(s) + 1}
        /\ Len(s) + 1 \notin 1 .. Len(s)
    BY <2>4
  <2>7. /\ g[Len(s) + 1] = n + 1
        /\ \A i \in 1 .. Len(s) : g[i] = f[i] /\ f[i] \in S
    BY <2>6
  <2>8. g \in [1 .. Len(t) -> T]
    BY <2>1, <2>6, <2>7
  <2> HIDE DEF g
  <2>9. \A i, j \in 1 .. Len(t) : g[i] = g[j] => i = j
    BY <2>1, <2>5, <2>6, <2>7, SMTT(40)
  <2>10. \A x \in T : \E i \in 1 .. Len(t) : g[i] = x
    BY <2>1, <2>5, <2>6, <2>7
  <2>11. \A i \in 1 .. Len(t) : t[i] = l[g[i]]
    BY <2>4, <2>5, <2>6, <2>7
  <2>12. Carries(t, l, A, w, n + A)
    BY <2>8, <2>9, <2>10, <2>11 DEF Carries, T
  <2> QED BY <2>3, <2>12
<1> QED BY <1>1, <1>2

\* Past the end of the listing the share grows no more.
LEMMA WholeShare ==
  ASSUME NEW l \in Seq(Pids), NEW A \in Nat, A > 0, NEW w \in Nat, NEW n \in Nat,
         n >= Len(l), NEW s, Carries(s, l, A, w, n)
  PROVE  Carries(s, l, A, w, Len(l))
<1>1. Share(l, A, w, n) = Share(l, A, w, Len(l))
  BY DEF Share
<1> QED BY <1>1 DEF Carries

\* Merged counts what the shares hold: the workers' buffers together are in
\* bijection with the positions of the readable processes.
LEMMA MergedIsNative ==
  ASSUME TypeOK, active_workers > 0,
         \A w \in Workers :
           Carries(worker_entries[w], scan_pids, active_workers, w, Len(scan_pids)),
         NEW p \in Pids
  PROVE  Merged[p] = IF p \in Hidden THEN 0 ELSE Occurrences(scan_pids, p)
<1> DEFINE At(w) == Share(scan_pids, active_workers, w, Len(scan_pids))
           Fits(w, f) ==
             /\ f \in [1 .. Len(worker_entries[w]) -> At(w)]
             /\ \A i, j \in 1 .. Len(worker_entries[w]) : f[i] = f[j] => i = j
             /\ \A x \in At(w) : \E i \in 1 .. Len(worker_entries[w]) : f[i] = x
             /\ \A i \in 1 .. Len(worker_entries[w]) :
                  worker_entries[w][i] = scan_pids[f[i]]
           g == [w \in Workers |-> CHOOSE f : Fits(w, f)]
           S == {place \in MergedPlaces : worker_entries[place[1]][place[2]] = p}
           T == {i \in DOMAIN scan_pids : scan_pids[i] = p}
<1>1. ASSUME NEW w \in Workers
      PROVE  Fits(w, g[w])
  <2>1. \E f : Fits(w, f)
    BY DEF Carries
  <2> QED BY <2>1
<1>2. /\ scan_pids \in Seq(Pids) /\ Len(scan_pids) \in Nat
      /\ DOMAIN scan_pids = 1 .. Len(scan_pids)
      /\ \A w \in Workers : DOMAIN worker_entries[w] = 1 .. Len(worker_entries[w])
  BY DEF TypeOK
<1>3. \A w \in Workers : At(w) = {i \in 1 .. Len(scan_pids) :
                           (i - 1) % active_workers = w /\ scan_pids[i] \notin Hidden}
  BY <1>2 DEF Share
<1>4. \A place : place \in MergedPlaces <=>
        \E w \in Workers : \E i \in 1 .. Len(worker_entries[w]) : place = <<w, i>>
  BY <1>2 DEF MergedPlaces
<1>5. Merged[p] = Cardinality(S)
  BY DEF Merged
<1> HIDE DEF At, g
<1>6. CASE p \in Hidden
  <2>1. S = {}
    BY <1>1, <1>3, <1>4, <1>6
  <2> QED BY <1>5, <1>6, <2>1, FS_EmptySet
<1>7. CASE p \notin Hidden
  <2> DEFINE F == [place \in S |-> g[place[1]][place[2]]]
  <2>1. ASSUME NEW place \in S
        PROVE  /\ place[1] \in Workers /\ place[2] \in 1 .. Len(worker_entries[place[1]])
               /\ place = <<place[1], place[2]>>
               /\ F[place] \in At(place[1]) /\ scan_pids[F[place]] = p
               /\ worker_entries[place[1]][place[2]] = p
    BY <1>1, <1>4
  <2>2. F \in [S -> T]
    BY <1>2, <1>3, <2>1, ZenonT(40)
  <2>3. ASSUME NEW a \in S, NEW b \in S, F[a] = F[b]
        PROVE  a = b
    <3>1. /\ a[1] \in Workers /\ b[1] \in Workers
          /\ F[a] \in At(a[1]) /\ F[b] \in At(b[1])
      BY <2>1
    <3>2. a[1] = b[1]
      <4>1. /\ (F[a] - 1) % active_workers = a[1]
            /\ (F[b] - 1) % active_workers = b[1]
        BY <1>3, <3>1
      <4> QED BY <2>3, <4>1
    <3>3. a[2] = b[2]
      <4>1. g[a[1]][a[2]] = g[a[1]][b[2]]
        BY <2>3, <3>2
      <4>2. /\ a[2] \in 1 .. Len(worker_entries[a[1]])
            /\ b[2] \in 1 .. Len(worker_entries[a[1]])
        BY <2>1, <3>2
      <4>3. \A i, j \in 1 .. Len(worker_entries[a[1]]) :
              g[a[1]][i] = g[a[1]][j] => i = j
        BY <1>1, <3>1
      <4> HIDE DEF F, S, T, Fits
      <4> QED BY <4>1, <4>2, <4>3
    <3> QED BY <2>1, <3>2, <3>3
  <2>4. ASSUME NEW i \in T
        PROVE  \E a \in S : F[a] = i
    <3> DEFINE w == (i - 1) % active_workers
    <3>1. /\ i \in 1 .. Len(scan_pids) /\ scan_pids[i] = p
          /\ active_workers \in Nat /\ active_workers <= WorkerCount
      BY <1>2, PoolAssumption DEF TypeOK
    <3>2. w \in 0 .. active_workers - 1
      BY <3>1
    <3>3. w \in Workers
      BY <3>1, <3>2, PoolAssumption DEF Workers
    <3>4. i \in At(w)
      BY <1>3, <1>7, <3>1, <3>3
    <3> HIDE DEF w
    <3>5. PICK j \in 1 .. Len(worker_entries[w]) :
            g[w][j] = i /\ worker_entries[w][j] = scan_pids[i]
      BY <1>1, <3>3, <3>4
    <3>6. <<w, j>> \in S /\ F[<<w, j>>] = i
      BY <1>4, <3>1, <3>3, <3>5
    <3> QED BY <3>6
  <2> HIDE DEF F, S
  <2>5. ExistsBijection(S, T)
    BY <2>2, <2>3, <2>4
       DEF ExistsBijection, Bijection, Injection, Surjection, IsInjective
  <2>6. IsFiniteSet(T)
    <3>1. T \in SUBSET (1 .. Len(scan_pids))
      BY <1>2 DEF T
    <3>2. IsFiniteSet(1 .. Len(scan_pids))
      BY <1>2, FS_Interval
    <3> QED BY <3>1, <3>2, FS_Subset
  <2>7. Cardinality(S) = Cardinality(T)
    BY <2>5, <2>6, Fun_ExistsBijSymmetric, FS_Bijection
  <2> QED BY <1>5, <1>7, <2>7 DEF Occurrences
<1> QED BY <1>6, <1>7

\* With every worker past the scan, ShareInv says so of every buffer.
LEMMA MergeComplete == IInv /\ ShareInv => MergeIsComplete
<1> SUFFICES ASSUME IInv, ShareInv, caller = "merging", NEW p \in Pids
             PROVE  Merged[p] = IF p \in Hidden THEN 0 ELSE Occurrences(scan_pids, p)
  BY DEF MergeIsComplete
<1>1. ASSUME NEW w \in Workers PROVE w \in Completed
  BY DEF IInv, TypeOK, PoolInv, WorkersInStep, Completed, WorkerStates
<1>2. active_workers > 0
  BY DEF ShareInv
<1>3. \A w \in Workers :
        Carries(worker_entries[w], scan_pids, active_workers, w, Len(scan_pids))
  BY <1>1 DEF ShareInv
<1> QED BY <1>2, <1>3, MergedIsNative DEF IInv

\* The steps that neither take, read nor store anything: no worker enters its
\* loop or completes a scan, and what the shares speak of does not change.
LEMMA StandingShares ==
  ASSUME ShareInv,
         UNCHANGED <<active_workers, scan_pids, worker_entries, scan_generation,
                     seen_generation, my_active, pid_index, entries>>,
         caller' \in {"waiting", "woken", "merging"} =>
           caller \in {"waiting", "woken", "merging"},
         \A w \in Workers : pc'[w] = "scanning" => pc[w] = "scanning",
         \A w \in Workers : pc'[w] \in {"check", "asleep"} => pc[w] \in {"check", "asleep"}
  PROVE  ShareInv'
<1>1. Completed' \subseteq Completed
  BY DEF Completed
<1>2. ASSUME NEW w \in Workers, pc'[w] = "scanning"
      PROVE  /\ my_active'[w] = active_workers'
             /\ w < active_workers' => pid_index'[w] % active_workers' = w
             /\ Carries(entries'[w], scan_pids', active_workers', w, pid_index'[w])
  BY <1>2 DEF ShareInv
<1>3. ASSUME caller' \in {"waiting", "woken", "merging"}
      PROVE  /\ active_workers' > 0
             /\ \A w \in Completed' :
                  Carries(worker_entries'[w], scan_pids', active_workers', w, Len(scan_pids'))
  BY <1>1, <1>3 DEF ShareInv
<1> QED BY <1>2, <1>3 DEF ShareInv

LEMMA CallerShares ==
  ASSUME IInv, ShareInv,
         \/ ScanNothing
         \/ CallerWakesSpuriously
         \/ CheckCompleted
         \/ \E due \in BOOLEAN, lsof \in Reports : FinishScan(due, lsof)
         \/ BeginDestroy
         \/ NotifyStop
         \/ JoinWorkers
         \/ UNCHANGED vars
  PROVE  ShareInv'
<1>1. /\ UNCHANGED <<active_workers, scan_pids, worker_entries, scan_generation,
                     seen_generation, my_active, pid_index, entries>>
      /\ caller' \in {"waiting", "woken", "merging"} =>
           caller \in {"waiting", "woken", "merging"}
      /\ pc' \in {pc, WorkersNotified}
  BY DEF ScanNothing, CallerWakesSpuriously, CheckCompleted, FinishScan, BeginDestroy,
         NotifyStop, JoinWorkers, vars, pool, cache, locals
<1>2. \A w \in Workers :
        /\ pc'[w] = "scanning" => pc[w] = "scanning"
        /\ pc'[w] \in {"check", "asleep"} => pc[w] \in {"check", "asleep"}
  BY <1>1 DEF WorkersNotified
<1> QED BY <1>1, <1>2, StandingShares

LEMMA BeginScanShares ==
  ASSUME IInv, ShareInv, NEW listing \in Listings, BeginScan(listing)
  PROVE  ShareInv'
<1>1. listing \in Seq(Pids) /\ Len(listing) \in Nat \ {0}
  BY ListingsAssumption
<1>2. active_workers' > 0
  BY <1>1, MinOfTwo, PoolAssumption DEF BeginScan, ActiveWorkers
<1>3. \A w \in Workers : pc'[w] # "scanning"
  BY DEF BeginScan, WorkersNotified, IInv, PoolInv
<1>4. Completed' = {}
  BY NextGenerationDiffers DEF BeginScan, IInv, TypeOK, PoolInv, WorkersInStep, Completed
<1> QED BY <1>2, <1>3, <1>4 DEF ShareInv

LEMMA IdleWorkerShares ==
  ASSUME IInv, ShareInv, NEW w \in Workers, Sleep(w) \/ WakeSpuriously(w) \/ Exit(w)
  PROVE  ShareInv'
<1>1. UNCHANGED <<active_workers, scan_pids, worker_entries, scan_generation,
                  seen_generation, my_active, pid_index, entries, caller>>
  BY DEF Sleep, WakeSpuriously, Exit, pool, cache
<1>2. \A v \in Workers :
        /\ pc'[v] = "scanning" => pc[v] = "scanning"
        /\ pc'[v] \in {"check", "asleep"} => pc[v] \in {"check", "asleep"}
  BY DEF Sleep, WakeSpuriously, Exit, IInv, TypeOK
<1> QED BY <1>1, <1>2, StandingShares

LEMMA TakeScanShares ==
  ASSUME IInv, ShareInv, NEW w \in Workers, TakeScan(w)
  PROVE  ShareInv'
<1>1. caller \in {"waiting", "woken"} /\ caller' = caller
  BY DEF TakeScan, IInv, TypeOK, CallerStates, PoolInv, WorkersInStep, HasWork
<1>2. /\ active_workers \in Nat /\ active_workers > 0 /\ scan_pids \in Seq(Pids)
      /\ w \in Nat
  BY <1>1, PoolAssumption DEF ShareInv, IInv, TypeOK, Workers
<1>3. UNCHANGED <<active_workers, scan_pids, worker_entries, scan_generation>>
  BY DEF TakeScan, pool
<1>4. Completed' = Completed
  BY <1>3 DEF TakeScan, HasWork, IInv, TypeOK, Completed
<1>5. /\ my_active'[w] = active_workers
      /\ w < active_workers => pid_index'[w] % active_workers = w
      /\ Carries(entries'[w], scan_pids, active_workers, w, pid_index'[w])
  <2>1. my_active'[w] = active_workers /\ pid_index'[w] = w /\ entries'[w] = <<>>
    BY DEF TakeScan, IInv, TypeOK
  <2>2. w < active_workers => w % active_workers = w
    BY <1>2
  <2>3. Carries(<<>>, scan_pids, active_workers, w, w)
    BY <1>2, NoShare
  <2> QED BY <2>1, <2>2, <2>3
<1>6. ASSUME NEW v \in Workers, v # w
      PROVE  /\ pc'[v] = pc[v] /\ my_active'[v] = my_active[v]
             /\ pid_index'[v] = pid_index[v] /\ entries'[v] = entries[v]
  BY <1>6 DEF TakeScan, IInv, TypeOK
<1> QED BY <1>1, <1>2, <1>3, <1>4, <1>5, <1>6 DEF ShareInv

LEMMA ScanOnePidShares ==
  ASSUME IInv, ShareInv, NEW w \in Workers, ScanOnePid(w)
  PROVE  ShareInv'
<1>1. /\ pc[w] = "scanning" /\ caller \in {"waiting", "woken"} /\ caller' = caller
      /\ UNCHANGED <<active_workers, scan_pids, worker_entries, scan_generation,
                     seen_generation, pc, my_active>>
  BY DEF ScanOnePid, pool, IInv, PoolInv
<1>2. /\ my_active[w] = active_workers /\ active_workers > 0
      /\ active_workers \in Nat /\ scan_pids \in Seq(Pids)
      /\ w \in 0 .. active_workers - 1
      /\ pid_index[w] \in Nat /\ pid_index[w] < Len(scan_pids)
      /\ pid_index[w] % active_workers = w /\ entries[w] \in Seq(Pids)
      /\ Carries(entries[w], scan_pids, active_workers, w, pid_index[w])
  BY <1>1, PoolAssumption DEF ShareInv, ScanOnePid, HasPid, IInv, TypeOK, Workers
<1>3. /\ entries'[w] = entries[w] \o ScanPid(scan_pids[pid_index[w] + 1])
      /\ pid_index'[w] = pid_index[w] + active_workers
  BY <1>2 DEF ScanOnePid, IInv, TypeOK
<1>4. /\ pid_index'[w] % active_workers = w
      /\ Carries(entries'[w], scan_pids, active_workers, w, pid_index'[w])
  BY <1>2, <1>3, NextRemainder, ReadCarries
<1>5. ASSUME NEW v \in Workers, v # w
      PROVE  pid_index'[v] = pid_index[v] /\ entries'[v] = entries[v]
  BY <1>5 DEF ScanOnePid, IInv, TypeOK
<1>6. Completed' = Completed
  BY <1>1 DEF Completed
<1> QED BY <1>1, <1>2, <1>4, <1>5, <1>6 DEF ShareInv

LEMMA StoreEntriesShares ==
  ASSUME IInv, ShareInv, NEW w \in Workers, StoreEntries(w)
  PROVE  ShareInv'
<1>1. /\ pc[w] = "scanning" /\ caller \in {"waiting", "woken"}
      /\ caller' \in {"waiting", "woken"}
      /\ UNCHANGED <<active_workers, scan_pids, scan_generation, seen_generation>>
  BY DEF StoreEntries, CallerNotified, IInv, PoolInv
<1>2. /\ active_workers > 0 /\ active_workers \in Nat /\ scan_pids \in Seq(Pids)
      /\ my_active[w] = active_workers /\ w \in Nat /\ pid_index[w] \in Nat
      /\ Carries(entries[w], scan_pids, active_workers, w, pid_index[w])
      /\ w >= active_workers \/ pid_index[w] >= Len(scan_pids)
  <2>1. /\ active_workers > 0 /\ my_active[w] = active_workers
        /\ Carries(entries[w], scan_pids, active_workers, w, pid_index[w])
    BY <1>1 DEF ShareInv
  <2>2. /\ active_workers \in Nat /\ scan_pids \in Seq(Pids) /\ Len(scan_pids) \in Nat
        /\ w \in Nat /\ pid_index[w] \in Nat
    BY PoolAssumption DEF IInv, TypeOK, Workers
  <2>3. ~(w < my_active[w] /\ pid_index[w] < Len(scan_pids))
    BY DEF StoreEntries, HasPid
  <2> QED BY <2>1, <2>2, <2>3
<1>3. Carries(entries[w], scan_pids, active_workers, w, Len(scan_pids))
  <2>1. CASE w >= active_workers
    <3>1. /\ Share(scan_pids, active_workers, w, pid_index[w]) = {}
          /\ Share(scan_pids, active_workers, w, Len(scan_pids)) = {}
      BY <1>2, <2>1, NoShare
    <3> QED BY <1>2, <3>1 DEF Carries
  <2>2. CASE pid_index[w] >= Len(scan_pids)
    BY <1>2, <2>2, WholeShare
  <2> QED BY <1>2, <2>1, <2>2
<1>4. Completed' = Completed \cup {w}
  BY <1>1 DEF StoreEntries, IInv, TypeOK, PoolInv, Completed
<1>5. worker_entries'[w] = entries[w] /\ pc'[w] = "check"
  BY DEF StoreEntries, IInv, TypeOK
<1>6. ASSUME NEW v \in Workers, v # w
      PROVE  /\ worker_entries'[v] = worker_entries[v] /\ pc'[v] = pc[v]
             /\ my_active'[v] = my_active[v] /\ pid_index'[v] = pid_index[v]
             /\ entries'[v] = entries[v]
  BY <1>6 DEF StoreEntries, IInv, TypeOK
<1>7. \A v \in Completed : v \in Workers
  BY DEF Completed
<1> QED BY <1>1, <1>2, <1>3, <1>4, <1>5, <1>6, <1>7 DEF ShareInv

LEMMA NextShares == IInv /\ ShareInv /\ [Next]_vars => ShareInv'
<1> SUFFICES ASSUME IInv, ShareInv, [Next]_vars PROVE ShareInv'
  OBVIOUS
<1>1. CASE Call
  BY <1>1, CallerShares, BeginScanShares DEF Call
<1>2. CASE Proceed
  BY <1>2, CallerShares DEF Proceed
<1>3. ASSUME NEW w \in Workers, Worker(w) PROVE ShareInv'
  BY <1>3, IdleWorkerShares, TakeScanShares, ScanOnePidShares, StoreEntriesShares DEF Worker
<1>4. CASE SpuriousWakeup
  BY <1>4, CallerShares, IdleWorkerShares DEF SpuriousWakeup
<1>5. CASE Terminated \/ UNCHANGED vars
  BY <1>5, CallerShares DEF Terminated
<1> QED BY <1>1, <1>2, <1>3, <1>4, <1>5 DEF Next

LEMMA SharesInvariance == Spec => [](IInv /\ ShareInv)
<1>1. Init => ShareInv
  BY DEF Init, ShareInv
<1> QED BY <1>1, InitInv, NextInv, NextShares, PTL DEF Spec

\* When the caller merges, the buffers hold each listed process as often as it
\* was listed, for any number of workers and any listing.
THEOREM Complete == Spec => []MergeIsComplete
BY SharesInvariance, MergeComplete, PTL

----------------------------------------------------------------------------
(* The pool as a Scanner.                                                  *)

\* The data of the interface are the pool's.
LEMMA SameData ==
  /\ Promise!Pids = Pids
  /\ Promise!EmptySnapshot = EmptySnapshot
  /\ \A l, p : Promise!Occurrences(l, p) = Occurrences(l, p)
  /\ \A native, cached :
       Promise!AppendFallback(native, cached) = AppendFallback(native, cached)
<1>1. Promise!Pids = Pids
  BY DEF Promise!Pids, Pids
<1>2. Promise!EmptySnapshot = EmptySnapshot
  BY <1>1 DEF Promise!EmptySnapshot, EmptySnapshot
<1>3. \A l, p : Promise!Occurrences(l, p) = Occurrences(l, p)
  BY DEF Promise!Occurrences, Occurrences, Promise!Cardinality, Cardinality
<1>4. ASSUME NEW native, NEW cached
      PROVE  Promise!AppendFallback(native, cached) = AppendFallback(native, cached)
  BY <1>1 DEF Promise!AppendFallback, AppendFallback
<1> QED BY <1>1, <1>2, <1>3, <1>4

LEMMA InitRefines == Init => Promise!Init
BY SameData DEF Init, Promise!Init

LEMMA StepRefines ==
  ASSUME IInv, ShareInv, [Next]_vars
  PROVE  [Promise!Next]_(Promise!scannerVars)
<1> USE DEF Promise!scannerVars
<1>1. CASE ScanNothing
  <2>1. EmptySnapshot = AppendFallback(EmptySnapshot, {})
    BY DEF EmptySnapshot, AppendFallback
  <2>2. Promise!ReturnWithoutListing
    BY <1>1, <2>1, SameData DEF ScanNothing, pool, Promise!ReturnWithoutListing
  <2> QED BY <2>2 DEF Promise!Next
<1>2. ASSUME NEW listing \in Listings, BeginScan(listing)
      PROVE  Promise!Begin(listing)
  BY <1>2 DEF BeginScan, Promise!Begin
<1>3. ASSUME NEW due \in BOOLEAN, NEW lsof \in Reports, FinishScan(due, lsof)
      PROVE  Promise!Return
  <2>1. Merged = Promise!Native(scan_pids)
    <3>1. \A p \in Pids :
            Merged[p] = IF p \in Hidden THEN 0 ELSE Occurrences(scan_pids, p)
      BY <1>3, MergeComplete DEF FinishScan, MergeIsComplete
    <3> QED BY <3>1, SameData DEF Merged, Promise!Native
  <2>2. cached_pids' \in Reports \cup {{}}
    BY <1>3 DEF FinishScan, EntriesAfter, IInv, TypeOK
  <2> QED BY <1>3, <2>1, <2>2, SameData DEF FinishScan, pool, Promise!Return
<1>4. CASE BeginDestroy
  <2>1. Promise!Close
    BY <1>4 DEF BeginDestroy, Promise!Close
  <2> QED BY <2>1 DEF Promise!Next
<1>5. ASSUME \/ CheckCompleted
             \/ NotifyStop
             \/ JoinWorkers
             \/ SpuriousWakeup
             \/ \E w \in Workers : Worker(w)
             \/ UNCHANGED vars
      PROVE  UNCHANGED Promise!scannerVars
  <2>1. CASE CheckCompleted \/ NotifyStop \/ JoinWorkers \/ UNCHANGED vars
    BY <2>1 DEF CheckCompleted, NotifyStop, JoinWorkers, vars, pool, cache, locals
  <2>2. CASE SpuriousWakeup
    BY <2>2 DEF SpuriousWakeup, CallerWakesSpuriously, WakeSpuriously, pool, cache, locals
  <2>3. ASSUME NEW w \in Workers, Worker(w)
        PROVE  UNCHANGED Promise!scannerVars
    <3>1. CASE StoreEntries(w)
      BY <3>1 DEF StoreEntries, CallerNotified, IInv, PoolInv
    <3>2. CASE Sleep(w) \/ Exit(w) \/ TakeScan(w) \/ ScanOnePid(w)
      BY <3>2 DEF Sleep, Exit, TakeScan, ScanOnePid, pool, cache
    <3> QED BY <2>3, <3>1, <3>2 DEF Worker
  <2> QED BY <1>5, <2>1, <2>2, <2>3
<1> QED BY <1>1, <1>2, <1>3, <1>4, <1>5
        DEF Next, Call, Proceed, Terminated, Promise!Next

\* The pool implements a Scanner step by step: from its initial states, every
\* step of caller or workers is a step of the interface or leaves it alone.
\* What the caller is given by Scan is what Scanner promises of the listing.
THEOREM Refines == Spec => Promise!Init /\ [][Promise!Next]_(Promise!scannerVars)
<1>1. Init => Promise!Init
  BY InitRefines
<1>2. IInv /\ ShareInv /\ [Next]_vars => [Promise!Next]_(Promise!scannerVars)
  BY StepRefines
<1> QED BY <1>1, <1>2, SharesInvariance, PTL DEF Spec
=============================================================================
