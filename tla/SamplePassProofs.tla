-------------------------- MODULE SamplePassProofs --------------------------
(***************************************************************************)
(* The passes for any pids, intervals and bounds.  The inductive invariant *)
(* is TypeOK /\ PassInv; the action properties follow from it step by      *)
(* step.                                                                   *)
(***************************************************************************)
EXTENDS SamplePass, FiniteSetTheorems, TLAPS

IInv == TypeOK /\ PassInv

\* An age grows by one at most, and stays in its range.
LEMMA OlderInRange ==
  ASSUME NEW bound \in Nat, NEW a \in 0 .. bound
  PROVE  /\ Older(a, bound) \in 0 .. bound
         /\ a <= Older(a, bound)
         /\ Older(a, bound) <= a + 1
         /\ Older(a, bound) = a + 1 \/ Older(a, bound) = bound
BY DEF Older

----------------------------------------------------------------------------
(* Type correctness *)

LEMMA InitType == Init => TypeOK
BY WorldAssumption, CacheAssumption, UsageAssumption
   DEF Init, WorldInit, CacheInit, UsageInit, TypeOK, WorldTypeOK, CacheTypeOK, UsageTypeOK,
       Places, Samples, NoSamples, NoRows, NoSample

LEMMA HappeningType == TypeOK /\ Happening => TypeOK'
<1>. SUFFICES ASSUME TypeOK, Happening PROVE TypeOK'
  OBVIOUS
<1>. USE WorldAssumption DEF TypeOK, WorldTypeOK
<1>1. PICK p \in Pids : WorldStep(p)
  BY DEF Happening
<1>2. UNCHANGED <<pc, cacheVars, sampling>> /\ steady' \in SUBSET Pids
  BY DEF Happening, UsageTypeOK
<1>3. WorldTypeOK'
  <2>1. CASE Start(p)
    BY <2>1 DEF Start
  <2>2. ASSUME NEW new \in {"quiet", "listening", "open"}, ChangeSockets(p, new)
        PROVE  WorldTypeOK'
    BY <2>2 DEF ChangeSockets, Becomes
  <2>3. CASE Exit(p)
    BY <2>3 DEF Exit, Becomes
  <2>. QED
    BY <1>1, <2>1, <2>2, <2>3 DEF WorldStep
<1>. QED
  BY <1>2, <1>3 DEF cacheVars, lsof, sampling, CacheTypeOK, UsageTypeOK

LEMMA ScanType == TypeOK /\ Scan => TypeOK'
<1>. SUFFICES ASSUME TypeOK, Scan PROVE TypeOK'
  OBVIOUS
<1>. USE CacheAssumption DEF TypeOK, CacheTypeOK, Places
<1>1. UNCHANGED <<world, usageVars>> /\ WorldTypeOK' /\ UsageTypeOK'
  BY DEF Scan, world, usageVars, sampling, WorldTypeOK, UsageTypeOK
<1>2. CASE FailListing \/ \E native \in SUBSET WithSockets : ScanNative(native)
  BY <1>1, <1>2 DEF FailListing, ScanNative, lsof
<1>3. CASE AppendCached
  BY <1>1, <1>3 DEF AppendCached, AppendedCached, Appended, Stamp, lsof
<1>4. CASE BeginRefresh
  BY <1>1, <1>4 DEF BeginRefresh
<1>5. ASSUME NEW p \in Pids, LsofReads(p) PROVE TypeOK'
  BY <1>1, <1>5 DEF LsofReads
<1>6. ASSUME NEW failed \in BOOLEAN, EndRefresh(failed) PROVE TypeOK'
  BY <1>1, <1>6 DEF EndRefresh, Appended
<1>. QED
  BY <1>2, <1>3, <1>4, <1>5, <1>6 DEF Scan

\* The numerator of a share is a natural number.
LEMMA DifferenceType ==
  ASSUME TypeOK, NEW p \in Pids
  PROVE  Difference(p) \in Nat
BY WorldAssumption DEF TypeOK, WorldTypeOK, UsageTypeOK, Samples, NoSample, Difference

LEMMA UsageType == TypeOK /\ Usage => TypeOK'
<1>. SUFFICES ASSUME TypeOK, Usage PROVE TypeOK'
  OBVIOUS
<1>. USE WorldAssumption DEF TypeOK, UsageTypeOK, Places, Samples
<1>1. CacheTypeOK'
  BY DEF Usage, cacheVars, lsof, CacheTypeOK
<1>2. ASSUME NEW p \in Pids, Read(p) PROVE TypeOK'
  <2>1. WorldTypeOK'
    BY <1>2 DEF Read, WorldTypeOK
  <2>2. rows' \in [Pids -> SUBSET [source : {"libproc", "ps"}, cpu : Nat]]
    <3>1. [source |-> "libproc", cpu |-> Difference(p)] \in [source : {"libproc", "ps"}, cpu : Nat]
      BY DifferenceType
    <3>. QED
      BY <1>2, <3>1 DEF Read
  <2>. QED
    BY <1>1, <1>2, <2>1, <2>2 DEF Read, WorldTypeOK
<1>3. ASSUME NEW p \in Pids, Deny(p) PROVE TypeOK'
  BY <1>1, <1>3 DEF Deny, world, WorldTypeOK
<1>4. ASSUME UNCHANGED world, NEW listed \in SUBSET Alive, BeginUsage(listed) PROVE TypeOK'
  BY <1>1, <1>4 DEF BeginUsage, Alive, world, WorldTypeOK, NoSamples, NoRows
<1>5. ASSUME UNCHANGED world, EndReading PROVE TypeOK'
  BY <1>1, <1>5 DEF EndReading, world, WorldTypeOK, NoSamples
<1>6. ASSUME UNCHANGED world, AppendPs PROVE TypeOK'
  <2>1. [source |-> "ps", cpu |-> 0] \in [source : {"libproc", "ps"}, cpu : Nat]
    OBVIOUS
  <2>2. rows' \in [Pids -> SUBSET [source : {"libproc", "ps"}, cpu : Nat]]
    BY <1>6, <2>1 DEF AppendPs
  <2>. QED
    BY <1>1, <1>6, <2>2 DEF AppendPs, world, WorldTypeOK
<1>7. ASSUME UNCHANGED world, FailPs PROVE TypeOK'
  BY <1>1, <1>7 DEF FailPs, world, usageVars, sampling, WorldTypeOK
<1>. QED
  BY <1>2, <1>3, <1>4, <1>5, <1>6, <1>7 DEF Usage

LEMMA EndPassType == TypeOK /\ EndPass => TypeOK'
BY WorldAssumption
   DEF TypeOK, EndPass, EndUsage, ForgetSnapshot, WorldTypeOK, CacheTypeOK, UsageTypeOK, world,
       lsof, Places, NoRows

LEMMA TickType == TypeOK /\ SampleInv /\ Tick => TypeOK'
<1>. SUFFICES ASSUME TypeOK, SampleInv, Tick PROVE TypeOK'
  OBVIOUS
<1>1. PICK busy \in SUBSET Pids : WorldTick(busy)
  BY DEF Tick
<1>2. WorldTypeOK'
  <2>1. \A p \in Pids : Older(since[p], Horizon) \in 0 .. Horizon
    BY OlderInRange, WorldAssumption DEF TypeOK, WorldTypeOK
  <2>2. \A p \in busy : cpu[p] < MaxCpu
    BY <1>1 DEF WorldTick
  <2>3. used' \in [Pids -> 0 .. MaxCpu]
    <3>1. \A p \in Pids : used[p] <= cpu[p]
      BY DEF SampleInv
    <3>2. \A p \in Pids : (IF p \in busy THEN used[p] + 1 ELSE used[p]) \in 0 .. MaxCpu
      BY <2>2, <3>1, WorldAssumption DEF TypeOK, WorldTypeOK
    <3>. QED
      BY <1>1, <3>2 DEF WorldTick
  <2>. QED
    BY <1>1, <2>1, <2>2, <2>3, WorldAssumption DEF TypeOK, WorldTypeOK, WorldTick
<1>3. CacheTypeOK'
  <2>1. refresh_age' \in 0 .. RefreshInterval /\ failed_age' \in 0 .. RefreshInterval
    BY OlderInRange, CacheAssumption DEF Tick, CacheTick, TypeOK, CacheTypeOK
  <2>2. lsof_age' \in 0 .. MaxLsof
    BY CacheAssumption DEF Tick, CacheTick, CacheMayTick, TypeOK, CacheTypeOK
  <2>. QED
    BY <2>1, <2>2 DEF Tick, CacheTick, TypeOK, CacheTypeOK
<1>4. UsageTypeOK'
  BY OlderInRange, WorldAssumption DEF Tick, UsageTick, TypeOK, UsageTypeOK
<1>. QED
  BY <1>2, <1>3, <1>4 DEF TypeOK, Tick

----------------------------------------------------------------------------
(* The cache *)

LEMMA InitCache == Init => CacheInv
BY CacheAssumption DEF Init, WorldInit, CacheInit, CacheInv

\* What happens to a process leaves it with sockets or without, as it was, or
\* makes the change as young as can be.
LEMMA ChangesAreYoung ==
  ASSUME TypeOK, Happening
  PROVE  \A p \in Pids : \/ (status'[p] = "open" <=> status[p] = "open") /\ since'[p] = since[p]
                         \/ since'[p] = 0
<1>1. PICK q \in Pids : WorldStep(q)
  BY DEF Happening
<1>. QED
  BY <1>1 DEF WorldStep, Start, ChangeSockets, Exit, Becomes, TypeOK, WorldTypeOK

LEMMA HappeningCache == TypeOK /\ CacheInv /\ Happening => CacheInv'
<1>. SUFFICES ASSUME TypeOK, CacheInv, Happening PROVE CacheInv'
  OBVIOUS
<1>1. \A p \in Pids : \/ (p \in Open' <=> p \in Open) /\ since'[p] = since[p]
                      \/ since'[p] = 0
  BY ChangesAreYoung DEF Open
<1>2. \A p \in Pids : \/ (status'[p] = "open" <=> status[p] = "open") /\ since'[p] = since[p]
                      \/ since'[p] = 0
  BY ChangesAreYoung
<1>3. UNCHANGED <<pc, entries, refresh_age, lsof_age, unreported, report, failed_age>>
  BY DEF Happening, cacheVars, lsof
<1>4. 0 <= lsof_age /\ 0 <= refresh_age + MaxLsof
  BY CacheAssumption DEF TypeOK, CacheTypeOK
<1>5. report \subseteq Pids /\ entries \subseteq Pids /\ Open' \subseteq Pids
  BY DEF TypeOK, CacheTypeOK, Open
<1>. QED
  BY <1>1, <1>2, <1>3, <1>4, <1>5 DEF CacheInv

LEMMA ScanCache == TypeOK /\ CacheInv /\ Scan => CacheInv'
<1>. SUFFICES ASSUME TypeOK, CacheInv, Scan PROVE CacheInv'
  OBVIOUS
<1>. USE CacheAssumption
<1>1. UNCHANGED <<status, since>> /\ Open' = Open
  BY DEF Scan, world, Open
<1>2. CASE FailListing \/ \E native \in SUBSET WithSockets : ScanNative(native)
  BY <1>1, <1>2 DEF FailListing, ScanNative, lsof, CacheInv
<1>3. CASE AppendCached
  BY <1>1, <1>3 DEF AppendCached, Stamp, lsof, CacheInv
<1>4. CASE BeginRefresh
  BY <1>1, <1>4 DEF BeginRefresh, CacheInv, Open, TypeOK, CacheTypeOK
<1>5. ASSUME NEW p \in Pids, LsofReads(p) PROVE CacheInv'
  <2>1. report \subseteq report' /\ report' \subseteq report \cup (Open \cap {p})
    BY <1>5 DEF LsofReads
  <2>2. Open \ (unreported' \cup report') \subseteq Open \ (unreported \cup report)
    BY <1>5 DEF LsofReads
  <2>3. \A q \in report' : status[q] = "open" \/ since[q] <= lsof_age
    BY <2>1 DEF CacheInv, Open
  <2>. QED
    BY <1>1, <1>5, <2>2, <2>3 DEF LsofReads, CacheInv
<1>6. ASSUME NEW failed \in BOOLEAN, EndRefresh(failed) PROVE CacheInv'
  <2>1. lsof_age <= MaxLsof /\ lsof_age \in Nat
    BY DEF TypeOK, CacheTypeOK
  <2>2. \A q \in entries' : status'[q] = "open" \/ since'[q] <= refresh_age' + MaxLsof
    <3>1. \A q \in report : status[q] = "open" \/ since[q] <= lsof_age
      BY DEF CacheInv
    <3>. QED
      BY <1>1, <1>6, <2>1, <3>1 DEF EndRefresh, TypeOK, WorldTypeOK, CacheTypeOK
  <2>3. failed_age' = RefreshInterval /\ ~failed =>
          \A q \in Open' \ entries' : since'[q] <= refresh_age' + MaxLsof
    <3>1. ASSUME ~failed PROVE \A q \in Open \ report : since[q] <= lsof_age
      BY <1>6, <3>1 DEF EndRefresh, CacheInv
    <3>. QED
      BY <1>1, <1>6, <2>1, <3>1 DEF EndRefresh, TypeOK, WorldTypeOK, Open
  <2>4. failed => failed_age' = 0
    BY <1>6 DEF EndRefresh
  <2>5. failed_age' = refresh_age' \/ failed_age' = RefreshInterval
    BY <1>6 DEF EndRefresh, CacheInv
  <2>6. /\ pc' = "scanned"
        /\ lsof_age' = 0 /\ unreported' = {} /\ report' = {}
    BY <1>6 DEF EndRefresh
  <2>. QED
    BY <2>2, <2>3, <2>4, <2>5, <2>6 DEF CacheInv
<1>. QED
  BY <1>2, <1>3, <1>4, <1>5, <1>6 DEF Scan

LEMMA UsageCache == CacheInv /\ Usage => CacheInv'
<1>. SUFFICES ASSUME CacheInv, Usage PROVE CacheInv'
  OBVIOUS
<1>1. UNCHANGED <<status, since, cacheVars>> /\ Open' = Open
  BY DEF Usage, Read, Deny, world, Open
<1>2. pc # "refreshing" /\ pc' # "refreshing"
  BY DEF Usage, Read, Deny, BeginUsage, EndReading, AppendPs, FailPs
<1>. QED
  BY <1>1, <1>2 DEF CacheInv, cacheVars, lsof

LEMMA EndPassCache == CacheInv /\ EndPass => CacheInv'
BY DEF CacheInv, EndPass, EndUsage, ForgetSnapshot, world, lsof, Open

LEMMA TickCache == TypeOK /\ CacheInv /\ Tick => CacheInv'
<1>. SUFFICES ASSUME TypeOK, CacheInv, Tick PROVE CacheInv'
  OBVIOUS
<1>. USE CacheAssumption
<1>1. UNCHANGED <<pc, status, entries, unreported, report>> /\ Open' = Open
  BY DEF Tick, WorldTick, CacheTick, Open
<1>2. \A p \in Pids : since'[p] <= since[p] + 1 /\ since'[p] \in Nat /\ since'[p] <= Horizon
  <2>1. since' = [p \in Pids |-> Older(since[p], Horizon)]
    BY DEF Tick, WorldTick
  <2>. QED
    BY <2>1, OlderInRange, WorldAssumption DEF TypeOK, WorldTypeOK
<1>3. \A p \in Pids : since[p] \in Nat
  BY DEF TypeOK, WorldTypeOK
<1>4. pc = "refreshing" => lsof_age' = lsof_age + 1
  BY DEF Tick, CacheTick
<1>5. pc # "refreshing" => lsof_age' = lsof_age
  BY DEF Tick, CacheTick
<1>6. /\ refresh_age' = Older(refresh_age, RefreshInterval)
      /\ failed_age' = Older(failed_age, RefreshInterval)
      /\ refresh_age \in 0 .. RefreshInterval /\ failed_age \in 0 .. RefreshInterval
      /\ lsof_age \in Nat
  BY DEF Tick, CacheTick, TypeOK, CacheTypeOK
<1>7. refresh_age' = refresh_age + 1 \/ refresh_age' + MaxLsof = Horizon
  BY <1>6, HorizonAssumption DEF Older
<1>8. pc = "refreshing" => refresh_age' = RefreshInterval
  BY <1>1, <1>6 DEF Older, CacheInv
<1>9. failed_age' = refresh_age' \/ failed_age' = RefreshInterval
  BY <1>6 DEF Older, CacheInv
<1>10. report \subseteq Pids /\ entries \subseteq Pids /\ Open \subseteq Pids
  BY DEF TypeOK, CacheTypeOK, Open
<1>11. \A p \in report' : status'[p] = "open" \/ since'[p] <= lsof_age'
  <2>1. report # {} => pc = "refreshing"
    BY DEF CacheInv
  <2>2. \A p \in report : status[p] = "open" \/ since[p] <= lsof_age
    BY DEF CacheInv
  <2>. QED
    BY <1>1, <1>2, <1>3, <1>4, <1>6, <1>10, <2>1, <2>2
<1>12. \A p \in entries' : status'[p] = "open" \/ since'[p] <= refresh_age' + MaxLsof
  <2>1. \A p \in entries : status[p] = "open" \/ since[p] <= refresh_age + MaxLsof
    BY DEF CacheInv
  <2>. QED
    BY <1>1, <1>2, <1>3, <1>6, <1>7, <1>10, <2>1
<1>13. pc' = "refreshing" =>
         \A p \in Open' \ (unreported' \cup report') : since'[p] <= lsof_age'
  <2>1. pc = "refreshing" => \A p \in Open \ (unreported \cup report) : since[p] <= lsof_age
    BY DEF CacheInv
  <2>. QED
    BY <1>1, <1>2, <1>3, <1>4, <1>6, <1>10, <2>1
<1>14. failed_age' = RefreshInterval /\ refresh_age' < RefreshInterval =>
         \A p \in Open' \ entries' : since'[p] <= refresh_age' + MaxLsof
  <2>1. SUFFICES ASSUME failed_age' = RefreshInterval, refresh_age' < RefreshInterval
                 PROVE  \A p \in Open' \ entries' : since'[p] <= refresh_age' + MaxLsof
    OBVIOUS
  <2>2. failed_age = RefreshInterval /\ refresh_age < RefreshInterval /\ refresh_age' = refresh_age + 1
    BY <1>6, <2>1 DEF Older, CacheInv
  <2>3. \A p \in Open \ entries : since[p] <= refresh_age + MaxLsof
    BY <2>2 DEF CacheInv
  <2>. QED
    BY <1>1, <1>2, <1>3, <1>6, <1>10, <2>2, <2>3
<1>15. pc' # "refreshing" => lsof_age' = 0 /\ unreported' = {} /\ report' = {}
  BY <1>1, <1>5 DEF CacheInv
<1>. QED
  BY <1>1, <1>8, <1>9, <1>11, <1>12, <1>13, <1>14, <1>15 DEF CacheInv

----------------------------------------------------------------------------
(* The samples *)

LEMMA InitSample == Init => SampleInv
BY WorldAssumption
   DEF Init, WorldInit, UsageInit, SampleInv, Sampled, NoSamples, NoSample

\* A process that exits takes what it has used along.
LEMMA HappeningSample == TypeOK /\ SampleInv /\ Happening => SampleInv'
<1>. SUFFICES ASSUME TypeOK, SampleInv, Happening PROVE SampleInv'
  OBVIOUS
<1>1. UNCHANGED <<pc, unread, age, elapsed, previous, next>>
  BY DEF Happening, sampling
<1>2. \A p \in Pids : \/ cpu'[p] = cpu[p] /\ used'[p] = used[p]
                      \/ cpu'[p] = 0 /\ used'[p] = 0
  <2>1. PICK q \in Pids : WorldStep(q)
    BY DEF Happening
  <2>. QED
    BY <2>1 DEF WorldStep, Start, ChangeSockets, Exit, TypeOK, WorldTypeOK
<1>3. \A p \in Pids : Sampled(p)' <=> Sampled(p)
  BY <1>1 DEF Sampled
<1>4. \A p \in Pids : /\ previous[p] # NoSample => previous[p] \in Nat
                      /\ next[p] # NoSample => next[p] \in Nat
  BY DEF TypeOK, UsageTypeOK, Samples
<1>5. age \in Nat /\ elapsed \in Nat
  BY DEF TypeOK, UsageTypeOK
<1>6. \A p \in Pids : Sampled(p)' =>
        /\ cpu'[p] - previous'[p] <= used'[p]
        /\ used'[p] <= IF pc' = "reading" THEN elapsed' + age' ELSE age'
  BY <1>1, <1>2, <1>3, <1>4, <1>5 DEF SampleInv, Sampled
<1>7. \A p \in Pids : next'[p] # NoSample => cpu'[p] - next'[p] <= used'[p] /\ used'[p] <= age'
  BY <1>1, <1>2, <1>4, <1>5 DEF SampleInv
<1>. QED
  BY <1>1, <1>2, <1>6, <1>7 DEF SampleInv

LEMMA ScanSample == SampleInv /\ Scan => SampleInv'
<1>. SUFFICES ASSUME SampleInv, Scan PROVE SampleInv'
  OBVIOUS
<1>1. UNCHANGED <<cpu, used, unread, age, elapsed, previous, next>>
  BY DEF Scan, world, usageVars, sampling
<1>2. pc # "reading" /\ pc' # "reading"
  BY DEF Scan, FailListing, ScanNative, AppendCached, BeginRefresh, LsofReads, EndRefresh
<1>. QED
  BY <1>1, <1>2 DEF SampleInv, Sampled

LEMMA UsageSample == TypeOK /\ SampleInv /\ Usage => SampleInv'
<1>. SUFFICES ASSUME TypeOK, SampleInv, Usage PROVE SampleInv'
  OBVIOUS
<1>. USE DEF Sampled
<1>1. age \in Nat /\ elapsed \in Nat
  BY DEF TypeOK, UsageTypeOK
<1>2. ASSUME NEW p \in Pids, Read(p) PROVE SampleInv'
  <2>1. /\ UNCHANGED <<cpu, pc, age, elapsed, previous>>
        /\ unread' = unread \ {p}
        /\ pc = "reading"
    BY <1>2 DEF Read
  <2>2. /\ next'[p] = cpu[p] /\ used'[p] = 0
        /\ \A q \in Pids \ {p} : next'[q] = next[q] /\ used'[q] = used[q]
    BY <1>2 DEF Read, TypeOK, WorldTypeOK, UsageTypeOK, Samples
  <2>3. \A q \in Pids : cpu[q] \in Nat
    BY DEF TypeOK, WorldTypeOK
  <2>. QED
    BY <1>1, <2>1, <2>2, <2>3 DEF SampleInv
<1>3. ASSUME NEW p \in Pids, Deny(p) PROVE SampleInv'
  BY <1>3 DEF Deny, world, SampleInv
<1>4. ASSUME UNCHANGED world, NEW listed \in SUBSET Alive, BeginUsage(listed) PROVE SampleInv'
  <2>1. /\ UNCHANGED <<cpu, used, previous>>
        /\ pc # "reading" /\ pc' = "reading"
        /\ elapsed' = age /\ age' = 0 /\ next' = NoSamples
    BY <1>4 DEF BeginUsage, world
  <2>2. \A p \in Pids : next'[p] = NoSample
    BY <2>1 DEF NoSamples
  <2>3. age' <= MaxDelay
    BY <2>1, UsageAssumption
  <2>4. elapsed' + age' = age
    BY <1>1, <2>1
  <2>. QED
    BY <2>1, <2>2, <2>3, <2>4 DEF SampleInv
<1>5. ASSUME UNCHANGED world, EndReading PROVE SampleInv'
  <2>1. /\ UNCHANGED <<cpu, used, age>>
        /\ pc' = "asking" /\ previous' = next /\ next' = NoSamples
    BY <1>5 DEF EndReading, world
  <2>2. \A p \in Pids : next'[p] = NoSample
    BY <2>1 DEF NoSamples
  <2>. QED
    BY <2>1, <2>2 DEF SampleInv
<1>6. ASSUME UNCHANGED world, AppendPs \/ FailPs PROVE SampleInv'
  <2>1. UNCHANGED <<cpu, used, unread, age, elapsed, previous, next>>
    BY <1>6 DEF AppendPs, FailPs, usageVars, sampling, world
  <2>2. pc # "reading" /\ pc' # "reading"
    BY <1>6 DEF AppendPs, FailPs
  <2>. QED
    BY <2>1, <2>2 DEF SampleInv
<1>. QED
  BY <1>2, <1>3, <1>4, <1>5, <1>6 DEF Usage

LEMMA EndPassSample == SampleInv /\ EndPass => SampleInv'
<1>. SUFFICES ASSUME SampleInv, EndPass PROVE SampleInv'
  OBVIOUS
<1>1. UNCHANGED <<cpu, used, unread, age, previous, next>>
  BY DEF EndPass, EndUsage, world
<1>2. pc # "reading" /\ pc' # "reading"
  BY DEF EndPass, EndUsage
<1>. QED
  BY <1>1, <1>2 DEF SampleInv, Sampled

\* A tick adds to what was used and to the age of the samples.
LEMMA TickSample == TypeOK /\ SampleInv /\ Tick => SampleInv'
<1>. SUFFICES ASSUME TypeOK, SampleInv, Tick PROVE SampleInv'
  OBVIOUS
<1>1. UNCHANGED <<pc, unread, elapsed, previous, next>>
  BY DEF Tick, UsageTick
<1>2. PICK busy \in SUBSET Pids : WorldTick(busy)
  BY DEF Tick
<1>3. \A p \in Pids : \/ cpu'[p] = cpu[p] /\ used'[p] = used[p]
                      \/ cpu'[p] = cpu[p] + 1 /\ used'[p] = used[p] + 1
  BY <1>2 DEF WorldTick
<1>4. \A p \in Pids : used'[p] <= MaxCpu
  BY TickType DEF TypeOK, WorldTypeOK
<1>5. \A p \in Pids : cpu[p] \in Nat /\ used[p] \in Nat
  BY DEF TypeOK, WorldTypeOK
<1>6. /\ age \in Nat /\ elapsed \in Nat /\ age' \in Nat
      /\ age' = age + 1 \/ age' = MaxCpu
      /\ age' >= age
      /\ age' <= age + 1
  BY OlderInRange, WorldAssumption DEF Tick, UsageTick, TypeOK, UsageTypeOK
<1>7. pc' = "reading" => age' <= MaxDelay
  BY <1>1, <1>6, UsageAssumption DEF Tick, UsageTick, UsageMayTick
<1>8. \A p \in Pids : /\ previous[p] # NoSample => previous[p] \in Nat
                      /\ next[p] # NoSample => next[p] \in Nat
  BY DEF TypeOK, UsageTypeOK, Samples
<1>9. ASSUME NEW p \in Pids, Sampled(p)'
      PROVE  /\ cpu'[p] - previous'[p] <= used'[p]
             /\ used'[p] <= IF pc' = "reading" THEN elapsed' + age' ELSE age'
  <2>1. /\ cpu[p] - previous[p] <= used[p]
        /\ used[p] <= IF pc = "reading" THEN elapsed + age ELSE age
    BY <1>1, <1>9 DEF SampleInv, Sampled
  <2>2. previous[p] \in Nat
    BY <1>1, <1>8, <1>9 DEF Sampled
  <2>3. cpu'[p] - previous'[p] <= used'[p]
    BY <1>1, <1>3, <1>5, <2>1, <2>2
  <2>4. used'[p] <= used[p] + 1 /\ used'[p] \in Nat
    BY <1>3, <1>5
  <2>5. CASE pc = "reading"
    BY <1>1, <1>4, <1>5, <1>6, <2>1, <2>3, <2>4, <2>5
  <2>6. CASE pc # "reading"
    BY <1>1, <1>4, <1>5, <1>6, <2>1, <2>3, <2>4, <2>6
  <2>. QED
    BY <2>5, <2>6
<1>10. ASSUME NEW p \in Pids, next'[p] # NoSample
       PROVE  cpu'[p] - next'[p] <= used'[p] /\ used'[p] <= age'
  <2>1. next[p] \in Nat /\ cpu[p] - next[p] <= used[p] /\ used[p] <= age
    BY <1>1, <1>8, <1>10 DEF SampleInv
  <2>. QED
    BY <1>1, <1>3, <1>4, <1>5, <1>6, <2>1
<1>11. \A p \in Pids : used'[p] <= cpu'[p]
  BY <1>3, <1>5 DEF SampleInv
<1>12. pc' # "reading" => next' = NoSamples
  BY <1>1 DEF SampleInv, NoSamples
<1>. QED
  BY <1>7, <1>9, <1>10, <1>11, <1>12 DEF SampleInv

----------------------------------------------------------------------------
(* The rows *)

LEMMA InitRows == Init => RowsInv
BY DEF Init, UsageInit, RowsInv, NoRows

LEMMA HappeningRows == RowsInv /\ Happening => RowsInv'
BY DEF RowsInv, Happening, sampling

LEMMA ScanRows == RowsInv /\ Scan => RowsInv'
<1>. SUFFICES ASSUME RowsInv, Scan PROVE RowsInv'
  OBVIOUS
<1>1. UNCHANGED rows
  BY DEF Scan, usageVars, sampling
<1>2. pc' \notin {"reading", "asking"}
  BY DEF Scan, FailListing, ScanNative, AppendCached, BeginRefresh, LsofReads, EndRefresh
<1>. QED
  BY <1>1, <1>2 DEF RowsInv

LEMMA UsageRows == TypeOK /\ RowsInv /\ Usage => RowsInv'
<1>. SUFFICES ASSUME TypeOK, RowsInv, Usage PROVE RowsInv'
  OBVIOUS
<1>1. ASSUME NEW p \in Pids, Read(p) PROVE RowsInv'
  <2>1. UNCHANGED <<pc, steady, status>> /\ pc = "reading" /\ p \in unread /\ unread' = unread \ {p}
    BY <1>1 DEF Read
  <2>2. rows[p] = {}
    BY <2>1 DEF RowsInv
  <2>3. /\ \E row : rows'[p] = {row}
        /\ \A q \in Pids \ {p} : rows'[q] = rows[q]
    BY <1>1, <2>2 DEF Read, TypeOK, UsageTypeOK
  <2>4. unread \subseteq Pids
    BY DEF TypeOK, UsageTypeOK
  <2>5. Alive' = Alive
    BY <2>1 DEF Alive
  <2>. QED
    BY <2>1, <2>3, <2>4, <2>5 DEF RowsInv
<1>2. ASSUME NEW p \in Pids, Deny(p) PROVE RowsInv'
  BY <1>2 DEF Deny, world, RowsInv, Alive
<1>3. ASSUME UNCHANGED world, NEW listed \in SUBSET Alive, BeginUsage(listed) PROVE RowsInv'
  BY <1>3 DEF BeginUsage, world, RowsInv, Alive, NoRows
<1>4. ASSUME UNCHANGED world, EndReading PROVE RowsInv'
  BY <1>4 DEF EndReading, world, RowsInv, Alive
<1>5. ASSUME UNCHANGED world, AppendPs PROVE RowsInv'
  <2>1. pc' = "complete"
    BY <1>5 DEF AppendPs
  <2>2. \A p \in Pids : rows'[p] = rows[p] \/ \E row : rows'[p] = {row}
    BY <1>5 DEF AppendPs, PsAdds
  <2>. QED
    BY <2>1, <2>2 DEF RowsInv
<1>6. ASSUME UNCHANGED world, FailPs PROVE RowsInv'
  BY <1>6 DEF FailPs, usageVars, sampling, RowsInv
<1>. QED
  BY <1>1, <1>2, <1>3, <1>4, <1>5, <1>6 DEF Usage

LEMMA EndPassRows == RowsInv /\ EndPass => RowsInv'
BY DEF RowsInv, EndPass, EndUsage, NoRows

LEMMA TickRows == RowsInv /\ Tick => RowsInv'
BY DEF RowsInv, Tick, UsageTick, WorldTick, Alive

----------------------------------------------------------------------------
(* The theorems *)

LEMMA Invariance == Spec => []IInv
<1>1. Init => IInv
  BY InitType, InitCache, InitSample, InitRows DEF IInv, PassInv
<1>2. IInv /\ [Next]_vars => IInv'
  <2>. SUFFICES ASSUME IInv, [Next]_vars PROVE IInv'
    OBVIOUS
  <2>. USE DEF IInv, PassInv
  <2>1. CASE Happening
    BY <2>1, HappeningType, HappeningCache, HappeningSample, HappeningRows
  <2>2. CASE Scan
    BY <2>2, ScanType, ScanCache, ScanSample, ScanRows
  <2>3. CASE Usage
    BY <2>3, UsageType, UsageCache, UsageSample, UsageRows
  <2>4. CASE EndPass
    BY <2>4, EndPassType, EndPassCache, EndPassSample, EndPassRows
  <2>5. CASE Tick
    BY <2>5, TickType, TickCache, TickSample, TickRows
  <2>6. CASE UNCHANGED vars
    <3>1. TypeOK'
      BY <2>6 DEF vars, world, cacheVars, lsof, usageVars, sampling, TypeOK, WorldTypeOK,
                  CacheTypeOK, UsageTypeOK
    <3>2. PassInv'
      BY <2>6 DEF vars, world, cacheVars, lsof, usageVars, sampling, CacheInv, SampleInv, Sampled,
                  RowsInv, Open, Alive
    <3>. QED
      BY <3>1, <3>2
  <2>. QED
    BY <2>1, <2>2, <2>3, <2>4, <2>5, <2>6 DEF Next
<1>. QED
  BY <1>1, <1>2, PTL DEF Spec

\* The cache, lsof and the samples keep their types, for any pids, intervals
\* and bounds.
THEOREM TypeCorrect == Spec => []TypeOK
BY Invariance, PTL DEF IInv

\* No entry that LsofFallbackCache appends is of a process that for an interval
\* and a run of lsof has had no sockets of which lsof's lines give an entry.
THEOREM FallbackRecent == Spec => FallbackIsRecent
<1>1. ASSUME IInv, [Next]_vars
      PROVE  \A p \in Pids :
               snapshot'[p] = "lsof" /\ snapshot[p] # "lsof" /\ status[p] # "open" =>
                 since[p] < Horizon
  <2>. SUFFICES ASSUME NEW p \in Pids, snapshot'[p] = "lsof", snapshot[p] # "lsof",
                       status[p] # "open"
                PROVE  since[p] < Horizon
    OBVIOUS
  <2>. USE CacheAssumption, HorizonAssumption
  <2>1. /\ since[p] \in Nat /\ refresh_age \in 0 .. RefreshInterval /\ lsof_age \in 0 .. MaxLsof
        /\ report \subseteq Pids /\ entries \subseteq Pids
    BY <1>1 DEF IInv, TypeOK, WorldTypeOK, CacheTypeOK
  <2>2. CASE AppendCached
    <3>1. p \in entries /\ refresh_age < RefreshInterval
      BY <2>2 DEF AppendCached, AppendedCached, Appended
    <3>2. since[p] <= refresh_age + MaxLsof
      BY <1>1, <3>1 DEF IInv, PassInv, CacheInv
    <3>. QED
      BY <2>1, <3>1, <3>2
  <2>3. ASSUME NEW failed \in BOOLEAN, EndRefresh(failed) PROVE since[p] < Horizon
    <3>1. p \in report
      BY <2>3 DEF EndRefresh, Appended
    <3>2. since[p] <= lsof_age
      BY <1>1, <3>1 DEF IInv, PassInv, CacheInv
    <3>. QED
      BY <2>1, <3>2
  <2>4. \/ AppendCached
        \/ \E failed \in BOOLEAN : EndRefresh(failed)
    <3>1. CASE Scan
      BY <3>1 DEF Scan, FailListing, ScanNative, BeginRefresh, LsofReads
    <3>2. ~ EndPass
      BY DEF EndPass, ForgetSnapshot
    <3>. QED
      BY <1>1, <3>1, <3>2
         DEF Next, Happening, Usage, Tick, CacheTick, cacheVars, vars
  <2>. QED
    BY <2>2, <2>3, <2>4
<1>. QED
  BY <1>1, Invariance, PTL DEF Spec, FallbackIsRecent

\* A process that has had sockets of which lsof's lines give an entry for an
\* interval and a run of lsof is in the snapshot of every scan that could list
\* the processes, unless lsof has failed within the interval.
THEOREM FallbackComplete == Spec => FallbackIsComplete
<1>1. ASSUME IInv, [Next]_vars
      PROVE  pc' = "scanned" /\ pc \in {"appending", "refreshing"} =>
               \A p \in Open :
                 since[p] >= Horizon /\ failed_age' >= RefreshInterval => snapshot'[p] # "none"
  <2>. SUFFICES ASSUME pc' = "scanned", pc \in {"appending", "refreshing"}, NEW p \in Open,
                       since[p] >= Horizon, failed_age' >= RefreshInterval
                PROVE  snapshot'[p] # "none"
    OBVIOUS
  <2>. USE CacheAssumption, HorizonAssumption
  <2>1. /\ p \in Pids /\ since[p] \in Nat /\ snapshot[p] \in {"none", "native", "lsof"}
        /\ refresh_age \in 0 .. RefreshInterval /\ lsof_age \in 0 .. MaxLsof
        /\ failed_age \in 0 .. RefreshInterval
    BY <1>1 DEF IInv, TypeOK, WorldTypeOK, CacheTypeOK, Open
  <2>2. CASE AppendCached
    <3>1. failed_age = RefreshInterval /\ refresh_age < RefreshInterval
      BY <2>1, <2>2 DEF AppendCached
    <3>2. p \notin entries => since[p] <= refresh_age + MaxLsof
      BY <1>1, <3>1 DEF IInv, PassInv, CacheInv
    <3>3. p \in entries
      BY <2>1, <3>1, <3>2
    <3>. QED
      BY <2>1, <2>2, <3>3 DEF AppendCached, AppendedCached, Appended
  <2>3. ASSUME NEW failed \in BOOLEAN, EndRefresh(failed) PROVE snapshot'[p] # "none"
    <3>1. pc = "refreshing" /\ unreported = {}
      BY <2>3 DEF EndRefresh
    <3>2. p \notin report => since[p] <= lsof_age
      BY <1>1, <3>1 DEF IInv, PassInv, CacheInv
    <3>3. p \in report
      BY <2>1, <3>2
    <3>. QED
      BY <2>1, <2>3, <3>3 DEF EndRefresh, Appended
  <2>4. \/ AppendCached
        \/ \E failed \in BOOLEAN : EndRefresh(failed)
    <3>1. CASE Scan
      BY <3>1 DEF Scan, FailListing, ScanNative, BeginRefresh, LsofReads
    <3>2. CASE Usage
      BY <3>2 DEF Usage, Read, Deny, BeginUsage, EndReading, AppendPs, FailPs
    <3>3. ~ EndPass
      BY DEF EndPass, EndUsage
    <3>. QED
      BY <1>1, <3>1, <3>2, <3>3 DEF Next, Happening, Tick, vars
  <2>. QED
    BY <2>2, <2>3, <2>4
<1>. QED
  BY <1>1, Invariance, PTL DEF Spec, FallbackIsComplete

\* The rows that a step adds for libproc are those of a process that is read.
LEMMA LibprocRows ==
  ASSUME TypeOK, Next, NEW p \in Pids, NEW row \in rows'[p] \ rows[p], row.source = "libproc"
  PROVE  Read(p) /\ row.cpu = Difference(p)
<1>1. Usage
  <2>1. ~ EndPass
    BY DEF EndPass, EndUsage, NoRows
  <2>. QED
    BY <2>1 DEF Next, Happening, Scan, Tick, UsageTick, usageVars, sampling
<1>2. PICK q \in Pids : Read(q)
  <2>1. ~ AppendPs
    BY DEF AppendPs
  <2>. QED
    BY <1>1, <2>1 DEF Usage, Deny, BeginUsage, EndReading, FailPs, usageVars, sampling, NoRows
<1>3. rows' = [rows EXCEPT ![q] = @ \cup {[source |-> "libproc", cpu |-> Difference(q)]}]
  BY <1>2 DEF Read
<1>4. q = p /\ row = [source |-> "libproc", cpu |-> Difference(p)]
  BY <1>3 DEF TypeOK, UsageTypeOK
<1>. QED
  BY <1>2, <1>4

\* Every share PopulateProcessUsage computes is of CPU time the process itself
\* has used, since the sample before and while this pass was reading.
THEOREM SharesEarned == Spec => SharesAreEarned
<1>1. ASSUME IInv, [Next]_vars
      PROVE  \A p \in Pids : \A row \in rows'[p] \ rows[p] :
               row.source = "libproc" => row.cpu <= used[p] /\ row.cpu <= elapsed + MaxDelay
  <2>. SUFFICES ASSUME NEW p \in Pids, NEW row \in rows'[p] \ rows[p], row.source = "libproc"
                PROVE  row.cpu <= used[p] /\ row.cpu <= elapsed + MaxDelay
    OBVIOUS
  <2>1. Next
    BY <1>1 DEF vars, usageVars, sampling
  <2>2. Read(p) /\ row.cpu = Difference(p)
    BY <1>1, <2>1, LibprocRows DEF IInv
  <2>3. /\ used[p] \in Nat /\ age \in Nat /\ elapsed \in Nat /\ cpu[p] \in Nat
        /\ age <= MaxDelay
    BY <1>1, <2>2 DEF Read, IInv, PassInv, SampleInv, TypeOK, WorldTypeOK, UsageTypeOK
  <2>4. CASE previous[p] = NoSample
    BY <2>2, <2>3, <2>4, UsageAssumption DEF Difference
  <2>5. CASE previous[p] # NoSample
    <3>1. previous[p] \in Nat
      BY <1>1, <2>5 DEF IInv, TypeOK, UsageTypeOK, Samples
    <3>2. cpu[p] - previous[p] <= used[p] /\ used[p] <= elapsed + age
      BY <1>1, <2>2, <2>5 DEF Read, IInv, PassInv, SampleInv, Sampled
    <3>. QED
      BY <2>2, <2>3, <3>1, <3>2, UsageAssumption DEF Difference
  <2>. QED
    BY <2>4, <2>5
<1>. QED
  BY <1>1, Invariance, PTL DEF Spec, SharesAreEarned

\* No process has two rows of usage figures, and none that is there while they
\* are taken has none.
THEOREM OneRowEach == Spec => OneRowPerProcess
<1>1. ASSUME IInv
      PROVE  AppendPs => \A p \in Pids : /\ Cardinality(rows'[p]) <= 1
                                         /\ p \in steady => rows'[p] # {}
  <2>. SUFFICES ASSUME AppendPs, NEW p \in Pids
                PROVE  /\ Cardinality(rows'[p]) <= 1
                       /\ p \in steady => rows'[p] # {}
    OBVIOUS
  <2>1. steady \subseteq Alive
    BY <1>1 DEF AppendPs, IInv, PassInv, RowsInv
  <2>2. rows'[p] = {} \/ \E row : rows'[p] = {row}
    BY <1>1 DEF AppendPs, PsAdds, IInv, PassInv, RowsInv
  <2>3. Cardinality(rows'[p]) <= 1
    <3>1. CASE rows'[p] = {}
      <4>1. Cardinality(rows'[p]) = 0
        BY <3>1, FS_EmptySet
      <4>. QED
        BY <4>1
    <3>2. CASE \E row : rows'[p] = {row}
      <4>1. PICK row : rows'[p] = {row}
        BY <3>2
      <4>2. Cardinality({row}) = 1
        BY FS_Singleton
      <4>. QED
        BY <4>1, <4>2
    <3>. QED
      BY <2>2, <3>1, <3>2
  <2>4. p \in steady => rows'[p] # {}
    BY <2>1 DEF AppendPs, PsAdds
  <2>. QED
    BY <2>3, <2>4
<1>. QED
  BY <1>1, Invariance, PTL DEF Spec, OneRowPerProcess
=============================================================================
