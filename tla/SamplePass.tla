----------------------------- MODULE SamplePass -----------------------------
(***************************************************************************)
(* The passes of SnapshotPipeline::Run (src/core/snapshot_pipeline.cpp):   *)
(* one scan, which ends with the lsof fallback, and the figures of         *)
(* PopulateProcessUsage, over processes that come, go and are replaced.    *)
(* What the thread does with the snapshot then is in SnapshotPipeline.     *)
(***************************************************************************)
EXTENDS FallbackCache, ProcessUsage

\* Nothing is older than what a report of lsof may be when it is appended.
ASSUME HorizonAssumption == Horizon = RefreshInterval + MaxLsof

vars == <<world, pc, cacheVars, usageVars>>

Init == WorldInit /\ pc = "waiting" /\ CacheInit /\ UsageInit

\* The processes that exit are not the ones that were listed any more.
Happening ==
  /\ \E p \in Pids : WorldStep(p)
  /\ steady' = steady \cap Alive'
  /\ UNCHANGED <<pc, cacheVars, sampling>>

\* Scan.
Scan ==
  /\ \/ FailListing
     \/ \E native \in SUBSET WithSockets : ScanNative(native)
     \/ AppendCached
     \/ BeginRefresh
     \/ \E p \in Pids : LsofReads(p)
     \/ \E failed \in BOOLEAN : EndRefresh(failed)
  /\ UNCHANGED <<world, usageVars>>

\* PopulateProcessUsage.
Usage ==
  /\ \/ \E p \in Pids : Read(p) \/ Deny(p)
     \/ /\ \/ \E listed \in SUBSET Alive : BeginUsage(listed)
           \/ EndReading
           \/ AppendPs
           \/ FailPs
        /\ UNCHANGED world
  /\ UNCHANGED cacheVars

\* The iteration ends.
EndPass ==
  /\ EndUsage
  /\ ForgetSnapshot
  /\ UNCHANGED world

Tick ==
  /\ \E busy \in SUBSET Pids : WorldTick(busy)
  /\ CacheTick
  /\ UsageTick
  /\ UNCHANGED pc

Next ==
  \/ Happening
  \/ Scan
  \/ Usage
  \/ EndPass
  \/ Tick

Spec == Init /\ [][Next]_vars

----------------------------------------------------------------------------
(* Properties *)

TypeOK ==
  /\ WorldTypeOK
  /\ pc \in Places
  /\ CacheTypeOK
  /\ UsageTypeOK

\* A process that the snapshot has on the word of lsof had sockets of which its
\* lines give an entry not longer ago than the interval of the refreshes and one
\* run of lsof: rows of processes that have exited, or closed their sockets, go
\* away.
FallbackIsRecent ==
  [][\A p \in Pids :
       snapshot'[p] = "lsof" /\ snapshot[p] # "lsof" /\ status[p] # "open" =>
         since[p] < Horizon]_vars

\* A process that so long has had sockets of which the lines of lsof give an
\* entry is in the snapshot of every scan that could list the processes,
\* however libproc is denied, unless lsof has failed within the interval: a
\* failure is not kept longer than a good answer, and a scan that could not
\* list the processes costs no other its entries.  Nothing is said of that
\* scan, which returns no entry at all, nor of processes whose sockets all
\* listen, which only libproc shows.
FallbackIsComplete ==
  [][pc' = "scanned" /\ pc \in {"appending", "refreshing"} =>
       \A p \in Open :
         since[p] >= Horizon /\ failed_age' >= RefreshInterval => snapshot'[p] # "none"]_vars

\* The CPU time a share is computed from was used by the process it is shown
\* for, though the sample before may be of another with the same pid; it was
\* used within the time it is divided by, but for the time that a pass needs
\* to read.
SharesAreEarned ==
  [][\A p \in Pids : \A row \in rows'[p] \ rows[p] :
       row.source = "libproc" => row.cpu <= used[p] /\ row.cpu <= elapsed + MaxDelay]_vars

\* When ps has answered, every process that was there all the time has one
\* row, whether libproc was denied or not, and none has two: the totals count
\* no process twice.
OneRowPerProcess ==
  [][AppendPs => \A p \in Pids : /\ Cardinality(rows'[p]) <= 1
                                 /\ p \in steady => rows'[p] # {}]_vars

\* The invariants that carry the others.  Of the cache: what lsof has seen was
\* there since lsof began, what it has not seen was not; a failure is as old as
\* the last refresh or it is over.
CacheInv ==
  /\ pc # "refreshing" => lsof_age = 0 /\ unreported = {} /\ report = {}
  /\ pc = "refreshing" => refresh_age = RefreshInterval
  /\ failed_age = refresh_age \/ failed_age = RefreshInterval
  /\ \A p \in report : status[p] = "open" \/ since[p] <= lsof_age
  /\ \A p \in entries : status[p] = "open" \/ since[p] <= refresh_age + MaxLsof
  /\ pc = "refreshing" =>
       \A p \in Open \ (unreported \cup report) : since[p] <= lsof_age
  /\ failed_age = RefreshInterval /\ refresh_age < RefreshInterval =>
       \A p \in Open \ entries : since[p] <= refresh_age + MaxLsof

\* What a process has used beyond its sample it has used since, and since then
\* is not before the time the sample is stamped with.
Sampled(p) == previous[p] # NoSample /\ (pc = "reading" => p \in unread)

SampleInv ==
  /\ \A p \in Pids : used[p] <= cpu[p]
  /\ pc = "reading" => age <= MaxDelay
  /\ pc # "reading" => next = NoSamples
  /\ \A p \in Pids : Sampled(p) =>
       /\ cpu[p] - previous[p] <= used[p]
       /\ used[p] <= IF pc = "reading" THEN elapsed + age ELSE age
  /\ \A p \in Pids : next[p] # NoSample => cpu[p] - next[p] <= used[p] /\ used[p] <= age

RowsInv ==
  /\ pc \in {"reading", "asking"} => steady \subseteq Alive
  /\ pc = "reading" => \A p \in unread : rows[p] = {}
  /\ \A p \in Pids : rows[p] = {} \/ \E row \in rows[p] : rows[p] = {row}

PassInv == CacheInv /\ SampleInv /\ RowsInv
=============================================================================
