--------------------------- MODULE FallbackCache ---------------------------
(***************************************************************************)
(* LsofFallbackCache::AppendTo of src/scanner/lsof_fallback.cpp, called at *)
(* the end of every scan of ParallelScanner that could list the processes: *)
(* it runs lsof when the cached entries are too old and appends what the   *)
(* cache holds.                                                            *)
(*                                                                         *)
(* A process stands for its sockets.  lsof (external) reads the processes  *)
(* one after the other, and for the "open" ones there are lines that give  *)
(* an entry; it may fail to start or stop early, which looks like the      *)
(* processes it has not read having no sockets.                            *)
(***************************************************************************)
EXTENDS ProcessWorld

CONSTANTS
  RefreshInterval,  \* kRefreshInterval, in ticks
  MaxLsof           \* how long lsof may run

ASSUME CacheAssumption == RefreshInterval \in Nat \ {0} /\ MaxLsof \in Nat

VARIABLES
  entries,       \* the member entries_
  refresh_age,   \* age of last_refresh_; RefreshInterval when there was none
  lsof_age,      \* how long lsof has been running
  unreported,    \* the processes it has not read yet
  report,        \* the processes its lines give entries of
  failed_age,    \* age of the last failure, up to RefreshInterval
  snapshot       \* by pid: not in it, read by libproc, on lsof's word

lsof == <<lsof_age, unreported, report>>
cacheVars == <<entries, refresh_age, lsof, failed_age, snapshot>>

CacheInit ==
  /\ entries = {}
  /\ refresh_age = RefreshInterval
  /\ lsof_age = 0
  /\ unreported = {}
  /\ report = {}
  /\ failed_age = RefreshInterval
  /\ snapshot = [p \in Pids |-> "none"]

\* The processes cannot be listed: the scan returns with nothing, the cache
\* is neither asked nor refreshed.
FailListing ==
  /\ pc = "waiting"
  /\ pc' = "scanned"
  /\ snapshot' = [p \in Pids |-> "none"]
  /\ UNCHANGED <<entries, refresh_age, lsof, failed_age>>

\* The snapshot as libproc has it: some processes with sockets, for others
\* may be denied or not be listed.
ScanNative(native) ==
  /\ pc = "waiting"
  /\ pc' = "appending"
  /\ native \subseteq WithSockets
  /\ snapshot' = [p \in Pids |-> IF p \in native THEN "native" ELSE "none"]
  /\ UNCHANGED <<entries, refresh_age, lsof, failed_age>>

Appended(cached) ==
  [p \in Pids |-> IF snapshot[p] = "none" /\ p \in cached THEN "lsof" ELSE snapshot[p]]

\* What a call that does not refresh appends.  The slip: nothing.
AppendedCachedSlip == snapshot
AppendedCached == Appended(entries)

\* What such a call makes of last_refresh_.  The slip: it is stamped by every
\* call.
StampSlip == 0
Stamp == refresh_age

AppendCached ==
  /\ pc = "appending"
  /\ pc' = "scanned"
  /\ refresh_age < RefreshInterval
  /\ snapshot' = AppendedCached
  /\ refresh_age' = Stamp
  /\ UNCHANGED <<entries, lsof, failed_age>>

BeginRefresh ==
  /\ pc = "appending"
  /\ refresh_age >= RefreshInterval
  /\ pc' = "refreshing"
  /\ lsof_age' = 0
  /\ unreported' = Pids
  /\ report' = {}
  /\ UNCHANGED <<entries, refresh_age, failed_age, snapshot>>

LsofReads(p) ==
  /\ pc = "refreshing"
  /\ p \in unreported
  /\ unreported' = unreported \ {p}
  /\ report' = IF p \in Open THEN report \cup {p} ELSE report
  /\ UNCHANGED <<pc, entries, refresh_age, lsof_age, failed_age, snapshot>>

\* lsof has returned; the entries are kept and appended, the time is stamped.
EndRefresh(failed) ==
  /\ pc = "refreshing"
  /\ pc' = "scanned"
  /\ failed \/ unreported = {}
  /\ entries' = report
  /\ snapshot' = Appended(entries')
  /\ refresh_age' = 0
  /\ failed_age' = IF failed THEN 0 ELSE failed_age
  /\ lsof_age' = 0
  /\ unreported' = {}
  /\ report' = {}

\* The snapshot is handed on.
ForgetSnapshot ==
  /\ snapshot' = [p \in Pids |-> "none"]
  /\ UNCHANGED <<entries, refresh_age, lsof, failed_age>>

CacheMayTick == pc = "refreshing" => lsof_age < MaxLsof

CacheTick ==
  /\ CacheMayTick
  /\ refresh_age' = Older(refresh_age, RefreshInterval)
  /\ failed_age' = Older(failed_age, RefreshInterval)
  /\ lsof_age' = IF pc = "refreshing" THEN lsof_age + 1 ELSE lsof_age
  /\ UNCHANGED <<entries, unreported, report, snapshot>>

CacheTypeOK ==
  /\ entries \in SUBSET Pids
  /\ refresh_age \in 0 .. RefreshInterval
  /\ lsof_age \in 0 .. MaxLsof
  /\ unreported \in SUBSET Pids
  /\ report \in SUBSET Pids
  /\ failed_age \in 0 .. RefreshInterval
  /\ snapshot \in [Pids -> {"none", "native", "lsof"}]
=============================================================================
