------------------------------ MODULE ScanData ------------------------------
(***************************************************************************)
(* The data the scanners share: process listings and snapshots.            *)
(*                                                                         *)
(* A process stands for the sockets that ScanPid reads from it, so a       *)
(* snapshot is the number of times each process contributed.  That number  *)
(* is what FinalizeSnapshot turns into fd_count: scanning a process twice  *)
(* would double the descriptors shown for each of its sockets.             *)
(***************************************************************************)
EXTENDS Naturals, FiniteSets, Sequences

CONSTANTS
  Listings,  \* the pid sequences ListAllPids may return when it succeeds
  Hidden,    \* the pids whose descriptors libproc refuses to show
  Reports    \* the sets of pids lsof may report sockets of

Pids == UNION {{l[i] : i \in DOMAIN l} : l \in Listings}

ASSUME ListingsAssumption ==
  /\ Listings \subseteq Seq(Pids)
  /\ <<>> \notin Listings
  /\ Listings # {}
  /\ Reports \subseteq SUBSET Pids

\* How often a vector of entries mentions process p.
Occurrences(s, p) == Cardinality({i \in DOMAIN s : s[i] = p})

\* What ScanPid contributes to a vector of entries.
ScanPid(p) == IF p \in Hidden THEN <<>> ELSE <<p>>

EmptySnapshot == [p \in Pids |-> 0]

\* LsofFallbackCache::AppendTo: a cached entry is appended unless the
\* snapshot already HasSocket.
AppendFallback(native, cached) ==
  [p \in Pids |-> IF native[p] = 0 /\ p \in cached THEN 1 ELSE native[p]]
=============================================================================
