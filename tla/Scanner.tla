------------------------------ MODULE Scanner ------------------------------
(***************************************************************************)
(* What a Scanner (include/portui/scanner.hpp) promises to its owner,      *)
(* whatever its implementation: a call of Scan lists the processes and     *)
(* returns one snapshot in which every listed process libproc can read is  *)
(* counted exactly as often as it was listed, and any other process at     *)
(* most once, on the word of the lsof fallback.                            *)
(***************************************************************************)
EXTENDS ScanData

VARIABLES
  phase,     \* "idle", "scanning" or "closed"
  listing,   \* the pids of the scan in progress, of the last one when idle
  snapshot   \* what the last completed Scan returned

scannerVars == <<phase, listing, snapshot>>

Native(l) == [p \in Pids |-> IF p \in Hidden THEN 0 ELSE Occurrences(l, p)]

Init ==
  /\ phase = "idle"
  /\ listing = <<>>
  /\ snapshot = EmptySnapshot

Begin(l) ==
  /\ phase = "idle"
  /\ phase' = "scanning"
  /\ listing' = l
  /\ UNCHANGED snapshot

Return ==
  /\ phase = "scanning"
  /\ phase' = "idle"
  /\ \E cached \in Reports \cup {{}} : snapshot' = AppendFallback(Native(listing), cached)
  /\ UNCHANGED listing

\* The listing failed, nothing native is known.
ReturnWithoutListing ==
  /\ phase = "idle"
  /\ \E cached \in Reports \cup {{}} : snapshot' = AppendFallback(EmptySnapshot, cached)
  /\ UNCHANGED <<phase, listing>>

Close ==
  /\ phase = "idle"
  /\ phase' = "closed"
  /\ UNCHANGED <<listing, snapshot>>

Next ==
  \/ \E l \in Listings : Begin(l)
  \/ Return
  \/ ReturnWithoutListing
  \/ Close

\* A scan that has begun returns; nobody has to begin one or to close.
Spec == Init /\ [][Next]_scannerVars /\ WF_scannerVars(Return)
=============================================================================
