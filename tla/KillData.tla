------------------------------ MODULE KillData ------------------------------
(***************************************************************************)
(* The requests a ProcessKiller takes and the results it gives back        *)
(* (include/portui/process_killer.hpp and kill_result.hpp).                *)
(***************************************************************************)
EXTENDS Sorting

CONSTANTS
  Pids,    \* the pids processes may have
  Self     \* getpid()

ASSUME PidsAssumption == Pids \subseteq Nat \ {0} /\ Self \in Pids

Requests == [pid : Pids, force : BOOLEAN]

KillStatus ==
  {"success", "still_running", "permission_denied", "already_exited", "error"}

KillResults == [pid : Pids, status : KillStatus, can_force_kill : BOOLEAN]

\* The pids a call of Dispatch or DispatchForce keeps of the vector it is
\* given: the positive ones, each once.  The slip: all of them.
KeptSlip(batch) == {batch[i] : i \in DOMAIN batch}
Kept(batch) == {p \in {batch[i] : i \in DOMAIN batch} : p > 0}

\* The result of request r: only a SIGTERM that was not enough offers force.
ResultOf(r, status) ==
  [pid |-> r.pid, status |-> status,
   can_force_kill |-> status = "still_running" /\ ~r.force]
=============================================================================
