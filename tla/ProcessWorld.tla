---------------------------- MODULE ProcessWorld ----------------------------
(***************************************************************************)
(* What a pass of the pipeline's thread observes (external): processes     *)
(* that start, open and close sockets, use the CPU and exit while time     *)
(* goes on, pids being used again; and where the thread is in its pass.    *)
(*                                                                         *)
(* Time is counted in ticks.  An instant is kept as its age, and an age is *)
(* not told apart from a larger one once it reaches its bound.             *)
(*                                                                         *)
(* A process has no sockets ("quiet"), or only such as CollectLsofFallback *)
(* drops the lines of ("listening": TCP sockets with a state behind their  *)
(* port, see LsofReport), or some of which it makes entries ("open").      *)
(***************************************************************************)
EXTENDS Integers, FiniteSets

CONSTANTS
  Pids,
  Horizon,  \* the bound of the age of a change
  MaxCpu    \* the most CPU time a process uses, in ticks

ASSUME WorldAssumption == Horizon \in Nat /\ MaxCpu \in Nat

VARIABLES
  status,  \* of each pid: "none" for no process, or what sockets it has
  since,   \* age of its last change from or to "open"
  cpu,     \* CPU time its process has used
  used,    \* CPU time its process has used since it started or was sampled
  pc       \* where the thread is: see Places

world == <<status, since, cpu, used>>

\* Between passes; libproc was read; lsof runs; the scan is done; CPU times
\* are read; ps is asked; the snapshot is complete.
Places == {"waiting", "appending", "refreshing", "scanned", "reading", "asking", "complete"}

Alive == {p \in Pids : status[p] # "none"}
Open == {p \in Pids : status[p] = "open"}
WithSockets == {p \in Pids : status[p] \in {"listening", "open"}}

Older(age, bound) == IF age < bound THEN age + 1 ELSE bound

WorldInit ==
  /\ status = [p \in Pids |-> "none"]
  /\ since = [p \in Pids |-> Horizon]
  /\ cpu = [p \in Pids |-> 0]
  /\ used = [p \in Pids |-> 0]

Start(p) ==
  /\ status[p] = "none"
  /\ status' = [status EXCEPT ![p] = "quiet"]
  /\ UNCHANGED <<since, cpu, used>>

Becomes(p, new) ==
  /\ status' = [status EXCEPT ![p] = new]
  /\ since' = [since EXCEPT ![p] = IF "open" \in {status[p], new} THEN 0 ELSE @]

ChangeSockets(p, new) ==
  /\ status[p] \notin {"none", new}
  /\ new \in {"quiet", "listening", "open"}
  /\ Becomes(p, new)
  /\ UNCHANGED <<cpu, used>>

Exit(p) ==
  /\ status[p] # "none"
  /\ Becomes(p, "none")
  /\ cpu' = [cpu EXCEPT ![p] = 0]
  /\ used' = [used EXCEPT ![p] = 0]

WorldStep(p) ==
  \/ Start(p)
  \/ \E new \in {"quiet", "listening", "open"} : ChangeSockets(p, new)
  \/ Exit(p)

\* A tick, all of which some processes use.
WorldTick(busy) ==
  /\ busy \subseteq {p \in Alive : cpu[p] < MaxCpu}
  /\ since' = [p \in Pids |-> Older(since[p], Horizon)]
  /\ cpu' = [p \in Pids |-> IF p \in busy THEN cpu[p] + 1 ELSE cpu[p]]
  /\ used' = [p \in Pids |-> IF p \in busy THEN used[p] + 1 ELSE used[p]]
  /\ UNCHANGED status

WorldTypeOK ==
  /\ status \in [Pids -> {"none", "quiet", "listening", "open"}]
  /\ since \in [Pids -> 0 .. Horizon]
  /\ cpu \in [Pids -> 0 .. MaxCpu]
  /\ used \in [Pids -> 0 .. MaxCpu]
=============================================================================
