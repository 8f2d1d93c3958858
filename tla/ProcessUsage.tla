---------------------------- MODULE ProcessUsage ----------------------------
(***************************************************************************)
(* PopulateProcessUsage of src/core/process_usage.cpp: CPU shares from the *)
(* CPU times of two passes, and ps for the processes libproc does not      *)
(* show.  Memory, names and parents are copied and left out.               *)
(*                                                                         *)
(* All entries of previous carry the time of the pass they are of, for the *)
(* map is replaced as a whole.  A share is kept as its numerator, the      *)
(* difference of two CPU times; its denominator is elapsed.                *)
(***************************************************************************)
EXTENDS ProcessWorld

CONSTANT MaxDelay  \* how long a pass may take to read the CPU times

ASSUME UsageAssumption == MaxDelay \in Nat

NoSample == -1

VARIABLES
  unread,    \* the pids listed and not read yet
  age,       \* age of the last now
  elapsed,   \* what now was later than the time of the pass before
  previous,  \* the sample of each pid in the pass before, and in this one
  next,
  rows,      \* the rows of process_usage, by pid
  steady     \* the processes alive since the pids were listed

sampling == <<unread, age, elapsed, previous, next, rows>>
usageVars == <<sampling, steady>>

NoSamples == [p \in Pids |-> NoSample]
NoRows == [p \in Pids |-> {}]

UsageInit ==
  /\ unread = {}
  /\ age = MaxCpu
  /\ elapsed = 0
  /\ previous = NoSamples
  /\ next = NoSamples
  /\ rows = NoRows
  /\ steady = {}

\* The listing may fail or be of some of the processes.
BeginUsage(listed) ==
  /\ pc = "scanned"
  /\ pc' = "reading"
  /\ listed \subseteq Alive
  /\ unread' = listed
  /\ steady' = Alive
  /\ elapsed' = age
  /\ age' = 0
  /\ next' = NoSamples
  /\ rows' = NoRows
  /\ UNCHANGED previous

\* The numerator of the share.  The slips: the CPU times are subtracted without
\* being compared first, as unsigned numbers of four bits, or as signed ones.
DifferenceSlip(p) ==
  IF previous[p] # NoSample /\ elapsed > 0 THEN (cpu[p] - previous[p]) % 2 ^ 4 ELSE 0
DifferenceSignedSlip(p) ==
  IF previous[p] # NoSample /\ elapsed > 0 THEN cpu[p] - previous[p] ELSE 0
Difference(p) ==
  IF previous[p] # NoSample /\ cpu[p] >= previous[p] /\ elapsed > 0
  THEN cpu[p] - previous[p]
  ELSE 0

\* One turn of the loop; libproc may deny the process, and does when it has
\* exited.
Read(p) ==
  /\ pc = "reading"
  /\ p \in unread \cap Alive
  /\ unread' = unread \ {p}
  /\ next' = [next EXCEPT ![p] = cpu[p]]
  /\ rows' = [rows EXCEPT ![p] = @ \cup {[source |-> "libproc", cpu |-> Difference(p)]}]
  /\ used' = [used EXCEPT ![p] = 0]
  /\ UNCHANGED <<status, since, cpu, pc, age, elapsed, previous, steady>>

Deny(p) ==
  /\ pc = "reading"
  /\ p \in unread
  /\ unread' = unread \ {p}
  /\ UNCHANGED <<world, pc, age, elapsed, previous, next, rows, steady>>

EndReading ==
  /\ pc = "reading"
  /\ pc' = "asking"
  /\ unread = {}
  /\ previous' = next
  /\ next' = NoSamples
  /\ UNCHANGED <<unread, age, elapsed, rows, steady>>

\* Whether ps adds a row.  The slip: it does for every process it shows.
PsAddsSlip(p) == TRUE
PsAdds(p) == rows[p] = {}

\* ps shows the processes there are.
AppendPs ==
  /\ pc = "asking"
  /\ pc' = "complete"
  /\ rows' = [p \in Pids |-> IF p \in Alive /\ PsAdds(p)
                             THEN rows[p] \cup {[source |-> "ps", cpu |-> 0]}
                             ELSE rows[p]]
  /\ UNCHANGED <<unread, age, elapsed, previous, next, steady>>

FailPs ==
  /\ pc = "asking"
  /\ pc' = "complete"
  /\ UNCHANGED usageVars

\* The rows go with the snapshot they are in.
EndUsage ==
  /\ pc = "complete"
  /\ pc' = "waiting"
  /\ rows' = NoRows
  /\ steady' = {}
  /\ elapsed' = 0
  /\ UNCHANGED <<unread, age, previous, next>>

UsageMayTick == pc = "reading" => age < MaxDelay

UsageTick ==
  /\ UsageMayTick
  /\ age' = Older(age, MaxCpu)
  /\ UNCHANGED <<unread, elapsed, previous, next, rows, steady>>

Samples == [Pids -> {NoSample} \cup 0 .. MaxCpu]

UsageTypeOK ==
  /\ unread \in SUBSET Pids
  /\ age \in 0 .. MaxCpu
  /\ elapsed \in 0 .. MaxCpu
  /\ previous \in Samples
  /\ next \in Samples
  /\ rows \in [Pids -> SUBSET [source : {"libproc", "ps"}, cpu : Nat]]
  /\ steady \in SUBSET Pids
=============================================================================
