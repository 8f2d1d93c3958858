---------------------------- MODULE KillService ----------------------------
(***************************************************************************)
(* What a ProcessKiller promises to its owner: every request of a batch is *)
(* answered exactly once, in no particular order, also when the owner      *)
(* destroys the killer meanwhile; a request to end porTUI itself is        *)
(* refused; draining takes every answer there is.                          *)
(***************************************************************************)
EXTENDS KillData

CONSTANT Batches    \* the vectors of pids the owner may dispatch

VARIABLES
  asked,      \* how often each request is waiting for its answer
  answered,   \* the answers the owner has not drained
  life        \* "open"; "closing": in the destructor; "closed"

serviceVars == <<asked, answered, life>>

Answers(r) == IF r.pid = Self THEN {"error"} ELSE KillStatus

ServiceTypeOK ==
  /\ asked \in [Requests -> Nat]
  /\ answered \in Seq(KillResults)
  /\ life \in {"open", "closing", "closed"}

ServiceInit ==
  /\ asked = [r \in Requests |-> 0]
  /\ answered = <<>>
  /\ life = "open"

Ask(batch, force) ==
  /\ life = "open"
  /\ asked' = [r \in Requests |->
                 IF r.force = force /\ r.pid \in Kept(batch) THEN asked[r] + 1 ELSE asked[r]]
  /\ UNCHANGED <<answered, life>>

Answer(r) ==
  /\ asked[r] > 0
  /\ asked' = [asked EXCEPT ![r] = @ - 1]
  /\ \E status \in Answers(r) : answered' = Append(answered, ResultOf(r, status))
  /\ UNCHANGED life

Drain ==
  /\ life = "open"
  /\ answered' = <<>>
  /\ UNCHANGED <<asked, life>>

Close ==
  /\ life = "open"
  /\ life' = "closing"
  /\ UNCHANGED <<asked, answered>>

Closed ==
  /\ life = "closing"
  /\ asked = [r \in Requests |-> 0]
  /\ life' = "closed"
  /\ UNCHANGED <<asked, answered>>

AnswerSome == \E r \in Requests : Answer(r)

ServiceNext ==
  \/ \E batch \in Batches, force \in BOOLEAN : Ask(batch, force)
  \/ AnswerSome
  \/ Drain
  \/ Close
  \/ Closed

\* While requests wait, some are answered: which one is not promised.  A
\* destructor that has begun returns.
ServiceSpec ==
  /\ ServiceInit
  /\ [][ServiceNext]_serviceVars
  /\ WF_serviceVars(AnswerSome)
  /\ WF_serviceVars(Closed)
=============================================================================
