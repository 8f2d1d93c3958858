--------------------------- MODULE ProcessKiller ---------------------------
(***************************************************************************)
(* src/core/process_killer.cpp: the owner dispatches batches of requests   *)
(* to a pool of workers behind one mutex and one condition variable,       *)
(* drains their results and may destroy the killer at any time.            *)
(*                                                                         *)
(* A critical section of mutex_ is one action, and so is a call of kill.   *)
(* The processes themselves belong to the environment: they exit, stay     *)
(* zombies until they are reaped, and their pid may then be given to       *)
(* another process, between any two steps of a worker.                     *)
(***************************************************************************)
EXTENDS KillData, SequencesExt

CONSTANTS
  Batches,          \* the vectors of pids the owner may dispatch
  WorkerCount,      \* worker_count, after the constructor's max with 1
  MaxRequests,      \* bound: the requests ever dispatched
  MaxIncarnation    \* bound: the processes that ever have the same pid

ASSUME KillerAssumption ==
  /\ WorkerCount \in Nat \ {0}
  /\ MaxRequests \in Nat
  /\ MaxIncarnation \in Nat \ {0}
  /\ \A batch \in Batches :
       batch \in Seq(Int) /\ \A i \in DOMAIN batch : batch[i] > 0 => batch[i] \in Pids

VARIABLES
  \* the members mutex_ guards
  stopping, pending_requests, results,
  \* the owner: where it is, the numbers of the results it drained
  owner, drained,
  \* the requests ever made; a request carries its number
  issued,
  \* the workers: where each one is, its request and result, and the
  \* incarnation of the process its signal reached (0: none)
  pc, request, result, reached,
  \* the operating system's processes
  process

locals == <<pc, request, result, reached>>
vars == <<stopping, pending_requests, results, owner, drained, issued, locals, process>>

Workers == 1 .. WorkerCount

\* owner: outside every call; about to notify after a dispatch; stopping_ set
\* but nobody notified; joining the workers; the destructor returned.
OwnerStates == {"idle", "notifying", "stopping", "joining", "destroyed"}

\* pc: about to evaluate the predicate; blocked on work_ready_; about to send
\* the signal; in sleep_for; about to store the result; returned.
WorkerStates == {"check", "asleep", "signalling", "waiting", "storing", "exited"}

NumberedRequests == [id : 1 .. MaxRequests, pid : Pids, force : BOOLEAN]
NumberedResults ==
  [id : 1 .. MaxRequests, pid : Pids, status : KillStatus, can_force_kill : BOOLEAN,
   reached : 0 .. MaxIncarnation]

NoRequest == [id |-> 0, pid |-> 0, force |-> FALSE]
NoResult == [id |-> 0]

\* A process: its state, which of the pid's successive owners it is, and
\* whether it belongs to another user.
Processes ==
  [state : {"none", "running", "zombie"}, incarnation : 1 .. MaxIncarnation, foreign : BOOLEAN]

\* The process that had pid p when it was incarnation i exists no more.
Gone(p, i) == process[p].state = "none" \/ process[p].incarnation # i

----------------------------------------------------------------------------
Init ==
  /\ stopping = FALSE
  /\ pending_requests = <<>>
  /\ results = <<>>
  /\ owner = "idle"
  /\ drained = {}
  /\ issued = 0
  /\ pc = [w \in Workers |-> "check"]
  /\ request = [w \in Workers |-> NoRequest]
  /\ result = [w \in Workers |-> NoResult]
  /\ reached = [w \in Workers |-> 0]
  /\ process \in [Pids -> {p \in Processes : p.state = "running" /\ p.incarnation = 1}]
  /\ ~process[Self].foreign

----------------------------------------------------------------------------
(* The owner *)

\* work_ready_.notify_all().  The slip: notify_one().
WorkersNotifiedSlip ==
  [w \in Workers |->
     IF pc[w] = "asleep" /\ \A v \in 1 .. w - 1 : pc[v] # "asleep" THEN "check" ELSE pc[w]]
WorkersNotified == [w \in Workers |-> IF pc[w] = "asleep" THEN "check" ELSE pc[w]]

\* Dispatch and DispatchForce, up to the end of the critical section: the
\* kept pids in ascending order are numbered on from issued.  A batch of which
\* nothing is kept changes nothing.
Dispatch(batch, force) ==
  /\ owner = "idle"
  /\ Kept(batch) # {}
  /\ issued + Cardinality(Kept(batch)) <= MaxRequests
  /\ owner' = "notifying"
  /\ pending_requests' = pending_requests \o
       [i \in 1 .. Cardinality(Kept(batch)) |->
          [id |-> issued + i, pid |-> Ascending(Kept(batch))[i], force |-> force]]
  /\ issued' = issued + Cardinality(Kept(batch))
  /\ UNCHANGED <<stopping, results, drained, locals, process>>

NotifyDispatch ==
  /\ owner = "notifying"
  /\ owner' = "idle"
  /\ pc' = WorkersNotified
  /\ UNCHANGED <<stopping, pending_requests, results, drained, issued, request, result,
                 reached, process>>

DrainResults ==
  /\ owner = "idle"
  /\ drained' = drained \cup {r.id : r \in Range(results)}
  /\ results' = <<>>
  /\ UNCHANGED <<stopping, pending_requests, owner, issued, locals, process>>

\* The destructor, in three steps: set stopping_, notify, join.
BeginDestroy ==
  /\ owner = "idle"
  /\ owner' = "stopping"
  /\ stopping' = TRUE
  /\ UNCHANGED <<pending_requests, results, drained, issued, locals, process>>

NotifyStop ==
  /\ owner = "stopping"
  /\ owner' = "joining"
  /\ pc' = WorkersNotified
  /\ UNCHANGED <<stopping, pending_requests, results, drained, issued, request, result,
                 reached, process>>

JoinWorkers ==
  /\ owner = "joining"
  /\ \A w \in Workers : pc[w] = "exited"
  /\ owner' = "destroyed"
  /\ UNCHANGED <<stopping, pending_requests, results, drained, issued, locals, process>>

----------------------------------------------------------------------------
(* Worker w *)

Goto(w, place) == pc' = [pc EXCEPT ![w] = place]

\* The predicate of work_ready_.wait.  The slip: it does not look at stopping_.
HasWorkSlip == pending_requests # <<>>
HasWork == stopping \/ pending_requests # <<>>

Sleep(w) ==
  /\ pc[w] = "check"
  /\ ~HasWork
  /\ Goto(w, "asleep")
  /\ UNCHANGED <<stopping, pending_requests, results, owner, drained, issued, request,
                 result, reached, process>>

WakeSpuriously(w) ==
  /\ pc[w] = "asleep"
  /\ Goto(w, "check")
  /\ UNCHANGED <<stopping, pending_requests, results, owner, drained, issued, request,
                 result, reached, process>>

\* The condition to return.  The slip: pending requests are forgotten.
MayExitSlip == stopping
MayExit == stopping /\ pending_requests = <<>>

Exit(w) ==
  /\ pc[w] = "check"
  /\ MayExit
  /\ Goto(w, "exited")
  /\ UNCHANGED <<stopping, pending_requests, results, owner, drained, issued, request,
                 result, reached, process>>

\* The last request is taken first.  The slip: it is not popped.
RemainingSlip == pending_requests
Remaining == Front(pending_requests)

TakeRequest(w) ==
  /\ pc[w] = "check"
  /\ pending_requests # <<>>
  /\ Goto(w, "signalling")
  /\ request' = [request EXCEPT ![w] = Last(pending_requests)]
  /\ pending_requests' = Remaining
  /\ UNCHANGED <<stopping, results, owner, drained, issued, result, reached, process>>

\* What kill returns, for any signal: an exited process that was not reaped
\* still takes signals, of anyone.
Errno(p) ==
  IF process[p].state = "none" THEN "ESRCH"
  ELSE IF process[p].state = "running" /\ process[p].foreign THEN "EPERM" ELSE "ok"

ErrorForErrno == [EPERM |-> "permission_denied", ESRCH |-> "already_exited"]

\* Worker w has its result.
Conclude(w, status) ==
  /\ Goto(w, "storing")
  /\ result' = [result EXCEPT ![w] =
       [id |-> request[w].id, pid |-> request[w].pid, status |-> status,
        can_force_kill |-> ResultOf(request[w], status).can_force_kill,
        reached |-> reached[w]]]
  /\ UNCHANGED <<stopping, pending_requests, results, owner, drained, issued, request,
                 reached, process>>

RefuseSelf(w) ==
  /\ pc[w] = "signalling"
  /\ request[w].pid = Self
  /\ Conclude(w, "error")

SignalFails(w) ==
  /\ pc[w] = "signalling"
  /\ request[w].pid # Self
  /\ Errno(request[w].pid) # "ok"
  /\ Conclude(w, ErrorForErrno[Errno(request[w].pid)])

SendSignal(w) ==
  /\ pc[w] = "signalling"
  /\ request[w].pid # Self
  /\ Errno(request[w].pid) = "ok"
  /\ Goto(w, "waiting")
  /\ reached' = [reached EXCEPT ![w] = process[request[w].pid].incarnation]
  /\ UNCHANGED <<stopping, pending_requests, results, owner, drained, issued, request,
                 result, process>>

\* kill(pid, 0) once sleep_for returned: success is ESRCH.  The slip: the
\* test of the two is swapped.
StatusAfterSlip(p) ==
  CASE Errno(p) = "ESRCH" -> "still_running"
    [] Errno(p) = "EPERM" -> ErrorForErrno.EPERM
    [] Errno(p) = "ok"    -> "success"
StatusAfter(p) ==
  CASE Errno(p) = "ESRCH" -> "success"
    [] Errno(p) = "EPERM" -> ErrorForErrno.EPERM
    [] Errno(p) = "ok"    -> "still_running"

Probe(w) ==
  /\ pc[w] = "waiting"
  /\ Conclude(w, StatusAfter(request[w].pid))

\* The second critical section; the locals of the iteration go out of scope.
StoreResult(w) ==
  /\ pc[w] = "storing"
  /\ Goto(w, "check")
  /\ results' = Append(results, result[w])
  /\ request' = [request EXCEPT ![w] = NoRequest]
  /\ result' = [result EXCEPT ![w] = NoResult]
  /\ reached' = [reached EXCEPT ![w] = 0]
  /\ UNCHANGED <<stopping, pending_requests, owner, drained, issued, process>>

----------------------------------------------------------------------------
(* The operating system.  porTUI itself stays. *)

SetProcess(p, q) ==
  /\ process' = [process EXCEPT ![p] = q]
  /\ UNCHANGED <<stopping, pending_requests, results, owner, drained, issued, locals>>

ProcessExits(p) ==
  /\ p # Self
  /\ process[p].state = "running"
  /\ SetProcess(p, [process[p] EXCEPT !.state = "zombie"])

ProcessReaped(p) ==
  /\ process[p].state = "zombie"
  /\ SetProcess(p, [process[p] EXCEPT !.state = "none"])

PidReused(p, foreign) ==
  /\ process[p].state = "none"
  /\ process[p].incarnation < MaxIncarnation
  /\ SetProcess(p, [state |-> "running", incarnation |-> process[p].incarnation + 1,
                    foreign |-> foreign])

----------------------------------------------------------------------------
Worker(w) ==
  \/ Sleep(w)
  \/ Exit(w)
  \/ TakeRequest(w)
  \/ RefuseSelf(w)
  \/ SignalFails(w)
  \/ SendSignal(w)
  \/ Probe(w)
  \/ StoreResult(w)

\* The owner's calls: none of them has to happen.
Call ==
  \/ \E batch \in Batches, force \in BOOLEAN : Dispatch(batch, force)
  \/ DrainResults
  \/ BeginDestroy

\* The rest of a call that has begun.
Proceed == NotifyDispatch \/ NotifyStop \/ JoinWorkers

OperatingSystem ==
  \/ \E p \in Pids : ProcessExits(p) \/ ProcessReaped(p)
  \/ \E p \in Pids, foreign \in BOOLEAN : PidReused(p, foreign)

Terminated == owner = "destroyed" /\ UNCHANGED vars

Next ==
  \/ Call
  \/ Proceed
  \/ \E w \in Workers : Worker(w) \/ WakeSpuriously(w)
  \/ OperatingSystem
  \/ Terminated

\* The threads that can run keep running; no process has to exit.
Fairness == WF_vars(Proceed) /\ \A w \in Workers : WF_vars(Worker(w))

Spec == Init /\ [][Next]_vars /\ Fairness

----------------------------------------------------------------------------
(* Properties *)

TypeOK ==
  /\ stopping \in BOOLEAN
  /\ pending_requests \in Seq(NumberedRequests)
  /\ results \in Seq(NumberedResults)
  /\ owner \in OwnerStates
  /\ drained \in SUBSET (1 .. MaxRequests)
  /\ issued \in 0 .. MaxRequests
  /\ pc \in [Workers -> WorkerStates]
  /\ request \in [Workers -> NumberedRequests \cup {NoRequest}]
  /\ result \in [Workers -> NumberedResults \cup {NoResult}]
  /\ reached \in [Workers -> 0 .. MaxIncarnation]
  /\ process \in [Pids -> Processes]

InFlight == {w \in Workers : pc[w] \in {"signalling", "waiting", "storing"}}

\* The numbers of the requests that are queued, with a worker, answered.
Queued == {r.id : r \in Range(pending_requests)}
Busy == {request[w].id : w \in InFlight}
Undrained == {r.id : r \in Range(results)}
Answered == Undrained \cup drained

\* Every request ever dispatched is in exactly one place: queued, with one
\* worker, or answered once.  No request is lost or executed twice, a forced
\* one in particular (process_killer.cpp lines 91 to 150).
EachRequestOnce ==
  /\ 1 .. issued = Queued \cup Busy \cup Answered
  /\ Queued \cap Busy = {}
  /\ Answered \cap (Queued \cup Busy) = {}
  /\ Undrained \cap drained = {}
  /\ \A v, w \in InFlight : request[v].id = request[w].id => v = w
  /\ \A i, j \in DOMAIN pending_requests :
       pending_requests[i].id = pending_requests[j].id => i = j
  /\ \A i, j \in DOMAIN results : results[i].id = results[j].id => i = j

\* No wakeup is lost although notify_all runs after the mutex is released: a
\* worker sleeps beside work only while the notification is still to come.
NoLostWakeup ==
  \A w \in Workers :
    pc[w] = "asleep" => ~HasWork \/ owner \in {"notifying", "stopping"}

\* The destructor executes what was queued: when it has returned every
\* request has its result, and nothing was signalled behind its back.
ShutdownLosesNothing == owner = "destroyed" => Answered = 1 .. issued

\* "terminated after SIGTERM" and "terminated with SIGKILL" are true: the
\* process the signal reached is gone, whoever has its pid by now.
SuccessIsTrue ==
  \A r \in Range(results) :
    r.status = "success" => r.reached # 0 /\ Gone(r.pid, r.reached)

\* The invariant that carries the others: where the owner is tells whether
\* stopping_ is set, a worker returns only from an empty queue to which
\* nothing is added any more, and a busy worker keeps its request.
KillerInv ==
  /\ stopping <=> owner \in {"stopping", "joining", "destroyed"}
  /\ \A w \in Workers : pc[w] = "exited" => stopping /\ pending_requests = <<>>
  /\ owner = "destroyed" => \A w \in Workers : pc[w] = "exited"
  /\ \A w \in InFlight : request[w] \in NumberedRequests
  /\ \A w \in InFlight :
       pc[w] = "storing" => result[w] \in NumberedResults /\ result[w].id = request[w].id
  /\ NoLostWakeup
  /\ EachRequestOnce

\* Every request gets its result, whatever the process does and also when
\* the killer is being destroyed.
RequestsAnswered == \A i \in 1 .. MaxRequests : i <= issued ~> i \in Answered

\* "still running after SIGTERM" (line 47): the process the signal reached
\* is running when the probe says so.
StillRunningIsTrue ==
  [][\A w \in Workers :
       pc[w] = "waiting" /\ pc'[w] = "storing" /\ result'[w].status = "still_running"
       => /\ process[request[w].pid].state = "running"
          /\ process[request[w].pid].incarnation = reached[w]]_vars

Asked(r) ==
    Cardinality({k \in DOMAIN pending_requests :
                   pending_requests[k].pid = r.pid /\ pending_requests[k].force = r.force})
  + Cardinality({w \in InFlight : request[w].pid = r.pid /\ request[w].force = r.force})

\* The killer implements what it promises to its owner, in particular that the
\* destructor returns.
Promise == INSTANCE KillService WITH
  asked <- [r \in Requests |-> Asked(r)],
  answered <- [k \in DOMAIN results |->
                 [pid |-> results[k].pid, status |-> results[k].status,
                  can_force_kill |-> results[k].can_force_kill]],
  life <- CASE owner \in {"idle", "notifying"} -> "open"
            [] owner = "destroyed" -> "closed"
            [] OTHER -> "closing"

ImplementsKillService == Promise!ServiceSpec
=============================================================================
