------------------------ MODULE ProcessKillerProofs ------------------------
(***************************************************************************)
(* For any number of workers, requests and processes, and any batches: the *)
(* killer is type correct, keeps every request in exactly one place, loses *)
(* no wakeup, and its destructor leaves no request without its result.     *)
(***************************************************************************)
EXTENDS ProcessKiller, SequenceLemmas

IInv == TypeOK /\ KillerInv

\* A batch keeps pids, finitely many of them.
LEMMA KeptFinite ==
  ASSUME NEW batch \in Batches
  PROVE  /\ Kept(batch) \subseteq Pids /\ IsFiniteSet(Kept(batch))
         /\ Cardinality(Kept(batch)) \in Nat
<1>1. batch \in Seq(Int) /\ DOMAIN batch = 1 .. Len(batch) /\ Len(batch) \in Nat
  BY KillerAssumption
<1>2. Kept(batch) \subseteq Pids
  BY KillerAssumption DEF Kept
<1> DEFINE All == {batch[i] : i \in DOMAIN batch}
<1>3. IsFiniteSet(All)
  <2>1. batch \in Surjection(DOMAIN batch, All)
    BY <1>1 DEF Surjection
  <2>2. IsFiniteSet(DOMAIN batch)
    BY <1>1, FS_Interval
  <2> HIDE DEF All
  <2> QED BY <2>1, <2>2, FS_Surjection
<1>4. IsFiniteSet(Kept(batch))
  <2>1. Kept(batch) \in SUBSET All
    BY DEF Kept
  <2> QED BY <1>3, <2>1, FS_Subset
<1> QED BY <1>2, <1>4, FS_CardinalityType

\* The kept pids in ascending order: each once.
LEMMA KeptAscending ==
  ASSUME NEW batch \in Batches
  PROVE  Ascending(Kept(batch)) \in Bijection(1 .. Cardinality(Kept(batch)), Kept(batch))
<1>1. Pids \subseteq Int
  BY PidsAssumption
<1>2. Kept(batch) \subseteq Int
  BY <1>1, KeptFinite, Zenon
<1> QED BY <1>2, KeptFinite, AscendingOrder

LEMMA InitInv == Init => IInv
<1> SUFFICES ASSUME Init PROVE IInv
  OBVIOUS
<1>1. TypeOK
  <2>1. pc \in [Workers -> WorkerStates] /\ owner \in OwnerStates
    BY DEF Init, WorkerStates, OwnerStates
  <2>2. /\ request \in [Workers -> NumberedRequests \cup {NoRequest}]
        /\ result \in [Workers -> NumberedResults \cup {NoResult}]
    BY DEF Init
  <2>3. reached \in [Workers -> 0 .. MaxIncarnation] /\ issued \in 0 .. MaxRequests
    BY KillerAssumption DEF Init
  <2>4. pending_requests \in Seq(NumberedRequests) /\ results \in Seq(NumberedResults)
    BY DEF Init
  <2>5. process \in [Pids -> Processes]
    BY DEF Init
  <2>6. stopping \in BOOLEAN /\ drained \in SUBSET (1 .. MaxRequests)
    BY DEF Init
  <2> QED BY <2>1, <2>2, <2>3, <2>4, <2>5, <2>6 DEF TypeOK
<1>2. EachRequestOnce
  BY DEF Init, EachRequestOnce, Queued, Busy, Answered, Undrained, InFlight, Range
<1>3. KillerInv
  BY <1>2 DEF Init, KillerInv, NoLostWakeup, InFlight
<1> QED BY <1>1, <1>3 DEF IInv

\* A step that moves no request keeps each in its place.
LEMMA SamePlaces ==
  ASSUME EachRequestOnce, InFlight' = InFlight,
         UNCHANGED <<request, pending_requests, results, drained, issued>>
  PROVE  EachRequestOnce'
<1>1. Queued' = Queued /\ Undrained' = Undrained /\ Answered' = Answered
  BY DEF Queued, Undrained, Answered
<1>2. Busy' = Busy
  BY DEF Busy
<1> QED BY <1>1, <1>2 DEF EachRequestOnce

LEMMA OwnerStep ==
  ASSUME IInv, NotifyDispatch \/ BeginDestroy \/ NotifyStop \/ JoinWorkers
  PROVE  IInv'
<1> USE DEF IInv, locals
<1>1. TypeOK'
  BY DEF NotifyDispatch, BeginDestroy, NotifyStop, JoinWorkers, TypeOK, OwnerStates,
         WorkersNotified, WorkerStates
<1>2. InFlight' = InFlight
  BY DEF NotifyDispatch, BeginDestroy, NotifyStop, JoinWorkers, TypeOK, InFlight,
         WorkersNotified
<1>3. EachRequestOnce'
  BY <1>2, SamePlaces DEF NotifyDispatch, BeginDestroy, NotifyStop, JoinWorkers, KillerInv
<1>4. NoLostWakeup'
  BY DEF NotifyDispatch, BeginDestroy, NotifyStop, JoinWorkers, TypeOK, KillerInv,
         NoLostWakeup, HasWork, WorkersNotified
<1>5. \A w \in InFlight' : pc'[w] = pc[w]
  BY <1>2 DEF NotifyDispatch, BeginDestroy, NotifyStop, JoinWorkers, TypeOK, InFlight,
              WorkersNotified
<1>6. \A w \in Workers : pc'[w] = "exited" <=> pc[w] = "exited"
  BY DEF NotifyDispatch, BeginDestroy, NotifyStop, JoinWorkers, TypeOK, WorkersNotified
<1> QED BY <1>1, <1>2, <1>3, <1>4, <1>5, <1>6
        DEF NotifyDispatch, BeginDestroy, NotifyStop, JoinWorkers, KillerInv

LEMMA DrainStep ==
  ASSUME IInv, DrainResults
  PROVE  IInv'
<1> USE DEF IInv, DrainResults, locals
<1>1. results \in [1 .. Len(results) -> NumberedResults] /\ Len(results) \in Nat
  BY LenProperties DEF TypeOK
<1>2. drained' = drained \cup Undrained /\ Undrained' = {}
  BY DEF Undrained, Range
<1>3. TypeOK'
  <2>1. Undrained \subseteq 1 .. MaxRequests
    BY <1>1 DEF Undrained, Range, NumberedResults
  <2>2. drained' \in SUBSET (1 .. MaxRequests)
    BY <1>2, <2>1 DEF TypeOK
  <2>3. results' \in Seq(NumberedResults)
    OBVIOUS
  <2> QED BY <2>2, <2>3 DEF TypeOK
<1>4. EachRequestOnce'
  <2>1. Queued' = Queued /\ Busy' = Busy /\ InFlight' = InFlight
    BY DEF Queued, Busy, InFlight
  <2> QED BY <1>2, <2>1 DEF KillerInv, EachRequestOnce, Answered
<1> QED BY <1>3, <1>4 DEF KillerInv, InFlight, NoLostWakeup, HasWork

\* What Dispatch does to the queue: the kept pids follow what is there, each
\* once, with the numbers after issued.
LEMMA DispatchedQueue ==
  ASSUME IInv, NEW batch \in Batches, NEW force \in BOOLEAN, Dispatch(batch, force)
  PROVE  LET n   == Cardinality(Kept(batch))
             old == pending_requests
         IN  /\ n \in Nat /\ issued \in Nat /\ issued + n <= MaxRequests
             /\ issued' = issued + n
             /\ Len(old) \in Nat /\ DOMAIN old = 1 .. Len(old)
             /\ pending_requests' \in Seq(NumberedRequests)
             /\ DOMAIN pending_requests' = 1 .. Len(old) + n
             /\ \A i \in 1 .. Len(old) : pending_requests'[i] = old[i]
             /\ \A i \in Len(old) + 1 .. Len(old) + n :
                  pending_requests'[i] =
                    [id |-> issued + (i - Len(old)),
                     pid |-> Ascending(Kept(batch))[i - Len(old)], force |-> force]
<1> USE DEF IInv, locals
<1> DEFINE n == Cardinality(Kept(batch))
<1> DEFINE pids == Ascending(Kept(batch))
<1>1. pending_requests' = pending_requests \o
        [i \in 1 .. n |-> [id |-> issued + i, pid |-> pids[i], force |-> force]]
  BY DEF Dispatch
<1>2. \A i \in 1 .. n : pids[i] \in Kept(batch)
  <2>1. pids \in [1 .. n -> Kept(batch)]
    BY KeptAscending DEF Bijection, Surjection
  <2> HIDE DEF pids, n
  <2> QED BY <2>1
<1> DEFINE new == [i \in 1 .. n |-> [id |-> issued + i, pid |-> pids[i], force |-> force]]
           old == pending_requests
<1>3. n \in Nat /\ issued \in Nat /\ issued + n <= MaxRequests /\ issued' = issued + n
  BY KeptFinite DEF Dispatch, TypeOK
<1>4. new \in Seq(NumberedRequests) /\ Len(new) = n
  <2> Kept(batch) \subseteq Pids
    BY KeptFinite, Zenon
  <2>1. \A i \in 1 .. n : new[i] \in NumberedRequests
    BY <1>2, <1>3, KillerAssumption DEF NumberedRequests
  <2>2. new \in [1 .. n -> NumberedRequests]
    BY <2>1
  <2> HIDE DEF new, n
  <2> QED BY <1>3, <2>2
<1>5. /\ old \in Seq(NumberedRequests)
      /\ Len(old) \in Nat
      /\ DOMAIN old = 1 .. Len(old)
  BY LenProperties DEF TypeOK
<1>6. \A i \in 1 .. n : new[i] = [id |-> issued + i, pid |-> pids[i], force |-> force]
  OBVIOUS
<1>7. pending_requests' = old \o new
  BY <1>1
<1> HIDE DEF new, n, old, pids
<1>8. /\ pending_requests' \in Seq(NumberedRequests)
      /\ Len(pending_requests') = Len(old) + n
      /\ \A i \in 1 .. Len(old) + n :
           pending_requests'[i] = IF i <= Len(old) THEN old[i] ELSE new[i - Len(old)]
  BY <1>4, <1>5, <1>7, ConcatProperties, Zenon
<1>9. DOMAIN pending_requests' = 1 .. Len(old) + n
  BY <1>8, LenProperties, Zenon
<1>10. \A i \in 1 .. Len(old) : i \in 1 .. Len(old) + n /\ i <= Len(old)
  BY <1>3, <1>5
<1>11. \A i \in Len(old) + 1 .. Len(old) + n :
         i \in 1 .. Len(old) + n /\ i - Len(old) \in 1 .. n /\ ~(i <= Len(old))
  BY <1>3, <1>5
<1>12. \A i \in 1 .. Len(old) : pending_requests'[i] = old[i]
  BY <1>8, <1>10, Zenon
<1>13. \A i \in Len(old) + 1 .. Len(old) + n :
         pending_requests'[i] =
           [id |-> issued + (i - Len(old)), pid |-> pids[i - Len(old)], force |-> force]
  BY <1>6, <1>8, <1>11, Zenon
<1> QED BY <1>3, <1>5, <1>8, <1>9, <1>12, <1>13, Zenon DEF n, old, pids

LEMMA DispatchStep ==
  ASSUME IInv, NEW batch \in Batches, NEW force \in BOOLEAN, Dispatch(batch, force)
  PROVE  IInv'
<1> USE DEF IInv, locals
<1> DEFINE n   == Cardinality(Kept(batch))
           old == pending_requests
<1>2. n \in Nat /\ issued \in Nat /\ issued + n <= MaxRequests /\ issued' = issued + n
  BY DispatchedQueue
<1>4. Len(old) \in Nat /\ DOMAIN old = 1 .. Len(old)
  BY DispatchedQueue
<1>5. /\ pending_requests' \in Seq(NumberedRequests)
      /\ DOMAIN pending_requests' = 1 .. Len(old) + n
      /\ \A i \in 1 .. Len(old) : pending_requests'[i] = old[i]
      /\ \A i \in Len(old) + 1 .. Len(old) + n : pending_requests'[i].id = issued + (i - Len(old))
  <2> DEFINE pids == Ascending(Kept(batch))
  <2>1. /\ pending_requests' \in Seq(NumberedRequests)
        /\ DOMAIN pending_requests' = 1 .. Len(old) + n
        /\ \A i \in 1 .. Len(old) : pending_requests'[i] = old[i]
        /\ \A i \in Len(old) + 1 .. Len(old) + n :
             pending_requests'[i] =
               [id |-> issued + (i - Len(old)), pid |-> pids[i - Len(old)], force |-> force]
    BY DispatchedQueue, Zenon
  <2> HIDE DEF pids
  <2>2. ASSUME NEW i \in Len(old) + 1 .. Len(old) + n
        PROVE  pending_requests'[i].id = issued + (i - Len(old))
    <3>1. pending_requests'[i] =
            [id |-> issued + (i - Len(old)), pid |-> pids[i - Len(old)], force |-> force]
      BY <2>1, Zenon
    <3> QED BY <3>1
  <2> QED BY <2>1, <2>2, Zenon
<1> HIDE DEF n
<1>6. TypeOK'
  BY <1>2, <1>5 DEF TypeOK, Dispatch, OwnerStates
\* The queue gains the numbers after issued.
<1>7. Queued' = Queued \cup (issued + 1 .. issued + n)
  <2>1. Queued = {old[i].id : i \in 1 .. Len(old)}
    BY <1>4 DEF Queued, Range
  <2>2. Queued' = {pending_requests'[i].id : i \in 1 .. Len(old) + n}
    BY <1>5 DEF Queued, Range
  <2>3. \A i \in 1 .. Len(old) + n : i \in 1 .. Len(old) \/ i \in Len(old) + 1 .. Len(old) + n
    BY <1>2, <1>4
  <2>4. \A i \in Len(old) + 1 .. Len(old) + n :
          issued + (i - Len(old)) \in issued + 1 .. issued + n
    BY <1>2, <1>4
  <2>5. \A i \in 1 .. Len(old) : i \in 1 .. Len(old) + n
    BY <1>2, <1>4
  <2>6. \A i \in Len(old) + 1 .. Len(old) + n : i \in 1 .. Len(old) + n
    BY <1>2, <1>4
  <2>7. ASSUME NEW x \in Queued'
        PROVE  x \in Queued \cup (issued + 1 .. issued + n)
    <3>1. PICK i \in 1 .. Len(old) + n : x = pending_requests'[i].id
      BY <2>2, <2>7
    <3>2. CASE i \in 1 .. Len(old)
      BY <1>5, <2>1, <3>1, <3>2, Zenon
    <3>3. CASE i \in Len(old) + 1 .. Len(old) + n
      BY <1>5, <2>4, <3>1, <3>3, Zenon
    <3> QED BY <2>3, <3>2, <3>3
  <2>8. Queued \subseteq Queued'
    BY <1>5, <2>1, <2>2, <2>5, Zenon
  <2>9. ASSUME NEW x \in issued + 1 .. issued + n
         PROVE  x \in Queued'
    <3> DEFINE i == Len(old) + (x - issued)
    <3>1. i \in Len(old) + 1 .. Len(old) + n /\ issued + (i - Len(old)) = x
      BY <1>2, <1>4
    <3> HIDE DEF i
    <3>2. pending_requests'[i].id = x
      BY <1>5, <3>1, Zenon
    <3> QED BY <2>2, <2>6, <3>1, <3>2, Zenon
  <2> QED BY <2>7, <2>8, <2>9
<1>8. EachRequestOnce'
  <2>1. /\ Busy' = Busy /\ InFlight' = InFlight /\ Undrained' = Undrained
        /\ drained' = drained /\ Answered' = Answered
    BY DEF Dispatch, Busy, InFlight, Undrained, Answered
  <2>2. 1 .. issued' = (1 .. issued) \cup (issued + 1 .. issued + n)
    BY <1>2
  <2>3. \A x \in issued + 1 .. issued + n : x \notin 1 .. issued
    BY <1>2
  <2>4. Queued \subseteq 1 .. issued /\ Busy \subseteq 1 .. issued /\ Answered \subseteq 1 .. issued
    BY DEF KillerInv, EachRequestOnce
  <2>5. 1 .. issued' = Queued' \cup Busy' \cup Answered'
    BY <1>7, <2>1, <2>2 DEF KillerInv, EachRequestOnce
  <2>6. Queued' \cap Busy' = {} /\ Answered' \cap (Queued' \cup Busy') = {}
    BY <1>7, <2>1, <2>3, <2>4 DEF KillerInv, EachRequestOnce
  <2>7. \A i, j \in DOMAIN pending_requests' :
          pending_requests'[i].id = pending_requests'[j].id => i = j
    <3>1. \A i \in 1 .. Len(old) : pending_requests'[i].id \in 1 .. issued
      BY <1>4, <1>5, <2>4 DEF Queued, Range
    <3>2. \A i, j \in 1 .. Len(old) :
            pending_requests'[i].id = pending_requests'[j].id => i = j
      BY <1>4, <1>5 DEF KillerInv, EachRequestOnce
    <3>3. \A i, j \in Len(old) + 1 .. Len(old) + n :
            pending_requests'[i].id = pending_requests'[j].id => i = j
      BY <1>2, <1>4, <1>5
    <3>4. \A i \in Len(old) + 1 .. Len(old) + n : pending_requests'[i].id > issued
      BY <1>2, <1>4, <1>5
    <3>5. \A i \in DOMAIN pending_requests' :
            i \in 1 .. Len(old) \/ i \in Len(old) + 1 .. Len(old) + n
      BY <1>2, <1>4, <1>5
    <3>6. \A i \in 1 .. Len(old), j \in Len(old) + 1 .. Len(old) + n :
            pending_requests'[i].id # pending_requests'[j].id
      BY <1>2, <3>1, <3>4
    <3> QED BY <3>2, <3>3, <3>5, <3>6
  <2>8. UNCHANGED <<request, results>>
    BY DEF Dispatch
  <2> QED BY <2>1, <2>5, <2>6, <2>7, <2>8 DEF KillerInv, EachRequestOnce
<1>9. \A w \in Workers : pc[w] # "exited"
  BY DEF Dispatch, KillerInv
<1> QED BY <1>6, <1>8, <1>9 DEF Dispatch, KillerInv, InFlight, NoLostWakeup

\* A worker that goes to sleep, wakes up or returns has no request.
LEMMA IdleWorkerStep ==
  ASSUME IInv, NEW w \in Workers, Sleep(w) \/ WakeSpuriously(w) \/ Exit(w)
  PROVE  IInv'
<1> USE DEF IInv, Goto
<1>1. TypeOK'
  BY DEF Sleep, WakeSpuriously, Exit, TypeOK, WorkerStates
<1>2. InFlight' = InFlight /\ \A v \in InFlight : pc'[v] = pc[v]
  BY DEF Sleep, WakeSpuriously, Exit, TypeOK, InFlight
<1>3. EachRequestOnce'
  BY <1>2, SamePlaces DEF Sleep, WakeSpuriously, Exit, KillerInv
<1>4. NoLostWakeup'
  BY DEF Sleep, WakeSpuriously, Exit, TypeOK, KillerInv, NoLostWakeup, HasWork
<1>5. \A v \in Workers : pc'[v] = "exited" => stopping' /\ pending_requests' = <<>>
  BY DEF Sleep, WakeSpuriously, Exit, TypeOK, KillerInv, MayExit
<1>6. owner' = "destroyed" => \A v \in Workers : pc'[v] = "exited"
  BY DEF Sleep, WakeSpuriously, Exit, TypeOK, KillerInv
<1> QED BY <1>1, <1>2, <1>3, <1>4, <1>5, <1>6
        DEF Sleep, WakeSpuriously, Exit, KillerInv

\* A worker that stays busy with its request.
LEMMA BusyWorkerStep ==
  ASSUME IInv, NEW w \in InFlight, NEW place \in {"signalling", "waiting", "storing"},
         Goto(w, place), result' \in [Workers -> NumberedResults \cup {NoResult}],
         \A v \in Workers \ {w} : result'[v] = result[v],
         place = "storing" => result'[w] \in NumberedResults /\ result'[w].id = request[w].id,
         reached' \in [Workers -> 0 .. MaxIncarnation],
         UNCHANGED <<stopping, pending_requests, results, owner, drained, issued, request,
                     process>>
  PROVE  IInv'
<1> USE DEF IInv, Goto
<1>1. TypeOK'
  BY DEF TypeOK, WorkerStates, InFlight
<1>2. InFlight' = InFlight /\ pc'[w] = place /\ \A v \in Workers \ {w} : pc'[v] = pc[v]
  BY DEF TypeOK, InFlight
<1>3. EachRequestOnce'
  BY <1>2, SamePlaces DEF KillerInv
<1>4. NoLostWakeup'
  BY <1>2 DEF KillerInv, NoLostWakeup, HasWork
<1>5. w \in Workers /\ pc[w] # "exited"
  BY DEF InFlight
<1>6. \A v \in Workers : pc'[v] = "exited" => stopping' /\ pending_requests' = <<>>
  BY <1>2 DEF KillerInv
<1>7. owner' # "destroyed"
  BY <1>5 DEF KillerInv
<1>8. \A v \in InFlight' : request'[v] \in NumberedRequests
  BY <1>2 DEF KillerInv
<1>9. \A v \in InFlight' :
        pc'[v] = "storing" => result'[v] \in NumberedResults /\ result'[v].id = request'[v].id
  <2>1. \A v \in InFlight : v \in Workers
    BY DEF InFlight
  <2> QED BY <1>2, <2>1 DEF KillerInv
<1> QED BY <1>1, <1>3, <1>4, <1>6, <1>7, <1>8, <1>9 DEF KillerInv

LEMMA ConcludeStep ==
  ASSUME IInv, NEW w \in InFlight, NEW status \in KillStatus, Conclude(w, status)
  PROVE  IInv'
<1> USE DEF IInv, Conclude
<1>1. request[w] \in NumberedRequests /\ reached[w] \in 0 .. MaxIncarnation /\ w \in Workers
  BY DEF KillerInv, InFlight, TypeOK
<1> DEFINE new == [id |-> request[w].id, pid |-> request[w].pid, status |-> status,
                   can_force_kill |-> ResultOf(request[w], status).can_force_kill,
                   reached |-> reached[w]]
<1>2. ResultOf(request[w], status).can_force_kill \in BOOLEAN
  BY DEF ResultOf
<1>3. new \in NumberedResults /\ new.id = request[w].id
  BY <1>1, <1>2 DEF NumberedRequests, NumberedResults
<1>4. result' = [result EXCEPT ![w] = new]
  OBVIOUS
<1> HIDE DEF new
<1>5. result' \in [Workers -> NumberedResults \cup {NoResult}] /\ result'[w] = new
      /\ \A v \in Workers \ {w} : result'[v] = result[v]
  BY <1>1, <1>3, <1>4 DEF TypeOK
<1> QED BY <1>3, <1>5, BusyWorkerStep DEF TypeOK

LEMMA SignalStep ==
  ASSUME IInv, NEW w \in Workers,
         RefuseSelf(w) \/ SignalFails(w) \/ SendSignal(w) \/ Probe(w)
  PROVE  IInv'
<1>1. w \in InFlight
  BY DEF InFlight, RefuseSelf, SignalFails, SendSignal, Probe
<1>2. CASE RefuseSelf(w)
  BY <1>1, <1>2, ConcludeStep DEF RefuseSelf, KillStatus
<1>3. CASE SignalFails(w)
  <2>1. ErrorForErrno[Errno(request[w].pid)] \in KillStatus
    BY <1>3 DEF SignalFails, Errno, ErrorForErrno, KillStatus
  <2> QED BY <1>1, <1>3, <2>1, ConcludeStep DEF SignalFails
<1>4. CASE Probe(w)
  <2>1. StatusAfter(request[w].pid) \in KillStatus
    BY DEF StatusAfter, Errno, ErrorForErrno, KillStatus
  <2> QED BY <1>1, <1>4, <2>1, ConcludeStep DEF Probe
<1>5. CASE SendSignal(w)
  <2>1. process[request[w].pid].incarnation \in 0 .. MaxIncarnation
    <3>1. request[w].pid \in Pids
      BY <1>1 DEF IInv, KillerInv, NumberedRequests
    <3> QED BY <3>1 DEF IInv, TypeOK, Processes
  <2>2. reached' \in [Workers -> 0 .. MaxIncarnation]
    BY <1>5, <2>1 DEF SendSignal, IInv, TypeOK
  <2> QED BY <1>1, <1>5, <2>2, BusyWorkerStep DEF SendSignal, IInv, TypeOK
<1> QED BY <1>2, <1>3, <1>4, <1>5

\* What TakeRequest does: the last request of the queue is now with worker w.
LEMMA TakenRequest ==
  ASSUME IInv, NEW w \in Workers, TakeRequest(w)
  PROVE  LET old  == pending_requests
             last == Len(pending_requests)
         IN  /\ last \in Nat \ {0} /\ old[last] \in NumberedRequests
             /\ DOMAIN old = 1 .. last
             /\ pending_requests' \in Seq(NumberedRequests)
             /\ DOMAIN pending_requests' = 1 .. last - 1
             /\ \A k \in 1 .. last - 1 : pending_requests'[k] = old[k]
             /\ request' = [request EXCEPT ![w] = old[last]]
             /\ w \notin InFlight /\ InFlight' = InFlight \cup {w}
             /\ request'[w] = old[last] /\ pc'[w] = "signalling"
             /\ \A v \in Workers \ {w} : request'[v] = request[v] /\ pc'[v] = pc[v]
<1> USE DEF IInv, TakeRequest, Goto
<1> DEFINE old  == pending_requests
           last == Len(old)
<1>1. /\ last \in Nat \ {0} /\ old[last] \in NumberedRequests
      /\ DOMAIN old = 1 .. last
      /\ pending_requests' \in Seq(NumberedRequests)
      /\ DOMAIN pending_requests' = 1 .. last - 1
      /\ \A k \in 1 .. last - 1 : pending_requests'[k] = old[k]
      /\ request' = [request EXCEPT ![w] = old[last]]
  <2>1. old \in Seq(NumberedRequests) /\ old # <<>>
    BY DEF TypeOK
  <2>2. pending_requests' = Front(old) /\ request' = [request EXCEPT ![w] = Last(old)]
    BY DEF Remaining
  <2> HIDE DEF old
  <2>3. /\ last \in Nat \ {0} /\ Last(old) \in NumberedRequests /\ Last(old) = old[last]
        /\ Front(old) \in Seq(NumberedRequests) /\ Len(Front(old)) = last - 1
        /\ \A k \in 1 .. last - 1 : Front(old)[k] = old[k]
    BY <2>1, FrontAndLast, Zenon
  <2>4. DOMAIN old = 1 .. last /\ DOMAIN Front(old) = 1 .. last - 1
    BY <2>1, <2>3, LenProperties, Zenon
  <2> HIDE DEF last
  <2> QED BY <2>2, <2>3, <2>4, Zenon
<1>2. /\ w \notin InFlight /\ InFlight' = InFlight \cup {w}
      /\ request'[w] = old[last] /\ pc'[w] = "signalling"
      /\ \A v \in Workers \ {w} : request'[v] = request[v] /\ pc'[v] = pc[v]
  BY <1>1 DEF TypeOK, InFlight
<1> QED BY <1>1, <1>2, Zenon

LEMMA TakeRequestStep ==
  ASSUME IInv, NEW w \in Workers, TakeRequest(w)
  PROVE  IInv'
<1> USE DEF IInv, TakeRequest, Goto
<1> DEFINE old  == pending_requests
           last == Len(old)
<1>1. /\ last \in Nat \ {0} /\ old[last] \in NumberedRequests
      /\ DOMAIN old = 1 .. last
      /\ pending_requests' \in Seq(NumberedRequests)
      /\ DOMAIN pending_requests' = 1 .. last - 1
      /\ \A k \in 1 .. last - 1 : pending_requests'[k] = old[k]
      /\ request' = [request EXCEPT ![w] = old[last]]
  BY TakenRequest, Zenon
<1>2. TypeOK'
  BY <1>1 DEF TypeOK, WorkerStates
<1>3. /\ w \notin InFlight /\ InFlight' = InFlight \cup {w}
      /\ request'[w] = old[last] /\ pc'[w] = "signalling"
      /\ \A v \in Workers \ {w} : request'[v] = request[v] /\ pc'[v] = pc[v]
  BY TakenRequest, Zenon
<1> DEFINE taken == old[last].id
<1>4. Queued = Queued' \cup {taken} /\ taken \notin Queued'
  <2>1. Queued = {old[k].id : k \in 1 .. last}
    BY <1>1 DEF Queued, Range
  <2>2. Queued' = {old[k].id : k \in 1 .. last - 1}
    <3>1. Queued' = {pending_requests'[k].id : k \in DOMAIN pending_requests'}
      BY DEF Queued, Range
    <3> HIDE DEF old, last
    <3> QED BY <1>1, <3>1, Zenon
  <2>3. 1 .. last = (1 .. last - 1) \cup {last} /\ last \notin 1 .. last - 1
    BY <1>1
  <2>4. \A k \in 1 .. last - 1 : old[k].id # taken
    BY <1>1, <2>3 DEF KillerInv, EachRequestOnce
  <2> QED BY <2>1, <2>2, <2>3, <2>4
<1>5. Busy' = Busy \cup {taken}
  <2>1. \A v \in InFlight : v # w /\ v \in Workers
    BY <1>3 DEF InFlight
  <2>2. Busy' = {request'[v].id : v \in InFlight \cup {w}}
    BY <1>3 DEF Busy
  <2> QED BY <1>3, <2>1, <2>2 DEF Busy
<1>6. Undrained' = Undrained /\ Answered' = Answered
  BY DEF Undrained, Answered
<1>7. EachRequestOnce'
  <2>1. /\ 1 .. issued' = Queued' \cup Busy' \cup Answered'
        /\ Queued' \cap Busy' = {} /\ Answered' \cap (Queued' \cup Busy') = {}
        /\ Undrained' \cap drained' = {}
    BY <1>4, <1>5, <1>6 DEF KillerInv, EachRequestOnce
  <2>2. \A u, v \in InFlight' : request'[u].id = request'[v].id => u = v
    <3>1. \A v \in InFlight : v # w /\ v \in Workers /\ request[v].id # taken
      BY <1>3, <1>4 DEF KillerInv, EachRequestOnce, Busy, InFlight
    <3>2. \A v \in InFlight : request'[v].id = request[v].id /\ request'[v].id # taken
      BY <1>3, <3>1
    <3>3. request'[w].id = taken
      BY <1>3
    <3> QED BY <1>3, <3>2, <3>3 DEF KillerInv, EachRequestOnce
  <2>3. \A i, j \in DOMAIN pending_requests' :
          pending_requests'[i].id = pending_requests'[j].id => i = j
    <3>1. \A i \in 1 .. last - 1 : i \in 1 .. last
      BY <1>1
    <3> QED BY <1>1, <3>1 DEF KillerInv, EachRequestOnce
  <2> QED BY <2>1, <2>2, <2>3 DEF KillerInv, EachRequestOnce
<1>8. pending_requests # <<>> /\ \A v \in Workers : pc[v] # "exited"
  BY DEF KillerInv
<1>9. owner' # "destroyed"
  BY <1>8 DEF KillerInv
<1>10. \A v \in Workers : pc'[v] # "exited"
  BY <1>3, <1>8
<1>11. NoLostWakeup'
  BY <1>3 DEF KillerInv, NoLostWakeup, HasWork
<1>12. \A v \in InFlight' : request'[v] \in NumberedRequests
  BY <1>1, <1>3 DEF KillerInv, InFlight
<1>13. \A v \in InFlight' :
         pc'[v] = "storing" => result'[v] \in NumberedResults /\ result'[v].id = request'[v].id
  <2>1. \A v \in InFlight' : pc'[v] = "storing" => v \in InFlight /\ v \in Workers \ {w}
    BY <1>3 DEF InFlight
  <2> QED BY <1>3, <2>1 DEF KillerInv
<1> QED BY <1>2, <1>7, <1>9, <1>10, <1>11, <1>12, <1>13 DEF KillerInv

\* What StoreResult does: the result of worker w follows the others.
LEMMA StoredResult ==
  ASSUME IInv, NEW w \in Workers, StoreResult(w)
  PROVE  LET n == Len(results)
         IN  /\ w \in InFlight /\ InFlight' = InFlight \ {w}
             /\ \A v \in Workers \ {w} :
                  request'[v] = request[v] /\ result'[v] = result[v] /\ pc'[v] = pc[v]
             /\ pc'[w] = "check"
             /\ result[w] \in NumberedResults /\ result[w].id = request[w].id
             /\ n \in Nat /\ DOMAIN results = 1 .. n
             /\ results' \in Seq(NumberedResults) /\ DOMAIN results' = 1 .. n + 1
             /\ \A k \in 1 .. n : results'[k] = results[k]
             /\ results'[n + 1] = result[w]
<1> USE DEF IInv, StoreResult, Goto
<1> DEFINE old == results
           n == Len(old)
           stored == request[w].id
<1>1. /\ w \in InFlight /\ InFlight' = InFlight \ {w}
      /\ \A v \in Workers \ {w} :
           request'[v] = request[v] /\ result'[v] = result[v] /\ pc'[v] = pc[v]
      /\ pc'[w] = "check"
  BY DEF TypeOK, InFlight
<1>2. result[w] \in NumberedResults /\ result[w].id = stored
  BY <1>1 DEF KillerInv
<1>3. /\ n \in Nat /\ DOMAIN old = 1 .. n
      /\ results' \in Seq(NumberedResults) /\ DOMAIN results' = 1 .. n + 1
      /\ \A k \in 1 .. n : results'[k] = old[k]
      /\ results'[n + 1] = result[w]
  <2>1. old \in Seq(NumberedResults) /\ results' = Append(old, result[w])
    BY DEF TypeOK
  <2> HIDE DEF old
  <2> QED BY <1>2, <2>1
<1> QED BY <1>1, <1>2, <1>3, Zenon

LEMMA StoreResultStep ==
  ASSUME IInv, NEW w \in Workers, StoreResult(w)
  PROVE  IInv'
<1> USE DEF IInv, StoreResult, Goto
<1> DEFINE old == results
           n == Len(old)
           stored == request[w].id
<1>1. /\ w \in InFlight /\ InFlight' = InFlight \ {w}
      /\ \A v \in Workers \ {w} :
           request'[v] = request[v] /\ result'[v] = result[v] /\ pc'[v] = pc[v]
      /\ pc'[w] = "check"
  BY StoredResult, Zenon
<1>2. result[w] \in NumberedResults /\ result[w].id = stored
  BY StoredResult, Zenon
<1>3. /\ n \in Nat /\ DOMAIN old = 1 .. n
      /\ results' \in Seq(NumberedResults) /\ DOMAIN results' = 1 .. n + 1
      /\ \A k \in 1 .. n : results'[k] = old[k]
      /\ results'[n + 1] = result[w]
  BY StoredResult, Zenon
<1>4. TypeOK'
  <2>1. reached' \in [Workers -> 0 .. MaxIncarnation]
    BY KillerAssumption DEF TypeOK
  <2> QED BY <1>3, <2>1 DEF TypeOK, WorkerStates
<1>5. Undrained' = Undrained \cup {stored}
  <2>1. Undrained = {old[k].id : k \in 1 .. n}
    BY <1>3 DEF Undrained, Range
  <2>2. Undrained' = {results'[k].id : k \in 1 .. n + 1}
    BY <1>3 DEF Undrained, Range
  <2>3. 1 .. n + 1 = (1 .. n) \cup {n + 1}
    BY <1>3
  <2>4. \A k \in 1 .. n : results'[k].id = old[k].id
    BY <1>3
  <2>5. results'[n + 1].id = stored
    BY <1>2, <1>3
  <2> HIDE DEF n, old, stored
  <2>6. Undrained' \subseteq Undrained \cup {stored}
    BY <2>1, <2>2, <2>3, <2>4, <2>5, Zenon
  <2>7. Undrained \subseteq Undrained'
    <3>1. \A k \in 1 .. n : k \in 1 .. n + 1
      BY <2>3
    <3> QED BY <2>1, <2>2, <2>4, <3>1, Zenon
  <2>8. stored \in Undrained'
    <3>1. n + 1 \in 1 .. n + 1
      BY <2>3
    <3> QED BY <2>2, <2>5, <3>1, Zenon
  <2> QED BY <2>6, <2>7, <2>8
<1>6. Busy = Busy' \cup {stored} /\ stored \notin Busy'
  <2>1. \A v \in InFlight' : v \in InFlight /\ v \in Workers \ {w} /\ request'[v] = request[v]
    BY <1>1 DEF InFlight
  <2>2. Busy' = {request[v].id : v \in InFlight \ {w}}
    BY <1>1, <2>1 DEF Busy
  <2>3. \A v \in InFlight \ {w} : request[v].id # stored
    BY <1>1 DEF KillerInv, EachRequestOnce
  <2> QED BY <1>1, <2>2, <2>3 DEF Busy
<1>7. Queued' = Queued /\ drained' = drained /\ issued' = issued /\ Answered' = Answered \cup {stored}
  BY <1>5 DEF Queued, Answered
<1>8. stored \in Busy
  BY <1>6
<1>9. EachRequestOnce'
  <2>1. /\ 1 .. issued' = Queued' \cup Busy' \cup Answered'
        /\ Queued' \cap Busy' = {} /\ Answered' \cap (Queued' \cup Busy') = {}
        /\ Undrained' \cap drained' = {}
    BY <1>5, <1>6, <1>7, <1>8 DEF KillerInv, EachRequestOnce, Answered
  <2>2. \A u, v \in InFlight' : request'[u].id = request'[v].id => u = v
    <3>1. \A v \in InFlight' : v \in InFlight /\ request'[v] = request[v]
      BY <1>1 DEF InFlight
    <3> QED BY <3>1 DEF KillerInv, EachRequestOnce
  <2>3. \A i, j \in DOMAIN results' : results'[i].id = results'[j].id => i = j
    <3>1. \A i \in 1 .. n : old[i].id \in Answered
      BY <1>3 DEF Answered, Undrained, Range
    <3>2. stored \notin Answered
      BY <1>8 DEF KillerInv, EachRequestOnce
    <3>3. \A i \in 1 .. n : results'[i].id # stored /\ results'[i].id = old[i].id
      BY <1>3, <3>1, <3>2
    <3>4. results'[n + 1].id = stored
      BY <1>2, <1>3
    <3>5. \A i, j \in 1 .. n : old[i].id = old[j].id => i = j
      BY <1>3 DEF KillerInv, EachRequestOnce
    <3>6. \A i \in 1 .. n + 1 : i \in 1 .. n \/ i = n + 1
      BY <1>3
    <3> SUFFICES ASSUME NEW i \in 1 .. n + 1, NEW j \in 1 .. n + 1,
                        results'[i].id = results'[j].id
                 PROVE  i = j
      BY <1>3
    <3> HIDE DEF n, old, stored
    <3>7. CASE i = n + 1 \/ j = n + 1
      BY <3>3, <3>4, <3>6, <3>7, Zenon
    <3>8. CASE i \in 1 .. n /\ j \in 1 .. n
      BY <3>3, <3>5, <3>8, Zenon
    <3> QED BY <3>6, <3>7, <3>8, Zenon
  <2> QED BY <2>1, <2>2, <2>3 DEF KillerInv, EachRequestOnce
<1>10. NoLostWakeup'
  BY <1>1 DEF KillerInv, NoLostWakeup, HasWork
<1>11. owner' # "destroyed"
  BY DEF KillerInv
<1>12. \A v \in Workers : pc'[v] = "exited" => stopping' /\ pending_requests' = <<>>
  BY <1>1 DEF KillerInv
<1>13. \A v \in InFlight' :
         /\ request'[v] \in NumberedRequests
         /\ pc'[v] = "storing" => result'[v] \in NumberedResults /\ result'[v].id = request'[v].id
  <2>1. \A v \in InFlight' : v \in InFlight /\ v \in Workers \ {w}
    BY <1>1 DEF InFlight
  <2> QED BY <1>1, <2>1 DEF KillerInv
<1> QED BY <1>4, <1>9, <1>10, <1>11, <1>12, <1>13 DEF KillerInv

LEMMA SystemStep ==
  ASSUME IInv, OperatingSystem
  PROVE  IInv'
<1> USE DEF IInv, locals
<1>1. PICK p \in Pids, q \in Processes : SetProcess(p, q)
  <2>1. CASE \E p \in Pids : ProcessExits(p) \/ ProcessReaped(p)
    BY <2>1 DEF ProcessExits, ProcessReaped, TypeOK, Processes
  <2>2. CASE \E p \in Pids, foreign \in BOOLEAN : PidReused(p, foreign)
    <3>1. PICK p \in Pids, foreign \in BOOLEAN : PidReused(p, foreign)
      BY <2>2
    <3>2. process[p].incarnation \in 1 .. MaxIncarnation /\ process[p].incarnation < MaxIncarnation
      BY <3>1 DEF PidReused, TypeOK, Processes
    <3>3. process[p].incarnation + 1 \in 1 .. MaxIncarnation
      BY <3>2, KillerAssumption
    <3> QED BY <3>1, <3>3 DEF PidReused, Processes
  <2> QED BY <2>1, <2>2 DEF OperatingSystem
<1>2. TypeOK'
  BY <1>1 DEF SetProcess, TypeOK
<1>3. UNCHANGED <<stopping, pending_requests, results, owner, drained, issued, pc, request, result>>
  BY <1>1 DEF SetProcess
<1>4. InFlight' = InFlight
  BY <1>3 DEF InFlight
<1>5. EachRequestOnce'
  BY <1>3, <1>4, SamePlaces DEF KillerInv
<1> QED BY <1>2, <1>3, <1>4, <1>5 DEF KillerInv, NoLostWakeup, HasWork

LEMMA NextInv == IInv /\ [Next]_vars => IInv'
<1> SUFFICES ASSUME IInv, [Next]_vars PROVE IInv'
  OBVIOUS
<1>1. CASE Call
  BY <1>1, DispatchStep, DrainStep, OwnerStep DEF Call
<1>2. CASE Proceed
  BY <1>2, OwnerStep DEF Proceed
<1>3. ASSUME NEW w \in Workers, Worker(w) \/ WakeSpuriously(w) PROVE IInv'
  BY <1>3, IdleWorkerStep, TakeRequestStep, SignalStep, StoreResultStep DEF Worker
<1>4. CASE OperatingSystem
  BY <1>4, SystemStep
<1>5. CASE UNCHANGED vars
  <2>1. InFlight' = InFlight
    BY <1>5 DEF vars, locals, InFlight
  <2>2. EachRequestOnce'
    BY <1>5, <2>1, SamePlaces DEF vars, locals, IInv, KillerInv
  <2> QED BY <1>5, <2>1, <2>2 DEF vars, locals, IInv, TypeOK, KillerInv, NoLostWakeup, HasWork
<1>6. CASE Terminated
  BY <1>5, <1>6 DEF Terminated
<1> QED BY <1>1, <1>2, <1>3, <1>4, <1>5, <1>6 DEF Next

----------------------------------------------------------------------------
LEMMA Invariance == Spec => []IInv
BY InitInv, NextInv, PTL DEF Spec

\* Every member and every local variable keeps its type.
THEOREM TypeCorrect == Spec => []TypeOK
<1>1. IInv => TypeOK
  BY DEF IInv
<1> QED BY <1>1, Invariance, PTL

\* Every request is in exactly one place: none is lost, executed twice or
\* answered twice.
THEOREM Once == Spec => []EachRequestOnce
<1>1. IInv => EachRequestOnce
  BY DEF IInv, KillerInv
<1> QED BY <1>1, Invariance, PTL

\* No notification of work_ready_ is lost, although it is sent after the
\* mutex is released.
THEOREM Wakeups == Spec => []NoLostWakeup
<1>1. IInv => NoLostWakeup
  BY DEF IInv, KillerInv
<1> QED BY <1>1, Invariance, PTL

\* When the destructor has returned every request has its result.  The pool
\* needs its at least one worker for this.
THEOREM Shutdown == Spec => []ShutdownLosesNothing
<1>1. IInv => ShutdownLosesNothing
  <2> SUFFICES ASSUME IInv, owner = "destroyed" PROVE Answered = 1 .. issued
    BY DEF ShutdownLosesNothing
  <2>1. 1 \in Workers /\ \A w \in Workers : pc[w] = "exited"
    BY KillerAssumption DEF Workers, IInv, KillerInv
  <2>2. pending_requests = <<>> /\ InFlight = {}
    BY <2>1 DEF IInv, KillerInv, InFlight
  <2>3. Queued = {} /\ Busy = {}
    BY <2>2 DEF Queued, Busy, Range
  <2> QED BY <2>3 DEF IInv, KillerInv, EachRequestOnce
<1> QED BY <1>1, Invariance, PTL

----------------------------------------------------------------------------
(* Results that claim success.  A pid is never given back to a process that *)
(* had it before, so what the signal reached stays gone.                    *)

Ended(r) ==
  /\ r.reached # 0
  /\ r.reached <= process[r.pid].incarnation
  /\ Gone(r.pid, r.reached)

\* A waiting worker has reached a process that was there; a result that claims
\* success is about one that is not any more.
TruthInv ==
  /\ \A w \in Workers : pc[w] = "waiting" =>
       reached[w] # 0 /\ reached[w] <= process[request[w].pid].incarnation
  /\ \A w \in Workers : pc[w] = "storing" /\ result[w].status = "success" => Ended(result[w])
  /\ \A i \in DOMAIN results : results[i].status = "success" => Ended(results[i])

\* Processes only move on: a pid that is used again belongs to a later process.
LEMMA ProcessesMoveOn ==
  ASSUME IInv, OperatingSystem, NEW p \in Pids, NEW i \in Nat, i <= process[p].incarnation
  PROVE  /\ i <= process'[p].incarnation
         /\ Gone(p, i) => Gone(p, i)'
<1> USE DEF IInv, TypeOK, Processes, SetProcess, Gone
<1>1. process[p] \in Processes
  OBVIOUS
<1>2. ASSUME NEW q \in Pids, ProcessExits(q)
      PROVE  /\ i <= process'[p].incarnation
             /\ Gone(p, i) => Gone(p, i)'
  BY <1>1, <1>2 DEF ProcessExits
<1>3. ASSUME NEW q \in Pids, ProcessReaped(q)
      PROVE  /\ i <= process'[p].incarnation
             /\ Gone(p, i) => Gone(p, i)'
  BY <1>1, <1>3 DEF ProcessReaped
<1>4. ASSUME NEW q \in Pids, NEW foreign \in BOOLEAN, PidReused(q, foreign)
      PROVE  /\ i <= process'[p].incarnation
             /\ Gone(p, i) => Gone(p, i)'
  BY <1>1, <1>4, KillerAssumption DEF PidReused
<1> QED BY <1>2, <1>3, <1>4 DEF OperatingSystem

\* The steps of worker w that give it a result.
LEMMA ConcludeTruth ==
  ASSUME IInv, TruthInv, NEW w \in InFlight, NEW status, Conclude(w, status),
         status = "success" =>
           /\ reached[w] # 0 /\ reached[w] <= process[request[w].pid].incarnation
           /\ Gone(request[w].pid, reached[w])
  PROVE  TruthInv'
<1> USE DEF IInv, TypeOK, Conclude, Goto
<1>1. /\ w \in Workers /\ pc'[w] = "storing"
      /\ \A v \in Workers \ {w} : pc'[v] = pc[v] /\ result'[v] = result[v]
      /\ UNCHANGED <<results, reached, request, process>>
  BY DEF InFlight
<1>2. /\ result'[w].status = status /\ result'[w].pid = request[w].pid
      /\ result'[w].reached = reached[w]
  BY DEF InFlight
<1>3. status = "success" => Ended(result[w])'
  BY <1>1, <1>2 DEF Ended, Gone
<1>4. \A v \in Workers \ {w} : Ended(result[v])' <=> Ended(result[v])
  BY <1>1 DEF Ended, Gone
<1>5. \A i \in DOMAIN results : Ended(results[i])' <=> Ended(results[i])
  BY <1>1 DEF Ended, Gone
<1> QED BY <1>1, <1>2, <1>3, <1>4, <1>5 DEF TruthInv

LEMMA SignalTruth ==
  ASSUME IInv, TruthInv, NEW w \in Workers,
         RefuseSelf(w) \/ SignalFails(w) \/ SendSignal(w) \/ Probe(w)
  PROVE  TruthInv'
<1>1. w \in InFlight
  BY DEF InFlight, RefuseSelf, SignalFails, SendSignal, Probe
<1>2. CASE RefuseSelf(w)
  BY <1>1, <1>2, ConcludeTruth DEF RefuseSelf
<1>3. CASE SignalFails(w)
  <2>1. ErrorForErrno[Errno(request[w].pid)] # "success"
    BY <1>3 DEF SignalFails, Errno, ErrorForErrno
  <2> QED BY <1>1, <1>3, <2>1, ConcludeTruth DEF SignalFails
<1>4. CASE Probe(w)
  <2>1. StatusAfter(request[w].pid) = "success" => Gone(request[w].pid, reached[w])
    BY DEF StatusAfter, Errno, ErrorForErrno, Gone
  <2>2. reached[w] # 0 /\ reached[w] <= process[request[w].pid].incarnation
    BY <1>4 DEF Probe, TruthInv
  <2> QED BY <1>1, <1>4, <2>1, <2>2, ConcludeTruth DEF Probe
<1>5. CASE SendSignal(w)
  <2> USE DEF SendSignal, Goto
  <2>1. process[request[w].pid].incarnation \in Nat \ {0}
    <3>1. request[w].pid \in Pids
      BY <1>1 DEF IInv, KillerInv, NumberedRequests
    <3> QED BY <3>1 DEF IInv, TypeOK, Processes
  <2>2. /\ pc'[w] = "waiting" /\ reached'[w] = process[request[w].pid].incarnation
        /\ \A v \in Workers \ {w} : pc'[v] = pc[v] /\ reached'[v] = reached[v]
        /\ UNCHANGED <<request, result, results, process>>
    BY <1>5 DEF IInv, TypeOK
  <2>3. /\ \A v \in Workers : Ended(result[v])' <=> Ended(result[v])
        /\ \A i \in DOMAIN results : Ended(results[i])' <=> Ended(results[i])
    BY <2>2 DEF Ended, Gone
  <2> QED BY <2>1, <2>2, <2>3 DEF TruthInv
<1> QED BY <1>2, <1>3, <1>4, <1>5

LEMMA StoreTruth ==
  ASSUME IInv, TruthInv, NEW w \in Workers, StoreResult(w)
  PROVE  TruthInv'
<1> USE DEF IInv, StoreResult, Goto
<1>1. result[w] \in NumberedResults
  BY DEF KillerInv, InFlight
<1>2. /\ DOMAIN results' = 1 .. Len(results) + 1 /\ DOMAIN results = 1 .. Len(results)
      /\ \A k \in 1 .. Len(results) : results'[k] = results[k]
      /\ results'[Len(results) + 1] = result[w]
      /\ Len(results) \in Nat
  <2>1. results \in Seq(NumberedResults) /\ results' = Append(results, result[w])
    BY DEF TypeOK
  <2> QED BY <1>1, <2>1
<1>3. /\ pc[w] = "storing" /\ pc'[w] = "check" /\ UNCHANGED process
      /\ \A v \in Workers \ {w} :
           /\ pc'[v] = pc[v] /\ result'[v] = result[v] /\ request'[v] = request[v]
           /\ reached'[v] = reached[v]
  BY DEF TypeOK
<1>4. \A v \in Workers \ {w} : Ended(result[v])' <=> Ended(result[v])
  BY <1>3 DEF Ended, Gone
<1>5. ASSUME NEW i \in DOMAIN results', results'[i].status = "success"
      PROVE  Ended(results[i])'
  <2>1. CASE i = Len(results) + 1
    <3>1. results'[i] = result[w]
      BY <1>2, <2>1
    <3>2. Ended(result[w])
      BY <1>3, <1>5, <3>1 DEF TruthInv
    <3> QED BY <1>3, <3>1, <3>2 DEF Ended, Gone
  <2>2. CASE i \in 1 .. Len(results)
    <3>1. results'[i] = results[i]
      BY <1>2, <2>2
    <3>2. Ended(results[i])
      BY <1>2, <1>5, <2>2, <3>1 DEF TruthInv
    <3> QED BY <1>3, <3>1, <3>2 DEF Ended, Gone
  <2> QED BY <1>2, <1>5, <2>1, <2>2
<1> QED BY <1>3, <1>4, <1>5 DEF TruthInv

LEMMA SystemTruth ==
  ASSUME IInv, TruthInv, OperatingSystem
  PROVE  TruthInv'
<1>1. UNCHANGED <<pc, request, result, reached, results>>
  BY DEF OperatingSystem, ProcessExits, ProcessReaped, PidReused, SetProcess, locals
<1>2. ASSUME NEW r \in NumberedResults, Ended(r)
      PROVE  /\ r.reached # 0 /\ r.reached <= process'[r.pid].incarnation
             /\ Gone(r.pid, r.reached)'
  <2>1. r.pid \in Pids /\ r.reached \in Nat
    BY KillerAssumption DEF NumberedResults
  <2> QED BY <1>2, <2>1, ProcessesMoveOn DEF Ended
<1>3. ASSUME NEW w \in Workers, pc[w] = "waiting"
      PROVE  reached[w] # 0 /\ reached[w] <= process'[request[w].pid].incarnation
  <2>1. request[w].pid \in Pids
    BY <1>3 DEF IInv, KillerInv, InFlight, NumberedRequests
  <2>2. reached[w] \in Nat
    BY KillerAssumption DEF IInv, TypeOK
  <2> QED BY <1>3, <2>1, <2>2, ProcessesMoveOn DEF TruthInv
<1>4. ASSUME NEW w \in Workers, pc[w] = "storing", result[w].status = "success"
      PROVE  Ended(result[w])'
  <2>1. result[w] \in NumberedResults /\ Ended(result[w])
    BY <1>4 DEF IInv, KillerInv, InFlight, TruthInv
  <2> QED BY <1>1, <1>2, <2>1 DEF Ended, Gone
<1>5. ASSUME NEW i \in DOMAIN results, results[i].status = "success"
      PROVE  Ended(results[i])'
  <2>1. results[i] \in NumberedResults /\ Ended(results[i])
    BY <1>5 DEF IInv, TypeOK, TruthInv
  <2> QED BY <1>1, <1>2, <2>1 DEF Ended, Gone
<1> QED BY <1>1, <1>3, <1>4, <1>5 DEF TruthInv

\* The steps that neither signal nor store, nor touch a process.
LEMMA OtherTruth ==
  ASSUME IInv, TruthInv, UNCHANGED <<request, result, reached, process>>,
         \A w \in Workers : pc'[w] \in {"waiting", "storing"} => pc'[w] = pc[w],
         results' \in {results, <<>>}
  PROVE  TruthInv'
<1>1. /\ \A w \in Workers : Ended(result[w])' <=> Ended(result[w])
      /\ results' = results => \A i \in DOMAIN results : Ended(results[i])' <=> Ended(results[i])
  BY DEF Ended, Gone
<1> QED BY <1>1 DEF TruthInv

LEMMA NextTruth == IInv /\ TruthInv /\ [Next]_vars => TruthInv'
<1> SUFFICES ASSUME IInv, TruthInv, [Next]_vars PROVE TruthInv'
  OBVIOUS
<1>1. CASE Call \/ Proceed \/ Terminated \/ UNCHANGED vars
  <2>1. /\ UNCHANGED <<request, result, reached, process>> /\ results' \in {results, <<>>}
        /\ \A w \in Workers : pc'[w] = pc[w] \/ pc'[w] = "check"
    BY <1>1 DEF Call, Dispatch, DrainResults, BeginDestroy, Proceed, NotifyDispatch, NotifyStop,
                JoinWorkers, Terminated, vars, locals, WorkersNotified
  <2> QED BY <2>1, OtherTruth
<1>2. ASSUME NEW w \in Workers,
             Sleep(w) \/ WakeSpuriously(w) \/ Exit(w) \/ TakeRequest(w)
      PROVE  TruthInv'
  <2>1. CASE TakeRequest(w)
    <3>1. /\ \A v \in Workers : pc'[v] \in {"waiting", "storing"} =>
               v # w /\ pc'[v] = pc[v] /\ request'[v] = request[v]
          /\ UNCHANGED <<result, reached, process, results>>
      BY <2>1 DEF TakeRequest, Goto, IInv, TypeOK
    <3>2. /\ \A v \in Workers : Ended(result[v])' <=> Ended(result[v])
          /\ \A i \in DOMAIN results : Ended(results[i])' <=> Ended(results[i])
      BY <3>1 DEF Ended, Gone
    <3> QED BY <3>1, <3>2 DEF TruthInv
  <2>2. CASE Sleep(w) \/ WakeSpuriously(w) \/ Exit(w)
    <3>1. /\ UNCHANGED <<request, result, reached, process, results>>
          /\ \A v \in Workers : pc'[v] \in {"waiting", "storing"} => pc'[v] = pc[v]
      BY <2>2 DEF Sleep, WakeSpuriously, Exit, Goto, IInv, TypeOK
    <3> QED BY <3>1, OtherTruth
  <2> QED BY <1>2, <2>1, <2>2
<1> QED BY <1>1, <1>2, SignalTruth, StoreTruth, SystemTruth DEF Next, Worker

\* "Terminated after SIGTERM" and "terminated with SIGKILL" are true, whoever
\* has the pid by the time the result is read (SuccessIsTrue).
THEOREM Truth == Spec => []SuccessIsTrue
<1>1. Init => TruthInv
  BY DEF Init, TruthInv
<1>2. IInv /\ TruthInv => SuccessIsTrue
  <2> SUFFICES ASSUME TruthInv PROVE SuccessIsTrue
    OBVIOUS
  <2> QED BY DEF TruthInv, SuccessIsTrue, Ended, Range
<1> QED BY <1>1, <1>2, Invariance, NextTruth, PTL DEF Spec

----------------------------------------------------------------------------
(* The killer keeps what it promises to its owner (KillService), as far as *)
(* safety goes: every step is a step of the promise or changes nothing the *)
(* promise speaks of.                                                      *)

\* A result answers the request it was made for, and porTUI itself is refused.
AnswerInv ==
  /\ \A w \in Workers : pc[w] = "waiting" => request[w].pid # Self
  /\ \A w \in Workers : pc[w] = "storing" =>
       /\ result[w].pid = request[w].pid
       /\ result[w].status \in Promise!Answers(request[w])
       /\ result[w].can_force_kill = ResultOf(request[w], result[w].status).can_force_kill

\* The steps of worker w that give it a result.
LEMMA ConcludeAnswers ==
  ASSUME IInv, AnswerInv, NEW w \in InFlight, NEW status \in Promise!Answers(request[w]),
         Conclude(w, status)
  PROVE  AnswerInv'
<1> USE DEF IInv, TypeOK, Conclude, Goto
<1>1. /\ w \in Workers /\ pc'[w] = "storing" /\ request' = request
      /\ \A v \in Workers \ {w} : pc'[v] = pc[v] /\ result'[v] = result[v]
  BY DEF InFlight
<1>2. /\ result'[w].pid = request[w].pid /\ result'[w].status = status
      /\ result'[w].can_force_kill = ResultOf(request[w], status).can_force_kill
  BY DEF InFlight
<1> HIDE DEF Conclude, TypeOK
<1>3. ASSUME NEW v \in Workers, pc'[v] = "storing"
      PROVE  /\ result'[v].pid = request'[v].pid
             /\ result'[v].status \in Promise!Answers(request'[v])
             /\ result'[v].can_force_kill = ResultOf(request'[v], result'[v].status).can_force_kill
  <2>1. CASE v = w
    BY <1>1, <1>2, <2>1, Zenon
  <2>2. CASE v # w
    BY <1>1, <1>3, <2>2 DEF AnswerInv
  <2> QED BY <2>1, <2>2
<1>4. \A v \in Workers : pc'[v] = "waiting" => request'[v].pid # Self
  BY <1>1 DEF AnswerInv
<1>5. \A v \in Workers : Promise!Answers(request[v])' = Promise!Answers(request'[v])
  BY DEF Promise!Answers
<1> QED BY <1>3, <1>4, <1>5 DEF AnswerInv, Promise!Answers, ResultOf

LEMMA SignalAnswers ==
  ASSUME IInv, AnswerInv, NEW w \in Workers,
         RefuseSelf(w) \/ SignalFails(w) \/ SendSignal(w) \/ Probe(w)
  PROVE  AnswerInv'
<1>1. w \in InFlight
  BY DEF InFlight, RefuseSelf, SignalFails, SendSignal, Probe
<1>2. CASE RefuseSelf(w)
  <2>1. "error" \in Promise!Answers(request[w])
    BY <1>2 DEF RefuseSelf, Promise!Answers, Promise!KillStatus
  <2> QED BY <1>1, <1>2, <2>1, ConcludeAnswers DEF RefuseSelf
<1>3. CASE SignalFails(w)
  <2>1. ErrorForErrno[Errno(request[w].pid)] \in Promise!Answers(request[w])
    BY <1>3 DEF SignalFails, Errno, ErrorForErrno, KillStatus, Promise!Answers, Promise!KillStatus
  <2> QED BY <1>1, <1>3, <2>1, ConcludeAnswers DEF SignalFails
<1>4. CASE Probe(w)
  <2>1. StatusAfter(request[w].pid) \in Promise!Answers(request[w])
    BY <1>4 DEF Probe, AnswerInv, StatusAfter, Errno, ErrorForErrno, KillStatus,
                Promise!Answers, Promise!KillStatus
  <2> QED BY <1>1, <1>4, <2>1, ConcludeAnswers DEF Probe
<1>5. CASE SendSignal(w)
  <2>1. /\ UNCHANGED <<request, result>> /\ pc'[w] = "waiting" /\ request[w].pid # Self
        /\ \A v \in Workers \ {w} : pc'[v] = pc[v]
    BY <1>5 DEF SendSignal, Goto, IInv, TypeOK
  <2> QED BY <2>1 DEF AnswerInv, Promise!Answers, ResultOf
<1> QED BY <1>2, <1>3, <1>4, <1>5

LEMMA NextAnswers == IInv /\ AnswerInv /\ [Next]_vars => AnswerInv'
<1> SUFFICES ASSUME IInv, AnswerInv, [Next]_vars PROVE AnswerInv'
  OBVIOUS
\* A step that gives no worker a request or a result.
<1> DEFINE Keeps == \A w \in Workers : pc'[w] \in {"waiting", "storing"} =>
                      pc'[w] = pc[w] /\ request'[w] = request[w] /\ result'[w] = result[w]
<1>1. ASSUME Keeps PROVE AnswerInv'
  BY <1>1 DEF AnswerInv, Promise!Answers, ResultOf
<1>2. CASE Call \/ Proceed \/ OperatingSystem \/ Terminated \/ UNCHANGED vars
  <2>1. /\ UNCHANGED <<request, result>>
        /\ \A w \in Workers : pc'[w] = pc[w] \/ pc'[w] = "check"
    BY <1>2 DEF Call, Dispatch, DrainResults, BeginDestroy, Proceed, NotifyDispatch, NotifyStop,
                JoinWorkers, OperatingSystem, ProcessExits, ProcessReaped, PidReused, SetProcess,
                Terminated, vars, locals, WorkersNotified
  <2> QED BY <1>1, <2>1
<1>3. ASSUME NEW w \in Workers,
             Sleep(w) \/ WakeSpuriously(w) \/ Exit(w) \/ TakeRequest(w) \/ StoreResult(w)
      PROVE  AnswerInv'
  <2>1. \A v \in Workers : pc'[v] \in {"waiting", "storing"} => v # w
    BY <1>3 DEF Sleep, WakeSpuriously, Exit, TakeRequest, StoreResult, Goto, IInv, TypeOK
  <2>2. \A v \in Workers \ {w} :
          pc'[v] = pc[v] /\ request'[v] = request[v] /\ result'[v] = result[v]
    BY <1>3 DEF Sleep, WakeSpuriously, Exit, TakeRequest, StoreResult, Goto, IInv, TypeOK
  <2> QED BY <1>1, <2>1, <2>2
<1> QED BY <1>2, <1>3, SignalAnswers DEF Next, Worker

\* The instance reads the data of KillData as the killer does.
LEMMA SameData ==
  /\ Promise!Requests = Requests
  /\ \A batch : Promise!Kept(batch) = Kept(batch)
  /\ \A r, status : Promise!ResultOf(r, status) = ResultOf(r, status)
BY DEF Promise!Requests, Requests, Promise!Kept, Kept, Promise!ResultOf, ResultOf

\* The positions of request r in the queue, and the workers that have it.
Waiting(r) ==
  {k \in DOMAIN pending_requests :
     pending_requests[k].pid = r.pid /\ pending_requests[k].force = r.force}
AtWorkers(r) == {w \in InFlight : request[w].pid = r.pid /\ request[w].force = r.force}

Counted(r) ==
  /\ IsFiniteSet(Waiting(r)) /\ IsFiniteSet(AtWorkers(r))
  /\ Cardinality(Waiting(r)) \in Nat /\ Cardinality(AtWorkers(r)) \in Nat
  /\ Asked(r) = Cardinality(Waiting(r)) + Cardinality(AtWorkers(r))

LEMMA AskedCounts == IInv => \A r : Counted(r)
<1> SUFFICES ASSUME IInv, NEW r PROVE Counted(r)
  OBVIOUS
<1>1. Len(pending_requests) \in Nat /\ DOMAIN pending_requests = 1 .. Len(pending_requests)
  BY LenProperties DEF IInv, TypeOK
<1>2. IsFiniteSet(DOMAIN pending_requests) /\ IsFiniteSet(Workers)
  BY <1>1, KillerAssumption, FS_Interval DEF Workers
<1>3. Waiting(r) \subseteq DOMAIN pending_requests /\ AtWorkers(r) \subseteq Workers
  BY DEF Waiting, AtWorkers, InFlight
<1>4. IsFiniteSet(Waiting(r)) /\ IsFiniteSet(AtWorkers(r))
  BY <1>2, <1>3, FS_Subset
<1> QED BY <1>4, FS_CardinalityType DEF Counted, Asked, Waiting, AtWorkers

\* A step that leaves the queue, the busy workers and the results alone.
LEMMA PromiseStutters ==
  ASSUME InFlight' = InFlight, UNCHANGED <<pending_requests, request, results>>,
         \/ owner' = owner
         \/ owner \in {"idle", "notifying"} /\ owner' \in {"idle", "notifying"}
         \/ owner \in {"stopping", "joining"} /\ owner' \in {"stopping", "joining"}
  PROVE  UNCHANGED Promise!serviceVars
<1>1. \A r : Asked(r)' = Asked(r)
  BY DEF Asked
<1> QED BY <1>1 DEF Promise!serviceVars

\* A queued request that a worker takes is asked for as before.
LEMMA TakeStutters ==
  ASSUME IInv, NEW w \in Workers, TakeRequest(w)
  PROVE  UNCHANGED Promise!serviceVars
<1> DEFINE last == Len(pending_requests)
<1>1. /\ last \in Nat \ {0} /\ DOMAIN pending_requests = 1 .. last
      /\ DOMAIN pending_requests' = 1 .. last - 1
      /\ \A k \in 1 .. last - 1 : pending_requests'[k] = pending_requests[k]
      /\ w \notin InFlight /\ InFlight' = InFlight \cup {w}
      /\ request'[w] = pending_requests[last]
      /\ \A v \in Workers \ {w} : request'[v] = request[v]
  BY TakenRequest, Zenon
<1>2. UNCHANGED <<results, owner>>
  BY DEF TakeRequest
<1>3. /\ \A r : Counted(r)
      /\ (\A r : Counted(r))'
  <2>1. IInv'
    BY TakeRequestStep
  <2> QED BY <2>1, AskedCounts, PTL
<1>4. ASSUME NEW r PROVE Asked(r)' = Asked(r)
  <2> DEFINE Same(q) == q.pid = r.pid /\ q.force = r.force
  <2>1. /\ last \notin Waiting(r)'
        /\ Waiting(r) = IF Same(pending_requests[last]) THEN Waiting(r)' \cup {last}
                                                        ELSE Waiting(r)'
    <3>1. Waiting(r)' = {k \in 1 .. last - 1 : Same(pending_requests[k])}
      BY <1>1 DEF Waiting
    <3>2. Waiting(r) = {k \in 1 .. last : Same(pending_requests[k])}
      BY <1>1 DEF Waiting
    <3>3. 1 .. last = (1 .. last - 1) \cup {last} /\ last \notin 1 .. last - 1
      BY <1>1
    <3> HIDE DEF Same, last
    <3> QED BY <3>1, <3>2, <3>3
  <2>2. /\ w \notin AtWorkers(r)
        /\ AtWorkers(r)' = IF Same(pending_requests[last]) THEN AtWorkers(r) \cup {w}
                                                           ELSE AtWorkers(r)
    <3>1. AtWorkers(r)' = {v \in InFlight \cup {w} : Same(request'[v])}
      BY <1>1 DEF AtWorkers
    <3>2. AtWorkers(r) = {v \in InFlight : Same(request[v])}
      BY DEF AtWorkers
    <3>3. \A v \in InFlight : request'[v] = request[v]
      BY <1>1 DEF InFlight
    <3> HIDE DEF Same, last
    <3> QED BY <1>1, <3>1, <3>2, <3>3
  <2>3. /\ IsFiniteSet(Waiting(r)') /\ IsFiniteSet(AtWorkers(r))
        /\ Cardinality(Waiting(r)') \in Nat /\ Cardinality(AtWorkers(r)) \in Nat
        /\ Asked(r) = Cardinality(Waiting(r)) + Cardinality(AtWorkers(r))
        /\ Asked(r)' = Cardinality(Waiting(r)') + Cardinality(AtWorkers(r)')
    BY <1>3 DEF Counted
  <2> HIDE DEF Same
  <2>4. CASE Same(pending_requests[last])
    <3>1. /\ Cardinality(Waiting(r)) = Cardinality(Waiting(r)') + 1
          /\ Cardinality(AtWorkers(r)') = Cardinality(AtWorkers(r)) + 1
      BY <2>1, <2>2, <2>3, <2>4, FS_AddElement, ZenonT(40)
    <3> QED BY <2>3, <3>1
  <2>5. CASE ~Same(pending_requests[last])
    BY <2>1, <2>2, <2>3, <2>5
  <2> QED BY <2>4, <2>5
<1> QED BY <1>2, <1>4 DEF Promise!serviceVars

\* A dispatch asks once more for each request it keeps.
LEMMA DispatchAsks ==
  ASSUME IInv, NEW batch \in Batches, NEW force \in BOOLEAN, Dispatch(batch, force)
  PROVE  Promise!Ask(batch, force)
<1> DEFINE n   == Cardinality(Kept(batch))
           len == Len(pending_requests)
<1> DEFINE pids == Ascending(Kept(batch))
<1>1. /\ n \in Nat /\ len \in Nat /\ DOMAIN pending_requests = 1 .. len
      /\ DOMAIN pending_requests' = 1 .. len + n
      /\ \A i \in 1 .. len : pending_requests'[i] = pending_requests[i]
      /\ \A i \in len + 1 .. len + n :
           pending_requests'[i] =
             [id |-> issued + (i - len), pid |-> pids[i - len], force |-> force]
  BY DispatchedQueue, Zenon
\* Each kept pid is at exactly one position.
<1>2. /\ \A i \in 1 .. n : pids[i] \in Kept(batch)
      /\ \A i, j \in 1 .. n : pids[i] = pids[j] => i = j
      /\ \A p \in Kept(batch) : \E i \in 1 .. n : pids[i] = p
  <2>1. pids \in Bijection(1 .. n, Kept(batch))
    BY KeptAscending
  <2> HIDE DEF pids, n
  <2> QED BY <2>1 DEF Bijection, Injection, Surjection, IsInjective
<1> HIDE DEF pids
<1>3. /\ InFlight' = InFlight /\ UNCHANGED <<request, results>>
      /\ owner = "idle" /\ owner' = "notifying"
  BY DEF Dispatch, locals, InFlight
<1>4. /\ \A r : Counted(r)
      /\ (\A r : Counted(r))'
  <2>1. IInv'
    BY DispatchStep
  <2> QED BY <2>1, AskedCounts, PTL
<1>5. ASSUME NEW r \in Requests
      PROVE  Asked(r)' = IF r.force = force /\ r.pid \in Kept(batch) THEN Asked(r) + 1
                                                                     ELSE Asked(r)
  <2> DEFINE Same(q) == q.pid = r.pid /\ q.force = r.force
             Old == 1 .. len
             New == len + 1 .. len + n
             At(k) == pending_requests[k]
  <2>1. AtWorkers(r)' = AtWorkers(r)
    BY <1>3 DEF AtWorkers
  <2>2. /\ Waiting(r) = {k \in Old : Same(pending_requests[k])}
        /\ Waiting(r)' = {k \in Old \cup New : Same(pending_requests'[k])}
    <3>1. 1 .. len + n = Old \cup New
      BY <1>1
    <3> QED BY <1>1, <3>1 DEF Waiting
  <2>3. Old \cap New = {} /\ \A k \in New : k - len \in 1 .. n
    BY <1>1
  <2>4. \A k \in New : Same(pending_requests'[k]) <=> pids[k - len] = r.pid /\ force = r.force
    <3>1. \A k \in New : pending_requests'[k].pid = pids[k - len]
                         /\ pending_requests'[k].force = force
      <4> SUFFICES ASSUME NEW k \in New
                   PROVE  pending_requests'[k].pid = pids[k - len]
                          /\ pending_requests'[k].force = force
        OBVIOUS
      <4>1. pending_requests'[k] =
              [id |-> issued + (k - len), pid |-> pids[k - len], force |-> force]
        BY <1>1, Zenon
      <4> QED BY <4>1
    <3> QED BY <3>1
  <2>5. Counted(r) /\ Counted(r)'
    BY <1>4
  <2>6. CASE r.force = force /\ r.pid \in Kept(batch)
    <3>1. PICK i \in 1 .. n : pids[i] = r.pid
      BY <1>2, <2>6
    <3>2. len + i \in New /\ (len + i) - len = i /\ \A k \in New : k - len = i => k = len + i
      BY <1>1
    <3> HIDE DEF len, n, New, Old
    <3>3. \A k \in New : Same(pending_requests'[k]) <=> k = len + i
      BY <1>2, <2>3, <2>4, <2>6, <3>1, <3>2
    <3>4. \A k \in Old : Same(pending_requests'[k]) <=> Same(pending_requests[k])
      BY <1>1 DEF Old
    <3> HIDE DEF Same
    <3>5. Waiting(r)' = Waiting(r) \cup {len + i} /\ len + i \notin Waiting(r)
      BY <2>2, <2>3, <3>2, <3>3, <3>4, Zenon
    <3>6. Cardinality(Waiting(r)') = Cardinality(Waiting(r)) + 1
      BY <2>5, <3>5, FS_AddElement DEF Counted
    <3> QED BY <2>1, <2>5, <2>6, <3>6 DEF Counted
  <2>7. CASE ~(r.force = force /\ r.pid \in Kept(batch))
    <3>1. \A k \in New : ~Same(pending_requests'[k])
      BY <1>2, <2>3, <2>4, <2>7
    <3>2. \A k \in Old : Same(pending_requests'[k]) <=> Same(pending_requests[k])
      BY <1>1
    <3> HIDE DEF Same, len, n, New, Old
    <3>3. Waiting(r)' = Waiting(r)
      BY <2>2, <3>1, <3>2, Zenon
    <3> QED BY <2>1, <2>5, <2>7, <3>3 DEF Counted
  <2> QED BY <2>6, <2>7
<1> HIDE DEF n, len
<1> QED BY <1>3, <1>5, SameData DEF Promise!Ask

\* A result that is stored answers a request that was asked for.
LEMMA StoreAnswers ==
  ASSUME IInv, AnswerInv, NEW w \in Workers, StoreResult(w)
  PROVE  Promise!AnswerSome
<1> DEFINE n == Len(results)
<1>1. /\ w \in InFlight /\ InFlight' = InFlight \ {w}
      /\ \A v \in Workers \ {w} : request'[v] = request[v]
      /\ result[w] \in NumberedResults
      /\ n \in Nat /\ DOMAIN results = 1 .. n /\ DOMAIN results' = 1 .. n + 1
      /\ \A k \in 1 .. n : results'[k] = results[k]
      /\ results'[n + 1] = result[w]
  BY StoredResult, Zenon
<1>2. request[w] \in NumberedRequests /\ pc[w] = "storing"
  BY <1>1 DEF StoreResult, IInv, KillerInv
<1>3. UNCHANGED <<pending_requests, owner>>
  BY DEF StoreResult
<1>4. /\ \A r : Counted(r)
      /\ (\A r : Counted(r))'
  <2>1. IInv'
    BY StoreResultStep
  <2> QED BY <2>1, AskedCounts, PTL
<1> DEFINE made   == [pid |-> request[w].pid, force |-> request[w].force]
           status == result[w].status
<1>5. made \in Requests
  BY <1>2 DEF NumberedRequests, Requests
<1>6. ASSUME NEW r \in Requests
      PROVE  /\ r = made => Asked(r) > 0 /\ Asked(r)' = Asked(r) - 1
             /\ r # made => Asked(r)' = Asked(r)
  <2>1. Waiting(r)' = Waiting(r)
    BY <1>3 DEF Waiting
  <2>2. AtWorkers(r)' = AtWorkers(r) \ {w}
    <3>1. \A v \in InFlight \ {w} : request'[v] = request[v]
      BY <1>1 DEF InFlight
    <3> QED BY <1>1, <3>1 DEF AtWorkers
  <2>3. w \in AtWorkers(r) <=> r = made
    BY <1>1, <1>5 DEF AtWorkers, Requests
  <2>4. Counted(r) /\ Counted(r)'
    BY <1>4
  <2>5. CASE r = made
    <3>1. Cardinality(AtWorkers(r)') = Cardinality(AtWorkers(r)) - 1
      BY <2>2, <2>3, <2>4, <2>5, FS_RemoveElement DEF Counted
    <3> QED BY <2>1, <2>4, <2>5, <3>1 DEF Counted
  <2>6. CASE r # made
    <3>1. AtWorkers(r)' = AtWorkers(r)
      BY <2>2, <2>3, <2>6
    <3> QED BY <2>1, <2>4, <2>6, <3>1 DEF Counted
  <2> QED BY <2>5, <2>6
<1> DEFINE Shown(q) == [pid |-> q.pid, status |-> q.status, can_force_kill |-> q.can_force_kill]
           shown == [k \in DOMAIN results |-> Shown(results[k])]
<1>7. [k \in DOMAIN results' |-> Shown(results'[k])] = Append(shown, Shown(result[w]))
  <2>1. Len(shown) = n /\ DOMAIN shown = 1 .. n
    BY <1>1
  <2>2. Append(shown, Shown(result[w]))
          = [k \in 1 .. n + 1 |-> IF k = n + 1 THEN Shown(result[w]) ELSE shown[k]]
    BY <1>1, <2>1
  <2> QED BY <1>1, <2>2
<1>8. Shown(result[w]) = ResultOf(made, status) /\ status \in Promise!Answers(made)
  <2>1. /\ result[w].pid = request[w].pid
        /\ status \in Promise!Answers(request[w])
        /\ result[w].can_force_kill = ResultOf(request[w], status).can_force_kill
    BY <1>2 DEF AnswerInv
  <2> QED BY <2>1 DEF ResultOf, Promise!Answers
<1>9. Promise!Answer(made)
  BY <1>3, <1>5, <1>6, <1>7, <1>8, SameData DEF Promise!Answer
<1> HIDE DEF made
<1> QED BY <1>5, <1>9, SameData DEF Promise!AnswerSome, Promise!Answer

LEMMA InitPromise == Init => Promise!ServiceInit
<1> SUFFICES ASSUME Init PROVE Promise!ServiceInit
  OBVIOUS
<1>1. IInv
  BY InitInv
<1>2. ASSUME NEW r PROVE Asked(r) = 0
  <2>1. Waiting(r) = {} /\ AtWorkers(r) = {}
    BY DEF Init, Waiting, AtWorkers, InFlight
  <2> QED BY <1>1, <2>1, AskedCounts, FS_EmptySet DEF Counted
<1>3. results = <<>> /\ owner = "idle"
  BY DEF Init
<1>4. [k \in DOMAIN results |->
         [pid |-> results[k].pid, status |-> results[k].status,
          can_force_kill |-> results[k].can_force_kill]] = <<>>
  BY <1>3
<1> QED BY <1>2, <1>3, <1>4, SameData DEF Promise!ServiceInit

\* The calls of the owner other than Dispatch, and the return of its destructor.
LEMMA OwnerPromise ==
  ASSUME IInv, DrainResults \/ BeginDestroy \/ Proceed
  PROVE  Promise!ServiceNext \/ UNCHANGED Promise!serviceVars
<1>1. CASE DrainResults
  <2>1. /\ InFlight' = InFlight /\ UNCHANGED <<pending_requests, request, owner>>
        /\ results' = <<>> /\ owner = "idle"
    BY <1>1 DEF DrainResults, locals, InFlight
  <2>2. \A r : Asked(r)' = Asked(r)
    BY <2>1 DEF Asked
  <2>3. [k \in DOMAIN results' |->
           [pid |-> results'[k].pid, status |-> results'[k].status,
            can_force_kill |-> results'[k].can_force_kill]] = <<>>
    BY <2>1
  <2>4. Promise!Drain
    BY <2>1, <2>2, <2>3 DEF Promise!Drain
  <2> QED BY <2>4 DEF Promise!ServiceNext
<1>2. CASE BeginDestroy
  <2>1. /\ InFlight' = InFlight /\ UNCHANGED <<pending_requests, request, results>>
        /\ owner = "idle" /\ owner' = "stopping"
    BY <1>2 DEF BeginDestroy, locals, InFlight
  <2>2. \A r : Asked(r)' = Asked(r)
    BY <2>1 DEF Asked
  <2>3. Promise!Close
    BY <2>1, <2>2 DEF Promise!Close
  <2> QED BY <2>3 DEF Promise!ServiceNext
<1>3. CASE NotifyDispatch \/ NotifyStop
  <2>1. InFlight' = InFlight
    BY <1>3 DEF NotifyDispatch, NotifyStop, IInv, TypeOK, InFlight, WorkersNotified
  <2> QED BY <1>3, <2>1, PromiseStutters DEF NotifyDispatch, NotifyStop
<1>4. CASE JoinWorkers
  <2>1. /\ InFlight' = InFlight /\ UNCHANGED <<pending_requests, request, results>>
        /\ owner = "joining" /\ owner' = "destroyed"
    BY <1>4 DEF JoinWorkers, locals, InFlight
  <2>2. \A r : Asked(r)' = Asked(r)
    BY <2>1 DEF Asked
  <2>3. ASSUME NEW r PROVE Asked(r) = 0
    <3>1. 1 \in Workers /\ \A w \in Workers : pc[w] = "exited"
      BY <1>4, KillerAssumption DEF JoinWorkers, Workers
    <3>2. pending_requests = <<>> /\ InFlight = {}
      BY <3>1 DEF IInv, KillerInv, InFlight
    <3>3. Waiting(r) = {} /\ AtWorkers(r) = {}
      BY <3>2 DEF Waiting, AtWorkers
    <3> QED BY <3>3, AskedCounts, FS_EmptySet DEF Counted
  <2>4. Promise!Closed
    BY <2>1, <2>2, <2>3, SameData DEF Promise!Closed
  <2> QED BY <2>4 DEF Promise!ServiceNext
<1> QED BY <1>1, <1>2, <1>3, <1>4 DEF Proceed

LEMMA NextPromise ==
  IInv /\ AnswerInv /\ [Next]_vars => [Promise!ServiceNext]_(Promise!serviceVars)
<1> SUFFICES ASSUME IInv, AnswerInv, [Next]_vars
             PROVE  Promise!ServiceNext \/ UNCHANGED Promise!serviceVars
  OBVIOUS
<1>1. ASSUME NEW batch \in Batches, NEW force \in BOOLEAN, Dispatch(batch, force)
      PROVE  Promise!ServiceNext
  BY <1>1, DispatchAsks DEF Promise!ServiceNext, Promise!Ask
<1>2. ASSUME NEW w \in Workers, StoreResult(w) PROVE Promise!ServiceNext
  BY <1>2, StoreAnswers DEF Promise!ServiceNext
<1>3. ASSUME NEW w \in Workers,
             \/ Sleep(w) \/ WakeSpuriously(w) \/ Exit(w)
             \/ RefuseSelf(w) \/ SignalFails(w) \/ SendSignal(w) \/ Probe(w)
      PROVE  UNCHANGED Promise!serviceVars
  <2>1. InFlight' = InFlight
    BY <1>3 DEF Sleep, WakeSpuriously, Exit, RefuseSelf, SignalFails, SendSignal, Probe, Conclude,
                Goto, IInv, TypeOK, InFlight
  <2>2. UNCHANGED <<pending_requests, request, results, owner>>
    BY <1>3 DEF Sleep, WakeSpuriously, Exit, RefuseSelf, SignalFails, SendSignal, Probe, Conclude
  <2> QED BY <2>1, <2>2, PromiseStutters
<1>4. CASE OperatingSystem \/ Terminated \/ UNCHANGED vars
  <2>1. UNCHANGED <<pending_requests, request, results, owner, pc>>
    BY <1>4 DEF OperatingSystem, ProcessExits, ProcessReaped, PidReused, SetProcess, Terminated,
                vars, locals
  <2> QED BY <2>1, PromiseStutters DEF InFlight
<1> QED BY <1>1, <1>2, <1>3, <1>4, OwnerPromise, TakeStutters DEF Next, Call, Worker

\* The killer does only what its service promises: each request of a batch is
\* answered once, with a status that fits it, also while the destructor runs,
\* and a drain takes every answer (the safety part of ImplementsKillService).
THEOREM Refines == Spec => Promise!ServiceInit /\ [][Promise!ServiceNext]_(Promise!serviceVars)
<1>1. Init => AnswerInv
  BY DEF Init, AnswerInv
<1> QED BY <1>1, InitPromise, NextAnswers, NextPromise, Invariance, PTL DEF Spec
=============================================================================
