----------------------- MODULE SnapshotPipelineProofs -----------------------
(***************************************************************************)
(* For any keys and any groups of sockets: the pipeline is type correct,   *)
(* no thread outlives running_, a diff is against what readers see,        *)
(* nothing is published after a stop was requested and updates chain.      *)
(***************************************************************************)
EXTENDS SnapshotPipeline, TLAPS

IInv == TypeOK /\ PipelineInv

\* What TypeOK says of the two optional snapshots.
Optional == {<<>>} \cup {<<t>> : t \in Snapshots}
Published == [i \in DOMAIN latest |-> latest[i].snapshot]

LEMMA TypeParts ==
  TypeOK <=>
    /\ world \in Snapshots
    /\ running \in BOOLEAN
    /\ stop_requested \in BOOLEAN
    /\ owner \in OwnerStates
    /\ destroying \in BOOLEAN
    /\ pc \in ThreadStates
    /\ snapshot \in Snapshots
    /\ unread \in SUBSET EntryKeys
    /\ previous \in Optional
    /\ Published \in Optional
BY DEF TypeOK, Optional, Published

\* The same of the next state.
LEMMA TypePartsNext ==
  TypeOK' <=>
    /\ world' \in Snapshots
    /\ running' \in BOOLEAN
    /\ stop_requested' \in BOOLEAN
    /\ owner' \in OwnerStates
    /\ destroying' \in BOOLEAN
    /\ pc' \in ThreadStates
    /\ snapshot' \in Snapshots
    /\ unread' \in SUBSET EntryKeys
    /\ previous' \in Optional
    /\ Published' \in Optional
BY DEF TypeOK, Optional, Published, Snapshots

\* A snapshot in which nothing was read yet is a snapshot.
LEMMA NoSocketsIsSnapshot == NoSockets \in Snapshots
BY PipelineAssumption DEF NoSockets, Snapshots

\* The initial states.
LEMMA InitIInv == Init => IInv
<1> SUFFICES ASSUME Init PROVE IInv
  OBVIOUS
<1>1. Published = <<>>
  BY DEF Init, Published
<1>2. TypeOK
  BY <1>1, NoSocketsIsSnapshot, TypeParts DEF Init, Optional, OwnerStates, ThreadStates
<1>3. PipelineInv
  BY DEF Init, PipelineInv, ReturnedWhenAsked, PreviousIsPublished
<1> QED BY <1>2, <1>3 DEF IInv

----------------------------------------------------------------------------
\* The disjuncts of the next-state relation, one by one.
LEMMA NextActions ==
  ASSUME [Next]_vars
  PROVE  \/ \E key \in EntryKeys, group \in Groups : WorldChanges(key, group)
         \/ Start
         \/ \E destroy \in BOOLEAN : RequestStop(destroy)
         \/ DestroyStopped
         \/ JoinThread
         \/ MarkStopped
         \/ \E key \in EntryKeys : ReadProcess(key)
         \/ FinishScan
         \/ ObeyStop
         \/ Publish
         \/ EvaluatePredicate
         \/ WakeSpuriously
         \/ IntervalPasses
         \/ UNCHANGED vars
BY Zenon DEF Next, Call, Proceed, Step

\* Replacing the group of one key leaves a snapshot.
LEMMA SnapshotExcept ==
  ASSUME NEW s \in Snapshots, NEW key \in EntryKeys, NEW group \in Groups
  PROVE  [s EXCEPT ![key] = group] \in Snapshots
BY DEF Snapshots

\* Every step keeps the types: only Publish touches what readers see.
LEMMA TypeStep ==
  ASSUME TypeOK, [Next]_vars
  PROVE  TypeOK'
<1> USE TypeParts
<1>1. ASSUME UNCHANGED latest PROVE Published' = Published
  BY <1>1 DEF Published
<1>2. ASSUME NEW key \in EntryKeys, NEW group \in Groups, WorldChanges(key, group)
      PROVE  TypeOK'
  BY <1>1, <1>2, SnapshotExcept, TypePartsNext DEF WorldChanges, members, locals
<1>3. CASE Start
  BY <1>1, <1>3, NoSocketsIsSnapshot, TypePartsNext
     DEF Start, StopWithdrawn, ThreadStates, Optional
<1>4. ASSUME NEW destroy \in BOOLEAN, RequestStop(destroy) PROVE TypeOK'
  BY <1>1, <1>4, TypePartsNext
     DEF RequestStop, Notified, AfterRequest, OwnerStates, ThreadStates, locals
<1>5. CASE DestroyStopped
  BY <1>1, <1>5, TypePartsNext DEF DestroyStopped, OwnerStates, members, locals
<1>6. CASE JoinThread
  BY <1>1, <1>6, TypePartsNext DEF JoinThread, OwnerStates, ThreadStates, members, locals
<1>7. CASE MarkStopped
  BY <1>1, <1>7, TypePartsNext DEF MarkStopped, OwnerStates, locals
<1>8. ASSUME NEW key \in EntryKeys, ReadProcess(key) PROVE TypeOK'
  <2>1. world[key] \in Groups
    BY DEF Snapshots
  <2> QED BY <1>1, <1>8, <2>1, SnapshotExcept, TypePartsNext DEF ReadProcess, members
<1>9. CASE FinishScan
  BY <1>1, <1>9, TypePartsNext DEF FinishScan, ThreadStates, members, locals
<1>10. CASE ObeyStop
  BY <1>1, <1>10, TypePartsNext DEF ObeyStop, ThreadStates, members, locals
<1>11. CASE Publish
  <2>1. Published' = <<snapshot>>
    BY <1>11 DEF Publish, Published
  <2> QED BY <1>11, <2>1, TypePartsNext DEF Publish, PreviousAfter, ThreadStates, Optional
<1>12. CASE EvaluatePredicate
  BY <1>1, <1>12, TypePartsNext DEF EvaluatePredicate, ThreadStates, members, locals
<1>13. CASE WakeSpuriously
  BY <1>1, <1>13, TypePartsNext DEF WakeSpuriously, ThreadStates, members, locals
<1>14. CASE IntervalPasses
  BY <1>1, <1>14, NoSocketsIsSnapshot, TypePartsNext
     DEF IntervalPasses, ThreadStates, members
<1>15. CASE UNCHANGED vars
  BY <1>1, <1>15, TypePartsNext DEF vars, members, locals
<1> QED
  BY <1>2, <1>3, <1>4, <1>5, <1>6, <1>7, <1>8, <1>9, <1>10, <1>11, <1>12, <1>13, <1>14,
     <1>15, NextActions, Zenon

\* Every step keeps the invariant: a stop request is pending exactly while
\* the owner is past it, so a thread that waits was not asked to stop, and
\* a thread that published remembers what it published.
LEMMA InvStep ==
  ASSUME TypeOK, PipelineInv, [Next]_vars
  PROVE  PipelineInv'
<1> USE DEF PipelineInv, ReturnedWhenAsked, PreviousIsPublished
<1>1. pc \in ThreadStates /\ owner \in OwnerStates /\ stop_requested \in BOOLEAN
        /\ running \in BOOLEAN
  BY DEF TypeOK
<1>2. ASSUME NEW key \in EntryKeys, NEW group \in Groups, WorldChanges(key, group)
      PROVE  PipelineInv'
  BY <1>2 DEF WorldChanges, members, locals
<1>3. CASE Start
  BY <1>1, <1>3 DEF Start, StopWithdrawn
<1>4. ASSUME NEW destroy \in BOOLEAN, RequestStop(destroy) PROVE PipelineInv'
  BY <1>1, <1>4 DEF RequestStop, Notified, AfterRequest, locals
<1>5. CASE DestroyStopped
  BY <1>1, <1>5 DEF DestroyStopped, members, locals
<1>6. CASE JoinThread
  BY <1>1, <1>6 DEF JoinThread, members, locals
<1>7. CASE MarkStopped
  BY <1>1, <1>7 DEF MarkStopped, locals
<1>8. ASSUME NEW key \in EntryKeys, ReadProcess(key) PROVE PipelineInv'
  BY <1>1, <1>8 DEF ReadProcess, members
<1>9. CASE FinishScan
  BY <1>1, <1>9 DEF FinishScan, members, locals
<1>10. CASE ObeyStop
  BY <1>1, <1>10 DEF ObeyStop, members, locals
<1>11. CASE Publish
  <2>1. previous' = <<snapshot>> /\ previous'[1] = snapshot
    BY <1>11 DEF Publish, PreviousAfter
  <2>2. latest' # <<>> /\ latest'[1].snapshot = snapshot
    BY <1>11 DEF Publish
  <2> QED BY <1>1, <1>11, <2>1, <2>2 DEF Publish
<1>12. CASE EvaluatePredicate
  BY <1>1, <1>12 DEF EvaluatePredicate, members, locals
<1>13. CASE WakeSpuriously
  BY <1>1, <1>13 DEF WakeSpuriously, members, locals
<1>14. CASE IntervalPasses
  BY <1>1, <1>14 DEF IntervalPasses, members
<1>15. CASE UNCHANGED vars
  BY <1>1, <1>15 DEF vars, members, locals
<1> QED
  BY <1>2, <1>3, <1>4, <1>5, <1>6, <1>7, <1>8, <1>9, <1>10, <1>11, <1>12, <1>13, <1>14,
     <1>15, NextActions, Zenon

\* IInv is an invariant, whatever fairness the threads enjoy.
LEMMA Invariance == Init /\ [][Next]_vars => []IInv
<1>1. IInv /\ [Next]_vars => IInv'
  BY TypeStep, InvStep DEF IInv
<1> QED BY <1>1, InitIInv, PTL

----------------------------------------------------------------------------
\* The members and the locals have their types in every reachable state.
THEOREM TypeCorrect == Spec => []TypeOK
<1>1. IInv => TypeOK
  BY DEF IInv
<1> QED BY <1>1, Invariance, PTL DEF Spec

\* No thread outlives running_ (StoppedMeansJoined): Start never meets an
\* unjoined thread, and none is left when Stop or the destructor returned.
THEOREM NoThreadLeft == Spec => []StoppedMeansJoined
<1>1. IInv => StoppedMeansJoined
  BY DEF IInv, PipelineInv, StoppedMeansJoined
<1> QED BY <1>1, Invariance, PTL DEF Spec

\* Every diff is against what readers see (PreviousIsPublished): the copy
\* the thread keeps in previous, outside the mutex, never is of an update
\* that was not published, nor of an earlier one.
THEOREM DiffsAgainstPublished == Spec => []PreviousIsPublished
<1>1. IInv => PreviousIsPublished
  BY DEF IInv, PipelineInv
<1> QED BY <1>1, Invariance, PTL DEF Spec

\* Nothing is published once a stop was requested (QuietAfterStop).
THEOREM NothingAfterStop == Spec => QuietAfterStop
<1>1. ASSUME [Next]_vars PROVE stop_requested /\ stop_requested' => latest' = latest
  BY <1>1, NextActions
     DEF WorldChanges, Start, RequestStop, DestroyStopped, JoinThread, MarkStopped,
         ReadProcess, FinishScan, ObeyStop, Publish, MayPublish, EvaluatePredicate,
         WakeSpuriously, IntervalPasses, vars, members, locals
<1> QED BY <1>1, PTL DEF Spec, QuietAfterStop

\* Each update of a run tells the difference to the one before it
\* (UpdatesChain): none is lost or told twice between two publications.
THEOREM UpdatesTellDifferences == Spec => UpdatesChain
<1> DEFINE Chained ==
      previous # <<>> /\ latest' # latest =>
        latest'[1].diff = DiffSnapshots(latest[1].snapshot, latest'[1].snapshot)
<1>1. ASSUME IInv, [Next]_vars PROVE Chained
  <2>1. CASE Publish
    <3>1. /\ latest'[1].snapshot = snapshot
          /\ latest'[1].diff = DiffOf(previous, snapshot)
      BY <2>1 DEF Publish
    <3>2. previous # <<>> => DiffOf(previous, snapshot) = DiffSnapshots(previous[1], snapshot)
      BY DEF DiffOf
    <3>3. previous # <<>> => previous[1] = latest[1].snapshot
      BY <1>1, <2>1 DEF IInv, PipelineInv, PreviousIsPublished, Publish
    <3> QED BY <3>1, <3>2, <3>3
  <2>2. CASE ~Publish
    BY <1>1, <2>2, NextActions
       DEF WorldChanges, Start, RequestStop, DestroyStopped, JoinThread, MarkStopped,
           ReadProcess, FinishScan, ObeyStop, EvaluatePredicate, WakeSpuriously,
           IntervalPasses, vars, members, locals
  <2> QED BY <2>1, <2>2
<1> QED BY <1>1, Invariance, PTL DEF Spec, UpdatesChain
=============================================================================
