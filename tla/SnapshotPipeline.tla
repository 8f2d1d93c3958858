-------------------------- MODULE SnapshotPipeline --------------------------
(***************************************************************************)
(* src/core/snapshot_pipeline.cpp: a thread that scans, diffs and          *)
(* publishes in a loop, and the one thread that owns the pipeline and      *)
(* starts it, stops it and finally destroys it (LiveTable::Run and         *)
(* WatchSnapshots own it so).                                              *)
(*                                                                         *)
(* A critical section of mutex_ is one action.  A scan is not atomic: it   *)
(* reads the sockets one process after the other while they change.  An    *)
(* optional is a sequence of at most one element.                          *)
(***************************************************************************)
EXTENDS Diff

CONSTANTS
  EntryKeys,   \* the keys sockets may have, one per process here
  Groups       \* the vectors of entries a key may have

ASSUME PipelineAssumption == <<>> \in Groups

VARIABLES
  world,        \* the sockets there are, by key
  \* the members mutex_ guards; worker_ is there while a thread was not joined
  running, stop_requested, latest,
  \* the owner: where it is, and whether it is in the destructor
  owner, destroying,
  \* the thread of Run: where it is, and its local variables
  pc, snapshot, unread, previous

members == <<running, stop_requested, latest>>
locals == <<snapshot, unread, previous>>
vars == <<world, members, owner, destroying, pc, locals>>

Snapshots == [EntryKeys -> Groups]
NoSockets == [key \in EntryKeys |-> <<>>]

\* owner: outside every call; joining the thread; joined, running_ still
\* set; the destructor returned.
OwnerStates == {"idle", "joining", "marking", "destroyed"}

\* pc: no thread; in Scan; about to publish; published, about to wait;
\* blocked in wait_for; notified, to evaluate the predicate; returned.
ThreadStates == {"none", "scanning", "publishing", "settling", "waiting", "woken", "returned"}

----------------------------------------------------------------------------
Init ==
  /\ world \in Snapshots
  /\ running = FALSE
  /\ stop_requested = FALSE
  /\ latest = <<>>
  /\ owner = "idle"
  /\ destroying = FALSE
  /\ pc = "none"
  /\ snapshot = NoSockets
  /\ unread = {}
  /\ previous = <<>>

\* The sockets of a process change.
WorldChanges(key, group) ==
  /\ world[key] # group
  /\ world' = [world EXCEPT ![key] = group]
  /\ UNCHANGED <<members, owner, destroying, pc, locals>>

----------------------------------------------------------------------------
(* The owner *)

\* Start; it changes nothing when the pipeline is running.  The slip: the
\* stop request of the last run is not withdrawn.
StopWithdrawnSlip == stop_requested
StopWithdrawn == FALSE

Start ==
  /\ owner = "idle"
  /\ ~running
  /\ stop_requested' = StopWithdrawn
  /\ running' = TRUE
  /\ pc' = "scanning"
  /\ snapshot' = NoSockets
  /\ unread' = EntryKeys
  /\ previous' = <<>>
  /\ UNCHANGED <<world, latest, owner, destroying>>

\* wakeup_.notify_one().  The slip: nobody is notified.
NotifiedSlip == pc
Notified == IF pc = "waiting" THEN "woken" ELSE pc

\* Where Stop goes on.  The slip: it does not wait for the thread.
AfterRequestSlip == "marking"
AfterRequest == "joining"

\* Stop, up to the join; by itself or from the destructor.
RequestStop(destroy) ==
  /\ owner = "idle"
  /\ running
  /\ stop_requested' = TRUE
  /\ pc' = Notified
  /\ owner' = AfterRequest
  /\ destroying' = destroy
  /\ UNCHANGED <<world, running, latest, locals>>

JoinThread ==
  /\ owner = "joining"
  /\ pc = "returned"
  /\ pc' = "none"
  /\ owner' = "marking"
  /\ UNCHANGED <<world, members, destroying, locals>>

MarkStopped ==
  /\ owner = "marking"
  /\ running' = FALSE
  /\ owner' = IF destroying THEN "destroyed" ELSE "idle"
  /\ UNCHANGED <<world, stop_requested, latest, destroying, pc, locals>>

\* The destructor of a pipeline that is not running.
DestroyStopped ==
  /\ owner = "idle"
  /\ ~running
  /\ owner' = "destroyed"
  /\ destroying' = TRUE
  /\ UNCHANGED <<world, members, pc, locals>>

----------------------------------------------------------------------------
(* The thread *)

ReadProcess(key) ==
  /\ pc = "scanning"
  /\ key \in unread
  /\ snapshot' = [snapshot EXCEPT ![key] = world[key]]
  /\ unread' = unread \ {key}
  /\ UNCHANGED <<world, members, owner, destroying, pc, previous>>

FinishScan ==
  /\ pc = "scanning"
  /\ unread = {}
  /\ pc' = "publishing"
  /\ UNCHANGED <<world, members, owner, destroying, locals>>

DiffOf(old, new) == IF old = <<>> THEN AllAdded(new) ELSE DiffSnapshots(old[1], new)

\* What the publication leaves in previous.  The slips: only the first
\* snapshot is remembered; all of them are.
PreviousAfterSlip == IF previous = <<>> THEN <<snapshot>> ELSE previous
PreviousAfterGrowingSlip == Append(previous, snapshot)
PreviousAfter == <<snapshot>>

\* The critical section that publishes; the thread returns instead when it
\* was asked to stop meanwhile.
ObeyStop ==
  /\ pc = "publishing"
  /\ stop_requested
  /\ pc' = "returned"
  /\ UNCHANGED <<world, members, owner, destroying, locals>>

\* The slip: the stop request is not looked at.
MayPublishSlip == TRUE
MayPublish == ~stop_requested

Publish ==
  /\ pc = "publishing"
  /\ MayPublish
  /\ latest' = <<[snapshot |-> snapshot, diff |-> DiffOf(previous, snapshot)]>>
  /\ previous' = PreviousAfter
  /\ pc' = "settling"
  /\ UNCHANGED <<world, running, stop_requested, owner, destroying, snapshot, unread>>

\* wait_for evaluates its predicate before it blocks and when it was woken.
EvaluatePredicate ==
  /\ pc \in {"settling", "woken"}
  /\ pc' = IF stop_requested THEN "returned" ELSE "waiting"
  /\ UNCHANGED <<world, members, owner, destroying, locals>>

WakeSpuriously ==
  /\ pc = "waiting"
  /\ pc' = "woken"
  /\ UNCHANGED <<world, members, owner, destroying, locals>>

\* The interval has passed: wait_for returns what its predicate says then.
\* The locals of the iteration go out of scope.
IntervalPasses ==
  /\ pc \in {"waiting", "woken"}
  /\ pc' = IF stop_requested THEN "returned" ELSE "scanning"
  /\ snapshot' = NoSockets
  /\ unread' = EntryKeys
  /\ UNCHANGED <<world, members, owner, destroying, previous>>

----------------------------------------------------------------------------
\* The steps of the thread that need no time to pass.
Step ==
  \/ \E key \in EntryKeys : ReadProcess(key)
  \/ FinishScan
  \/ ObeyStop
  \/ Publish
  \/ EvaluatePredicate

Call == Start \/ (\E destroy \in BOOLEAN : RequestStop(destroy)) \/ DestroyStopped

Proceed == JoinThread \/ MarkStopped

Next ==
  \/ \E key \in EntryKeys, group \in Groups : WorldChanges(key, group)
  \/ Call
  \/ Proceed
  \/ Step
  \/ IntervalPasses
  \/ WakeSpuriously

\* The threads that can run keep running.
ThreadsRun == WF_vars(Proceed) /\ WF_vars(Step)

\* Nothing promises that intervals ever pass: Stop needs its notification only.
Spec == Init /\ [][Next]_vars /\ ThreadsRun

\* Intervals do pass, again and again also between spurious wakeups.
IntervalsPass == SF_vars(IntervalPasses)

----------------------------------------------------------------------------
(* Properties *)

TypeOK ==
  /\ world \in Snapshots
  /\ running \in BOOLEAN
  /\ stop_requested \in BOOLEAN
  /\ owner \in OwnerStates
  /\ destroying \in BOOLEAN
  /\ pc \in ThreadStates
  /\ snapshot \in Snapshots
  /\ unread \in SUBSET EntryKeys
  /\ \A s \in {previous} \cup {[i \in DOMAIN latest |-> latest[i].snapshot]} :
       s \in {<<>>} \cup {<<t>> : t \in Snapshots}

\* No thread outlives running_: Start never meets a thread that was not
\* joined, two threads never share the scanner, and once Stop or the
\* destructor has returned nothing touches the pipeline.
StoppedMeansJoined == ~running => pc = "none"

\* The thread returns only when it was asked to.
ReturnedWhenAsked == pc = "returned" => stop_requested

\* The diff about to be published is against what readers see: previous, a
\* local variable of the thread, is what this run published last, or nothing
\* while it published nothing.
PreviousIsPublished ==
  running /\ previous # <<>> => latest # <<>> /\ previous[1] = latest[1].snapshot

\* The invariant that carries the others.
PipelineInv ==
  /\ running <=> pc # "none" \/ owner = "marking"
  /\ owner = "marking" => pc = "none"
  /\ owner = "joining" => running /\ stop_requested
  /\ owner = "destroyed" => ~running
  /\ owner = "idle" /\ running => ~stop_requested
  /\ pc \in {"settling", "waiting", "woken"} => previous # <<>>
  /\ pc = "waiting" => ~stop_requested
  /\ ReturnedWhenAsked
  /\ PreviousIsPublished

\* Once a stop was requested nothing is published until the next Start.
QuietAfterStop == [][stop_requested /\ stop_requested' => latest' = latest]_vars

\* Each update of a run tells the difference to the one before it.
UpdatesChain ==
  [][previous # <<>> /\ latest' # latest =>
       latest'[1].diff = DiffSnapshots(latest[1].snapshot, latest'[1].snapshot)]_vars

\* Stop and the destructor return, without waiting for an interval to pass.
StopReturns == owner = "joining" ~> owner \in {"idle", "destroyed"}

\* When intervals pass, the sockets change no more and nobody stops the
\* started pipeline, readers eventually see the sockets as they are for good.
ReadersCatchUp ==
  IntervalsPass => \A sockets \in Snapshots :
    <>[](world = sockets /\ running /\ owner = "idle")
      => <>[](latest # <<>> /\ latest[1].snapshot = sockets)
=============================================================================
