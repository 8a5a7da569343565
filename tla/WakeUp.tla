------------------------------- MODULE WakeUp -------------------------------
(***************************************************************************)
(* When a suspended run is woken.  A run that waits holds no worker: its   *)
(* row in workflow_leases is 'ready' with a next_wake_at in the future.    *)
(* Signals, settled promises, update requests and finished children write  *)
(* that row while the run is suspended, and only count while it is         *)
(* claimed; finalize_workflow_status compares the counts with the ones the *)
(* claim stamped before it sets the next wake-up.                          *)
(*                                                                         *)
(* Times are the time still to go: next_wake_at, a deadline and the        *)
(* SuspendUntil of a session count down to 0, which is "now or earlier".   *)
(***************************************************************************)
EXTENDS Integers, Sequences, FiniteSets

CONSTANTS
    NULL,
    Plan,            \* the awaits of the guest, in order
    Timeout,         \* what a guest gives its signal and promise awaits and its sleeps
    DefaultSuspend,  \* the 30 seconds of a suspension that names no time
    Backoff,         \* the unservable backoff
    ChildOutcomes,   \* how the child may settle
    MaxSignals, MaxUpdates, MaxResolves, MaxReleases, MaxCrashes  \* bounds

Waits == {"signal", "promise", "child", "sleep"}

ASSUME NULLAssumption == NULL \notin Nat
ASSUME PlanAssumption == Plan \in Seq(Waits)
ASSUME TimesAssumption == {Timeout, DefaultSuspend, Backoff} \subseteq Nat \ {0}
ASSUME BoundsAssumption == {MaxSignals, MaxUpdates, MaxResolves, MaxReleases, MaxCrashes} \subseteq Nat

VARIABLES
    lease,     \* the row of workflow_leases; returned is no column: the row was last written by a backoff
    seq,       \* its signal_seq, signal_consumed_seq and promise_seq
    at_claim,  \* signal_seq_at_claim, signal_consumed_at_claim, promise_seq_at_claim
    inbox,     \* the pending rows of workflow_signals, workflow_update_requests, workflow_promises; the child
    guest,     \* what event_history says of the guest: the await it is at, whether that is recorded, its deadline
    sess,      \* the execution that holds the run, or NULL
    bound,     \* how often each bounded event has happened
    claims     \* claims since something last arrived, timed out or was reaped

vars == <<lease, seq, at_claim, inbox, guest, sess, bound, claims>>

Counter == {"signal", "consumed", "promise"}
Sooner(t) == IF t > 0 THEN t - 1 ELSE 0

Await == IF guest.stage <= Len(Plan) THEN Plan[guest.stage] ELSE NULL

Bump(c) == [seq EXCEPT ![c] = @ + 1]

WokenNever == lease

(* What the CASE of the bump functions and of the 'done' arm does to the row: *)
(* due now if it is suspended, unchanged if a worker has it.                  *)
Woken == IF lease.status = "ready" THEN [lease EXCEPT !.wake = 0] ELSE lease

Init ==
    /\ lease = [status |-> "ready", wake |-> 0, returned |-> FALSE]
    /\ seq = [c \in Counter |-> 0]
    /\ at_claim = [c \in Counter |-> 0]
    /\ inbox = [signals |-> 0, updates |-> 0, promise |-> "pending", child |-> "running"]
    /\ guest = [stage |-> 1, recorded |-> FALSE, deadline |-> NULL]
    /\ sess = NULL
    /\ bound = [signals |-> 0, updates |-> 0, resolves |-> 0, releases |-> 0, crashes |-> 0]
    /\ claims = 0
-----------------------------------------------------------------------------
(* The dispatcher and the session it starts. *)

ClaimWithoutStamp ==
    /\ lease.status = "ready" /\ lease.wake = 0
    /\ lease' = [lease EXCEPT !.status = "running", !.returned = FALSE]
    /\ sess' = [at |-> "claimed", until |-> 0]
    /\ claims' = claims + 1
    /\ UNCHANGED <<seq, at_claim, inbox, guest, bound>>

Claim ==
    /\ lease.status = "ready" /\ lease.wake = 0
    /\ lease' = [lease EXCEPT !.status = "running", !.returned = FALSE]
    /\ at_claim' = seq
    /\ sess' = [at |-> "claimed", until |-> 0]
    /\ claims' = claims + 1
    /\ UNCHANGED <<seq, inbox, guest, bound>>

(* The guest polls for updates before every await.  The poll of a replay    *)
(* that finds the await's own event at this step reports nothing.           *)
Delivers == inbox.updates > 0 /\ ~guest.recorded

(* Settling a delivered update also settles the promise of its caller, which *)
(* belongs to this run: it counts as a promise of this run.                  *)
DispatchUpdates ==
    /\ sess # NULL /\ sess.at \in {"claimed", "dispatch"}
    /\ IF Delivers
       THEN /\ inbox' = [inbox EXCEPT !.updates = @ - 1]
            /\ seq' = Bump("promise")
            /\ sess' = [sess EXCEPT !.at = "dispatch"]
       ELSE /\ sess' = [sess EXCEPT !.at = IF Await = NULL THEN "finish" ELSE "await"]
            /\ UNCHANGED <<inbox, seq>>
    /\ UNCHANGED <<lease, at_claim, guest, bound, claims>>

Arrived ==
    CASE Await = "signal" -> inbox.signals > 0
      [] Await = "promise" -> inbox.promise # "pending"
      [] Await = "child" -> inbox.child # "running"
      [] OTHER -> FALSE

Expired == guest.deadline = 0

(* A deadline is fixed when the await is first reached and survives wakes; a *)
(* child await has none and takes the default of the executor.               *)
SuspendUntil ==
    CASE Await = "child" -> DefaultSuspend
      [] guest.deadline = NULL -> Timeout
      [] OTHER -> guest.deadline

NextStage == [stage |-> guest.stage + 1, recorded |-> FALSE, deadline |-> NULL]

AwaitCall ==
    /\ sess # NULL /\ sess.at = "await"
    /\ IF Arrived \/ Expired
       THEN /\ guest' = NextStage
            /\ sess' = [sess EXCEPT !.at = IF Await = "signal" /\ Arrived THEN "consume" ELSE "dispatch"]
       ELSE /\ guest' = [guest EXCEPT !.recorded = Await # "sleep",
                                      !.deadline = IF Await = "child" THEN NULL ELSE SuspendUntil]
            /\ sess' = [at |-> "suspend", until |-> SuspendUntil]
    /\ UNCHANGED <<lease, seq, at_claim, inbox, bound, claims>>

ConsumeSignal ==
    /\ sess # NULL /\ sess.at = "consume"
    /\ inbox' = [inbox EXCEPT !.signals = @ - 1]
    /\ seq' = Bump("consumed")
    /\ sess' = [sess EXCEPT !.at = "dispatch"]
    /\ UNCHANGED <<lease, at_claim, guest, bound, claims>>

Moved == \E c \in Counter : seq[c] # at_claim[c]

(* The 'ready' arm of finalize_workflow_status. *)
FinalizeReady ==
    /\ sess # NULL /\ sess.at = "suspend"
    /\ lease' = [status |-> "ready", wake |-> IF Moved THEN 0 ELSE sess.until, returned |-> FALSE]
    /\ sess' = NULL
    /\ UNCHANGED <<seq, at_claim, inbox, guest, bound, claims>>

FinalizeDone ==
    /\ sess # NULL /\ sess.at = "finish"
    /\ lease' = [lease EXCEPT !.status = "done"]
    /\ sess' = NULL
    /\ UNCHANGED <<seq, at_claim, inbox, guest, bound, claims>>

(* releaseForAnotherWorker and releaseForLimitsUnavailable: before the guest *)
(* runs, with the row due after the backoff whatever the counters say.       *)
returnToQueueAfterBackoff ==
    /\ sess # NULL /\ sess.at = "claimed" /\ bound.releases < MaxReleases
    /\ lease' = [status |-> "ready", wake |-> Backoff, returned |-> TRUE]
    /\ sess' = NULL
    /\ bound' = [bound EXCEPT !.releases = @ + 1]
    /\ UNCHANGED <<seq, at_claim, inbox, guest, claims>>

(* A drain or a lost database connection: the run goes back with the *)
(* next_wake_at it was claimed with, which was due.                  *)
releaseWorkflow ==
    /\ sess # NULL /\ bound.releases < MaxReleases
    /\ lease' = [lease EXCEPT !.status = "ready"]
    /\ sess' = NULL
    /\ bound' = [bound EXCEPT !.releases = @ + 1]
    /\ UNCHANGED <<seq, at_claim, inbox, guest, claims>>

WorkerDies ==
    /\ sess # NULL /\ bound.crashes < MaxCrashes
    /\ sess' = NULL
    /\ bound' = [bound EXCEPT !.crashes = @ + 1]
    /\ UNCHANGED <<lease, seq, at_claim, inbox, guest, claims>>

ReapedAsSuspended ==
    /\ lease.status = "running" /\ sess = NULL
    /\ lease' = [lease EXCEPT !.status = "suspended"]
    /\ claims' = 0
    /\ UNCHANGED <<seq, at_claim, inbox, guest, sess, bound>>

ReapStaleInstances ==
    /\ lease.status = "running" /\ sess = NULL
    /\ lease' = [lease EXCEPT !.status = "ready"]
    /\ claims' = 0
    /\ UNCHANGED <<seq, at_claim, inbox, guest, sess, bound>>
-----------------------------------------------------------------------------
(* What arrives from outside the run. *)

DeliverSignal ==
    /\ bound.signals < MaxSignals
    /\ inbox' = [inbox EXCEPT !.signals = @ + 1]
    /\ seq' = Bump("signal")
    /\ lease' = Woken
    /\ bound' = [bound EXCEPT !.signals = @ + 1]
    /\ claims' = 0
    /\ UNCHANGED <<at_claim, guest, sess>>

CreateUpdateWithoutCount ==
    /\ bound.updates < MaxUpdates
    /\ inbox' = [inbox EXCEPT !.updates = @ + 1]
    /\ lease' = Woken
    /\ bound' = [bound EXCEPT !.updates = @ + 1]
    /\ claims' = 0
    /\ UNCHANGED <<seq, at_claim, guest, sess>>

CreateUpdateRequest ==
    /\ bound.updates < MaxUpdates
    /\ inbox' = [inbox EXCEPT !.updates = @ + 1]
    /\ seq' = Bump("promise")
    /\ lease' = Woken
    /\ bound' = [bound EXCEPT !.updates = @ + 1]
    /\ claims' = 0
    /\ UNCHANGED <<at_claim, guest, sess>>

(* ResolvePromise and RejectPromise: no guard on the promise's status. *)
SettlePromise ==
    /\ bound.resolves < MaxResolves
    /\ \E s \in {"resolved", "rejected"} : inbox' = [inbox EXCEPT !.promise = s]
    /\ seq' = Bump("promise")
    /\ lease' = Woken
    /\ bound' = [bound EXCEPT !.resolves = @ + 1]
    /\ claims' = 0
    /\ UNCHANGED <<at_claim, guest, sess>>

(* The child completes through finalize_workflow_status, whose 'done' arm    *)
(* writes the parent's row, or settles through FailWorkflow,                 *)
(* MoveToDeadLetterQueue or an operator's verb, which do not.                *)
ChildSettles ==
    /\ inbox.child = "running"
    /\ \E o \in ChildOutcomes :
          /\ inbox' = [inbox EXCEPT !.child = o]
          /\ lease' = IF o = "done" THEN Woken ELSE lease
    /\ claims' = 0
    /\ UNCHANGED <<seq, at_claim, guest, sess, bound>>

Tick ==
    /\ lease' = [lease EXCEPT !.wake = Sooner(@)]
    /\ guest' = [guest EXCEPT !.deadline = IF @ = NULL THEN NULL ELSE Sooner(@)]
    /\ sess' = IF sess = NULL THEN NULL ELSE [sess EXCEPT !.until = Sooner(@)]
    /\ claims' = 0
    /\ UNCHANGED <<seq, at_claim, inbox, bound>>

SessionStep == DispatchUpdates \/ AwaitCall \/ ConsumeSignal \/ FinalizeReady \/ FinalizeDone

Next ==
    \/ Claim \/ SessionStep \/ returnToQueueAfterBackoff \/ releaseWorkflow
    \/ WorkerDies \/ ReapStaleInstances
    \/ DeliverSignal \/ CreateUpdateRequest \/ SettlePromise \/ ChildSettles
    \/ Tick

Spec == Init /\ [][Next]_vars

(* The dispatch loop keeps claiming, an execution keeps running, the reaper *)
(* keeps ticking and time passes.                                           *)
FairSpec == Spec /\ WF_vars(Claim) /\ WF_vars(SessionStep) /\ WF_vars(ReapStaleInstances) /\ WF_vars(Tick)
-----------------------------------------------------------------------------
TypeOK ==
    /\ lease \in [status: {"ready", "running", "done"}, wake: 0..(Timeout + DefaultSuspend + Backoff),
                  returned: BOOLEAN]
    /\ seq \in [Counter -> Nat] /\ at_claim \in [Counter -> Nat]
    /\ inbox.signals \in 0..MaxSignals /\ inbox.updates \in 0..MaxUpdates
    /\ guest.stage \in 1..(Len(Plan) + 1) /\ guest.recorded \in BOOLEAN
    /\ guest.deadline \in 0..Timeout \cup {NULL}
    /\ sess # NULL => sess.at \in {"claimed", "dispatch", "await", "consume", "suspend", "finish"}
    /\ claims \in Nat

(* What the counters protect. *)
Awaited ==
    \/ Await = "signal" /\ inbox.signals > 0
    \/ Await = "promise" /\ inbox.promise # "pending"

(* No wake-up is lost to the window between a session's last look and its   *)
(* finalize: a suspended run whose awaited signal or promise has arrived is *)
(* due now, whether it arrived before, during or after the segment, unless  *)
(* the last worker that claimed it returned it to the queue with a backoff. *)
NoLostWake == lease.status = "ready" /\ ~lease.returned /\ Awaited => lease.wake = 0

(* Why it holds: a claimed row stays due until finalize writes it, only a     *)
(* claimed row has a session, and what a suspending session did not see has *)
(* moved a counter since the claim.                                         *)
WakeInv ==
    /\ NoLostWake
    /\ lease.status = "running" => lease.wake = 0
    /\ sess # NULL => lease.status = "running"
    /\ sess # NULL /\ sess.at = "suspend" /\ Awaited => Moved
    /\ \A c \in Counter : at_claim[c] <= seq[c]

(* A suspended run with an update request that was never polled for is due, *)
(* also when the request came between the poll and finalize.  (Not so when  *)
(* it is suspended in an await that recorded its own event: see Delivers.)  *)
UpdateNotLeft ==
    lease.status = "ready" /\ ~lease.returned /\ ~guest.recorded /\ inbox.updates > 0
        => lease.wake = 0

(* No livelock of the kind of cleat#1331: between two arrivals or ticks a   *)
(* run is claimed at most twice, once for the arrival and once because the  *)
(* segment's own consumption moved a counter, and once more each time a     *)
(* worker gives it back unserved.                                           *)
NoSpin == claims <= 2 + bound.releases

(* An arrival is seen by the guest in the end, through releases, backoffs,   *)
(* crashes and reaps: also a child's, which only the default timeout covers. *)
ArrivalIsSeen == \A k \in 1..Len(Plan) : (guest.stage = k /\ Arrived) ~> guest.stage # k

(* An await with a deadline ends, whatever arrives meanwhile. *)
AwaitEnds == \A k \in 1..Len(Plan) : (guest.stage = k /\ Await # "child") ~> guest.stage # k
=============================================================================
