------------------------------ MODULE RunLease ------------------------------
(***************************************************************************)
(* The workflow_leases row of every run, and the worker executions that    *)
(* believe they hold one.  Each action is one committed transaction of the *)
(* PostgreSQL store; a call that loses its fence, is refused, or fails     *)
(* before its commit changes nothing and is a stuttering step.             *)
(*                                                                         *)
(* An execution stays in execs after its own terminal write: the write may *)
(* have committed while its acknowledgement was lost, and the worker then  *)
(* tries another one (release, fail).  ExecEnds is the goroutine ending,   *)
(* for whatever reason, the death of its process included.                 *)
(*                                                                         *)
(* What a settling transaction does after its commit to OTHER rows (the    *)
(* parent close policy) is CloseByParent, which may hit any child at any   *)
(* time here.  An event of a run is reduced to the one the lifecycle reads *)
(* (a 'defer' record, in owes); EventFlush has the events themselves.      *)
(***************************************************************************)
EXTENDS Integers

CONSTANTS
    Runs,           \* workflow run ids
    Workers,        \* worker daemon ids
    NULL,           \* SQL NULL
    MaxGeneration   \* bound: no claim or operator verb once generation is here

VARIABLES
    lease,  \* the row of each run ("absent" until the run is started)
    execs   \* live executeWorkflow goroutines, one per claim

vars == <<lease, execs>>

SettledStatuses == {"done", "failed", "dead_lettered", "terminated", "cancelled"}
Statuses == {"absent", "ready", "running", "terminating"} \cup SettledStatuses
Outcomes == {"done", "failed", "terminated", "cancelled"}  \* what a mark records

ASSUME NullAssumption == NULL \notin Workers \cup Outcomes
ASSUME BoundAssumption == MaxGeneration \in Nat

reReplayableStatuses == {"failed", "terminated", "dead_lettered"}

(***************************************************************************)
(* Columns the lifecycle reads.  Times are abstracted to the comparison    *)
(* the code makes with them: due is next_wake_at <= now(), stale is        *)
(* heartbeat_at < now() - reclaimAfter, overdue is defer_phase_deadline <  *)
(* now().  owes is "has a defer event or a compaction state".              *)
(***************************************************************************)
Row == [status: Statuses, assigned_to: Workers \cup {NULL}, generation: Nat,
        pending: Outcomes \cup {NULL},
        due: BOOLEAN, stale: BOOLEAN, overdue: BOOLEAN, owes: BOOLEAN]

Exec == [worker: Workers, run: Runs, gen: Nat, pending: Outcomes \cup {NULL}]

NewRow(st) == [status |-> st, assigned_to |-> NULL, generation |-> 0, pending |-> NULL,
               due |-> TRUE, stale |-> FALSE, overdue |-> FALSE, owes |-> FALSE]

isSettledStatus(st) == st \in SettledStatuses
Settled(r) == isSettledStatus(lease[r].status)

\* assigned_to = worker AND generation = gen: the WHERE of every fenced write
Fence(e) == lease[e.run].assigned_to = e.worker /\ lease[e.run].generation = e.gen

deferPhaseOwed(row) == row.status \in {"ready", "running"} /\ row.owes
-----------------------------------------------------------------------------
(* What each UPDATE does to its row. *)

Requeued(row) == IF row.pending # NULL THEN "terminating" ELSE "ready"

ClaimedSameGeneration(row, w) ==
    [row EXCEPT !.status = "running", !.assigned_to = w, !.stale = FALSE]
Claimed(row, w) == [row EXCEPT !.status = "running", !.assigned_to = w,
                               !.generation = @ + 1, !.stale = FALSE]

completeLeaseRow(row, st) == [row EXCEPT !.status = st, !.assigned_to = NULL]

Suspended(row, due) == [row EXCEPT !.status = "ready", !.assigned_to = NULL, !.due = due]

Released(row, due) ==
    [row EXCEPT !.status = Requeued(row), !.assigned_to = NULL, !.due = due]

Reaped(row) == [row EXCEPT !.status = Requeued(row), !.assigned_to = NULL,
                           !.generation = @ + 1, !.stale = FALSE]

Marked(row, o) ==
    [row EXCEPT !.status = "terminating", !.pending = o, !.overdue = FALSE,
                !.due = TRUE, !.assigned_to = NULL, !.generation = @ + 1]

Preempted(row, o) ==
    [row EXCEPT !.status = o, !.assigned_to = NULL, !.generation = @ + 1,
                !.pending = NULL, !.overdue = FALSE]

PhaseApplied(row) ==
    [row EXCEPT !.status = row.pending, !.pending = NULL, !.overdue = FALSE,
                !.assigned_to = NULL]
PhaseExpired(row) == [PhaseApplied(row) EXCEPT !.generation = @ + 1]

Retried(row) == [row EXCEPT !.status = "ready", !.assigned_to = NULL,
                            !.stale = FALSE, !.due = TRUE]
ReReplayed(row) == [Retried(row) EXCEPT !.generation = @ + 1]

\* terminate, cancel, force-resolve and the TERMINATE close policy all choose
\* between the two-phase mark and the one-phase write by deferPhaseOwed
SettleOrMark(row, o) == IF deferPhaseOwed(row) THEN Marked(row, o) ELSE Preempted(row, o)
-----------------------------------------------------------------------------
Init == /\ lease = [r \in Runs |-> NewRow("absent")]
        /\ execs = {}

StartRun(r) ==
    /\ lease[r].status = "absent"
    /\ lease' = [lease EXCEPT ![r] = NewRow("ready")]
    /\ UNCHANGED execs

(* The clock crossing one of the three columns. *)
WakeTimePasses(r) ==
    /\ lease[r].status \in {"ready", "terminating"} /\ ~lease[r].due
    /\ lease' = [lease EXCEPT ![r].due = TRUE]
    /\ UNCHANGED execs

HeartbeatAges(r) ==
    /\ lease[r].status = "running" /\ ~lease[r].stale
    /\ lease' = [lease EXCEPT ![r].stale = TRUE]
    /\ UNCHANGED execs

DeadlinePasses(r) ==
    /\ lease[r].pending # NULL /\ ~lease[r].overdue
    /\ lease' = [lease EXCEPT ![r].overdue = TRUE]
    /\ UNCHANGED execs

(* One row of a claim batch.  The general claim tells the execution the    *)
(* recorded outcome; the sticky claim takes 'ready' rows only and does not *)
(* return that column, so its executions all run as ordinary segments.     *)
Claim(w, r, told) ==
    /\ lease[r].due
    /\ lease[r].generation < MaxGeneration
    /\ lease' = [lease EXCEPT ![r] = Claimed(@, w)]
    /\ execs' = execs \cup {[worker |-> w, run |-> r, pending |-> told,
                             gen |-> Claimed(lease[r], w).generation]}

ClaimWorkflow(w, r) == /\ lease[r].status \in {"ready", "terminating"}
                       /\ Claim(w, r, lease[r].pending)

ClaimStickyTerminatingToo(w, r) == /\ lease[r].status \in {"ready", "terminating"}
                                   /\ Claim(w, r, NULL)
ClaimSticky(w, r) == lease[r].status = "ready" /\ Claim(w, r, NULL)
-----------------------------------------------------------------------------
(* What an execution may write.  A defer segment (pending # NULL) leads to *)
(* FinalizeDeferPhase only; every other terminal write is for the rest.    *)

Write(e, row) == /\ Fence(e)
                 /\ lease' = [lease EXCEPT ![e.run] = row]
                 /\ UNCHANGED execs

Heartbeat(e) == Write(e, [lease[e.run] EXCEPT !.stale = FALSE])

\* flushEvent of a 'defer' record (insertEventSQL carries the fence)
RegisterDefer(e) == e.pending = NULL /\ Write(e, [lease[e.run] EXCEPT !.owes = TRUE])

\* FinalizeWorkflowSegment("done") or CompleteWorkflow
FinalizeDone(e) == e.pending = NULL /\ Write(e, completeLeaseRow(lease[e.run], "done"))

\* FinalizeWorkflowSegment("ready"); due is TRUE when a signal or a promise
\* moved since the claim, or when the suspension asks for a time already past
FinalizeSuspend(e, due) == e.pending = NULL /\ Write(e, Suspended(lease[e.run], due))

\* writeTerminalFailure: dead_lettered iff the run ended on an exhausted call
TerminalFailure(e, st) == e.pending = NULL /\ Write(e, completeLeaseRow(lease[e.run], st))

\* the next run of the chain and the end of this one, in one transaction
ContinueAsNew(e, n) ==
    /\ e.pending = NULL
    /\ Fence(e)
    /\ n # e.run /\ lease[n].status = "absent"
    /\ lease' = [lease EXCEPT ![e.run] = completeLeaseRow(@, "done"), ![n] = NewRow("ready")]
    /\ UNCHANGED execs

\* due = FALSE is the backoff of returnToQueueAfterBackoff
ReleaseWorkflow(e, due) == Write(e, Released(lease[e.run], due))

FinalizeDeferPhase(e) ==
    /\ e.pending # NULL
    /\ lease[e.run].pending # NULL
    /\ Write(e, PhaseApplied(lease[e.run]))

ExecEnds(e) == /\ execs' = execs \ {e}
               /\ UNCHANGED lease
-----------------------------------------------------------------------------
(* The reaper's UPDATE takes a non-empty set of stale rows: some may be    *)
(* spared by LIMIT or by the veto of a holder that answered.               *)
StaleMarked ==
    {r \in Runs : lease[r].status = "running" /\ lease[r].stale /\ lease[r].pending # NULL}
StaleRuns == {r \in Runs : lease[r].status = "running" /\ lease[r].stale}

ReapStaleInstances(X) ==
    /\ X # {} /\ X \subseteq StaleRuns
    /\ lease' = [r \in Runs |-> IF r \in X THEN Reaped(lease[r]) ELSE lease[r]]
    /\ UNCHANGED execs

OverdueRuns == {r \in Runs : lease[r].pending # NULL /\ lease[r].overdue}

ExpireDeferPhases ==
    /\ OverdueRuns # {}
    /\ lease' = [r \in Runs |-> IF r \in OverdueRuns THEN PhaseExpired(lease[r]) ELSE lease[r]]
    /\ UNCHANGED execs

(* Operator verbs.  A settled run is refused, except that a dead-lettered  *)
(* one may still be terminated; force-resolve has no such exception.       *)
PreemptOverAnything(r, o) == lease[r].status # "absent"
PreemptAllowed(r, o) ==
    /\ lease[r].status # "absent"
    /\ Settled(r) => o = "terminated" /\ lease[r].status = "dead_lettered"

PreemptivelySettle(r, o) ==
    /\ PreemptAllowed(r, o)
    /\ lease[r].generation < MaxGeneration
    /\ lease' = [lease EXCEPT ![r] = SettleOrMark(@, o)]
    /\ UNCHANGED execs

AdminForceResolve(r, o) ==
    /\ lease[r].status # "absent" /\ ~Settled(r)
    /\ lease[r].generation < MaxGeneration
    /\ lease' = [lease EXCEPT ![r] = SettleOrMark(@, o)]
    /\ UNCHANGED execs

RetryAllowed(r) == lease[r].status = "dead_lettered"

RetryWorkflow(r) ==
    /\ RetryAllowed(r)
    /\ lease[r].generation < MaxGeneration
    /\ lease' = [lease EXCEPT ![r] = Retried(@)]
    /\ UNCHANGED execs

AdminReReplay(r) ==
    /\ lease[r].status \in reReplayableStatuses
    /\ lease[r].generation < MaxGeneration
    /\ lease' = [lease EXCEPT ![r] = ReReplayed(@)]
    /\ UNCHANGED execs

(* The two TERMINATE arms of enforceParentClosePolicyAt, for one child.    *)
(* Each arm evaluates deferPhaseOwedSQL in the UPDATE itself, on the       *)
(* statement's snapshot: a defer event of a running child that commits     *)
(* while the UPDATE waits for the row is not seen, and the plain arm runs. *)
CloseByParent(r) ==
    /\ lease[r].status # "absent" /\ ~Settled(r)
    /\ lease[r].generation < MaxGeneration
    /\ \/ lease' = [lease EXCEPT ![r] = SettleOrMark(@, "terminated")]
       \/ /\ lease[r].status = "running"
          /\ lease' = [lease EXCEPT ![r] = Preempted(@, "terminated")]
    /\ UNCHANGED execs

(* Its fence is on the generation it has just read, so it never loses. *)
CompactHistory(r) ==
    /\ lease[r].status # "absent" /\ ~lease[r].owes
    /\ lease' = [lease EXCEPT ![r].owes = TRUE]
    /\ UNCHANGED execs
-----------------------------------------------------------------------------
ExecStep(e) ==
    \/ Heartbeat(e)
    \/ RegisterDefer(e)
    \/ FinalizeDone(e)
    \/ \E due \in BOOLEAN : FinalizeSuspend(e, due)
    \/ \E st \in {"failed", "dead_lettered"} : TerminalFailure(e, st)
    \/ \E n \in Runs : ContinueAsNew(e, n)
    \/ \E due \in BOOLEAN : ReleaseWorkflow(e, due)
    \/ FinalizeDeferPhase(e)
    \/ ExecEnds(e)

OperatorStep(r) ==
    \/ \E o \in {"terminated", "cancelled"} : PreemptivelySettle(r, o)
    \/ \E o \in {"done", "failed"} : AdminForceResolve(r, o)
    \/ RetryWorkflow(r)
    \/ AdminReReplay(r)

RowStep(r) ==
    \/ StartRun(r)
    \/ WakeTimePasses(r)
    \/ HeartbeatAges(r)
    \/ DeadlinePasses(r)
    \/ CloseByParent(r)
    \/ CompactHistory(r)

Next ==
    \/ \E r \in Runs : RowStep(r) \/ OperatorStep(r)
    \/ \E w \in Workers, r \in Runs : ClaimWorkflow(w, r) \/ ClaimSticky(w, r)
    \/ \E e \in execs : ExecStep(e)
    \/ \E X \in SUBSET Runs : ReapStaleInstances(X)
    \/ ExpireDeferPhases

Spec == Init /\ [][Next]_vars

(* The reaper wakes on a ticker and takes the oldest rows first, and a     *)
(* holder's veto spares a row for one timeout only; every tick also runs   *)
(* the deadline sweep.                                                     *)
Reap(r) == \E X \in SUBSET Runs : r \in X /\ ReapStaleInstances(X)
Ticks == /\ WF_vars(ExpireDeferPhases)
         /\ \A r \in Runs : /\ WF_vars(HeartbeatAges(r)) /\ WF_vars(Reap(r))
                            /\ WF_vars(DeadlinePasses(r))
-----------------------------------------------------------------------------
(* Every row and every execution is well formed: the statuses are the ones *)
(* written, a marker is one of the four outcomes a mark records.           *)
TypeOK == /\ lease \in [Runs -> Row]
          /\ execs \subseteq Exec

(* Holding the fence means owning the run: at most one execution passes    *)
(* the (assigned_to, generation) test, the run is then 'running', and that *)
(* execution was told of the recorded outcome the row carries now, so the  *)
(* terminal write it is about to make is the right kind.                   *)
FenceMeansOwner ==
    \A e \in execs : Fence(e) =>
        /\ lease[e.run].status = "running"
        /\ e.pending = lease[e.run].pending
        /\ \A f \in execs : f.run = e.run /\ Fence(f) => f = e

(* A recorded outcome exists exactly while its phase can still run: every  *)
(* 'terminating' row carries one, and a row that is settled, or open to an *)
(* ordinary segment ('ready'), carries none and has no deadline pending.   *)
MarkerMeansPhase ==
    \A r \in Runs :
        /\ lease[r].status = "terminating" => lease[r].pending # NULL
        /\ lease[r].pending # NULL => lease[r].status \in {"terminating", "running"}
        /\ lease[r].overdue => lease[r].pending # NULL

(* The three above, strengthened until every step preserves them: a row is *)
(* assigned exactly while it is 'running', executions exist only for runs  *)
(* that exist, at generations the row has already reached, one for each.   *)
RowOK(row) ==
    /\ row \in Row
    /\ row.status = "absent" => row.generation = 0
    /\ row.assigned_to # NULL <=> row.status = "running"
    /\ row.status = "terminating" => row.pending # NULL
    /\ row.pending # NULL => row.status \in {"terminating", "running"}
    /\ row.overdue => row.pending # NULL

ClaimOK(e) == /\ lease[e.run].status # "absent"
              /\ e.gen <= lease[e.run].generation
              /\ Fence(e) => e.pending = lease[e.run].pending

IInv == /\ TypeOK
        /\ \A r \in Runs : RowOK(lease[r])
        /\ \A e \in execs : ClaimOK(e)
        /\ \A e, f \in execs : e.run = f.run /\ e.gen = f.gen => e = f

(* An execution that lost its run never regains it, whatever other workers,*)
(* operators and sweeps do to the row afterwards: no generation is reused. *)
LostFenceStaysLost == [][\A e \in execs : ~Fence(e) => ~(Fence(e)')]_vars

(* A settled run keeps its outcome, except that the dead-letter queue may  *)
(* retry or terminate it and an operator may re-replay a failed or         *)
(* terminated one; no late write of a worker or sweep changes it.          *)
SettledIsFinal ==
    [][\A r \in Runs : Settled(r) /\ lease'[r].status # lease[r].status =>
          \/ lease[r].status \in reReplayableStatuses /\ lease'[r].status = "ready"
          \/ lease[r].status = "dead_lettered" /\ lease'[r].status = "terminated"]_vars

(* Once an outcome is recorded, only a new decision from outside (operator *)
(* verb, parent's close policy) replaces it: whatever claims, releases,    *)
(* reaps, failures and expiries follow, the marker is kept until the run   *)
(* settles, and it settles to that outcome.                                *)
RecordedOutcomeWins ==
    [][(\E r \in Runs : OperatorStep(r) \/ CloseByParent(r)) \/
       \A r \in Runs : LET o == lease[r].pending IN o # NULL =>
          \/ lease'[r].pending = o /\ lease'[r].status \in {"terminating", "running"}
          \/ lease'[r].pending = NULL /\ lease'[r].status = o]_vars

(* What the row shows to everyone but workers: 'ready' and 'running' are   *)
(* both open, and a marked run is closing whoever holds it.                *)
PhaseOf(row) ==
    IF row.pending # NULL THEN [at |-> "closing", outcome |-> row.pending]
    ELSE IF isSettledStatus(row.status) THEN [at |-> "settled", outcome |-> row.status]
    ELSE [at |-> IF row.status = "absent" THEN "absent" ELSE "open", outcome |-> "none"]

Lifecycle == INSTANCE RunLifecycle WITH phase <- [r \in Runs |-> PhaseOf(lease[r])]

(* Claims, fences, reaps, retries and sweeps implement the life cycle that *)
(* clients are promised: a run never leaves its phase except as a step of  *)
(* RunLifecycle, however the steps of workers and operators interleave.    *)
ImplementsLifecycle == Lifecycle!Spec

(* A run whose holder is gone does not stay 'running' for ever: the reaper *)
(* takes it back.                                                          *)
DeadHolderReplaced ==
    \A r \in Runs :
        (lease[r].status = "running" /\ ~\E e \in execs : e.run = r)
            ~> (lease[r].status # "running")

(* A recorded outcome is eventually applied, even when every worker that   *)
(* claims the cleanup hangs while heartbeating, or none ever claims it.    *)
RecordedOutcomeApplied ==
    \A r \in Runs : (lease[r].pending # NULL) ~> (lease[r].pending = NULL)
=============================================================================
