----------------------------- MODULE WorkerStop -----------------------------
(***************************************************************************)
(* How a worker claims, runs and stops.  The dispatch loop claims rows in  *)
(* two calls and starts an execution for each; the signal handler drains,  *)
(* hard-stops the durable calls at the end of the grace and cancels the    *)
(* worker; the executions meet both through three flags: draining, the     *)
(* hard stop, and the worker's context.  A run's guest makes the durable   *)
(* calls of its program in order, each of one of the three kinds the       *)
(* engine treats differently.                                              *)
(*                                                                         *)
(* A run this worker gave back is claimed here again only after its        *)
(* execution has left: the overlap of the two is the subject of            *)
(* WorkerFence.  A call that was recorded stays recorded (EventFlush).     *)
(***************************************************************************)
EXTENDS Naturals, Sequences, FiniteSets

CONSTANTS
    Runs,
    Program,      \* the kinds of the durable calls each run makes, in order
    Sticky,       \* the runs whose row is pinned to this worker
    Cap,          \* --concurrency
    Loops,        \* dispatch loops the process may come to have
    MaxAttempts,  \* attempts of a call with a retry policy
    MaxClaims,    \* bound on claims of one run by this worker
    Partitions,   \* heartbeats may stay unanswered for a reclaim window
    ClaimErrors,  \* a claim may fail though the worker is not stopping
    Poison        \* the watchdog may cancel the worker

Kinds == {"plain", "intent", "retry"}

(* What the constants may be. *)
ConstantsOK ==
    /\ Program \in [Runs -> Seq(Kinds)] /\ Sticky \subseteq Runs
    /\ IsFiniteSet(Runs) /\ Cap \in Nat \ {0} /\ MaxAttempts \in Nat \ {0}
    /\ MaxClaims \in Nat /\ Loops \in {{1}, {1, 2}}
    /\ {Partitions, ClaimErrors, Poison} \subseteq BOOLEAN

VARIABLES
    row,       \* the run's row: open, held by this worker, taken back, settled
    claims,    \* how often this worker has claimed the run
    disp,      \* the dispatch loops: next step, free slots, runs in hand
    inflight,  \* w.inflight
    ex,        \* the run's execution on this worker
    step,      \* the calls of the program that are recorded
    fenced,    \* w.fencedRuns
    w          \* draining, hard stop, context, the signal handler, contact

vars == <<row, claims, disp, inflight, ex, step, fenced, w>>

NoExecution == [pc |-> "none", attempt |-> 0, told |-> FALSE, misled |-> FALSE,
                suspend |-> FALSE, out |-> "none"]

Kind(r) == Program[r][step[r] + 1]
More(r) == step[r] < Len(Program[r])

\* The kinds whose call runs under a context the hard stop cancels.
AbortsNone == {}
Aborts == {"plain", "intent"}

InHand == UNION {disp[l].batch : l \in Loops}
Idle == [pc |-> "off", free |-> 0, batch |-> {}]

Init == /\ row = [r \in Runs |-> "ready"]
        /\ claims = [r \in Runs |-> 0]
        /\ disp = [l \in Loops |-> IF l = 1 THEN [Idle EXCEPT !.pc = "top"] ELSE Idle]
        /\ inflight = {} /\ fenced = {}
        /\ ex = [r \in Runs |-> NoExecution]
        /\ step = [r \in Runs |-> 0]
        /\ w = [draining |-> FALSE, hard |-> FALSE, cancelled |-> FALSE,
                stop |-> "no", lost |-> FALSE, exited |-> FALSE]

\* releaseWorkflow is fenced: a row that was taken back is left alone.
Released(S) == [r \in Runs |-> IF r \in S /\ row[r] = "mine" THEN "ready" ELSE row[r]]
-----------------------------------------------------------------------------
(* The dispatch loop *)

runs == <<ex, step, fenced>>

Go(l, pc) == disp' = [disp EXCEPT ![l] = [Idle EXCEPT !.pc = pc]]

\* A select on the worker's context ends the loop at once.
AfterWait == IF w.cancelled THEN {"top", "exited"} ELSE {"top"}

Drain(l) ==
    /\ disp[l].pc = "top" /\ (w.cancelled \/ w.draining) /\ inflight = {}
    /\ w' = [w EXCEPT !.draining = TRUE]
    /\ Go(l, "exited")
    /\ UNCHANGED <<row, claims, inflight, runs>>

Free == Cap - Cardinality(inflight)

Poll(l) ==
    /\ disp[l].pc = "top" /\ ~w.cancelled /\ ~w.draining
    /\ Free > 0
    /\ disp' = [disp EXCEPT ![l] = [pc |-> "sticky", free |-> Free, batch |-> {}]]
    /\ UNCHANGED <<row, claims, inflight, runs, w>>

Claimable(r) == row[r] = "ready" /\ ex[r].pc = "none" /\ claims[r] < MaxClaims

\* What a claim limited to n rows of S takes.
Take(S, n) == {B \in SUBSET {r \in S : Claimable(r)} :
                 /\ Cardinality(B) =< n
                 /\ Cardinality(B) = n \/ \A r \in S : Claimable(r) => r \in B}

Claimed(B) == /\ row' = [r \in Runs |-> IF r \in B THEN "mine" ELSE row[r]]
              /\ claims' = [r \in Runs |-> IF r \in B THEN claims[r] + 1 ELSE claims[r]]

ClaimStickyWorkflows(l) ==
    /\ disp[l].pc = "sticky" /\ ~w.cancelled
    /\ \E B \in Take(Sticky, disp[l].free) :
         /\ Claimed(B)
         /\ disp' = [disp EXCEPT ![l] =
                       [pc |-> IF Cardinality(B) < disp[l].free THEN "general" ELSE "gate",
                        free |-> disp[l].free - Cardinality(B), batch |-> B]]
    /\ UNCHANGED <<inflight, runs, w>>

claimGeneral(l) ==
    /\ disp[l].pc = "general" /\ ~w.cancelled
    /\ \E B \in Take(Runs, disp[l].free) :
         /\ Claimed(B)
         /\ IF disp[l].batch \cup B = {}
              THEN Go(l, "top")
              ELSE disp' = [disp EXCEPT ![l] =
                              [pc |-> "gate", free |-> 0, batch |-> disp[l].batch \cup B]]
    /\ UNCHANGED <<inflight, runs, w>>

\* The error path of both claims is `continue`: what the sticky claim had taken
\* is not kept.
ClaimFails(l) ==
    /\ disp[l].pc \in {"sticky", "general"} /\ (w.cancelled \/ ClaimErrors)
    /\ \E pc \in AfterWait : Go(l, pc)
    /\ UNCHANGED <<row, claims, inflight, runs, w>>

Gate(l) ==
    /\ disp[l].pc = "gate"
    /\ IF w.draining
         THEN Go(l, "top") /\ row' = Released(disp[l].batch)
         ELSE disp' = [disp EXCEPT ![l].pc = "store"] /\ row' = row
    /\ UNCHANGED <<claims, inflight, runs, w>>

StoreInflight(l) ==
    /\ disp[l].pc = "store"
    /\ \E r \in disp[l].batch :
         /\ inflight' = inflight \cup {r}
         /\ ex' = [ex EXCEPT ![r] = [NoExecution EXCEPT !.pc = "starting"]]
         /\ IF disp[l].batch = {r}
              THEN Go(l, "top")
              ELSE disp' = [disp EXCEPT ![l].batch = @ \ {r}]
    /\ UNCHANGED <<row, claims, step, fenced, w>>

\* The watchdog finds the loop stale.  The loop reads the worker's context and
\* not its own, so it does not end with it, and another one is started.
restartLoop ==
    /\ \E l \in Loops : disp[l].pc = "off" /\ Go(l, "top")
    /\ ~w.cancelled
    /\ UNCHANGED <<row, claims, inflight, runs, w>>

Dispatch == \E l \in Loops : \/ Drain(l) \/ Poll(l) \/ ClaimStickyWorkflows(l)
                             \/ claimGeneral(l) \/ ClaimFails(l) \/ Gate(l)
                             \/ StoreInflight(l)
-----------------------------------------------------------------------------
(* The execution of a run *)

others == <<claims, disp, inflight, w>>

runWasStopped(r) == w.cancelled \/ r \in fenced

\* The history load reads under the worker's context.
Start(r) ==
    /\ ex[r].pc = "starting"
    /\ IF w.cancelled
         THEN row' = Released({r}) /\ ex' = [ex EXCEPT ![r].pc = "leaving"]
         ELSE row' = row /\ ex' = [ex EXCEPT ![r].pc = "guest"]
    /\ UNCHANGED <<step, fenced, others>>

AsksForCall(r) == ex[r].pc = "guest" /\ ~ex[r].told /\ More(r)

stopBeforeNewWork(r) ==
    /\ AsksForCall(r) /\ w.cancelled
    /\ ex' = [ex EXCEPT ![r].pc = "returned", ![r].out = "stopped"]
    /\ UNCHANGED <<row, step, fenced, others>>

canStartNewWork(r) == ~w.lost /\ r \notin fenced

\* The kinds that ask canStartNewWork before they call.
Gated == {"plain", "intent"}

RefuseCall(r) ==
    /\ AsksForCall(r) /\ ~w.cancelled
    /\ Kind(r) \in Gated /\ ~canStartNewWork(r)
    /\ ex' = [ex EXCEPT ![r].told = TRUE]
    /\ UNCHANGED <<row, step, fenced, others>>

\* WriteCallIntent runs under the context the hard stop cancels, and so does not
\* write; the guest is told.
BeginCall(r) ==
    /\ AsksForCall(r) /\ ~w.cancelled
    /\ Kind(r) \in Gated => canStartNewWork(r)
    /\ IF Kind(r) = "intent" /\ w.hard
         THEN ex' = [ex EXCEPT ![r].told = TRUE, ![r].misled = TRUE]
         ELSE ex' = [ex EXCEPT ![r].pc = "calling", ![r].attempt = 1]
    /\ UNCHANGED <<row, step, fenced, others>>

Answered(r, ok) ==
    /\ ex' = [ex EXCEPT ![r].pc = "guest", ![r].told = ~ok]
    /\ step' = [step EXCEPT ![r] = @ + 1]

\* A failed call on a hard-stopped worker suspends the run, whatever the guest
\* makes of the error.
PlainAnswered(r, ok) ==
    IF ok \/ ~w.hard
      THEN Answered(r, ok)
      ELSE /\ ex' = [ex EXCEPT ![r].pc = "guest", ![r].told = TRUE, ![r].suspend = TRUE]
           /\ UNCHANGED step

\* CompleteCallIntent runs under the context the hard stop has cancelled.
IntentAnswered(r, ok) ==
    IF ~w.hard
      THEN Answered(r, ok)
      ELSE /\ ex' = [ex EXCEPT ![r].pc = "guest", ![r].told = TRUE, ![r].misled = TRUE]
           /\ UNCHANGED step

RetryAnswered(r, ok) ==
    IF ok \/ ex[r].attempt = MaxAttempts
      THEN Answered(r, ok)
      ELSE ex' = [ex EXCEPT ![r].pc = "backoff"] /\ UNCHANGED step

CallEnds(r, ok) ==
    /\ ex[r].pc = "calling"
    /\ CASE Kind(r) = "plain"  -> PlainAnswered(r, ok)
         [] Kind(r) = "intent" -> IntentAnswered(r, ok)
         [] Kind(r) = "retry"  -> RetryAnswered(r, ok)
    /\ UNCHANGED <<row, fenced, others>>

\* The timer and the shutdown signal race in one select.
Backoff(r) ==
    /\ ex[r].pc = "backoff"
    /\ \/ ex' = [ex EXCEPT ![r].pc = "calling", ![r].attempt = @ + 1]
       \/ w.cancelled /\ ex' = [ex EXCEPT ![r].pc = "returned", ![r].out = "stopped"]
    /\ UNCHANGED <<row, step, fenced, others>>

\* A guest that was told of a failed call fails, or compensates and completes.
GuestReturns(r) ==
    /\ ex[r].pc = "guest" /\ (ex[r].told \/ ~More(r))
    /\ \E out \in IF ex[r].told THEN {"done", "failed"} ELSE {"done"} :
         ex' = [ex EXCEPT ![r].pc = "returned", ![r].out = out]
    /\ UNCHANGED <<row, step, fenced, others>>

\* Whatever came back, a stopped run is released.
ReleaseOrFinalize(r) ==
    /\ ex[r].pc = "returned"
    /\ IF runWasStopped(r)
         THEN row' = Released({r}) /\ ex' = [ex EXCEPT ![r].pc = "leaving"]
         ELSE row' = row /\ ex' = [ex EXCEPT ![r].pc = "finalizing"]
    /\ UNCHANGED <<step, fenced, others>>

Status(r) == IF ex[r].suspend THEN "ready" ELSE ex[r].out

\* FinalizeWorkflowSegment under the worker's context, or writeTerminalFailure,
\* which looks at that context first; both are fenced.
Finalize(r) ==
    /\ ex[r].pc = "finalizing"
    /\ row' = IF w.cancelled THEN Released({r})
              ELSE IF row[r] = "mine" THEN [row EXCEPT ![r] = Status(r)]
              ELSE row
    /\ ex' = [ex EXCEPT ![r].pc = "leaving"]
    /\ UNCHANGED <<step, fenced, others>>

deregisterExecution(r) ==
    /\ ex[r].pc = "leaving"
    /\ ex' = [ex EXCEPT ![r] = NoExecution]
    /\ inflight' = inflight \ {r} /\ fenced' = fenced \ {r}
    /\ UNCHANGED <<row, claims, disp, step, w>>

Execute(r) == \/ Start(r) \/ stopBeforeNewWork(r) \/ RefuseCall(r)
              \/ BeginCall(r) \/ (\E ok \in BOOLEAN : CallEnds(r, ok)) \/ Backoff(r)
              \/ GuestReturns(r) \/ ReleaseOrFinalize(r) \/ Finalize(r)
              \/ deregisterExecution(r)
-----------------------------------------------------------------------------
(* Signals, drain and grace *)

work == <<row, claims, disp, inflight, runs>>

handleDrainStart == /\ ~w.draining /\ w' = [w EXCEPT !.draining = TRUE]
                    /\ UNCHANGED work

Signal == /\ w.stop = "no" /\ ~w.exited
          /\ w' = [w EXCEPT !.stop = "waiting", !.draining = TRUE]
          /\ UNCHANGED work

SeeNoneInflight == /\ w.stop = "waiting" /\ inflight = {}
                   /\ w' = [w EXCEPT !.stop = "none left"]
                   /\ UNCHANGED work

completeDrain == /\ w.stop = "none left"
                 /\ w' = [w EXCEPT !.stop = "drained", !.cancelled = TRUE]
                 /\ UNCHANGED work

GraceEnds == /\ w.stop = "waiting" /\ ~w.hard
             /\ w' = [w EXCEPT !.hard = TRUE]
             /\ UNCHANGED work

TailEndsUncancelled == /\ w.stop = "waiting" /\ w.hard
                       /\ w' = [w EXCEPT !.stop = "grace"]
                       /\ UNCHANGED work

TailEnds == /\ w.stop = "waiting" /\ w.hard
            /\ w' = [w EXCEPT !.stop = "grace", !.cancelled = TRUE]
            /\ UNCHANGED work

SecondSignal == /\ w.stop = "waiting"
                /\ w' = [w EXCEPT !.stop = "forced", !.cancelled = TRUE]
                /\ UNCHANGED work

AlreadyStopping == /\ w.stop = "waiting" /\ w.cancelled
                   /\ w' = [w EXCEPT !.stop = "stopping"]
                   /\ UNCHANGED work

poisonPill == /\ Poison /\ ~w.cancelled
              /\ w' = [w EXCEPT !.cancelled = TRUE]
              /\ UNCHANGED work

\* Run waits for the context, then for the loops and the executions.
Exit == /\ w.cancelled /\ ~w.exited
        /\ \A l \in Loops : disp[l].pc \in {"off", "exited"}
        /\ \A r \in Runs : ex[r].pc = "none"
        /\ w' = [w EXCEPT !.exited = TRUE]
        /\ UNCHANGED work

gracefulShutdown == \/ SeeNoneInflight \/ completeDrain \/ GraceEnds
                    \/ TailEnds \/ AlreadyStopping
-----------------------------------------------------------------------------
(* The heartbeat and the other workers' reapers *)

\* No beat is answered for a reclaim window; the next one is.
LoseContact == /\ Partitions /\ ~w.lost /\ ~w.cancelled
               /\ w' = [w EXCEPT !.lost = TRUE] /\ UNCHANGED work
RegainContact == /\ w.lost /\ ~w.cancelled
                 /\ w' = [w EXCEPT !.lost = FALSE] /\ UNCHANGED work

\* Heartbeats end with the worker's context and name only runs in inflight.
\* The reclaim window is longer than an aborted call takes to return.
Unwinding(r) == w.hard /\ ex[r].pc = "calling" /\ Kind(r) \in Aborts
Stale(r) == w.lost \/ w.cancelled \/ r \notin inflight \cup InHand

Reap(r) == /\ row[r] = "mine" /\ Stale(r) /\ ~Unwinding(r)
           /\ row' = [row EXCEPT ![r] = "other"]
           /\ UNCHANGED <<ex, step, fenced, others>>

HeartbeatFences(r) == /\ row[r] = "other" /\ r \in inflight \ fenced
                      /\ ~w.lost /\ ~w.cancelled
                      /\ fenced' = fenced \cup {r}
                      /\ UNCHANGED <<row, ex, step, others>>

Next == \/ Dispatch \/ restartLoop
        \/ \E r \in Runs : Execute(r) \/ Reap(r) \/ HeartbeatFences(r)
        \/ handleDrainStart \/ Signal \/ gracefulShutdown \/ SecondSignal
        \/ poisonPill \/ Exit \/ LoseContact \/ RegainContact

Spec == Init /\ [][Next]_vars

\* Loops, goroutines and timers run on; calls return; some worker's reaper
\* lives.  Signals, faults and the operator are free.
FairSpec == /\ Spec
            /\ WF_vars(Dispatch) /\ WF_vars(gracefulShutdown) /\ WF_vars(Exit)
            /\ \A r \in Runs : WF_vars(Execute(r)) /\ WF_vars(Reap(r))
-----------------------------------------------------------------------------
TypeOK ==
    /\ row \in [Runs -> {"ready", "mine", "other", "done", "failed"}]
    /\ claims \in [Runs -> 0..MaxClaims]
    /\ disp \in [Loops -> [pc : {"off", "top", "sticky", "general", "gate", "store", "exited"},
                           free : 0..Cap, batch : SUBSET Runs]]
    /\ inflight \subseteq Runs /\ fenced \subseteq inflight
    /\ \A r \in Runs : /\ step[r] \in 0..Len(Program[r])
                       /\ ex[r].attempt \in 0..MaxAttempts
                       /\ (ex[r].pc # "none") <=> (r \in inflight)

\* A run that was cut off is never settled by what its guest made of being cut
\* off: no outcome is written from an execution whose guest was told of a
\* failure that was the worker's stopping (hard stop, writeTerminalFailure).
CutOffIsNeverAnOutcomeStep ==
    \A r \in Runs : row[r] = "mine" /\ row'[r] \in {"done", "failed"} => ~ex[r].misled

\* When the grace ends and another worker takes a run back, no durable call of
\* that run is still under way on the worker that is stopping.
CallsDoNotOverlap ==
    w.stop = "grace" => \A r \in Runs : row[r] = "other" => ex[r].pc # "calling"

\* A worker that was stopped leaves no row claimed: each is settled, or open for
\* others, or was taken back before.
ExitLeavesNothing == w.exited => \A r \in Runs : row[r] # "mine"

\* The executions and the runs in the dispatcher's hand never exceed
\* --concurrency.
CapRespected == Cardinality(inflight \cup InHand) =< Cap
=============================================================================
