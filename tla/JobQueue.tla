------------------------------ MODULE JobQueue ------------------------------
(***************************************************************************)
(* The job queue plugin: jobs are rows of task_queue, and every worker     *)
(* process polls them.  A poller reads the pending jobs, claims them one   *)
(* after the other, starts the workflow each names under a key made from   *)
(* the job, and writes down what came of the start.  The outcome is        *)
(* written by the process that finalizes the run, after its commit.  The   *)
(* reaper puts jobs back that have been 'running' for five minutes; the    *)
(* sweep gives up on dispatched jobs whose run is no longer in flight.     *)
(*                                                                         *)
(* Payload, tenant and queue name are left out; started_at is its one      *)
(* distinction, older than five minutes or not.  That a key starts at most *)
(* one run is what StartOnce promises.                                     *)
(***************************************************************************)
EXTENDS Naturals, FiniteSets

CONSTANTS
    Jobs,
    Bare,           \* the jobs without def_name
    Pollers,        \* worker processes
    MaxFailures,      \* bound: crashes, failed statements and failed starts
    MaxResets,      \* bound: how often a claim grows old
    LostStarts,     \* BOOLEAN: a start may commit and still be answered with an error
    Cancels,        \* BOOLEAN: clients cancel jobs
    JobDefers,         \* BOOLEAN: runs have a defer phase
    Redrives        \* BOOLEAN: operators retry dead-lettered runs

(* What the constants may be. *)
JobConstantsOK ==
    /\ Bare \subseteq Jobs /\ "none" \notin Jobs
    /\ MaxFailures \in Nat /\ MaxResets \in Nat
    /\ {LostStarts, Cancels, JobDefers, Redrives} \subseteq BOOLEAN
ASSUME JobAssumption == JobConstantsOK

VARIABLES
    status,     \* job -> task_queue.status
    run_id,     \* job -> BOOLEAN: the row names its run
    old,        \* job -> BOOLEAN: started_at is older than five minutes
    run,        \* job -> the status of its run, or "none"
    started,    \* job -> history: how many runs were started for it
    notice,     \* job -> what became of the terminal notice: "none", "due", "given"
    poll,       \* poller -> [pc, todo, job]
    failures,
    resets

jobVars == <<status, run_id, old, run, started, notice, poll, failures, resets>>

IdlePoller == [pc |-> "idle", todo |-> {}, job |-> "none"]
Settled == {"completed", "failed", "dead_lettered", "abandoned"}

JobInit ==
    /\ status = [j \in Jobs |-> "none"]
    /\ run_id = [j \in Jobs |-> FALSE]
    /\ old = [j \in Jobs |-> FALSE]
    /\ run = [j \in Jobs |-> "none"]
    /\ started = [j \in Jobs |-> 0]
    /\ notice = [j \in Jobs |-> "none"]
    /\ poll = [w \in Pollers |-> IdlePoller]
    /\ failures = 0
    /\ resets = 0

Fault(happens) ==
    /\ failures' = IF happens THEN failures + 1 ELSE failures
    /\ failures' <= MaxFailures

-----------------------------------------------------------------------------
(* handleEnqueue and handleCancelJob.                                      *)
Enqueue(j) ==
    /\ status[j] = "none"
    /\ status' = [status EXCEPT ![j] = "pending"]
    /\ UNCHANGED <<run_id, old, run, started, notice, poll, failures, resets>>

Cancel(j) ==
    /\ Cancels
    /\ status[j] = "pending"
    /\ status' = [status EXCEPT ![j] = "failed"]
    /\ UNCHANGED <<run_id, old, run, started, notice, poll, failures, resets>>

-----------------------------------------------------------------------------
(* pollPending: the pending jobs are read once and then taken one by one.  *)
Poll(w) ==
    /\ poll[w].pc = "idle"
    /\ \E j \in Jobs : status[j] = "pending"
    /\ poll' = [poll EXCEPT ![w] = [pc |-> "next", todo |-> {j \in Jobs : status[j] = "pending"}, job |-> "none"]]
    /\ UNCHANGED <<status, run_id, old, run, started, notice, failures, resets>>

EndPoll(w) ==
    /\ poll[w].pc = "next"
    /\ poll[w].todo = {}
    /\ poll' = [poll EXCEPT ![w] = IdlePoller]
    /\ UNCHANGED <<status, run_id, old, run, started, notice, failures, resets>>

(* The claim: it takes effect only while the job is still pending, and     *)
(* where it does not, or fails, the loop goes on.                          *)
Claimable(j) == status[j] = "pending"

Claim(w, j) ==
    /\ poll[w].pc = "next"
    /\ j \in poll[w].todo
    /\ \E fails \in BOOLEAN :
          /\ Fault(fails)
          /\ IF Claimable(j) /\ ~fails
             THEN /\ status' = [status EXCEPT ![j] = "running"]
                  /\ old' = [old EXCEPT ![j] = FALSE]
                  /\ poll' = [poll EXCEPT ![w] = [pc |-> IF j \in Bare THEN "bare" ELSE "start", todo |-> @.todo \ {j}, job |-> j]]
             ELSE /\ poll' = [poll EXCEPT ![w].todo = @ \ {j}]
                  /\ UNCHANGED <<status, old>>
    /\ UNCHANGED <<run_id, run, started, notice, resets>>

(* StartWorkflow under the job's key: the run that is there, or a new one. *)
KeyKnownNever(j) == FALSE
KeyKnown(j) == run[j] # "none"

StartRun(j) ==
    IF KeyKnown(j)
    THEN UNCHANGED <<run, started>>
    ELSE /\ run' = [run EXCEPT ![j] = "inflight"]
         /\ started' = [started EXCEPT ![j] = @ + 1]

(* It may fail before it reaches the key, as for a suspended tenant, or    *)
(* its answer may be lost.                                                 *)
StartWorkflow(w) ==
    /\ poll[w].pc = "start"
    /\ \E answer \in {"ok", "error", "lost"} :
          /\ answer = "lost" => LostStarts
          /\ Fault(answer # "ok")
          /\ IF answer = "error" THEN UNCHANGED <<run, started>> ELSE StartRun(poll[w].job)
          /\ poll' = [poll EXCEPT ![w].pc = IF answer = "ok" THEN "started" ELSE "failed"]
    /\ UNCHANGED <<status, run_id, old, notice, resets>>

(* What the poller writes down: neither statement asks for the status it   *)
(* replaces, and a failed one is logged.                                   *)
WriteDown(w, what) ==
    /\ \E fails \in BOOLEAN :
          /\ Fault(fails)
          /\ status' = IF fails THEN status ELSE [status EXCEPT ![poll[w].job] = what]
          /\ run_id' = IF fails \/ what # "dispatched" THEN run_id ELSE [run_id EXCEPT ![poll[w].job] = TRUE]
    /\ poll' = [poll EXCEPT ![w].pc = "next", ![w].job = "none"]
    /\ UNCHANGED <<old, run, started, notice, resets>>

MarkFailed(w) == poll[w].pc = "failed" /\ WriteDown(w, "failed")
MarkDispatched(w) == poll[w].pc = "started" /\ WriteDown(w, "dispatched")
MarkCompleted(w) == poll[w].pc = "bare" /\ WriteDown(w, "completed")

(* The process dies; another takes its place.                              *)
PollerCrash(w) ==
    /\ poll[w].pc # "idle"
    /\ Fault(TRUE)
    /\ poll' = [poll EXCEPT ![w] = IdlePoller]
    /\ UNCHANGED <<status, run_id, old, run, started, notice, resets>>

-----------------------------------------------------------------------------
(* A claim is five minutes old; the reaper puts such jobs back.            *)
GrowOld(j) ==
    /\ status[j] = "running"
    /\ ~old[j]
    /\ resets < MaxResets
    /\ resets' = resets + 1
    /\ old' = [old EXCEPT ![j] = TRUE]
    /\ UNCHANGED <<status, run_id, run, started, notice, poll, failures>>

Stuck(j) == status[j] = "running" /\ old[j]

runReaper ==
    /\ \E j \in Jobs : Stuck(j)
    /\ status' = [j \in Jobs |-> IF Stuck(j) THEN "pending" ELSE status[j]]
    /\ old' = [j \in Jobs |-> IF Stuck(j) THEN FALSE ELSE old[j]]
    /\ UNCHANGED <<run_id, run, started, notice, poll, failures, resets>>

(* in_flight_workflow_ids: ready and running, and not the defer phase.     *)
InFlight(j) == run[j] = "inflight"
AbandonedNever(j) == FALSE
Abandoned(j) == status[j] = "dispatched" /\ ~InFlight(j)

sweepAbandonedJobs ==
    /\ \E j \in Jobs : Abandoned(j)
    /\ status' = [j \in Jobs |-> IF Abandoned(j) THEN "abandoned" ELSE status[j]]
    /\ UNCHANGED <<run_id, old, run, started, notice, poll, failures, resets>>

-----------------------------------------------------------------------------
(* The run ends, at once or after its defer phase; the process that        *)
(* finalized it owes a notice.                                             *)
BeginDefer(j) ==
    /\ JobDefers
    /\ run[j] = "inflight"
    /\ run' = [run EXCEPT ![j] = "terminating"]
    /\ UNCHANGED <<status, run_id, old, started, notice, poll, failures, resets>>

Finalize(j) ==
    /\ run[j] \in {"inflight", "terminating"}
    /\ \E outcome \in {"done", "failed", "dead_lettered"} : run' = [run EXCEPT ![j] = outcome]
    /\ notice' = [notice EXCEPT ![j] = "due"]
    /\ UNCHANGED <<status, run_id, old, started, poll, failures, resets>>

OutcomeCompleted(outcome) == "completed"
Outcome(outcome) ==
    CASE outcome = "done" -> "completed"
      [] outcome = "dead_lettered" -> "dead_lettered"
      [] OTHER -> "failed"

(* ObserveFinalize.  The notice is given once; if its statement fails it   *)
(* is logged.                                                              *)
Observed(j) == run_id[j] /\ status[j] \in {"dispatched", "abandoned"}

ObserveFinalize(j) ==
    /\ notice[j] = "due"
    /\ \E fails \in BOOLEAN :
          /\ Fault(fails)
          /\ notice' = [notice EXCEPT ![j] = IF fails THEN "none" ELSE "given"]
          /\ status' = IF Observed(j) /\ ~fails THEN [status EXCEPT ![j] = Outcome(run[j])] ELSE status
    /\ UNCHANGED <<run_id, old, run, started, poll, resets>>

(* An operator retries a dead-lettered run.                                *)
Redrive(j) ==
    /\ Redrives
    /\ run[j] = "dead_lettered"
    /\ notice[j] # "due"
    /\ Fault(TRUE)
    /\ run' = [run EXCEPT ![j] = "inflight"]
    /\ notice' = [notice EXCEPT ![j] = "none"]
    /\ UNCHANGED <<status, run_id, old, started, poll, resets>>

PollerStep(w) ==
    \/ Poll(w) \/ EndPoll(w)
    \/ \E j \in Jobs : Claim(w, j)
    \/ StartWorkflow(w) \/ MarkFailed(w) \/ MarkDispatched(w) \/ MarkCompleted(w)

JobNext ==
    \/ \E j \in Jobs :
          Enqueue(j) \/ Cancel(j) \/ GrowOld(j) \/ BeginDefer(j) \/ Finalize(j) \/ ObserveFinalize(j) \/ Redrive(j)
    \/ \E w \in Pollers : PollerStep(w) \/ PollerCrash(w)
    \/ runReaper \/ sweepAbandonedJobs

JobSpec == JobInit /\ [][JobNext]_jobVars

(* Pollers and both sweeps run on tickers; runs come to an end.            *)
Fairness ==
    /\ \A w \in Pollers : WF_jobVars(PollerStep(w))
    /\ WF_jobVars(runReaper)
    /\ WF_jobVars(sweepAbandonedJobs)
    /\ \A j \in Jobs : WF_jobVars(GrowOld(j)) /\ WF_jobVars(Finalize(j)) /\ WF_jobVars(ObserveFinalize(j))
FairJobSpec == JobSpec /\ Fairness

-----------------------------------------------------------------------------
(* Every variable has its type; a job that is being started is not one     *)
(* without a workflow.                                                     *)
JobTypeOK ==
    /\ status \in [Jobs -> {"none", "pending", "running", "dispatched"} \cup Settled]
    /\ run \in [Jobs -> {"none", "inflight", "terminating", "done", "failed", "dead_lettered"}]
    /\ \A j \in Jobs : run_id[j] => started[j] > 0
    /\ \A w \in Pollers : poll[w].pc \in {"start", "started", "failed"} => poll[w].job \in Jobs \ Bare

(* However often a job is claimed again after a crash, an error or a slow  *)
(* poller, one run is started for it (background.go:349-354).              *)
OneRunPerJob == \A j \in Jobs : started[j] <= 1

(* A job that says 'completed' or 'dead_lettered' says what its run came   *)
(* to (routes.go:58-66).                                                   *)
OutcomeIsTheRuns ==
    \A j \in Jobs \ Bare :
        /\ status[j] = "completed" => run[j] = "done"
        /\ status[j] = "dead_lettered" => run[j] = "dead_lettered"
=============================================================================
