------------------------------- MODULE MCJobs -------------------------------
(***************************************************************************)
(* JobQueue and UpdateRequests on small instances, of which a behaviour    *)
(* takes one.  JobQueue:                                                   *)
(*   jobs      two pollers, starts whose answer is lost (the module's own  *)
(*             variables and the configuration's constants);               *)
(*   redriven  the same with operators who retry dead-lettered runs.       *)
(* UpdateRequests:                                                         *)
(*   ended     two callers of a run that is terminated;                    *)
(*   stands    three callers of a run that finishes, its worker dies;      *)
(*   settles   three callers of a run that finishes.                       *)
(* All but the first have variables of their own.                          *)
(***************************************************************************)
EXTENDS JobQueue, Sequences

CONSTANT NULL

VARIABLES scenario,
          jstatus, jrun_id, jold, jrun, jstarted, jnotice, jpoll, jfailures, jresets,
          ustatus, history, rows, promises, http, sess, sweep, ufaults, missed

redrivenVars == <<jstatus, jrun_id, jold, jrun, jstarted, jnotice, jpoll, jfailures, jresets>>
updateVars == <<ustatus, history, rows, promises, http, sess, sweep, ufaults, missed>>
allVars == <<scenario, jobVars, redrivenVars, updateVars>>

Redriven == INSTANCE JobQueue WITH
    MaxFailures <- 1, MaxResets <- 3, LostStarts <- FALSE, Redrives <- TRUE,
    status <- jstatus, run_id <- jrun_id, old <- jold, run <- jrun, started <- jstarted,
    notice <- jnotice, poll <- jpoll, failures <- jfailures, resets <- jresets

Callers == {"a", "b", "d"}
Finishes == TRUE
Terminates == FALSE
MaxCrashes == 0
MaxFails == 0
Ended == INSTANCE UpdateRequests WITH
    Callers <- {"a", "b"}, Terminates <- TRUE, MaxCrashes <- 1, status <- ustatus, faults <- ufaults
Stands == INSTANCE UpdateRequests WITH
    MaxCrashes <- 1, status <- ustatus, faults <- ufaults
Settles == INSTANCE UpdateRequests WITH
    status <- ustatus, faults <- ufaults

ASSUME /\ Redriven!JobConstantsOK
       /\ Ended!ConstantsOK /\ Stands!ConstantsOK /\ Settles!ConstantsOK
-----------------------------------------------------------------------------
NoJobs == /\ jstatus = NULL /\ jrun_id = NULL /\ jold = NULL /\ jrun = NULL /\ jstarted = NULL
          /\ jnotice = NULL /\ jpoll = NULL /\ jfailures = NULL /\ jresets = NULL
NoUpdates == /\ ustatus = NULL /\ history = NULL /\ rows = NULL /\ promises = NULL /\ http = NULL
             /\ sess = NULL /\ sweep = NULL /\ ufaults = NULL /\ missed = NULL

MCInit == /\ JobInit
          /\ \/ scenario = "jobs" /\ NoJobs /\ NoUpdates
             \/ scenario = "redriven" /\ Redriven!JobInit /\ NoUpdates
             \/ scenario = "ended" /\ Ended!Init /\ NoJobs
             \/ scenario = "stands" /\ Stands!Init /\ NoJobs
             \/ scenario = "settles" /\ Settles!Init /\ NoJobs

MCNext == /\ \/ scenario = "jobs" /\ JobNext /\ UNCHANGED <<redrivenVars, updateVars>>
             \/ scenario = "redriven" /\ Redriven!JobNext /\ UNCHANGED <<jobVars, updateVars>>
             \/ scenario = "ended" /\ Ended!Next /\ UNCHANGED <<jobVars, redrivenVars>>
             \/ scenario = "stands" /\ Stands!Next /\ UNCHANGED <<jobVars, redrivenVars>>
             \/ scenario = "settles" /\ Settles!Next /\ UNCHANGED <<jobVars, redrivenVars>>
          /\ UNCHANGED scenario

InRedriven(step) == scenario = "redriven" /\ step /\ UNCHANGED <<scenario, jobVars, updateVars>>
InSettles(step) == scenario = "settles" /\ step /\ UNCHANGED <<scenario, jobVars, redrivenVars>>

(* The Fairness of JobQueue and of UpdateRequests for one instance each.   *)
MCSpec ==
    /\ MCInit /\ [][MCNext]_allVars
    /\ \A w \in Pollers : WF_allVars(InRedriven(Redriven!PollerStep(w)))
    /\ WF_allVars(InRedriven(Redriven!runReaper))
    /\ WF_allVars(InRedriven(Redriven!sweepAbandonedJobs))
    /\ \A j \in Jobs : /\ WF_allVars(InRedriven(Redriven!GrowOld(j)))
                       /\ WF_allVars(InRedriven(Redriven!Finalize(j)))
                       /\ WF_allVars(InRedriven(Redriven!ObserveFinalize(j)))
    /\ WF_allVars(InSettles(Settles!RunStep)) /\ WF_allVars(InSettles(Settles!SweepStep))
    /\ \A c \in Callers : WF_allVars(InSettles(Settles!HandleUpdate(c)))
-----------------------------------------------------------------------------
(* Every job is settled: crashed and slow pollers, failed statements, lost *)
(* notices and retried runs do not leave it pending, running or dispatched *)
(* for ever (runReaper, sweepAbandonedJobs).                               *)
JobsSettle ==
    LET Behind == scenario = "redriven" /\ \E j \in Jobs : jstatus[j] \notin {"none"} \cup Settled
    IN  Behind ~> ~Behind

(* A resolved promise was answered by the handler: no path but a recorded  *)
(* completion resolves one, and its request is no longer pending           *)
(* (durableCompleteUpdate).                                                *)
ResolvedWasHandled == scenario = "ended" => Ended!TypeOK /\ Ended!ResolvedWasHandled

(* An answer stands: a settled promise never changes, though neither       *)
(* ResolvePromise nor RejectPromise looks at the row's status.             *)
AnswerStands == [][scenario = "stands" => Stands!AnswerStandsStep]_allVars

(* A finished request that is not being settled right now has been: its    *)
(* promise was settled on the way (durableCompleteUpdate,                  *)
(* failStrandedUpdates).                                                   *)
CompletedMeansAnswered == scenario = "settles" => Settles!CompletedMeansAnswered

(* An update whose row and promise are both there before the run or a      *)
(* sweep gets to it is settled, also when the run ends meanwhile.          *)
CompleteRequestIsAnswered ==
    LET Complete == scenario = "settles" /\ Settles!Complete("a")
        Answered == scenario = "settles" /\ promises["a"] \in Settles!Outcomes
    IN  Complete ~> Answered

(* Update requests are answered, once, by the handler, and none that was   *)
(* complete in time is left without its answer.                            *)
UpdatesAreAnswered == /\ [](ResolvedWasHandled /\ CompletedMeansAnswered)
                      /\ AnswerStands /\ CompleteRequestIsAnswered
=============================================================================
