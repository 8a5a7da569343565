--------------------------- MODULE UpdateRequests ---------------------------
(***************************************************************************)
(* Update requests: a caller's 202 is a promise that the run, or the sweep *)
(* at its end, must settle.  Callers go through handleWorkflowUpdate, four *)
(* transactions that are not one; the run delivers pending requests at its *)
(* dispatch points and settles them in three more; a worker that settles   *)
(* the run sweeps what is left.                                            *)
(***************************************************************************)
EXTENDS Integers, Sequences, FiniteSets, SequencesExt

CONSTANTS
    NULL,
    Callers,
    Finishes,    \* BOOLEAN: the run may reach a terminal status
    Terminates,  \* BOOLEAN: an operator may terminate it
    MaxCrashes, MaxFails  \* bounds

(* What the constants may be. *)
ConstantsOK == /\ Finishes \in BOOLEAN /\ Terminates \in BOOLEAN
               /\ MaxCrashes \in Nat /\ MaxFails \in Nat

VARIABLES
    status,    \* of the run: "running" (ready or claimed), "terminating", or "settled"
    history,   \* its update_received and update_completed events
    rows,      \* workflow_update_requests in order of creation, [req, status]
    promises,  \* workflow_promises: the status of each caller's promise, or NULL
    http,      \* where each caller's request is in handleWorkflowUpdate
    sess,      \* the execution of the run, or NULL
    sweep,     \* a failStrandedUpdates that is under way, or NULL
    faults,    \* crashes and failed writes so far
    missed     \* callers whose promise was settled before it was created

vars == <<status, history, rows, promises, http, sess, sweep, faults, missed>>

Pending == SelectSeq(rows, LAMBDA r : r.status = "pending")
(* A store call may fail; the callers below log it and go on. *)
Verdicts == {TRUE} \cup IF faults.fails < MaxFails THEN {FALSE} ELSE {}
Counted(ok) == faults' = [faults EXCEPT !.fails = @ + IF ok THEN 0 ELSE 1]

Outcomes == {"resolved", "rejected"}

Init ==
    /\ status = "running"
    /\ history = <<>> /\ rows = <<>>
    /\ promises = [c \in Callers |-> NULL]
    /\ http = [c \in Callers |-> "start"]
    /\ sess = NULL /\ sweep = NULL
    /\ faults = [crashes |-> 0, fails |-> 0]
    /\ missed = {}
-----------------------------------------------------------------------------
(* handleWorkflowUpdate.  Every caller asks for the same update name. *)

isTerminalStatus == status # "running"

CheckStatus(c) ==
    /\ http[c] = "start"
    /\ http' = [http EXCEPT ![c] = IF isTerminalStatus THEN "refused" ELSE "admitted"]
    /\ UNCHANGED <<status, history, rows, promises, sess, sweep, faults, missed>>

CheckPending(c) ==
    /\ http[c] = "admitted"
    /\ http' = [http EXCEPT ![c] = IF Pending # <<>> THEN "refused" ELSE "unique"]
    /\ UNCHANGED <<status, history, rows, promises, sess, sweep, faults, missed>>

CreateUpdateRequest(c) ==
    /\ http[c] = "unique"
    /\ rows' = Append(rows, [req |-> c, status |-> "pending"])
    /\ http' = [http EXCEPT ![c] = "promise"]
    /\ UNCHANGED <<status, history, promises, sess, sweep, faults, missed>>

CreatePromise(c) ==
    /\ http[c] = "promise"
    /\ \E ok \in Verdicts : Counted(ok) /\ promises' = [promises EXCEPT ![c] = IF ok THEN "pending" ELSE NULL]
    /\ http' = [http EXCEPT ![c] = "told"]
    /\ UNCHANGED <<status, history, rows, sess, sweep, missed>>

HandleUpdate(c) == CheckStatus(c) \/ CheckPending(c) \/ CreateUpdateRequest(c) \/ CreatePromise(c)
-----------------------------------------------------------------------------
(* The run. *)

Claim ==
    /\ status = "running" /\ sess = NULL /\ sweep = NULL
    /\ sess' = [hist |-> history, pos |-> 1, at |-> "poll", req |-> NULL, out |-> NULL]
    /\ UNCHANGED <<status, history, rows, promises, http, sweep, faults, missed>>

At(pc) == sess # NULL /\ sess.at = pc
Replaying == sess.pos <= Len(sess.hist)

(* recordEvent: the session keeps the event; the table only if it holds the fence. *)
Recorded(e) == /\ history' = IF status = "running" THEN Append(history, e) ELSE history
               /\ \E o \in IF e.type = "update_completed" THEN Outcomes ELSE {NULL} :
                     sess' = [sess EXCEPT !.hist = Append(@, e), !.pos = @ + 1, !.req = e.req, !.out = o,
                                          !.at = IF e.type = "update_completed" THEN "row" ELSE "handler"]

(* Delivers the recorded update at this position, or records the first pending one. *)
DurablePollUpdate ==
    /\ At("poll")
    /\ IF Replaying
       THEN /\ sess' = [sess EXCEPT !.pos = @ + 1, !.at = "handler", !.req = sess.hist[sess.pos].req]
            /\ UNCHANGED history
       ELSE IF Pending = <<>>
            THEN /\ sess' = [sess EXCEPT !.at = "idle"]
                 /\ UNCHANGED history
            ELSE Recorded([type |-> "update_received", req |-> Head(Pending).req])
    /\ UNCHANGED <<status, rows, promises, http, sweep, faults, missed>>

(* A replayed completion settles nothing. *)
DurableCompleteUpdate ==
    /\ At("handler")
    /\ IF Replaying
       THEN /\ sess' = [sess EXCEPT !.pos = @ + 1, !.at = "poll"]
            /\ UNCHANGED history
       ELSE Recorded([type |-> "update_completed", req |-> sess.req])
    /\ UNCHANGED <<status, rows, promises, http, sweep, faults, missed>>

Completed(req) == [i \in DOMAIN rows |-> IF rows[i].req = req THEN [rows[i] EXCEPT !.status = "completed"] ELSE rows[i]]

(* ResolvePromise and RejectPromise: the row's status is not looked at, and *)
(* a promise that is not there is ErrPromiseNotFound.                       *)
Settled(req, out) == [promises EXCEPT ![req] = IF @ = NULL THEN NULL ELSE out]

Missed(req) == IF promises[req] = NULL THEN missed \cup {req} ELSE missed

CompleteUpdateRequest ==
    /\ At("row")
    /\ \E ok \in Verdicts : Counted(ok) /\ rows' = IF ok THEN Completed(sess.req) ELSE rows
    /\ sess' = [sess EXCEPT !.at = "settle"]
    /\ UNCHANGED <<status, history, promises, http, sweep, missed>>

SettleSkipped ==
    /\ At("settle")
    /\ sess' = [sess EXCEPT !.at = "poll"]
    /\ UNCHANGED <<status, history, rows, http, sweep, promises, missed, faults>>

SettlePromise ==
    /\ At("settle")
    /\ \E ok \in Verdicts :
          /\ Counted(ok)
          /\ promises' = IF ok THEN Settled(sess.req, sess.out) ELSE promises
    /\ missed' = Missed(sess.req)
    /\ sess' = [sess EXCEPT !.at = "poll"]
    /\ UNCHANGED <<status, history, rows, http, sweep>>

Suspend ==
    /\ At("idle")
    /\ sess' = NULL
    /\ UNCHANGED <<status, history, rows, promises, http, sweep, faults, missed>>

(* FinalizeWorkflowSegment with 'done' at the end of the guest, or            *)
(* writeTerminalFailure at any point of it; then notifyTerminal.              *)
Finish ==
    /\ Finishes /\ status = "running" /\ sess # NULL /\ sess.at \in {"idle", "poll", "handler"}
    /\ status' = "settled"
    /\ history' = <<>> /\ sess' = NULL
    /\ sweep' = [at |-> "read", todo |-> <<>>]
    /\ UNCHANGED <<rows, promises, http, faults, missed>>

WorkerDies ==
    /\ faults.crashes < MaxCrashes
    /\ \/ sess # NULL /\ sess' = NULL /\ UNCHANGED sweep
       \/ sweep # NULL /\ sweep' = NULL /\ UNCHANGED sess
    /\ faults' = [faults EXCEPT !.crashes = @ + 1]
    /\ UNCHANGED <<status, history, rows, promises, http, missed>>
-----------------------------------------------------------------------------
(* failStrandedUpdates. *)

FetchPending ==
    /\ sweep # NULL /\ sweep.at = "read"
    /\ \E ok \in Verdicts : Counted(ok) /\ sweep' = IF ok THEN [at |-> "row", todo |-> Pending] ELSE NULL
    /\ UNCHANGED <<status, history, rows, promises, http, sess, missed>>

StrandRow ==
    /\ sweep # NULL /\ sweep.at = "row" /\ sweep.todo # <<>>
    /\ \E ok \in Verdicts :
          /\ Counted(ok)
          /\ rows' = IF ok THEN Completed(Head(sweep.todo).req) ELSE rows
          /\ sweep' = IF ok THEN [sweep EXCEPT !.at = "promise"] ELSE [sweep EXCEPT !.todo = Tail(@)]
    /\ UNCHANGED <<status, history, promises, http, sess, missed>>

StrandPromise ==
    /\ sweep # NULL /\ sweep.at = "promise"
    /\ LET c == Head(sweep.todo).req
       IN  /\ \E ok \in Verdicts : Counted(ok) /\ promises' = IF ok THEN Settled(c, "rejected") ELSE promises
           /\ missed' = Missed(c)
    /\ sweep' = [at |-> "row", todo |-> Tail(sweep.todo)]
    /\ UNCHANGED <<status, history, rows, http, sess>>

SweepEnds ==
    /\ sweep # NULL /\ sweep.at = "row" /\ sweep.todo = <<>>
    /\ sweep' = NULL
    /\ UNCHANGED <<status, history, rows, promises, http, sess, faults, missed>>

(* TerminateWorkflow: settled in the operator's transaction, or marked for a  *)
(* defer phase.  An execution under way goes on without its claim.  The phase *)
(* delivers no update; it ends by finishDeferPhase, with a sweep, or by its   *)
(* deadline.                                                                  *)
TerminateWorkflow ==
    /\ Terminates /\ status = "running"
    /\ status' \in {"settled", "terminating"}
    /\ history' = IF status' = "settled" THEN <<>> ELSE history
    /\ UNCHANGED <<rows, promises, http, sess, sweep, faults, missed>>

finishDeferPhase ==
    /\ status = "terminating"
    /\ status' = "settled" /\ history' = <<>>
    /\ sweep' = [at |-> "read", todo |-> <<>>]
    /\ UNCHANGED <<rows, promises, http, sess, faults, missed>>

ExpireDeferPhases ==
    /\ status = "terminating"
    /\ status' = "settled" /\ history' = <<>>
    /\ UNCHANGED <<rows, promises, http, sess, sweep, faults, missed>>

RunStep == Claim \/ DurablePollUpdate \/ DurableCompleteUpdate \/ CompleteUpdateRequest \/ SettlePromise \/ Suspend
SweepStep == FetchPending \/ StrandRow \/ StrandPromise \/ SweepEnds

Next ==
    \/ \E c \in Callers : HandleUpdate(c)
    \/ RunStep \/ Finish \/ SweepStep \/ WorkerDies
    \/ TerminateWorkflow \/ finishDeferPhase \/ ExpireDeferPhases

Spec == Init /\ [][Next]_vars

(* A request handler runs to its end, a run is claimed when an update wakes  *)
(* it and executes, and a sweep goes on until it is done.                    *)
FairSpec == Spec /\ WF_vars(RunStep) /\ WF_vars(SweepStep) /\ \A c \in Callers : WF_vars(HandleUpdate(c))
-----------------------------------------------------------------------------
TypeOK ==
    /\ status \in {"running", "terminating", "settled"}
    /\ \A i \in DOMAIN history : history[i].type \in {"update_received", "update_completed"} /\ history[i].req \in Callers
    /\ \A i \in DOMAIN rows : rows[i].req \in Callers /\ rows[i].status \in {"pending", "completed"}
    /\ promises \in [Callers -> {NULL, "pending"} \cup Outcomes]
    /\ http \in [Callers -> {"start", "admitted", "unique", "promise", "told", "refused"}]
    /\ sess # NULL => sess.at \in {"poll", "handler", "row", "settle", "idle"} /\ sess.pos \in 1..(Len(sess.hist) + 1)
    /\ sess # NULL /\ status = "running" => sess.hist = history
    /\ sweep # NULL => status = "settled" /\ sweep.at \in {"read", "row", "promise"}
    /\ missed \subseteq Callers

RowOf(c) == LET i == CHOOSE i \in DOMAIN rows : rows[i].req = c IN rows[i].status
Asked(c) == \E i \in DOMAIN rows : rows[i].req = c

(* An answer stands: a settled promise never changes. *)
AnswerStandsStep == \A c \in Callers : promises[c] \in Outcomes => promises'[c] = promises[c]

(* A resolved promise was answered by the handler: no path but a recorded   *)
(* completion resolves one, and its request is no longer pending.           *)
ResolvedWasHandled ==
    \A c \in Callers : promises[c] = "resolved" => Asked(c) /\ RowOf(c) = "completed"

(* A finished request that is not being settled right now has been: the     *)
(* promise was settled on the run that completed it.                        *)
CompletedMeansAnswered ==
    \A c \in Callers \ missed :
        Asked(c) /\ RowOf(c) = "completed" /\ promises[c] = "pending"
          => \/ sess # NULL /\ sess.at = "settle" /\ sess.req = c
             \/ sweep # NULL /\ sweep.at = "promise" /\ Head(sweep.todo).req = c

(* Its row and its promise are both there before the run or a sweep gets   *)
(* to it.                                                                  *)
Complete(c) == status # "settled" /\ Asked(c) /\ RowOf(c) = "pending" /\ promises[c] = "pending"
=============================================================================
