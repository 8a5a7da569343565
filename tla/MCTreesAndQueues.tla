-------------------------- MODULE MCTreesAndQueues --------------------------
(***************************************************************************)
(* What a run holds and what it leaves behind: RunTree and QueueAdmission  *)
(* on small instances, of which a behaviour takes one.                     *)
(* RunTree:                                                                *)
(*   close     two children under each of the three close policies;        *)
(*   deep      a child of a child;                                         *)
(*   owing     a child with defers to run;                                 *)
(*   keys      the best-effort statements of the clean-up fail;            *)
(*   reopened  a failed run is re-replayed, its worker dies at any point;  *)
(*   renewed   runs continue as new.                                       *)
(* QueueAdmission:                                                         *)
(*   bare      two runs of one unregistered key, a third without; clean-up *)
(*             fails, runs are retried;                                    *)
(*   slots     three runs for two slots, one of them per rate period;      *)
(*   caps      two slots, one of them per worker;                          *)
(*   switched  the queue is switched off and on;                           *)
(*   ordered   two claims that meet two queues in opposite orders;         *)
(*   crossed   the same with two unregistered keys;                        *)
(*   waiting   the key's holder settles and its clean-up fails.            *)
(***************************************************************************)
EXTENDS Naturals

CONSTANTS NULL, NoKey, NoRun, NoWorker

VARIABLES scenario, keys,
          runs, history, segs, jobs,
          status, owner, holder, tokens, disabled, sticky, tx, releasing,
          toggles, returns, retries, admitted

treeVars == <<runs, history, segs, jobs>>
queueVars == <<status, owner, holder, tokens, disabled, sticky, tx, releasing,
               toggles, returns, retries, admitted>>
vars == <<scenario, keys, treeVars, queueVars>>
-----------------------------------------------------------------------------
Root == "root"
Family == {"root", "a", "b"}
Endings == {"done"}
Policies == {"TERMINATE"}
MaxGeneration == 1
MaxChildren == 1
Locks == FALSE
Defers == FALSE
Continues == FALSE
Operator == FALSE
Reopens == FALSE
StaleSegments == FALSE
WritesFail == FALSE
Crashes == FALSE

Close == INSTANCE RunTree WITH
    Runs <- Family, MaxChildren <- 2, Policies <- {"TERMINATE", "REQUEST_CANCEL", "ABANDON"}
Deep == INSTANCE RunTree WITH Runs <- Family
Owing == INSTANCE RunTree WITH Runs <- {"root", "a"}, MaxGeneration <- 2, Defers <- TRUE
Locked == INSTANCE RunTree WITH
    Runs <- {"root", "a"}, MaxGeneration <- 2,
    Locks <- TRUE, Operator <- TRUE, WritesFail <- TRUE
Reopened == INSTANCE RunTree WITH
    Runs <- {"root", "a"}, Endings <- {"failed"}, Policies <- {"ABANDON"}, MaxGeneration <- 3,
    Reopens <- TRUE, Crashes <- TRUE
Renewed == INSTANCE RunTree WITH
    Runs <- Family, Endings <- {"failed"}, Policies <- {"ABANDON"}, MaxGeneration <- 2,
    Continues <- TRUE, Crashes <- TRUE

Workers == {"w1", "w2"}
Keys == {1}
Queues == {1}
Batch == 2
Limit == [q \in {1} |-> 2]
WorkerCap == [q \in {1} |-> 0]
RateLimit == [q \in {1} |-> 0]
StickyRuns == {}
Outlived == {}
Verdicts == {TRUE}
LateRelease == FALSE
MaxToggles == 0
MaxReturns == 2
MaxRetries == 0
OneKey == [r \in {1, 2, 3} |-> 1]
BareKey == [r \in {1, 2, 3} |-> IF r = 3 THEN NoKey ELSE 1]
Crossing == [r \in 1..4 |-> IF r \in {1, 4} THEN 1 ELSE 2]
None == [q \in {} |-> 0]

Bare == INSTANCE QueueAdmission WITH
    Runs <- {1, 2, 3}, Key <- BareKey,
    Queues <- {}, Limit <- None, WorkerCap <- None, RateLimit <- None,
    StickyRuns <- {3}, Verdicts <- BOOLEAN, MaxRetries <- 1
Slots == INSTANCE QueueAdmission WITH
    Runs <- {1, 2, 3}, Key <- OneKey, RateLimit <- [q \in {1} |-> 1]
Caps == INSTANCE QueueAdmission WITH
    Runs <- {1, 2, 3}, Key <- OneKey, WorkerCap <- [q \in {1} |-> 1]
Switched == INSTANCE QueueAdmission WITH
    Runs <- {1, 2, 3}, Key <- OneKey, Limit <- [q \in {1} |-> 1], MaxToggles <- 2, MaxReturns <- 0
Ordered == INSTANCE QueueAdmission WITH
    Runs <- 1..4, Key <- Crossing, Keys <- {1, 2}, Queues <- {1, 2}, MaxReturns <- 0,
    Limit <- [q \in {1, 2} |-> 2], WorkerCap <- [q \in {1, 2} |-> 0],
    RateLimit <- [q \in {1, 2} |-> 0]
Crossed == INSTANCE QueueAdmission WITH
    Runs <- 1..4, Key <- Crossing, Keys <- {1, 2}, Queues <- {}, MaxReturns <- 0,
    Limit <- None, WorkerCap <- None, RateLimit <- None
Waiting == INSTANCE QueueAdmission WITH
    Runs <- {1, 2, 3}, Key <- BareKey, Queues <- {}, Batch <- 1, MaxReturns <- 1,
    Limit <- None, WorkerCap <- None, RateLimit <- None, Verdicts <- BOOLEAN

ASSUME /\ Close!ConstantsOK /\ Deep!ConstantsOK /\ Owing!ConstantsOK /\ Locked!ConstantsOK
       /\ Reopened!ConstantsOK /\ Renewed!ConstantsOK
       /\ Bare!ConstantsOK /\ Slots!ConstantsOK /\ Caps!ConstantsOK
       /\ Switched!ConstantsOK /\ Ordered!ConstantsOK /\ Crossed!ConstantsOK
       /\ Waiting!ConstantsOK
-----------------------------------------------------------------------------
NoQueue == /\ status = NULL /\ owner = NULL /\ holder = NULL /\ tokens = NULL
           /\ disabled = NULL /\ sticky = NULL /\ tx = NULL /\ releasing = NULL
           /\ toggles = NULL /\ returns = NULL /\ retries = NULL /\ admitted = NULL
NoTree == runs = NULL /\ history = NULL /\ segs = NULL /\ jobs = NULL

Init == \/ /\ NoQueue
           /\ \/ scenario = "close" /\ Close!Init
              \/ scenario = "deep" /\ Deep!Init
              \/ scenario = "owing" /\ Owing!Init
              \/ scenario = "keys" /\ Locked!Init
              \/ scenario = "reopened" /\ Reopened!Init
              \/ scenario = "renewed" /\ Renewed!Init
        \/ /\ NoTree
           /\ \/ scenario = "bare" /\ Bare!Init
              \/ scenario = "slots" /\ Slots!Init
              \/ scenario = "caps" /\ Caps!Init
              \/ scenario = "switched" /\ Switched!Init
              \/ scenario = "ordered" /\ Ordered!Init
              \/ scenario = "crossed" /\ Crossed!Init
              \/ scenario = "waiting" /\ Waiting!Init

Next == /\ \/ /\ \/ scenario = "close" /\ Close!Next
                 \/ scenario = "deep" /\ Deep!Next
                 \/ scenario = "owing" /\ Owing!Next
                 \/ scenario = "keys" /\ Locked!Next
                 \/ scenario = "reopened" /\ Reopened!Next
                 \/ scenario = "renewed" /\ Renewed!Next
              /\ UNCHANGED queueVars
           \/ /\ \/ scenario = "bare" /\ Bare!Next
                 \/ scenario = "slots" /\ Slots!Next
                 \/ scenario = "caps" /\ Caps!Next
                 \/ scenario = "switched" /\ Switched!Next
                 \/ scenario = "ordered" /\ Ordered!Next
                 \/ scenario = "crossed" /\ Crossed!Next
                 \/ scenario = "waiting" /\ Waiting!Next
              /\ UNCHANGED treeVars
        /\ UNCHANGED scenario

Owed(step) == scenario = "owing" /\ step /\ UNCHANGED <<scenario, queueVars>>
Crosswise(step) == scenario = "crossed" /\ step /\ UNCHANGED <<scenario, treeVars>>
Waited(step) == scenario = "waiting" /\ step /\ UNCHANGED <<scenario, treeVars>>

(* The fairness of RunTree for owing, and of QueueAdmission for the last two: *)
(* an INSERT that waits goes on when the transaction it waits for ends.      *)
Spec == /\ Init /\ [][Next]_vars
        /\ WF_vars(Owed(Owing!SomeJob)) /\ WF_vars(Owed(Owing!SomeExpiry))
        /\ \A w \in Workers : /\ WF_vars(Crosswise(Crossed!ClaimStep(w)))
                              /\ SF_vars(Crosswise(Crossed!Acquire(w)))
                              /\ WF_vars(Crosswise(Crossed!AbortDeadlock(w)))
                              /\ WF_vars(Waited(Waiting!ClaimStep(w)))
                              /\ SF_vars(Waited(Waiting!Acquire(w)))
        /\ \A r \in {1, 2, 3} : WF_vars(Waited(Waiting!Settle(r) \/ Waiting!Wake(r)))
        /\ WF_vars(Waited(Waiting!ReapExpiredConcurrencyKeys))
-----------------------------------------------------------------------------
(* The rows, segments and jobs of a tree are well formed. *)
TreeTypes == /\ scenario = "close" => Close!TypeOK
             /\ scenario = "deep" => Deep!TypeOK
             /\ scenario = "owing" => Owing!TypeOK

(* Queues, keys and claims are well formed. *)
QueueTypes == /\ scenario = "bare" => Bare!TypeOK
              /\ scenario = "slots" => Slots!TypeOK

(* enforceParentClosePolicyAt and its cascade: once the post-commit jobs   *)
(* are done, no TERMINATE child of a settled run is still at work.         *)
ClosedParentLeavesNoOrphan ==
    /\ scenario = "close" => Close!ClosedParentLeavesNoOrphan
    /\ scenario = "deep" => Deep!ClosedParentLeavesNoOrphan
    /\ scenario = "owing" => Owing!ClosedParentLeavesNoOrphan

(* ... and every REQUEST_CANCEL child still at work has been told.         *)
CancelReachesChildren == scenario = "close" => Close!CancelReachesChildren

(* Children are closed only under a parent that is settled at that moment. *)
OnlyClosedParentsCloseChildren ==
    [][scenario = "close" => Close!OnlyClosedParentsCloseChildrenStep]_vars

(* releaseTerminatedChildren and releaseWorkflowResources take a run's     *)
(* keys only once it has settled, whichever statements of the job failed.  *)
KeysHeldUntilSettled == [][scenario = "keys" => Locked!KeysHeldUntilSettledStep]_vars

(* StartChildWorkflowAtomic: no child was started that its parent's        *)
(* history does not name, through crashes, re-replays and continuations.   *)
ChildIsRecorded == /\ scenario = "reopened" => Reopened!ChildIsRecorded
                   /\ scenario = "renewed" => Renewed!ChildIsRecorded

(* A TERMINATE child of a settled run settles, whether it is terminated or *)
(* marked for its defer phase, and then claimed, suspended or abandoned.   *)
ClosedTreeSettles ==
    LET Behind == scenario = "owing" /\ Owing!Doomed("a") /\ ~Owing!Settled("a")
    IN  Behind ~> ~Behind

(* Of the runs with one unregistered key at most one has been admitted and *)
(* is not settled, whatever claims, suspensions, lost leases, failed       *)
(* clean-ups, retries and reaps happen in between.                         *)
KeyExclusive == scenario = "bare" => Bare!KeyExclusive

(* A queue never has more live admitted runs than its concurrency_limit,   *)
(* though two claims may select the last slot together.                    *)
QueueBounded == /\ scenario = "slots" => Slots!QueueBounded
                /\ scenario = "caps" => Caps!QueueBounded

(* Within one rate period a queue admits at most rate_limit runs.          *)
RateBounded == scenario = "slots" => Slots!RateBounded

(* No worker runs more of a queue's runs at once than worker_concurrency,  *)
(* also after a run woke and moved from one worker to another.             *)
WorkerBounded == scenario = "caps" => Caps!WorkerBounded

(* Switching a queue off and on admits at most one run more than its       *)
(* limit: the one that took the name as a bare key.                        *)
SwitchedQueueBounded == scenario = "switched" => Switched!SwitchedQueueBounded

(* Every admitted run with a key has its row in one of the two tables.     *)
HeldWhileLive == scenario = "switched" => Switched!HeldWhileLive

(* Two claims never wait for each other's queue rows (ORDER BY name).      *)
NoQueueDeadlock == scenario = "ordered" => Ordered!NoQueueDeadlock

(* A claim that has begun ends, also when two claims insert the same       *)
(* unregistered keys in opposite orders and PostgreSQL fails one of them.  *)
(* (The two workers are interchangeable.)                                  *)
ClaimEnds ==
    LET Claiming == scenario = "crossed" /\ tx["w1"].phase # "idle"
    IN  Claiming ~> ~Claiming

(* A due run is claimed in the end, also when the clean-up of the run that *)
(* held its key failed.  (Runs 1 and 2 share the key and are               *)
(* interchangeable.)                                                       *)
RunIsAdmitted ==
    LET Due == scenario = "waiting" /\ status[1] = "ready"
    IN  Due ~> ~Due

(* A tree closes as its policies say: no orphan is left and no child       *)
(* untold, children are closed and keys released only when it is time, and *)
(* every child is in its parent's history.                                 *)
TreesClose == /\ [](TreeTypes /\ ClosedParentLeavesNoOrphan /\ CancelReachesChildren /\ ChildIsRecorded)
              /\ OnlyClosedParentsCloseChildren /\ KeysHeldUntilSettled

(* Admission keeps every limit, and two claims never block each other.     *)
LimitsHold == /\ QueueTypes /\ KeyExclusive /\ HeldWhileLive /\ NoQueueDeadlock
              /\ QueueBounded /\ SwitchedQueueBounded /\ RateBounded /\ WorkerBounded

(* A closed tree settles, a claim ends, and a due run is claimed.          *)
WorkGoesOn == ClosedTreeSettles /\ ClaimEnds /\ RunIsAdmitted
=============================================================================
