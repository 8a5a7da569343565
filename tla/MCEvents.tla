------------------------------ MODULE MCEvents ------------------------------
(***************************************************************************)
(* Awaited and dispatched events, on small instances of which a behaviour  *)
(* takes one:                                                              *)
(*   once     EventAwait with two runs for one event on SQL Server, and a  *)
(*            run that is taken over while it claims (the module's own     *)
(*            variables and the configuration's constants);                *)
(*   woken    EventAwait without the re-check, with two keys, deadlines    *)
(*            and a webhook source that is deleted;                        *)
(*   served   EventAwait with one run that waits for two events, one of    *)
(*            them poison, with any one fault and retries;                 *)
(*   counts   EventDispatch with two sweepers and a subscription that is   *)
(*            deleted;                                                     *)
(*   inert    EventDispatch with a webhook source that is deleted and a    *)
(*            subscription that comes late;                                *)
(*   settles  EventDispatch with one sweeper, an operator and any one      *)
(*            fault;                                                       *)
(*   serves   EventDispatch with two sweepers that may both crash.         *)
(* All but the first have variables of their own.                          *)
(***************************************************************************)
EXTENDS EventAwait

CONSTANT NULL

VARIABLES scenario,
          wlog, wstatus, wprocessed, wdeleted, wfaults,
          wawaiters, wsignals, wpub, wcalls, wgot, wcommits, wtakeovers,
          old, dispatched, retry, subs, act, started, tried, gaveUp, known

rowVars == <<wlog, wstatus, wprocessed, wdeleted, wfaults>>
waitVars == <<wawaiters, wsignals, wpub, wcalls, wgot, wcommits, wtakeovers>>
dispatchVars == <<old, dispatched, retry, subs, act, started, tried, gaveUp, known>>
allVars == <<scenario, awaitVars, rowVars, waitVars, dispatchVars>>

OneKey == [e1 |-> "k1"]
BothForIt == [w1 |-> "k1", w2 |-> "k1"]
OneEach == [w1 |-> 1, w2 |-> 1]
Woken == INSTANCE EventAwait WITH
    Events <- {"e1", "e2", "e3"}, EventKey <- [e1 |-> "k1", e2 |-> "k1", e3 |-> "k2"],
    WaitKey <- [w1 |-> "k1", w2 |-> "k2"], Hooks <- {"e3"},
    Mssql <- FALSE, Expires <- TRUE, Deletes <- TRUE, MaxTakeovers <- 0,
    log <- wlog, status <- wstatus, processed <- wprocessed, deleted <- wdeleted, faults <- wfaults,
    awaiters <- wawaiters, signals <- wsignals, pub <- wpub, calls <- wcalls,
    got <- wgot, commits <- wcommits, takeovers <- wtakeovers
Served == INSTANCE EventAwait WITH
    Events <- {"e1", "e2"}, Workflows <- {"w1"}, EventKey <- [e1 |-> "k1", e2 |-> "k1"],
    WaitKey <- [w1 |-> "k1"], Wants <- [w1 |-> 2], Poison <- {"e1"},
    Mssql <- FALSE, Rechecks <- TRUE, Retries <- TRUE, MaxTakeovers <- 0,
    FaultKinds <- {"statement", "commit", "publisher"}, MaxFaults <- 1,
    log <- wlog, status <- wstatus, processed <- wprocessed, deleted <- wdeleted, faults <- wfaults,
    awaiters <- wawaiters, signals <- wsignals, pub <- wpub, calls <- wcalls,
    got <- wgot, commits <- wcommits, takeovers <- wtakeovers

Default == 3
Operators == {}
Late == {}
Dropped == {}
BatchSize == 2
Claimed == {}
Counts == INSTANCE EventDispatch WITH
    Events <- {"e1"}, Subs <- {"s1"}, Sweepers <- {"w1", "w2"},
    Matches <- {<<"e1", "s1">>}, Retries <- [s1 |-> 2], Dropped <- {"s1"},
    FaultKinds <- {"start", "crash"}, MaxFaults <- 3,
    log <- wlog, status <- wstatus, processed <- wprocessed, deleted <- wdeleted, faults <- wfaults
Inert == INSTANCE EventDispatch WITH
    Events <- {"e1", "e2"}, Subs <- {"s1"}, Sweepers <- {"w1"},
    Matches <- {<<"e1", "s1">>}, Retries <- [s1 |-> 2], Late <- {"s1"}, Hooks <- {"e2"},
    FaultKinds <- {"start", "crash", "statement"}, MaxFaults <- 1,
    log <- wlog, status <- wstatus, processed <- wprocessed, deleted <- wdeleted, faults <- wfaults
Settles == INSTANCE EventDispatch WITH
    Events <- {"e1", "e2"}, Subs <- {"s1", "s2"}, Sweepers <- {"w1"}, Operators <- {"o1"},
    Matches <- {<<"e1", "s1">>, <<"e1", "s2">>}, Retries <- [s1 |-> 2, s2 |-> 0],
    BatchSize <- 1, Claimed <- {"e2"}, Poison <- {"e2"},
    FaultKinds <- {"start", "crash", "statement"}, MaxFaults <- 1,
    log <- wlog, status <- wstatus, processed <- wprocessed, deleted <- wdeleted, faults <- wfaults
Serves == INSTANCE EventDispatch WITH
    Events <- {"e1"}, Subs <- {"s1", "s2"}, Sweepers <- {"w1", "w2"},
    Matches <- {<<"e1", "s1">>, <<"e1", "s2">>}, Retries <- [s1 |-> 2, s2 |-> 2],
    Claimed <- {"e1"}, FaultKinds <- {"crash"}, MaxFaults <- 2,
    log <- wlog, status <- wstatus, processed <- wprocessed, deleted <- wdeleted, faults <- wfaults

ASSUME /\ Woken!ConstantsOK /\ Served!ConstantsOK
       /\ Counts!ConstantsOK /\ Inert!ConstantsOK /\ Settles!ConstantsOK /\ Serves!ConstantsOK
-----------------------------------------------------------------------------
NoRows == wlog = NULL /\ wstatus = NULL /\ wprocessed = NULL /\ wdeleted = NULL /\ wfaults = NULL
NoWait == /\ wawaiters = NULL /\ wsignals = NULL /\ wpub = NULL /\ wcalls = NULL
          /\ wgot = NULL /\ wcommits = NULL /\ wtakeovers = NULL
NoDispatch == /\ old = NULL /\ dispatched = NULL /\ retry = NULL /\ subs = NULL /\ act = NULL
              /\ started = NULL /\ tried = NULL /\ gaveUp = NULL /\ known = NULL

MCInit == /\ AwaitInit
          /\ \/ scenario = "once" /\ NoRows /\ NoWait /\ NoDispatch
             \/ scenario = "woken" /\ Woken!AwaitInit /\ NoDispatch
             \/ scenario = "served" /\ Served!AwaitInit /\ NoDispatch
             \/ scenario = "counts" /\ Counts!Init /\ NoWait
             \/ scenario = "inert" /\ Inert!Init /\ NoWait
             \/ scenario = "settles" /\ Settles!Init /\ NoWait
             \/ scenario = "serves" /\ Serves!Init /\ NoWait

MCNext == /\ UNCHANGED scenario
          /\ \/ scenario = "once" /\ AwaitNext /\ UNCHANGED <<rowVars, waitVars, dispatchVars>>
             \/ /\ UNCHANGED <<awaitVars, dispatchVars>>
                /\ \/ scenario = "woken" /\ Woken!AwaitNext
                   \/ scenario = "served" /\ Served!AwaitNext
             \/ /\ UNCHANGED <<awaitVars, waitVars>>
                /\ \/ scenario = "counts" /\ Counts!Next
                   \/ scenario = "inert" /\ Inert!Next
                   \/ scenario = "settles" /\ Settles!Next
                   \/ scenario = "serves" /\ Serves!Next

InServed(step) == scenario = "served" /\ step /\ UNCHANGED <<scenario, awaitVars, dispatchVars>>
InSettles(step) == scenario = "settles" /\ step /\ UNCHANGED <<scenario, awaitVars, waitVars>>
InServes(step) == scenario = "serves" /\ step /\ UNCHANGED <<scenario, awaitVars, waitVars>>

(* The fairness of EventAwait for served, of EventDispatch for settles and *)
(* serves.                                                                 *)
MCSpec ==
    /\ MCInit /\ [][MCNext]_allVars
    /\ \A e \in {"e1", "e2"} : WF_allVars(InServed(Served!PublisherStep(e)))
    /\ WF_allVars(InServed(Served!CallStep(<<"w1", "own">>)))
    /\ WF_allVars(InServed(Served!Record("w1")))
    /\ WF_allVars(InServed(Served!Wake("w1") \/ Served!Recheck("w1")))
    /\ WF_allVars(InServed(Served!OldEnds("w1")))
    /\ WF_allVars(InSettles(Settles!SweeperStep("w1")))
    /\ \A e \in {"e1", "e2"} : WF_allVars(InSettles(Settles!Age(e)))
    /\ \A w \in {"w1", "w2"} : WF_allVars(InServes(Serves!SweeperStep(w)))
    /\ WF_allVars(InServes(Serves!Age("e1")))
-----------------------------------------------------------------------------
(* The types of the variables of EventDispatch; only stored events are     *)
(* marked, counted or dispatched (processBatch and handleRetryEvent read   *)
(* the event from its row).                                                *)
DispatchTypes == /\ scenario = "counts" => Counts!TypeOK
                 /\ scenario = "inert" => Inert!TypeOK
                 /\ scenario = "settles" => Settles!TypeOK
                 /\ scenario = "serves" => Serves!TypeOK

(* EventsAreTakenOnce of EventAwait's other instances.                     *)
OthersAreTakenOnce == /\ scenario = "woken" => Woken!EventsAreTakenOnce
                      /\ scenario = "served" => Served!EventsAreTakenOnce

(* Without the re-check, the event of a run that waits without a signal is *)
(* not lying there unclaimed once its publisher has been answered          *)
(* (ClaimOrRegisterAwaiter).                                               *)
AwaitersAreNotMissed == scenario = "woken" => Woken!NobodyIsMissed

(* No event is dead-lettered before it has been tried as often as a        *)
(* subscription allows since it was last reset (markRetryFailed).          *)
GivenUpAfterRetries == /\ scenario = "counts" => Counts!GivenUpAfterRetries
                       /\ scenario = "settles" => Settles!GivenUpAfterRetries

(* Once a source is deleted, no sweep takes up an event that was stored    *)
(* for it (handleDeleteSource).                                            *)
DeletedIsInert == scenario = "inert" => Inert!DeletedIsInert

(* An event only becomes 'completed' when it has started a run, or nobody  *)
(* subscribes to it (retryEvent, handleRetryEvent).                        *)
CompletedMeansServed == [][scenario = "counts" => Counts!CompletedMeansServedStep]_allVars

(* A stored event is taken as long as somebody waits for its key: a signal *)
(* that is lost or late costs time only (WaitForEvent's re-check).         *)
WaitedForIsTaken == LET Left == /\ scenario = "served"
                                /\ wcalls[<<"w1", "own">>].pc # "ended"
                                /\ \E e \in {"e1", "e2"} : wstatus[e] # "absent" /\ e \notin wprocessed
                    IN  Left ~> ~Left

(* Every stored event is settled for good: each sweep, whatever fails,     *)
(* leaves it completed, dead-lettered or with one retry less, and the      *)
(* events at the head of the table make room for those behind them         *)
(* (retryEvent, markRetryFailed).                                          *)
EventSettles == <>[](scenario = "settles" =>
                        \A e \in {"e1", "e2"} : Settles!Stored(e) => e \in dispatched)

(* Every subscription that passes the filter gets its run, although the    *)
(* publisher dies between storing the event and starting it, and although  *)
(* an awaiter claims the event in between (queryUnprocessedEvents).        *)
SubscribersServed == <>[](scenario = "serves" =>
                            \A s \in {"s1", "s2"} : Serves!Stored("e1") => <<"e1", s>> \in started)

(* A dispatch is given up only after its retries, completed only when it   *)
(* served somebody, and not resumed for a deleted source.                  *)
DispatchIsHonest == /\ [](DispatchTypes /\ GivenUpAfterRetries /\ DeletedIsInert)
                    /\ CompletedMeansServed

(* Every event is taken or settled, every subscriber served, and no run    *)
(* that waits is passed over.                                              *)
EventsSettle == /\ [](OthersAreTakenOnce /\ AwaitersAreNotMissed)
                /\ WaitedForIsTaken /\ EventSettles /\ SubscribersServed
=============================================================================
