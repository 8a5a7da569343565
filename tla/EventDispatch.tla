---------------------------- MODULE EventDispatch ----------------------------
(***************************************************************************)
(* What a published event starts.  The publisher stores the event and      *)
(* starts a run for every subscription whose filter matches; it does not   *)
(* mark the event.  Every worker sweeps the events of at least ten seconds *)
(* that are not marked yet and dispatches them again, under the same keys, *)
(* counting its failures on the row; operators retry dead-lettered events. *)
(* The columns processed and status are shared with the awaiters' claims   *)
(* (EventAwait) and with the deletion of a webhook source.                 *)
(*                                                                         *)
(* Tenant, type and payload are left out: all events and subscriptions are *)
(* of one type, and Matches says which filters pass.  That one key starts  *)
(* one run is what StartOnce promises.                                     *)
(***************************************************************************)
EXTENDS Naturals, Sequences, FiniteSets, FiniteSetsExt, SequencesExt

CONSTANTS
    Events,
    Subs,
    Sweepers,       \* worker processes
    Operators,      \* retry requests, one each
    Matches,        \* the pairs <<event, subscription>> whose filter passes
    Retries,        \* subscription -> max_retries
    Default,        \* the limit when no subscription gives one
    Late,           \* the subscriptions that do not exist yet at first
    Dropped,        \* the subscriptions that may be deleted
    BatchSize,      \* how many events one sweep reads
    Claimed,        \* the events an awaiter may claim
    Poison,         \* the events whose data is not a JSON object
    Hooks,          \* the events of the webhook source, which may be deleted
    FaultKinds,     \* among "statement", "start" and "crash"
    MaxFaults       \* bound: how many of them

ConstantsOK ==
    /\ Matches \subseteq (Events \ Poison) \X Subs
    /\ Retries \in [Subs -> Nat]
    /\ Default \in Nat \ {0} /\ BatchSize \in Nat \ {0}
    /\ Late \subseteq Subs /\ Dropped \subseteq Subs /\ Late \intersect Dropped = {}
    /\ Claimed \subseteq Events /\ Hooks \subseteq Events
    /\ FaultKinds \subseteq {"statement", "start", "crash"}
    /\ MaxFaults \in Nat

VARIABLES
    log,        \* ingested_events in the order of seq
    old,        \* the events that were received ten seconds ago
    status,     \* event -> status, NULL read as "pending"
    dispatched, \* the events with dispatch_processed = true
    processed,  \* the events with processed = true
    retry,      \* event -> retry_count
    subs,       \* the subscriptions that exist
    deleted,    \* the webhook source has been deleted
    act,        \* publisher (its event), sweeper or operator -> what it is doing
    started,    \* the pairs <<event, subscription>> that have a run
    tried,      \* history: event -> failed sweeps since it was last reset
    gaveUp,     \* history: the events dead-lettered by a sweep and not reset since
    known,      \* history: the events of the source stored when it was deleted
    faults

vars == <<log, old, status, dispatched, processed, retry, subs, deleted, act,
          started, tried, gaveUp, known, faults>>

Actors == Events \union Sweepers \union Operators
Doing(pc) == [pc |-> pc, ev |-> "none", rc |-> 0, todo |-> {}, matched |-> FALSE, batch |-> <<>>]
Dispatch(e, rc, batch) == [Doing("query") EXCEPT !.ev = e, !.rc = rc, !.batch = batch]

Init ==
    /\ log = <<>>
    /\ old = {}
    /\ status = [e \in Events |-> "pending"]
    /\ dispatched = {}
    /\ processed = {}
    /\ retry = [e \in Events |-> 0]
    /\ subs = Subs \ Late
    /\ deleted = FALSE
    /\ act = [a \in Actors |-> Doing(IF a \in Events \ Hooks THEN "store" ELSE "idle")]
    /\ started = {}
    /\ tried = [e \in Events |-> 0]
    /\ gaveUp = {}
    /\ known = {}
    /\ faults = 0

Fault(kind, happens) ==
    /\ happens => kind \in FaultKinds
    /\ faults' = IF happens THEN faults + 1 ELSE faults
    /\ faults' <= MaxFaults

Stored(e) == e \in Range(log)

\* A sweeper goes on with the rest of its batch; a failed statement at the end
\* of a dispatch is not noticed.
After(a) ==
    LET b == act[a].batch IN
    IF a \in Sweepers /\ b # <<>> THEN Dispatch(Head(b).ev, Head(b).rc, Tail(b))
    ELSE Doing(IF a \in Sweepers THEN "idle" ELSE "done")

-----------------------------------------------------------------------------
(* The three ways into triggerMatchingWorkflows.                           *)

\* handleIngestWebhook's guarded INSERT.
Ingest(e) ==
    /\ e \in Hooks
    /\ act[e].pc = "idle"
    /\ ~deleted
    /\ act' = [act EXCEPT ![e].pc = "store"]
    /\ UNCHANGED <<log, old, status, dispatched, processed, retry, subs, deleted, started, tried, gaveUp, known, faults>>

PublishEvent(e) ==
    /\ act[e].pc = "store"
    /\ \E fails \in BOOLEAN :
         /\ Fault("statement", fails)
         /\ log' = IF fails THEN log ELSE Append(log, e)
         /\ act' = [act EXCEPT ![e] = IF fails THEN Doing("done") ELSE Dispatch(e, 0, <<>>)]
    /\ UNCHANGED <<old, status, dispatched, processed, retry, subs, deleted, started, tried, gaveUp, known>>

Swept(e) == e \in old /\ e \notin dispatched

processBatch(w) ==
    LET all == SelectSeq(log, Swept)
        found == SubSeq(all, 1, Min({Len(all), BatchSize}))
        batch == [i \in DOMAIN found |-> [ev |-> found[i], rc |-> retry[found[i]]]] IN
    /\ act[w].pc = "idle"
    /\ found # <<>>
    /\ act' = [act EXCEPT ![w] = Dispatch(batch[1].ev, batch[1].rc, Tail(batch))]
    /\ UNCHANGED <<log, old, status, dispatched, processed, retry, subs, deleted, started, tried, gaveUp, known, faults>>

\* handleRetryEvent reads the event, then resets it.
RetryEvent(o) ==
    /\ act[o].pc = "idle"
    /\ \E e \in Range(log) :
         /\ status[e] = "dead_letter"
         /\ act' = [act EXCEPT ![o] = [Doing("reset") EXCEPT !.ev = e]]
    /\ UNCHANGED <<log, old, status, dispatched, processed, retry, subs, deleted, started, tried, gaveUp, known, faults>>

Reset(o) ==
    LET e == act[o].ev IN
    /\ act[o].pc = "reset"
    /\ \E fails \in BOOLEAN :
         /\ Fault("statement", fails)
         /\ act' = [act EXCEPT ![o] = IF fails THEN Doing("done") ELSE Dispatch(e, 0, <<>>)]
         /\ IF fails THEN UNCHANGED <<status, dispatched, retry, tried, gaveUp>>
            ELSE /\ status' = [status EXCEPT ![e] = "pending"]
                 /\ dispatched' = dispatched \ {e}
                 /\ retry' = [retry EXCEPT ![e] = 0]
                 /\ tried' = [tried EXCEPT ![e] = 0]
                 /\ gaveUp' = gaveUp \ {e}
    /\ UNCHANGED <<log, old, processed, subs, deleted, started, known>>

-----------------------------------------------------------------------------
(* triggerMatchingWorkflows.                                               *)

\* A dead letter is no longer swept.
GivenUpUnmarked(e) == dispatched
GivenUp(e) == dispatched \union {e}

\* retryEvent looks at the data first.
RejectMalformed(w) ==
    LET e == act[w].ev IN
    /\ act[w].pc = "query"
    /\ e \in Poison
    /\ \E fails \in BOOLEAN :
         /\ Fault("statement", fails)
         /\ IF fails THEN UNCHANGED <<status, dispatched, gaveUp>>
            ELSE /\ status' = [status EXCEPT ![e] = "dead_letter"]
                 /\ dispatched' = GivenUp(e)
                 /\ gaveUp' = gaveUp \union {e}
    /\ act' = [act EXCEPT ![w] = After(w)]
    /\ UNCHANGED <<log, old, processed, retry, subs, deleted, started, tried, known>>

\* Where the loop over the subscriptions leads.
Leads(a, todo, matched) ==
    IF todo # {} THEN "start"
    ELSE IF a \in Events THEN "done"
    ELSE IF matched THEN "complete"
    ELSE IF a \in Sweepers THEN "count" ELSE "done"

\* The query fails, or the reading of its rows does; what has been started
\* does not count then.
Broken(a) == [act[a] EXCEPT !.pc = IF a \in Sweepers THEN "fail" ELSE "done", !.todo = {}]

QuerySubscriptions(a) ==
    /\ act[a].pc = "query"
    /\ a \in Sweepers => act[a].ev \notin Poison
    /\ \E fails \in BOOLEAN :
         /\ Fault("statement", fails)
         /\ act' = [act EXCEPT ![a] =
                      IF fails THEN Broken(a)
                      ELSE [@ EXCEPT !.pc = Leads(a, subs, FALSE), !.todo = subs]]
    /\ UNCHANGED <<log, old, status, dispatched, processed, retry, subs, deleted, started, tried, gaveUp, known>>

StartWorkflow(a) ==
    /\ act[a].pc = "start"
    /\ \E s \in act[a].todo, fails \in BOOLEAN :
         LET e == act[a].ev
             starts == <<e, s>> \in Matches /\ ~fails IN
         /\ fails => <<e, s>> \in Matches
         /\ Fault("start", fails)
         /\ started' = IF starts THEN started \union {<<e, s>>} ELSE started
         /\ act' = [act EXCEPT ![a] =
                      [@ EXCEPT !.pc = Leads(a, act[a].todo \ {s}, act[a].matched \/ starts),
                                !.todo = @ \ {s}, !.matched = @ \/ starts]]
    /\ UNCHANGED <<log, old, status, dispatched, processed, retry, subs, deleted, tried, gaveUp, known>>

BreakOff(a) ==
    /\ act[a].pc = "start"
    /\ Fault("statement", TRUE)
    /\ act' = [act EXCEPT ![a] = Broken(a)]
    /\ UNCHANGED <<log, old, status, dispatched, processed, retry, subs, deleted, started, tried, gaveUp, known>>

-----------------------------------------------------------------------------
(* retryEvent and handleRetryEvent, after the dispatch.                    *)

Complete(a) ==
    LET e == act[a].ev IN
    /\ act[a].pc = "complete"
    /\ \E fails \in BOOLEAN :
         /\ Fault("statement", fails)
         /\ IF fails THEN UNCHANGED <<status, dispatched, gaveUp>>
            ELSE /\ status' = [status EXCEPT ![e] = "completed"]
                 /\ dispatched' = dispatched \union {e}
                 /\ gaveUp' = gaveUp \ {e}
    /\ act' = [act EXCEPT ![a] = After(a)]
    /\ UNCHANGED <<log, old, processed, retry, subs, deleted, started, tried, known>>

\* The error of the count is dropped, and the count is zero then.
Counted(failing) == IF failing \/ subs = {} THEN "complete" ELSE "fail"

CountSubscriptions(w) ==
    /\ act[w].pc = "count"
    /\ \E fails \in BOOLEAN :
         /\ Fault("statement", fails)
         /\ act' = [act EXCEPT ![w].pc = Counted(fails)]
    /\ UNCHANGED <<log, old, status, dispatched, processed, retry, subs, deleted, started, tried, gaveUp, known>>

AtLeastOne(n) == IF n < 1 THEN 1 ELSE n
Limit == AtLeastOne(IF subs = {} THEN Default ELSE Max({Retries[s] : s \in subs}))
OverEarly(rc) == rc + 2 >= Limit
Over(rc) == rc + 1 >= Limit

markRetryFailed(w) ==
    LET e == act[w].ev  over == Over(act[w].rc) IN
    /\ act[w].pc = "fail"
    /\ tried' = [tried EXCEPT ![e] = @ + 1]
    /\ \E fails \in BOOLEAN :
         /\ Fault("statement", fails)
         /\ IF fails THEN UNCHANGED <<status, dispatched, retry, gaveUp>>
            ELSE /\ retry' = [retry EXCEPT ![e] = act[w].rc + 1]
                 /\ status' = [status EXCEPT ![e] = IF over THEN "dead_letter" ELSE "pending"]
                 /\ dispatched' = IF over THEN GivenUp(e) ELSE dispatched
                 /\ gaveUp' = IF over THEN gaveUp \union {e} ELSE gaveUp
    /\ act' = [act EXCEPT ![w] = After(w)]
    /\ UNCHANGED <<log, old, processed, subs, deleted, started, known>>

-----------------------------------------------------------------------------
(* Everything else that writes to these rows.                              *)

Age(e) ==
    /\ Stored(e)
    /\ e \notin old
    /\ old' = old \union {e}
    /\ UNCHANGED <<log, status, dispatched, processed, retry, subs, deleted, act, started, tried, gaveUp, known, faults>>

\* An awaiter's claim commits, or finds that it cannot decode the event.
Claim(e) ==
    /\ e \in Claimed
    /\ Stored(e)
    /\ e \notin processed
    /\ processed' = processed \union {e}
    /\ status' = [status EXCEPT ![e] = IF e \in Poison THEN "dead_letter" ELSE "consumed"]
    /\ UNCHANGED <<log, old, dispatched, retry, subs, deleted, act, started, tried, gaveUp, known, faults>>

Inert(rows) == dispatched \union rows

handleDeleteSource ==
    LET rows == {e \in Hooks : Stored(e) /\ e \notin processed} IN
    /\ Hooks # {}
    /\ ~deleted
    /\ deleted' = TRUE
    /\ processed' = processed \union rows
    /\ dispatched' = Inert(rows)
    /\ status' = [e \in Events |-> IF e \in rows THEN "cancelled" ELSE status[e]]
    /\ known' = {e \in Hooks : Stored(e)}
    /\ UNCHANGED <<log, old, retry, subs, act, started, tried, gaveUp, faults>>

handleCreateSubscription(s) ==
    /\ s \in Late \ subs
    /\ subs' = subs \union {s}
    /\ UNCHANGED <<log, old, status, dispatched, processed, retry, deleted, act, started, tried, gaveUp, known, faults>>

handleDeleteSubscription(s) ==
    /\ s \in Dropped \intersect subs
    /\ subs' = subs \ {s}
    /\ UNCHANGED <<log, old, status, dispatched, processed, retry, deleted, act, started, tried, gaveUp, known, faults>>

Crash(a) ==
    /\ act[a].pc \notin {"idle", "done"}
    /\ Fault("crash", TRUE)
    /\ act' = [act EXCEPT ![a] = Doing(IF a \in Sweepers THEN "idle" ELSE "done")]
    /\ UNCHANGED <<log, old, status, dispatched, processed, retry, subs, deleted, started, tried, gaveUp, known>>

-----------------------------------------------------------------------------
Step(a) == QuerySubscriptions(a) \/ StartWorkflow(a) \/ BreakOff(a)

SweeperStep(w) ==
    processBatch(w) \/ RejectMalformed(w) \/ Step(w) \/ Complete(w)
        \/ CountSubscriptions(w) \/ markRetryFailed(w)

Next ==
    \/ \E e \in Events : Ingest(e) \/ PublishEvent(e) \/ Step(e) \/ Age(e) \/ Claim(e)
    \/ \E w \in Sweepers : SweeperStep(w)
    \/ \E o \in Operators : RetryEvent(o) \/ Reset(o) \/ Step(o) \/ Complete(o)
    \/ handleDeleteSource
    \/ \E s \in Subs : handleCreateSubscription(s) \/ handleDeleteSubscription(s)
    \/ \E a \in Actors : Crash(a)

Spec == Init /\ [][Next]_vars

\* The sweep ticks on every worker, and time passes.
Fairness ==
    /\ \A w \in Sweepers : WF_vars(SweeperStep(w))
    /\ \A e \in Events : WF_vars(Age(e))

FairSpec == Spec /\ Fairness
-----------------------------------------------------------------------------
(* Properties.                                                             *)

\* Every variable has its type, and only stored events are marked, counted or
\* dispatched (processBatch and handleRetryEvent read the event from its row).
TypeOK ==
    /\ IsInjective(log) /\ Range(log) \subseteq Events
    /\ old \union dispatched \union processed \union gaveUp \subseteq Range(log)
    /\ status \in [Events -> {"pending", "completed", "dead_letter", "consumed", "cancelled"}]
    /\ retry \in [Events -> Nat] /\ tried \in [Events -> Nat]
    /\ subs \subseteq Subs
    /\ deleted \in BOOLEAN
    /\ started \subseteq Matches
    /\ \A p \in started : Stored(p[1])
    /\ \A a \in Actors : act[a].pc \in {"query", "start", "complete", "count", "fail", "reset"}
                            => Stored(act[a].ev)

LeastLimit == AtLeastOne(Min({Retries[s] : s \in Subs} \union {Default}))

\* No event is dead-lettered before it has been tried as often as a
\* subscription allows since it was last reset, although the sweeps of two
\* workers count from what each of them read (retryEvent, markRetryFailed).
GivenUpAfterRetries ==
    \A e \in gaveUp \ Poison : tried[e] >= LeastLimit

\* An event only becomes 'completed' when it has started a run, or nobody
\* subscribes to it (retryEvent, handleRetryEvent).
CompletedMeansServedStep ==
       \A e \in Events :
          status[e] # "completed" /\ status'[e] = "completed"
             => subs = {} \/ \E s \in Subs : <<e, s>> \in started

\* Once a source is deleted, no sweep takes up an event that was stored for it
\* (handleDeleteSource sets dispatch_processed, which queryUnprocessedEvents reads).
DeletedIsInert == known \subseteq dispatched

\* Every stored event is settled for good: each sweep, whatever fails, leaves
\* it completed, dead-lettered or with one retry less (retryEvent,
\* markRetryFailed), the events at the head of the table make room for those
\* behind them, and a crashed sweep is taken up by the next one.
EventSettles ==
    \A e \in Events : Stored(e) ~> [](e \in dispatched)

\* Every subscription that passes the filter gets its run, although the
\* publisher dies between storing the event and starting it, and although an
\* awaiter claims the event in between (queryUnprocessedEvents).
SubscribersServed ==
    \A m \in Matches : Stored(m[1]) ~> m \in started
=============================================================================
