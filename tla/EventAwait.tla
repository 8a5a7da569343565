----------------------------- MODULE EventAwait -----------------------------
(***************************************************************************)
(* Waiting for an external event.  A publisher stores the event and then,  *)
(* in steps of its own, looks for registered awaiters, signals each and    *)
(* removes its registration.  A run that waits claims the oldest matching  *)
(* event in a transaction; if there is none it registers, tries once more, *)
(* and suspends until a signal or the re-check interval of WaitForEvent.   *)
(* Deleting a webhook source cancels the events it has stored.             *)
(*                                                                         *)
(* Tenant, event type and the three key slots are one key; payloads are    *)
(* left out but for whether the awaiting function can decode them.  What a *)
(* published event starts by subscription is in EventDispatch.             *)
(***************************************************************************)
EXTENDS Naturals, Sequences, Functions

CONSTANTS
    Events,
    Workflows,
    EventKey,       \* event -> its key
    WaitKey,        \* workflow -> the key it waits for
    Wants,          \* workflow -> how many events it waits for, one after the other
    Poison,         \* the events whose data the awaiting function cannot decode
    Hooks,          \* the events that come in through the webhook source
    Mssql,          \* BOOLEAN: the claim of SQL Server, of the other two otherwise
    Rechecks,       \* BOOLEAN: the engine's WaitForEvent; the in-process one otherwise
    Expires,        \* BOOLEAN: waits have a deadline
    Deletes,        \* BOOLEAN: the source may be deleted
    Retries,        \* BOOLEAN: operators retry dead-lettered events
    FaultKinds,     \* among "statement", "commit" and "publisher": what may fail or die
    MaxFaults,      \* bound: how often
    MaxTakeovers    \* bound: how often a run is taken over while it calls await

ConstantsOK ==
    /\ {"none", "error"} \cap Events = {}
    /\ DOMAIN EventKey = Events
    /\ DOMAIN WaitKey = Workflows
    /\ Wants \in [Workflows -> Nat \ {0}]
    /\ Poison \subseteq Events
    /\ Hooks \subseteq Events
    /\ FaultKinds \subseteq {"statement", "commit", "publisher"}
    /\ MaxFaults \in Nat
    /\ MaxTakeovers \in Nat
ASSUME AwaitAssumption == ConstantsOK

VARIABLES
    log,        \* ingested_events in the order of seq
    status,     \* event -> ingested_events.status, "absent" before it is stored
    processed,  \* the events with processed = true
    awaiters,   \* event_awaiters: the workflows that are registered for their key
    signals,    \* workflow -> how many __evt signals wait for it
    pub,        \* event -> its publisher: [pc, todo, cur]
    calls,      \* <<workflow, "own" or "old">> -> an execution of the awaiting call
    got,        \* workflow -> the events its history records
    commits,    \* event -> history: how many claims of it were committed
    deleted,    \* the webhook source has been deleted
    faults,
    takeovers

awaitVars == <<log, status, processed, awaiters, signals, pub, calls, got, commits,
          deleted, faults, takeovers>>

None == "none"
Sessions == Workflows \X {"own", "old"}
Fresh == [pc |-> "try", n |-> 1, ev |-> None, cand |-> {}]
Absent == [pc |-> "absent", n |-> 1, ev |-> None, cand |-> {}]

AwaitInit ==
    /\ log = <<>>
    /\ status = [e \in Events |-> "absent"]
    /\ processed = {}
    /\ awaiters = {}
    /\ signals = [w \in Workflows |-> 0]
    /\ pub = [e \in Events |-> [pc |-> IF e \in Hooks THEN "arrive" ELSE "store",
                                todo |-> {}, cur |-> None]]
    /\ calls = [s \in Sessions |-> IF s[2] = "own" THEN Fresh ELSE Absent]
    /\ got = [w \in Workflows |-> <<>>]
    /\ commits = [e \in Events |-> 0]
    /\ deleted = FALSE
    /\ faults = 0
    /\ takeovers = 0

Fault(kind, happens) ==
    /\ happens => kind \in FaultKinds
    /\ faults' = IF happens THEN faults + 1 ELSE faults
    /\ faults' <= MaxFaults

\* The row is locked by a claim whose transaction is open.
Locked(e) == \E s \in Sessions : calls[s].pc = "held" /\ calls[s].ev = e

-----------------------------------------------------------------------------
(* The publisher.                                                          *)

Sent(todo) == [pc |-> IF todo = {} THEN "done" ELSE "signal", todo |-> todo, cur |-> None]

\* handleIngestWebhook's guarded INSERT into webhook_events.
Ingest(e) ==
    /\ pub[e].pc = "arrive"
    /\ pub' = [pub EXCEPT ![e].pc = IF deleted THEN "refused" ELSE "store"]
    /\ UNCHANGED <<log, status, processed, awaiters, signals, calls, got, commits, deleted, faults, takeovers>>

Store(e) ==
    /\ pub[e].pc = "store"
    /\ \E fails \in BOOLEAN :
         /\ Fault("statement", fails)
         /\ pub' = [pub EXCEPT ![e].pc = IF fails THEN "failed" ELSE "scan"]
         /\ log' = IF fails THEN log ELSE Append(log, e)
         /\ status' = IF fails THEN status ELSE [status EXCEPT ![e] = "pending"]
    /\ UNCHANGED <<processed, awaiters, signals, calls, got, commits, deleted, takeovers>>

\* signalAwaiters reads the registrations once.
FindAwaiters(e) ==
    /\ pub[e].pc = "scan"
    /\ \E fails \in BOOLEAN :
         /\ Fault("statement", fails)
         /\ pub' = [pub EXCEPT ![e] =
                      Sent(IF fails THEN {} ELSE {w \in awaiters : WaitKey[w] = EventKey[e]})]
    /\ UNCHANGED <<log, status, processed, awaiters, signals, calls, got, commits, deleted, takeovers>>

\* A run that is gone is not signalled but its registration is removed all the
\* same; a failed signal leaves the registration.
Signal(e) ==
    /\ pub[e].pc = "signal"
    /\ \E w \in pub[e].todo, fails \in BOOLEAN :
         /\ Fault("statement", fails)
         /\ pub' = [pub EXCEPT ![e] = IF fails THEN Sent(pub[e].todo \ {w})
                                               ELSE [@ EXCEPT !.pc = "unregister", !.cur = w]]
         /\ signals' = IF fails \/ calls[<<w, "own">>].pc = "ended" THEN signals
                     ELSE [signals EXCEPT ![w] = @ + 1]
    /\ UNCHANGED <<log, status, processed, awaiters, calls, got, commits, deleted, takeovers>>

UnregisterSignalled(e) ==
    /\ pub[e].pc = "unregister"
    /\ \E fails \in BOOLEAN :
         /\ Fault("statement", fails)
         /\ awaiters' = IF fails THEN awaiters ELSE awaiters \ {pub[e].cur}
    /\ pub' = [pub EXCEPT ![e] = Sent(pub[e].todo \ {pub[e].cur})]
    /\ UNCHANGED <<log, status, processed, signals, calls, got, commits, deleted, takeovers>>

PublisherDies(e) ==
    /\ pub[e].pc \in {"scan", "signal", "unregister"}
    /\ Fault("publisher", TRUE)
    /\ pub' = [pub EXCEPT ![e] = [pc |-> "dead", todo |-> {}, cur |-> None]]
    /\ UNCHANGED <<log, status, processed, awaiters, signals, calls, got, commits, deleted, takeovers>>

\* The producer publishes the same id again: the row is there, and that is all.
PublishAgain(e) ==
    /\ pub[e].pc = "dead"
    /\ pub' = [pub EXCEPT ![e].pc = "done"]
    /\ UNCHANGED <<log, status, processed, awaiters, signals, calls, got, commits, deleted, faults, takeovers>>

\* handleRetryEvent, as far as awaiters are concerned.
RetryEvent(e) ==
    /\ Retries
    /\ status[e] = "dead_letter"
    /\ pub[e].pc = "done"
    /\ status' = [status EXCEPT ![e] = "pending"]
    /\ pub' = [pub EXCEPT ![e].pc = "scan"]
    /\ UNCHANGED <<log, processed, awaiters, signals, calls, got, commits, deleted, faults, takeovers>>

Cancelled == {e \in Hooks : status[e] # "absent" /\ e \notin processed}

\* One transaction; it waits for rows that an open claim has locked.
DeleteSource ==
    /\ Deletes
    /\ ~deleted
    /\ \A e \in Hooks : ~Locked(e)
    /\ deleted' = TRUE
    /\ processed' = processed \union Cancelled
    /\ status' = [e \in Events |-> IF e \in Cancelled THEN "cancelled" ELSE status[e]]
    /\ UNCHANGED <<log, awaiters, signals, pub, calls, got, commits, faults, takeovers>>

-----------------------------------------------------------------------------
(* An execution s of the awaiting call, ClaimOrRegisterAwaiter.            *)

Missed(x) == [x EXCEPT !.pc = IF x.n = 1 THEN "register" ELSE "return", !.ev = None, !.cand = {}]
Failed(x) == [x EXCEPT !.pc = "return", !.ev = "error", !.cand = {}]
Hold(x, e) == [x EXCEPT !.pc = "held", !.ev = e, !.cand = {}]
Skip(x, i) == [x EXCEPT !.cand = @ \ {i}]

Claimable(w, e) == EventKey[e] = WaitKey[w] /\ e \notin processed /\ ~Locked(e)
\* The rows a claim of w finds, by their place in the log.
Candidates(w) == {i \in DOMAIN log : Claimable(w, log[i])}
Oldest(i, rows) == i \in rows /\ \A j \in rows : i <= j

\* FOR UPDATE SKIP LOCKED, one statement.
ClaimLocking(s) ==
    /\ ~Mssql
    /\ calls[s].pc = "try"
    /\ \/ /\ Fault("statement", TRUE)
          /\ calls' = [calls EXCEPT ![s] = Failed(@)]
       \/ /\ Fault("statement", FALSE)
          /\ \/ /\ Candidates(s[1]) = {}
                /\ calls' = [calls EXCEPT ![s] = Missed(@)]
             \/ \E i \in DOMAIN log :
                   /\ Oldest(i, Candidates(s[1]))
                   /\ calls' = [calls EXCEPT ![s] = Hold(@, log[i])]
    /\ UNCHANGED <<log, status, processed, awaiters, signals, pub, got, commits, deleted, takeovers>>

\* SQL Server: an unlocked list of candidates, then one point UPDATE each.
ReadCandidates(s) ==
    /\ Mssql
    /\ calls[s].pc = "try"
    /\ \E fails \in BOOLEAN :
         /\ Fault("statement", fails)
         /\ calls' = [calls EXCEPT ![s] =
                       IF fails THEN Failed(@) ELSE [@ EXCEPT !.pc = "pick", !.cand = Candidates(s[1])]]
    /\ UNCHANGED <<log, status, processed, awaiters, signals, pub, got, commits, deleted, takeovers>>

PointClaimableAlways(e) == ~Locked(e)
PointClaimable(e) == e \notin processed /\ ~Locked(e)

ClaimCandidate(s) ==
    /\ calls[s].pc = "pick"
    /\ \/ /\ calls[s].cand = {}
          /\ calls' = [calls EXCEPT ![s] = Missed(@)]
       \/ \E i \in DOMAIN log :
             /\ Oldest(i, calls[s].cand)
             /\ calls' = [calls EXCEPT ![s] = IF PointClaimable(log[i]) THEN Hold(@, log[i])
                                            ELSE Skip(@, i)]
    /\ UNCHANGED <<log, status, processed, awaiters, signals, pub, got, commits, deleted, faults, takeovers>>

\* The event is decoded before the commit.
CommitClaim(s) ==
    /\ calls[s].pc = "held"
    /\ calls[s].ev \notin Poison
    /\ \E fails \in BOOLEAN :
         /\ Fault("commit", fails)
         /\ calls' = [calls EXCEPT ![s] = IF fails THEN Failed(@) ELSE [@ EXCEPT !.pc = "clear"]]
         /\ IF fails THEN UNCHANGED <<status, processed, commits>>
            ELSE /\ status' = [status EXCEPT ![calls[s].ev] = "consumed"]
                 /\ processed' = processed \union {calls[s].ev}
                 /\ commits' = [commits EXCEPT ![calls[s].ev] = @ + 1]
    /\ UNCHANGED <<log, awaiters, signals, pub, got, deleted, takeovers>>

\* A poison event: the claim is rolled back first, the row is dead-lettered after.
RollBackPoison(s) ==
    /\ calls[s].pc = "held"
    /\ calls[s].ev \in Poison
    /\ calls' = [calls EXCEPT ![s].pc = "bury"]
    /\ UNCHANGED <<log, status, processed, awaiters, signals, pub, got, commits, deleted, faults, takeovers>>

DeadLetterPoison(s) ==
    /\ calls[s].pc = "bury"
    /\ ~Locked(calls[s].ev)
    /\ \E fails \in BOOLEAN :
         /\ Fault("statement", fails)
         /\ processed' = IF fails THEN processed ELSE processed \union {calls[s].ev}
         /\ status' = IF fails THEN status ELSE [status EXCEPT ![calls[s].ev] = "dead_letter"]
    /\ calls' = [calls EXCEPT ![s] = Missed(@)]
    /\ UNCHANGED <<log, awaiters, signals, pub, got, commits, deleted, takeovers>>

Again(x) == [x EXCEPT !.pc = "try", !.n = 2]

Register(s) ==
    /\ calls[s].pc = "register"
    /\ \E fails \in BOOLEAN :
         /\ Fault("statement", fails)
         /\ awaiters' = IF fails THEN awaiters ELSE awaiters \union {s[1]}
         /\ calls' = [calls EXCEPT ![s] = IF fails THEN Failed(@) ELSE Again(@)]
    /\ UNCHANGED <<log, status, processed, signals, pub, got, commits, deleted, takeovers>>

Unregister(s) ==
    /\ calls[s].pc = "clear"
    /\ \E fails \in BOOLEAN :
         /\ Fault("statement", fails)
         /\ awaiters' = IF fails THEN awaiters ELSE awaiters \ {s[1]}
    /\ calls' = [calls EXCEPT ![s].pc = "return"]
    /\ UNCHANGED <<log, status, processed, signals, pub, got, commits, deleted, takeovers>>

-----------------------------------------------------------------------------
(* The run around the call, WaitForEvent.                                  *)

\* The answer of the call goes into the history: an event, an error that ends
\* the wait, or nothing yet.
Record(w) ==
    LET s == <<w, "own">>  e == calls[s].ev IN
    /\ calls[s].pc = "return"
    /\ got' = IF e \in Events THEN [got EXCEPT ![w] = Append(@, e)] ELSE got
    /\ calls' = [calls EXCEPT ![s] =
                  IF e = None THEN [Fresh EXCEPT !.pc = "wait"]
                  ELSE IF e \in Events /\ Len(got[w]) + 1 < Wants[w] THEN Fresh
                  ELSE [Fresh EXCEPT !.pc = "ended"]]
    /\ UNCHANGED <<log, status, processed, awaiters, signals, pub, commits, deleted, faults, takeovers>>

Wake(w) ==
    /\ calls[<<w, "own">>].pc = "wait"
    /\ signals[w] > 0
    /\ signals' = [signals EXCEPT ![w] = @ - 1]
    /\ calls' = [calls EXCEPT ![<<w, "own">>] = Fresh]
    /\ UNCHANGED <<log, status, processed, awaiters, pub, got, commits, deleted, faults, takeovers>>

RecheckAllowed == Rechecks

\* eventRecheckMs has passed.
Recheck(w) ==
    /\ RecheckAllowed
    /\ calls[<<w, "own">>].pc = "wait"
    /\ calls' = [calls EXCEPT ![<<w, "own">>] = Fresh]
    /\ UNCHANGED <<log, status, processed, awaiters, signals, pub, got, commits, deleted, faults, takeovers>>

\* The budget of the whole wait is spent.  The registration stays.
Expire(w) ==
    /\ Expires
    /\ calls[<<w, "own">>].pc = "wait"
    /\ calls' = [calls EXCEPT ![<<w, "own">>].pc = "ended"]
    /\ UNCHANGED <<log, status, processed, awaiters, signals, pub, got, commits, deleted, faults, takeovers>>

\* The lease is lost before the answer is recorded: another worker makes the
\* call again, and the first execution may go on for a while.
TakeOver(w) ==
    /\ takeovers < MaxTakeovers
    /\ calls[<<w, "own">>].pc \notin {"wait", "ended"}
    /\ calls[<<w, "old">>].pc = "absent"
    /\ takeovers' = takeovers + 1
    /\ calls' = [calls EXCEPT ![<<w, "old">>] = calls[<<w, "own">>], ![<<w, "own">>] = Fresh]
    /\ UNCHANGED <<log, status, processed, awaiters, signals, pub, got, commits, deleted, faults>>

\* It ends anywhere, its transaction is rolled back, its answer is not recorded.
OldEnds(w) ==
    /\ calls[<<w, "old">>].pc # "absent"
    /\ calls' = [calls EXCEPT ![<<w, "old">>] = Absent]
    /\ UNCHANGED <<log, status, processed, awaiters, signals, pub, got, commits, deleted, faults, takeovers>>

-----------------------------------------------------------------------------
PublisherStep(e) ==
    Ingest(e) \/ Store(e) \/ FindAwaiters(e) \/ Signal(e) \/ UnregisterSignalled(e)

CallStep(s) ==
    \/ ClaimLocking(s) \/ ReadCandidates(s) \/ ClaimCandidate(s) \/ CommitClaim(s)
    \/ RollBackPoison(s) \/ DeadLetterPoison(s) \/ Register(s) \/ Unregister(s)

AwaitNext ==
    \/ \E e \in Events : PublisherStep(e) \/ PublisherDies(e) \/ PublishAgain(e) \/ RetryEvent(e)
    \/ DeleteSource
    \/ \E s \in Sessions : CallStep(s)
    \/ \E w \in Workflows : Record(w) \/ Wake(w) \/ Recheck(w) \/ Expire(w) \/ TakeOver(w) \/ OldEnds(w)

AwaitSpec == AwaitInit /\ [][AwaitNext]_awaitVars

\* Publishers and executions that are alive go on, signals are delivered, the
\* re-check interval passes, and an execution that lost its lease ends.
Fairness ==
    /\ \A e \in Events : WF_awaitVars(PublisherStep(e))
    /\ \A w \in Workflows :
         /\ WF_awaitVars(CallStep(<<w, "own">>))
         /\ WF_awaitVars(Record(w))
         /\ WF_awaitVars(Wake(w) \/ Recheck(w))
         /\ WF_awaitVars(OldEnds(w))

FairAwaitSpec == AwaitSpec /\ Fairness

-----------------------------------------------------------------------------
\* The types of the variables.
RowStatuses == {"absent", "pending", "consumed", "dead_letter", "cancelled"}
PubStates == {"arrive", "refused", "store", "failed", "scan", "signal", "unregister", "dead", "done"}
Publisher == [pc : PubStates, todo : SUBSET Workflows, cur : Workflows \union {None}]
CallStates == {"absent", "try", "pick", "held", "bury", "register", "clear", "return", "wait", "ended"}
Call == [pc : CallStates, n : {1, 2}, ev : Events \union {None, "error"}, cand : SUBSET DOMAIN log]
AwaitTypeOK ==
    /\ log \in Seq(Events) /\ IsInjective(log)
    /\ status \in [Events -> RowStatuses]
    /\ processed \subseteq Range(log)
    /\ awaiters \subseteq Workflows
    /\ signals \in [Workflows -> Nat]
    /\ pub \in [Events -> Publisher]
    /\ calls \in [Sessions -> Call]
    /\ got \in [Workflows -> Seq(Events)] /\ \A w \in Workflows : Len(got[w]) <= Wants[w]
    /\ commits \in [Events -> Nat]
    /\ deleted \in BOOLEAN
    /\ faults \in 0..MaxFaults
    /\ takeovers \in 0..MaxTakeovers

\* However many executions of however many runs look for it, an event is
\* claimed once and is in the history of one run at most (tryClaim).
OneTaker ==
    \A e \in Events :
        /\ commits[e] <= 1
        /\ \A v, w \in Workflows : e \in Range(got[v]) /\ e \in Range(got[w]) => v = w

\* The event of a run that waits without a signal is not lying there unclaimed
\* once its publisher has been answered: nothing is missed both by the claim
\* that looked for it and by the signal that announces it (the two attempts of
\* ClaimOrRegisterAwaiter around the registration).
NobodyIsMissed ==
    \A w \in Workflows, e \in Events \ Poison :
        /\ calls[<<w, "own">>].pc = "wait"
        /\ signals[w] = 0
        /\ EventKey[e] = WaitKey[w]
        /\ pub[e].pc = "done"
        => status[e] = "absent" \/ e \in processed \/ Locked(e)

\* An event that was consumed is in a history, or on its way to one: no claim
\* is kept that nobody can report (the decode inside the claim's transaction).
ConsumedIsReported ==
    \A e \in Events :
        commits[e] > 0 =>
            \E w \in Workflows :
                \/ e \in Range(got[w])
                \/ calls[<<w, "own">>].ev = e /\ calls[<<w, "own">>].pc \in {"clear", "return"}

\* An event that runs wait for is taken by one of them, and unless runs are
\* taken over while they claim it, that one reports it.
EventsAreTakenOnce == AwaitTypeOK /\ OneTaker /\ (MaxTakeovers = 0 => ConsumedIsReported)

\* A stored event is taken as long as somebody waits for its key: a signal
\* that is lost or late costs time only (WaitForEvent's re-check).
EventIsTaken ==
    \A e \in Events :
        status[e] # "absent" ~>
            \/ e \in processed
            \/ \A w \in Workflows : WaitKey[w] = EventKey[e] => calls[<<w, "own">>].pc = "ended"
=============================================================================
