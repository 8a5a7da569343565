----------------------------- MODULE CallIntent -----------------------------
(***************************************************************************)
(* Durable calls of one run: the write-ahead intent (commit intent,        *)
(* dispatch, commit outcome), what replay does with an intent a crash left *)
(* pending, the operator's resolution and re-replay, the retention sweep,  *)
(* and the checksum chain that all of them extend or repair.               *)
(*                                                                         *)
(* The guest is a deterministic program: guest.ops[c] is the operation of  *)
(* its c-th call, "intent" for one declared write-ahead, "plain" for an    *)
(* at-least-once one, and guest.catches says whether it goes on after a    *)
(* call that failed.  A checksum is the set of the records it was chained  *)
(* from, each with its step: a chain is in step order, so two checksums    *)
(* that differ here come from different chains, and the empty one is none. *)
(***************************************************************************)
EXTENDS Integers, Sequences

CONSTANTS
    NULL,           \* SQL NULL
    MaxGeneration,  \* bound: no claim or reap once generation is here
    MaxCalls,       \* bound: calls in the guest's program
    MaxSteps,       \* bound: rows of event_history
    CatchChoices,   \* subset of BOOLEAN: guests that stop or go on after an error
    Resolver,       \* an AmbiguityResolver is configured
    KeyReplay,      \* the operation is declared safe to repeat under its key
    Operator,       \* ResolveStep, ReReplay and ForceFail are used
    OperatorsRace,  \* two operators act on the run at once
    Retention,      \* the retention sweep runs
    WritesFail      \* a write may fail, or be applied and its answer lost

VARIABLES
    guest,          \* the program
    lease,          \* status and generation of the run
    event_history,  \* per step, a row or NULL
    swept,          \* history_swept_at IS NOT NULL
    execs,          \* executions, the current one and zombies
    requests,       \* requests dispatched that the service has not seen yet
    applied,        \* per idempotency key (step), how often an intent call took effect
    refused,        \* keys the service promised, by answering 404, not to execute
    admin           \* an operator's request between its reads and its write

vars == <<guest, lease, event_history, swept, execs, requests, applied, refused, admin>>

Steps == 0 .. MaxSteps - 1
Calls == 1 .. MaxCalls
Ops == {"intent", "plain"}

\* who supplied the outcome, and under which claim
Outcome == [by: {"pending", "call", "error", "key", "lookup", "notsent", "operator", "audit"},
            gen: 0..MaxGeneration]
Out(by, g) == [by |-> by, gen |-> g]

\* call is not stored: it is the guest's call that the record answers
EventRecord == [op: Ops \cup {"admin"}, call: 0..MaxCalls, out: Outcome]
Pending(c) == [op |-> "intent", call |-> c, out |-> Out("pending", 0)]
AdminAction == [op |-> "admin", call |-> 0, out |-> Out("audit", 0)]
Done(rec, out) == [rec EXCEPT !.out = out]

\* records, each with its step: a history that was read, or a checksum's chain
StepRecords == SUBSET (Steps \X EventRecord)
NoChecksum == {}
Row == [rec: EventRecord, checksum: StepRecords]
Exec == [gen: 1..MaxGeneration,
         at: {"claimed", "guest", "written", "calling", "returned", "failing"},
         call: 1..(MaxCalls + 1), history: Seq(EventRecord), loaded: Nat, step: Nat,
         lastChecksum: StepRecords, answer: Outcome]
AdminRequest == [verb: {"resolve", "audit", "rereplay"}, step: Nat, history: StepRecords,
                 audit: Nat, generation: 0..MaxGeneration]

(* What the constants may be. *)
ConstantsOK ==
    /\ MaxGeneration \in Nat /\ MaxCalls \in Nat /\ MaxSteps \in Nat
    /\ CatchChoices \subseteq BOOLEAN
    /\ {Resolver, KeyReplay, Operator, OperatorsRace, Retention, WritesFail} \subseteq BOOLEAN
    /\ NULL \notin Row
ASSUME CallAssumption == ConstantsOK

Fence(e) == lease.status = "running" /\ lease.generation = e.gen
-----------------------------------------------------------------------------
(* The table and its checksum chain. *)

computeEventChecksum(s, rec, prev) == prev \cup {<<s, rec>>}

Stored == {s \in Steps : event_history[s] # NULL}
StoredBelow(table, s) == {t \in Steps : t < s /\ table[t] # NULL}
isPendingIntent(row) == row # NULL /\ row.checksum = NoChecksum
Highest(S) == CHOOSE x \in S : \A y \in S : y <= x
maxStep == IF Stored = {} THEN -1 ELSE Highest(Stored)

previousStoredChecksum(table, s) ==
    LET below == StoredBelow(table, s) IN
    IF below = {} THEN NoChecksum ELSE table[Highest(below)].checksum

\* INSERT ... ON CONFLICT: a call row that is there, pending or not, is kept
Inserted(table, s, rec, checksum) ==
    IF table[s] = NULL THEN [table EXCEPT ![s] = [rec |-> rec, checksum |-> checksum]] ELSE table

\* records recs for steps from, from + 1, ..., chained from the row before them
appendEventsInTx(table, from, recs) ==
    LET rec(s) == recs[s - from + 1]
        chain(s) == previousStoredChecksum(table, from) \cup {<<t, rec(t)>> : t \in from..s}
    IN [s \in Steps |->
          IF table[s] = NULL /\ s \in from..(from + Len(recs) - 1)
          THEN [rec |-> rec(s), checksum |-> chain(s)] ELSE table[s]]

LoadEventHistory == {<<s, event_history[s].rec>> : s \in Stored}
validateReplayStepDensity == Stored = 0..maxStep

\* every row with a checksum continues the row before it, or starts a chain
\* where that row is missing or has none
VerifyWorkflowEvents ==
    \A s \in Stored : ~isPendingIntent(event_history[s]) =>
        event_history[s].checksum =
            computeEventChecksum(s, event_history[s].rec, previousStoredChecksum(event_history, s))
-----------------------------------------------------------------------------
Init == /\ guest \in [ops: [Calls -> Ops], catches: CatchChoices]
        /\ lease = [status |-> "ready", generation |-> 0]
        /\ event_history = [s \in Steps |-> NULL]
        /\ swept = FALSE
        /\ execs = {} /\ requests = {}
        /\ applied = [s \in Steps |-> 0] /\ refused = {}
        /\ admin = NULL

service == <<requests, applied, refused>>
Moves(e, f) == execs' = (execs \ {e}) \cup {f}

Claim ==
    /\ lease.status = "ready" /\ lease.generation < MaxGeneration
    /\ lease' = [status |-> "running", generation |-> lease.generation + 1]
    /\ execs' = execs \cup {[gen |-> lease.generation + 1, at |-> "claimed", call |-> 1,
                             history |-> <<>>, loaded |-> 0, step |-> 0,
                             lastChecksum |-> NoChecksum, answer |-> Out("pending", 0)]}
    /\ UNCHANGED <<guest, event_history, swept, service, admin>>

(* A reap or an operator's verb takes the claim; the execution goes on *)
LoseClaim ==
    /\ lease.status = "running" /\ lease.generation < MaxGeneration
    /\ lease' = [status |-> "ready", generation |-> lease.generation + 1]
    /\ UNCHANGED <<guest, event_history, swept, execs, service, admin>>

WorkerDies(e) == /\ execs' = execs \ {e}
                 /\ UNCHANGED <<guest, lease, event_history, swept, service, admin>>

(* executeWithBackend: density, then checksums, then the guest starts *)
LoadHistory(e) ==
    /\ e.at = "claimed"
    /\ Moves(e, IF validateReplayStepDensity /\ VerifyWorkflowEvents
                THEN [e EXCEPT !.at = "guest", !.loaded = maxStep + 1,
                               !.history = [i \in 1..(maxStep + 1) |-> event_history[i - 1].rec]]
                ELSE [e EXCEPT !.at = "failing"])
    /\ UNCHANGED <<guest, lease, event_history, swept, service, admin>>

(* What the guest does with the answer to its call: the next call, or fail *)
Told(e, ok) == IF ok \/ guest.catches THEN [e EXCEPT !.at = "guest", !.call = @ + 1]
               ELSE [e EXCEPT !.at = "failing"]
AtCall(e) == e.at = "guest" /\ e.call \in Calls
Replaying(e) == e.step < Len(e.history)
-----------------------------------------------------------------------------
(* Fresh calls. *)

(* freshCall of an at-least-once operation: the service answers, then      *)
(* recordEvent appends in memory and flushes.  lastChecksum moves only     *)
(* when the flush reports success.                                         *)
Recorded(e, rec, flushed) ==
    [e EXCEPT !.history = Append(@, rec), !.step = @ + 1,
              !.lastChecksum = IF flushed THEN computeEventChecksum(e.step, rec, @) ELSE @]

freshCall(e) ==
    /\ AtCall(e) /\ ~Replaying(e) /\ guest.ops[e.call] = "plain" /\ e.step \in Steps
    /\ LET rec == [op |-> "plain", call |-> e.call, out |-> Out("call", e.gen)] IN
       \E wrote, flushed \in BOOLEAN :
          /\ wrote => Fence(e)
          /\ (flushed => wrote) /\ (Fence(e) /\ ~WritesFail => flushed)
          /\ event_history' = IF wrote
                THEN Inserted(event_history, e.step, rec,
                              computeEventChecksum(e.step, rec, e.lastChecksum))
                ELSE event_history
          /\ Moves(e, Told(Recorded(e, rec, flushed), TRUE))
    /\ UNCHANGED <<guest, lease, swept, service, admin>>

(* WriteCallIntent: a fenced INSERT without ON CONFLICT, so a row that is  *)
(* already there refuses it.  Nothing is dispatched unless it succeeded.   *)
IntentAccepted(e) == Fence(e) /\ event_history[e.step] = NULL

WriteCallIntent(e) ==
    /\ AtCall(e) /\ ~Replaying(e) /\ guest.ops[e.call] = "intent" /\ e.step \in Steps
    /\ \E wrote, ok \in BOOLEAN :
          /\ wrote => IntentAccepted(e)
          /\ (ok => wrote) /\ (IntentAccepted(e) /\ ~WritesFail => ok)
          /\ event_history' = IF wrote
                THEN [event_history EXCEPT ![e.step] = [rec |-> Pending(e.call), checksum |-> NoChecksum]]
                ELSE event_history
          /\ Moves(e, IF ok THEN [e EXCEPT !.at = "written"] ELSE Told(e, FALSE))
    /\ UNCHANGED <<guest, lease, swept, service, admin>>

callService(e) ==
    /\ e.at = "written"
    /\ requests' = requests \cup {[key |-> e.step, gen |-> e.gen]}
    /\ Moves(e, [e EXCEPT !.at = "calling"])
    /\ UNCHANGED <<guest, lease, event_history, swept, applied, refused, admin>>

(* The service executes a request, however late, unless it promised not to *)
(* or has seen the key of an operation that honours keys; or it is lost.   *)
Arrives(q) ==
    /\ requests' = requests \ {q}
    /\ applied' = IF q.key \in refused \/ (KeyReplay /\ applied[q.key] > 0) THEN applied
                  ELSE [applied EXCEPT ![q.key] = @ + 1]
    /\ UNCHANGED <<guest, lease, event_history, swept, execs, refused, admin>>
Lost(q) ==
    /\ requests' = requests \ {q}
    /\ UNCHANGED <<guest, lease, event_history, swept, execs, applied, refused, admin>>

(* The answer of a request that arrived, or an error with it still under way *)
CallReturns(e) ==
    /\ e.at = "calling"
    /\ \/ /\ [key |-> e.step, gen |-> e.gen] \notin requests /\ applied[e.step] > 0
          /\ Moves(e, [e EXCEPT !.at = "returned", !.answer = Out("call", e.gen)])
       \/ Moves(e, [e EXCEPT !.at = "returned", !.answer = Out("error", e.gen)])
    /\ UNCHANGED <<guest, lease, event_history, swept, service, admin>>

(* The row that Complete- and ResolveCallIntent update: still pending, and *)
(* for a worker, the fence still held.                                     *)
StillPending(s) == isPendingIntent(event_history[s])

(* CompleteCallIntent.  Its checksum continues the session's chain.  A     *)
(* completion that fails leaves the session's history and step as they     *)
(* were, and the guest is told the call failed.                            *)
CompleteCallIntent(e) ==
    /\ e.at = "returned"
    /\ LET rec == Done(Pending(e.call), e.answer)
           checksum == computeEventChecksum(e.step, rec, e.lastChecksum)
           accepted == Fence(e) /\ StillPending(e.step)
       IN \E wrote, ok \in BOOLEAN :
          /\ wrote => accepted
          /\ (ok => wrote) /\ (accepted /\ ~WritesFail => ok)
          /\ event_history' = IF wrote
                THEN [event_history EXCEPT ![e.step] = [rec |-> rec, checksum |-> checksum]]
                ELSE event_history
          /\ Moves(e, IF ok
                THEN Told([e EXCEPT !.history = Append(@, rec), !.step = @ + 1,
                                    !.lastChecksum = checksum], e.answer.by = "call")
                ELSE Told(e, FALSE))
    /\ UNCHANGED <<guest, lease, swept, service, admin>>
-----------------------------------------------------------------------------
(* Replayed calls. *)

AdvancedUnchained(e) == [e EXCEPT !.step = @ + 1]
\* advanceReplayStep: every consumed record, a pending one too, extends the chain
Advanced(e) ==
    LET rec == e.history[e.step + 1] IN
    [e EXCEPT !.step = @ + 1, !.lastChecksum = computeEventChecksum(e.step, rec, @)]

Recognised(e) == e.history[e.step + 1].op = guest.ops[e.call]
FoundPending(e) == e.history[e.step + 1].out.by = "pending"

replayCall(e) ==
    /\ AtCall(e) /\ Replaying(e) /\ ~(Recognised(e) /\ FoundPending(e))
    /\ Moves(e, Told(Advanced(e),
                     Recognised(e) /\ e.history[e.step + 1].out.by \notin {"error", "notsent"}))
    /\ UNCHANGED <<guest, lease, event_history, swept, service, admin>>

\* the records above the resolved one, up to the next pending one
chainRepairsAfter(h, s) ==
    {r \in h : r[1] > s /\ \A p \in h : p[1] \in (s + 1)..r[1] => p[2].out.by # "pending"}

\* the row is chained from the row before it, and the rows above are re-chained
\* with the records the caller has read
ResolveCallIntent(s, rec, h) ==
    LET checksum == computeEventChecksum(s, rec, previousStoredChecksum(event_history, s))
        later == chainRepairsAfter(h, s)
    IN [t \in Steps |->
          IF t = s THEN [rec |-> rec, checksum |-> checksum]
          ELSE IF event_history[t] # NULL /\ \E r \in later : r[1] = t
               THEN [event_history[t] EXCEPT !.checksum = checksum \cup {r \in later : r[1] <= t}]
               ELSE event_history[t]]

\* the same handler with the pending row treated as a call never made
RepeatsTheCall(e) ==
    /\ AtCall(e) /\ Replaying(e) /\ Recognised(e) /\ FoundPending(e)
    /\ requests' = requests \cup {[key |-> e.step, gen |-> e.gen]}
    /\ Moves(e, [e EXCEPT !.at = "calling"])
    /\ UNCHANGED <<guest, lease, event_history, swept, applied, refused, admin>>

(* resolveAmbiguityViaKeyReplay, then resolveAmbiguity, then [AMBIGUOUS].  *)
(* A repeat under the original key takes effect unless the original did,   *)
(* and fails where a lookup was answered with "not sent".                  *)
(* A lookup that answers "not sent" promises not to execute the key later. *)
(* A resolution that cannot be recorded is reported as ambiguous.          *)
resolveAmbiguity(e) ==
    /\ AtCall(e) /\ Replaying(e) /\ Recognised(e) /\ FoundPending(e)
    /\ LET s == e.step
           persisted == Fence(e) /\ StillPending(s)
           Resolved(by) ==
              \E ok \in BOOLEAN :
                 /\ ok => persisted
                 /\ persisted /\ ~WritesFail => ok
                 /\ event_history' = IF ok
                       THEN ResolveCallIntent(s, Done(e.history[s + 1], Out(by, e.gen)),
                                              {<<i - 1, e.history[i]>> : i \in 1..Len(e.history)})
                       ELSE event_history
                 /\ Moves(e, Told(Advanced(e), ok /\ by # "notsent"))
       IN \/ /\ KeyReplay /\ s \notin refused
             /\ applied' = [applied EXCEPT ![s] = IF @ = 0 THEN 1 ELSE @]
             /\ UNCHANGED <<requests, refused>>
             /\ Resolved("key")
          \/ /\ Resolver /\ applied[s] > 0
             /\ UNCHANGED service
             /\ Resolved("lookup")
          \/ /\ Resolver /\ applied[s] = 0
             /\ refused' = refused \cup {s}
             /\ UNCHANGED <<requests, applied>>
             /\ Resolved("notsent")
          \/ /\ Moves(e, Told(Advanced(e), FALSE))
             /\ UNCHANGED <<event_history, service>>
    /\ UNCHANGED <<guest, lease, swept, admin>>

-----------------------------------------------------------------------------
(* The end of a segment. *)

(* A suspension appends the segment's records and gives the claim up. *)
FinalizeSuspend(e) ==
    /\ e.at = "guest" /\ ~Replaying(e) /\ Fence(e)
    /\ lease' = [lease EXCEPT !.status = "ready"]
    /\ event_history' = appendEventsInTx(event_history, e.loaded,
                                         SubSeq(e.history, e.loaded + 1, Len(e.history)))
    /\ execs' = execs \ {e}
    /\ UNCHANGED <<guest, swept, service, admin>>

FinalizeDone(e) ==
    /\ e.at = "guest" /\ e.call > MaxCalls /\ Fence(e)
    /\ lease' = [lease EXCEPT !.status = "done"]
    /\ event_history' = [s \in Steps |-> NULL]
    /\ execs' = execs \ {e}
    /\ UNCHANGED <<guest, swept, service, admin>>

(* The guest ended with an error, trapped or ran out of time; or it was    *)
(* never started because its history does not verify.                      *)
FailWorkflow(e) ==
    /\ e.at \in {"guest", "failing"} /\ Fence(e)
    /\ lease' = [lease EXCEPT !.status = "failed"]
    /\ execs' = execs \ {e}
    /\ UNCHANGED <<guest, event_history, swept, service, admin>>
-----------------------------------------------------------------------------
(* The operator, and retention. *)

(* ResolveStep reads the history, resolves without a fence, and appends an *)
(* audit event above what it read; the three are separate transactions.    *)
ResolveStepReads(s) ==
    /\ Operator /\ admin = NULL /\ isPendingIntent(event_history[s])
    /\ maxStep + 1 \in Steps
    /\ admin' = [verb |-> "resolve", step |-> s, history |-> LoadEventHistory,
                 audit |-> maxStep + 1, generation |-> lease.generation]
    /\ UNCHANGED <<guest, lease, event_history, swept, execs, service>>

ResolveStepWrites ==
    /\ admin # NULL /\ admin.verb = "resolve"
    /\ IF StillPending(admin.step)
       THEN /\ event_history' = ResolveCallIntent(admin.step,
                    Done(event_history[admin.step].rec, Out("operator", 0)), admin.history)
            /\ admin' = [admin EXCEPT !.verb = "audit"]
       ELSE admin' = NULL /\ UNCHANGED event_history
    /\ UNCHANGED <<guest, lease, swept, execs, service>>

AppendAudit ==
    /\ admin # NULL /\ admin.verb = "audit"
    /\ event_history' = appendEventsInTx(event_history, admin.audit, <<AdminAction>>)
    /\ admin' = NULL
    /\ UNCHANGED <<guest, lease, swept, execs, service>>

(* ReReplay reads the history and whether it was swept, and refuses; the   *)
(* store's UPDATE is fenced by the generation alone, and appends its audit *)
(* event.                                                                  *)
ReReplayAllowed ==
    /\ \A s \in Stored : ~isPendingIntent(event_history[s])
    /\ ~(Stored = {} /\ swept)
ReReplayReads ==
    /\ Operator /\ admin = NULL /\ lease.status = "failed" /\ ReReplayAllowed
    /\ lease.generation < MaxGeneration
    /\ admin' = [verb |-> "rereplay", step |-> 0, history |-> {}, audit |-> 0,
                 generation |-> lease.generation]
    /\ UNCHANGED <<guest, lease, event_history, swept, execs, service>>

AdminReReplay ==
    /\ admin # NULL /\ admin.verb = "rereplay"
    /\ IF lease.status = "failed" /\ lease.generation = admin.generation /\ maxStep + 1 \in Steps
       THEN /\ lease' = [status |-> "ready", generation |-> lease.generation + 1]
            /\ event_history' = appendEventsInTx(event_history, maxStep + 1, <<AdminAction>>)
       ELSE UNCHANGED <<lease, event_history>>
    /\ admin' = NULL
    /\ UNCHANGED <<guest, swept, execs, service>>

(* AdminForceFail settles the run and appends its audit event at once. *)
AdminForceFail ==
    /\ Operator /\ (admin = NULL \/ OperatorsRace)
    /\ lease.status \in {"ready", "running"} /\ lease.generation < MaxGeneration
    /\ maxStep + 1 \in Steps
    /\ lease' = [status |-> "failed", generation |-> lease.generation + 1]
    /\ event_history' = appendEventsInTx(event_history, maxStep + 1, <<AdminAction>>)
    /\ UNCHANGED <<guest, swept, execs, service, admin>>

DeleteExpiredEvents ==
    /\ Retention /\ lease.status = "failed" /\ ~swept /\ Stored # {}
    /\ event_history' = [s \in Steps |-> NULL]
    /\ swept' = TRUE
    /\ UNCHANGED <<guest, lease, execs, service, admin>>

SessionStep(e) ==
    \/ LoadHistory(e) \/ freshCall(e) \/ WriteCallIntent(e) \/ callService(e) \/ CallReturns(e)
    \/ CompleteCallIntent(e) \/ replayCall(e) \/ resolveAmbiguity(e)
    \/ FinalizeSuspend(e) \/ FinalizeDone(e) \/ FailWorkflow(e)

OperatorStep ==
    \/ \E s \in Steps : ResolveStepReads(s)
    \/ ResolveStepWrites \/ AppendAudit \/ ReReplayReads \/ AdminReReplay
    \/ AdminForceFail \/ DeleteExpiredEvents

Next ==
    \/ Claim \/ LoseClaim
    \/ \E e \in execs : SessionStep(e) \/ WorkerDies(e)
    \/ \E q \in requests : Arrives(q) \/ Lost(q)
    \/ OperatorStep

Spec == Init /\ [][Next]_vars
-----------------------------------------------------------------------------
TypeOK ==
    /\ guest \in [ops: [Calls -> Ops], catches: BOOLEAN]
    /\ lease \in [status: {"ready", "running", "done", "failed"}, generation: 0..MaxGeneration]
    /\ event_history \in [Steps -> Row \cup {NULL}]
    /\ execs \subseteq Exec
    /\ requests \subseteq [key: Steps, gen: 1..MaxGeneration]
    /\ applied \in [Steps -> Nat] /\ refused \subseteq Steps /\ swept \in BOOLEAN
    /\ admin = NULL \/ admin \in AdminRequest

(* freshCallWithIntent and replayCall: whatever crashes, zombies, late     *)
(* requests, resolvers and operators do, a write-ahead call takes effect   *)
(* at most once per step, a recorded success means that it did, and a      *)
(* recorded "never arrived" means that it did not and will not.            *)
EffectMatchesRecord ==
    \A s \in Steps :
        /\ applied[s] <= 1
        /\ event_history[s] # NULL /\ event_history[s].rec.op = "intent" =>
             /\ event_history[s].rec.out.by \in {"call", "key", "lookup"} => applied[s] = 1
             /\ event_history[s].rec.out.by = "notsent" => applied[s] = 0

(* WriteCallIntent before callService: a request that left the process, or *)
(* took effect, has its row, until the history is deleted as a whole.      *)
DispatchIsRecorded ==
    lease.status # "done" /\ ~swept =>
        \A s \in Steps :
            (\E q \in requests : q.key = s) \/ applied[s] > 0 =>
                event_history[s] # NULL /\ event_history[s].rec.op = "intent"

(* A durable call takes effect as its record says, and is recorded before  *)
(* it is dispatched.                                                       *)
EffectsAreRecorded == TypeOK /\ EffectMatchesRecord /\ DispatchIsRecorded

(* CompleteCallIntent, ResolveCallIntent and ResolveStep race for a        *)
(* pending row: the first outcome recorded is kept as long as the row is.  *)
OutcomeKeptStep ==
       \A s \in Steps :
         event_history[s] # NULL /\ ~isPendingIntent(event_history[s]) =>
             event_history'[s] = NULL \/ event_history'[s].rec = event_history[s].rec

(* VerifyWorkflowEvents never reports a history that only this code wrote. *)
ChainVerifies == VerifyWorkflowEvents

(* advanceReplayStep pairs the guest's calls with the records by position: *)
(* the record the owner's guest consumes is the one its call made.         *)
ReplayFindsOwnCall ==
    \A e \in execs : Fence(e) /\ AtCall(e) /\ Replaying(e) => e.history[e.step + 1].call = e.call
=============================================================================
