---------------------------- MODULE AwaitReplay -----------------------------
(* Waiting, and what a replay is told about it.  A guest is re-executed     *)
(* from the top on every wake; each host call is answered from the history  *)
(* while there is one and from the live tables after it.  Some calls record *)
(* their answer at their own step, some at the next one, and some record    *)
(* nothing and derive it from time: this module has them side by side, so   *)
(* that what one call leaves in the history can be misread by another.      *)
(*                                                                         *)
(* Sources: engine/signaller.go, engine/promises.go, engine/children.go,    *)
(* engine/updater.go, DurableSleep of engine/durablecalls.go, recordEvent   *)
(* of engine/lifecycle.go, insertEventSQL of engine/flush.go, the stores'   *)
(* PollSignal, ConsumeSignal, DeliverSignal, GetPromise, ResolvePromise and *)
(* GetChildResult.                                                          *)
(*                                                                         *)
(* Abstractions.  One run, one signal name, one promise; the guest is a     *)
(* straight line of host calls, Program.  Every flush is direct and is      *)
(* refused only by the fence (EventFlush has the others), so the stored     *)
(* history has no holes.  A wake may come at any moment: WakeUp models when *)
(* it does.  The database's clock and the workers' are one clock.           *)
EXTENDS Integers, Sequences, FiniteSets, SequencesExt, FiniteSetsExt

CONSTANTS NULL, Program, Children,
          Timeout,        \* of every await with a deadline; also how long a sleep lasts
          MaxTime, MaxSegments, MaxSignals, MaxSettles, MaxUpdates,
          MaxChain,       \* runs of a child's continue-as-new chain
          ReadsFail,      \* the database may fail to answer for a child
          Crashes,        \* a worker may die in the middle of a segment
          Zombies         \* a worker may lose its claim and not know

(* What the constants may be. *)
ConstantsOK ==
    /\ Timeout \in Nat \ {0} /\ MaxTime \in Nat /\ MaxSegments \in Nat /\ MaxChain \in Nat \ {0}
    /\ {MaxSignals, MaxSettles, MaxUpdates} \subseteq Nat
    /\ Children \subseteq Nat /\ IsFiniteSet(Children)
    /\ {ReadsFail, Crashes, Zombies} \subseteq BOOLEAN

VARIABLES
    now,
    lease,           \* workflow_leases: status and generation of the run
    event_history,   \* the stored rows, in step order
    signals,         \* workflow_signals: deliveries not yet consumed, oldest first
    sent,            \* how many signals, settlements and updates were made so far
    promise,         \* workflow_promises: the one row
    updates,         \* workflow_update_requests: ids still pending
    children,        \* what the children's rows hold
    execs,           \* execution sessions
    effects,         \* how often the call at a position of Program was executed
    told             \* the answer a position got from the session that recorded past it

vars == <<now, lease, event_history, signals, sent, promise, updates, children,
          execs, effects, told>>
tables == <<signals, sent, promise, updates, children>>

Positions == 1..Len(Program)
Answer(kind, val) == [kind |-> kind, val |-> val]
TimedOut == Answer("timed out", <<>>)
Row(type, val) == [type |-> type, val |-> val, ts |-> 0]

(* A child is the end of its chain: run is how many runs it has had so far, *)
(* at the completion time of each, status that of the last.                 *)
NewChild == [run |-> 1, status |-> "running", at |-> [n \in 1..MaxChain |-> NULL]]

Init ==
    /\ now = 1
    /\ lease = [status |-> "ready", generation |-> 0]
    /\ event_history = <<>> /\ signals = <<>> /\ updates = <<>>
    /\ sent = [signals |-> 0, settles |-> 0, updates |-> 0]
    /\ promise = Answer("pending", <<>>)
    /\ children = [c \in Children |-> NewChild]
    /\ execs = {}
    /\ effects = [p \in Positions |-> 0]
    /\ told = [p \in Positions |-> NULL]
-----------------------------------------------------------------------------
(* The session.                                                             *)

Session(gen) ==
    [gen |-> gen, hist |-> event_history, step |-> 0, replay |-> event_history # <<>>,
     nowMs |-> 1, pc |-> 1, at |-> "call", out |-> NULL, handled |-> <<>>,
     saw |-> [c \in Children |-> NULL], got |-> [c \in Children |-> NULL],
     answers |-> [p \in Positions |-> NULL]]

Owns(e) == lease.status = "running" /\ lease.generation = e.gen
Moves(e, f) == execs' = (execs \ {e}) \cup {f}
At(e, op) == e.at = "call" /\ e.pc \in Positions /\ Program[e.pc] = op

NextRec(e) == IF e.replay /\ e.step < Len(e.hist) THEN e.hist[e.step + 1] ELSE NULL
advanceReplayStep(e) == [e EXCEPT !.step = @ + 1, !.nowMs = NextRec(e).ts]
exitReplay(e) == [e EXCEPT !.replay = FALSE]

(* A host call returns, and the guest goes on to its next one.              *)
Returns(e, answer) ==
    [e EXCEPT !.answers[e.pc] = answer, !.pc = @ + 1, !.at = "call", !.out = NULL,
              !.handled = <<>>, !.saw = [c \in Children |-> NULL], !.got = [c \in Children |-> NULL]]
Diverged == Answer("replay divergence", <<>>)
Recording(e, rec) == [e EXCEPT !.at = "record", !.out = rec]
Suspends(e) == [e EXCEPT !.at = "suspend"]
Due(ts) == now >= ts + Timeout

(* insertEventSQL: a new step is appended under the fence; a step that is   *)
(* there is kept, unless it is one of the three awaits that complete in     *)
(* place and its outcome is still empty.                                    *)
CompletesInPlace == {"await_child", "await_promise", "await_all_children"}
Open(row) == row.type \in CompletesInPlace /\ row.val = <<>>
insertEvent(e, rec) ==
    IF ~Owns(e) \/ e.replay THEN event_history
    ELSE IF e.step >= Len(event_history) THEN Append(event_history, rec)
    ELSE IF Open(event_history[e.step + 1])
         THEN [event_history EXCEPT ![e.step + 1] = rec]
         ELSE event_history

(* What the guest is told by a record, or NULL when the record only says    *)
(* that the run waits.                                                      *)
AnswerOf(rec) ==
    CASE rec.type = "call" -> Answer("result", rec.val)
      [] rec.type = "signal_received" -> Answer("signal", rec.val)
      [] rec.type \in {"promise_resolved", "promise_rejected"} -> Answer(rec.type, rec.val)
      [] rec.type \in {"await_child", "await_any_child", "await_all_children"} /\ rec.val # <<>>
           -> Answer("child", rec.val)
      [] OTHER -> NULL

(* recordEvent: stamp, append in memory, flush.  A failed flush is logged   *)
(* and the session goes on as if it had not failed.                         *)
AfterRecord(e, rec) ==
    CASE rec.type = "signal_received" -> [e EXCEPT !.at = "consume"]
      [] rec.type = "update_received" -> [e EXCEPT !.at = "handler"]
      [] rec.type = "update_completed" -> [e EXCEPT !.at = "settle"]
      [] AnswerOf(rec) # NULL -> Returns(e, AnswerOf(rec))
      [] OTHER -> Suspends(e)

Committed(e, rec) ==
    [p \in Positions |->
        IF told[p] # NULL \/ event_history' = event_history THEN told[p]
        ELSE IF p < e.pc THEN e.answers[p]
        ELSE IF p = e.pc THEN AnswerOf(rec) ELSE NULL]

recordEvent(e) ==
    /\ e.at = "record"
    /\ LET rec == [e.out EXCEPT !.ts = Max({now, e.nowMs})]
           f == [e EXCEPT !.hist = Append(@, rec), !.step = @ + 1, !.nowMs = rec.ts, !.out = rec]
       IN  /\ event_history' = insertEvent(e, rec)
           /\ told' = Committed(e, rec)
           /\ Moves(e, AfterRecord(f, rec))
    /\ UNCHANGED <<now, lease, tables, effects>>
-----------------------------------------------------------------------------
(* DurableCall, without its intent: replayed by position, or executed.      *)
DurableCall(e) ==
    /\ At(e, "call")
    /\ LET r == NextRec(e)
           n == effects[e.pc] + 1
       IN  IF r # NULL
           THEN /\ Moves(e, IF r.type = "call" THEN Returns(advanceReplayStep(e), AnswerOf(r))
                            ELSE Returns(e, Diverged))
                /\ UNCHANGED effects
           ELSE /\ effects' = [effects EXCEPT ![e.pc] = n]
                /\ Moves(e, Recording(exitReplay(e), Row("call", <<n>>)))
    /\ UNCHANGED <<now, lease, event_history, tables, told>>

(* DurableSleep records nothing: a deadline behind real time was slept.     *)
DurableSleep(e) ==
    /\ At(e, "sleep")
    /\ LET f == [e EXCEPT !.nowMs = @ + Timeout]
       IN  Moves(e, IF f.nowMs <= now THEN Returns(f, Answer("slept", <<>>)) ELSE Suspends(f))
    /\ UNCHANGED <<now, lease, event_history, tables, effects, told>>

(* The fresh half of DurableAwaitSignals, f having left replay: the oldest  *)
(* delivery, else the deadline, else wait.                                  *)
PollSignal == Head(signals)
freshAwaitSignals(f, ms) ==
    IF signals # <<>> THEN Recording(f, Row("signal_received", <<PollSignal.id>>))
    ELSE IF ms = 0 THEN Returns(f, TimedOut)
    ELSE Recording(f, Row("await_signals", <<>>))

(* Its replay half.  An await followed by a delivery received it; followed  *)
(* by anything else it timed out; at the end of the history it is still     *)
(* open, and is resolved from the store and the recorded deadline.          *)
resumeAlwaysPolls(f, ts) ==
    IF NextRec(f) # NULL /\ NextRec(f).type = "signal_received"
    THEN Returns(advanceReplayStep(f), AnswerOf(NextRec(f)))
    ELSE IF signals # <<>> THEN Recording(exitReplay(f), Row("signal_received", <<PollSignal.id>>))
    ELSE IF Due(ts) THEN Returns(f, TimedOut)
    ELSE Suspends(exitReplay(f))
resumeAwaitSignals(f, ts) ==
    IF NextRec(f) # NULL
    THEN IF NextRec(f).type = "signal_received"
         THEN Returns(advanceReplayStep(f), AnswerOf(NextRec(f)))
         ELSE Returns(f, TimedOut)
    ELSE IF signals # <<>> THEN Recording(exitReplay(f), Row("signal_received", <<PollSignal.id>>))
    ELSE IF Due(ts) THEN Returns(exitReplay(f), TimedOut)
    ELSE Suspends(exitReplay(f))

DurableAwaitSignals(e) ==
    /\ \E ms \in {0, Timeout} :
          /\ At(e, IF ms = 0 THEN "signals_0ms" ELSE "signals")
          /\ LET r == NextRec(e)
             IN  Moves(e, IF r # NULL /\ r.type = "signal_received"
                          THEN Returns(advanceReplayStep(e), AnswerOf(r))
                          ELSE IF r # NULL /\ r.type = "await_signals"
                          THEN resumeAwaitSignals(advanceReplayStep(e), r.ts)
                          ELSE freshAwaitSignals(exitReplay(e), ms))
    /\ UNCHANGED <<now, lease, event_history, tables, effects, told>>

(* consumeDelivered: deletes the delivery by id, whoever still holds the    *)
(* claim; a row that is gone already is no error.                           *)
ConsumeSignal(e) ==
    /\ e.at = "consume"
    /\ signals' = SelectSeq(signals, LAMBDA d : d.id # e.out.val[1])
    /\ Moves(e, Returns(e, AnswerOf(e.out)))
    /\ UNCHANGED <<now, lease, event_history, sent, promise, updates, children, effects, told>>

(* PollSignal the host call: a peek, visible when it was delivered by the   *)
(* session's clock.                                                         *)
signalIsVisibleNow(e, d) == d.at <= e.nowMs
PollSignalHostCall(e) ==
    /\ At(e, "poll_signal")
    /\ Moves(e, Returns(e, IF signals # <<>> /\ signalIsVisibleNow(e, PollSignal)
                           THEN Answer("signal", <<PollSignal.id>>) ELSE Answer("none", <<>>)))
    /\ UNCHANGED <<now, lease, event_history, tables, effects, told>>

(* AwaitPromise.  A replayed await_promise leaves replay, whatever follows  *)
(* it, and asks the table again; a row of another type leaves it in replay. *)
AwaitPromise(e) ==
    /\ At(e, "promise")
    /\ LET r == NextRec(e)
           resuming == r # NULL /\ r.type = "await_promise"
           f == IF resuming THEN exitReplay(advanceReplayStep(e))
                ELSE IF r = NULL THEN exitReplay(e) ELSE e
       IN  Moves(e, IF r # NULL /\ r.type \in {"promise_resolved", "promise_rejected"}
                    THEN Returns(advanceReplayStep(e), AnswerOf(r))
                    ELSE IF promise.kind # "pending" THEN Recording(f, Row(promise.kind, promise.val))
                    ELSE IF resuming /\ Due(r.ts) THEN Returns(f, TimedOut)
                    ELSE IF resuming THEN Suspends(f)
                    ELSE Recording(f, Row("await_promise", <<>>)))
    /\ UNCHANGED <<now, lease, event_history, tables, effects, told>>
-----------------------------------------------------------------------------
(* Children.  GetChildResult walks the chain to its end, and then reads the *)
(* row it ended at: two transactions, so the child may move in between.     *)

Awaited(e) == IF Program[e.pc] \in {"child", "poll_child"} THEN {Min(Children)} ELSE Children
Settled(e, c) == e.got[c] \notin {NULL, "running"}
FirstSettled(e) == Min({c \in Awaited(e) : Settled(e, c)})

(* AwaitAnyChild asks in the order of the ids and stops at an answer;       *)
(* AwaitAllChildren asks all at once.                                       *)
Asks(e, c) ==
    /\ e.at = "ask" /\ c \in Awaited(e) /\ e.got[c] = NULL
    /\ Program[e.pc] = "any" => \A d \in Awaited(e) : d < c => e.got[d] = "running"

terminalRunID(e, c) ==
    /\ Asks(e, c) /\ e.saw[c] = NULL
    /\ Moves(e, [e EXCEPT !.saw[c] = children[c].run])
    /\ UNCHANGED <<now, lease, event_history, tables, effects, told>>

(* A run that continued as new is done, with an empty result.  To the three *)
(* awaits an error of the read is how the child ended.                      *)
childOutcome(c, run) == IF run < children[c].run THEN "empty" ELSE children[c].status
GetChildResult(e, c) ==
    /\ Asks(e, c) /\ e.saw[c] # NULL
    /\ \E got \in {childOutcome(c, e.saw[c])} \cup (IF ReadsFail THEN {"unread"} ELSE {}) :
          Moves(e, [e EXCEPT !.got[c] = got])
    /\ UNCHANGED <<now, lease, event_history, tables, effects, told>>

Asked(e) ==
    /\ e.at = "ask"
    /\ \/ \A c \in Awaited(e) : e.got[c] # NULL
       \/ Program[e.pc] = "any" /\ \E c \in Awaited(e) : Settled(e, c)

(* The replay halves of AwaitChild and AwaitAllChildren answer from a row   *)
(* with an outcome, and leave replay at one without, to complete it.        *)
AwaitChildReplay(e, type) ==
    LET r == NextRec(e)
    IN  IF r = NULL THEN [exitReplay(e) EXCEPT !.at = "ask"]
        ELSE IF r.type # type
        THEN Returns(IF type = "await_all_children" THEN advanceReplayStep(e) ELSE e, Diverged)
        ELSE IF r.val = <<>> THEN [exitReplay(e) EXCEPT !.at = "ask"]
        ELSE Returns(advanceReplayStep(e), AnswerOf(r))

(* AwaitAnyChild answers from the row after its wait record, and never      *)
(* records that wait twice.                                                 *)
AwaitAnyChildReplay(e) ==
    LET r == NextRec(e)
        f == advanceReplayStep(e)
        Resumed(g) == [exitReplay(g) EXCEPT !.at = "ask", !.out = r]
    IN  IF r = NULL THEN [exitReplay(e) EXCEPT !.at = "ask"]
        ELSE IF r.type # "await_any_child" THEN Returns(e, Diverged)
        ELSE IF r.val # <<>> THEN Returns(f, AnswerOf(r))
        ELSE IF NextRec(f) # NULL /\ NextRec(f).type = "await_any_child"
        THEN IF NextRec(f).val # <<>> THEN Returns(advanceReplayStep(f), AnswerOf(NextRec(f)))
             ELSE Resumed(advanceReplayStep(f))
        ELSE Resumed(f)

AwaitChildren(e) ==
    /\ \/ At(e, "child") /\ Moves(e, AwaitChildReplay(e, "await_child"))
       \/ At(e, "all") /\ Moves(e, AwaitChildReplay(e, "await_all_children"))
       \/ At(e, "any") /\ Moves(e, AwaitAnyChildReplay(e))
       \/ At(e, "poll_child") /\ Moves(e, [e EXCEPT !.at = "ask"])
    /\ UNCHANGED <<now, lease, event_history, tables, effects, told>>

freshAwaitAnyChild(e) ==
    IF \E c \in Awaited(e) : Settled(e, c)
    THEN Recording(e, Row("await_any_child", <<FirstSettled(e), e.got[FirstSettled(e)]>>))
    ELSE IF e.out # NULL THEN Suspends(e) ELSE Recording(e, Row("await_any_child", <<>>))

freshAwaitChild(e, type) ==
    Recording(e, Row(type, IF \A c \in Awaited(e) : Settled(e, c)
                           THEN SetToSortSeq({<<c, e.got[c]>> : c \in Awaited(e)},
                                             LAMBDA x, y : x[1] < y[1])
                           ELSE <<>>))

(* PollChild: GetChildCompletedAtMs reads the run the parent started, not   *)
(* the end of its chain.                                                    *)
GetChildCompletedAtMs(c) == children[c].at[1]
PollChild(e) ==
    LET c == Min(Awaited(e)) IN
    Returns(e, IF e.got[c] = "unread" THEN Answer("host error", <<>>)
               ELSE IF e.got[c] = "running" \/ GetChildCompletedAtMs(c) > e.nowMs
               THEN Answer("child", <<"running">>) ELSE Answer("child", <<e.got[c]>>))

AwaitedChildren(e) ==
    /\ Asked(e)
    /\ Moves(e, CASE Program[e.pc] = "child" -> freshAwaitChild(e, "await_child")
                  [] Program[e.pc] = "all" -> freshAwaitChild(e, "await_all_children")
                  [] Program[e.pc] = "any" -> freshAwaitAnyChild(e)
                  [] OTHER -> PollChild(e))
    /\ UNCHANGED <<now, lease, event_history, tables, effects, told>>
-----------------------------------------------------------------------------
(* DispatchUpdates: poll, run the handler, complete, until a poll finds     *)
(* nothing.  While the history goes on with something else, a poll finds    *)
(* nothing and stays in replay.                                             *)
DurablePollUpdate(e) ==
    /\ At(e, "updates")
    /\ LET r == NextRec(e)
       IN  Moves(e, IF r # NULL
                    THEN IF r.type = "update_received"
                         THEN [advanceReplayStep(e) EXCEPT !.at = "handler", !.out = r]
                         ELSE Returns(e, Answer("updates", e.handled))
                    ELSE IF updates = <<>> THEN Returns(exitReplay(e), Answer("updates", e.handled))
                    ELSE Recording(exitReplay(e), Row("update_received", <<Head(updates)>>)))
    /\ UNCHANGED <<now, lease, event_history, tables, effects, told>>

Handled(e) == [e EXCEPT !.at = "call", !.handled = Append(@, e.out.val[1])]

DurableCompleteUpdate(e) ==
    /\ e.at = "handler"
    /\ LET r == NextRec(e)
       IN  Moves(e, IF r # NULL /\ r.type = "update_completed" THEN Handled(advanceReplayStep(e))
                    ELSE Recording(exitReplay(e), Row("update_completed", e.out.val)))
    /\ UNCHANGED <<now, lease, event_history, tables, effects, told>>

CompleteUpdateRequest(e) ==
    /\ e.at = "settle"
    /\ updates' = SelectSeq(updates, LAMBDA u : u # e.out.val[1])
    /\ Moves(e, Handled(e))
    /\ UNCHANGED <<now, lease, event_history, signals, sent, promise, children, effects, told>>
-----------------------------------------------------------------------------
(* Segments.                                                                *)

Claim ==
    /\ lease.status = "ready" /\ lease.generation < MaxSegments
    /\ lease' = [status |-> "running", generation |-> lease.generation + 1]
    /\ execs' = execs \cup {Session(lease.generation + 1)}
    /\ UNCHANGED <<now, event_history, tables, effects, told>>

(* FinalizeWorkflowSegment: fenced.  Its events were flushed one by one.    *)
FinalizeWorkflowSegment(e) ==
    /\ \/ e.at = "suspend" /\ lease' = IF Owns(e) THEN [lease EXCEPT !.status = "ready"] ELSE lease
       \/ /\ e.at = "call" /\ e.pc > Len(Program)
          /\ lease' = IF Owns(e) THEN [lease EXCEPT !.status = "done"] ELSE lease
    /\ execs' = execs \ {e}
    /\ UNCHANGED <<now, event_history, tables, effects, told>>

WorkerDies(e) ==
    /\ Crashes /\ execs' = execs \ {e}
    /\ UNCHANGED <<now, lease, event_history, tables, effects, told>>

ReapStaleInstances ==
    /\ lease.status = "running"
    /\ Zombies \/ ~\E e \in execs : Owns(e)
    /\ lease' = [lease EXCEPT !.status = "ready"]
    /\ UNCHANGED <<now, event_history, tables, execs, effects, told>>
-----------------------------------------------------------------------------
(* Everyone else.                                                           *)

Tick == /\ now < MaxTime /\ now' = now + 1
        /\ UNCHANGED <<lease, event_history, tables, execs, effects, told>>

DeliverSignal ==
    /\ sent.signals < MaxSignals
    /\ sent' = [sent EXCEPT !.signals = @ + 1]
    /\ signals' = Append(signals, [id |-> sent.signals + 1, at |-> now])
    /\ UNCHANGED <<now, lease, event_history, promise, updates, children, execs, effects, told>>

(* ResolvePromise and RejectPromise set the row whatever its status is.     *)
SettlePromise ==
    /\ sent.settles < MaxSettles
    /\ sent' = [sent EXCEPT !.settles = @ + 1]
    /\ \E kind \in {"promise_resolved", "promise_rejected"} :
          promise' = Answer(kind, <<sent.settles + 1>>)
    /\ UNCHANGED <<now, lease, event_history, signals, updates, children, execs, effects, told>>

CreateUpdateRequest ==
    /\ sent.updates < MaxUpdates
    /\ sent' = [sent EXCEPT !.updates = @ + 1]
    /\ updates' = Append(updates, sent.updates + 1)
    /\ UNCHANGED <<now, lease, event_history, signals, promise, children, execs, effects, told>>

(* A child finishes, or completes this run of its chain and starts the next.*)
ChildFinishes(c) ==
    /\ children[c].status = "running"
    /\ \E status \in {"done", "failed"} :
          children' = [children EXCEPT ![c].status = status, ![c].at[children[c].run] = now]
    /\ UNCHANGED <<now, lease, event_history, signals, sent, promise, updates, execs, effects, told>>

ChildContinuesAsNew(c) ==
    /\ children[c].status = "running" /\ children[c].run < MaxChain
    /\ children' = [children EXCEPT ![c] = [@ EXCEPT !.run = @ + 1, !.at[children[c].run] = now]]
    /\ UNCHANGED <<now, lease, event_history, signals, sent, promise, updates, execs, effects, told>>

HostCall(e) ==
    \/ DurableCall(e) \/ DurableSleep(e) \/ DurableAwaitSignals(e) \/ ConsumeSignal(e)
    \/ PollSignalHostCall(e) \/ AwaitPromise(e) \/ AwaitChildren(e) \/ AwaitedChildren(e)
    \/ \E c \in Children : terminalRunID(e, c) \/ GetChildResult(e, c)
    \/ DurablePollUpdate(e) \/ DurableCompleteUpdate(e) \/ CompleteUpdateRequest(e)
    \/ recordEvent(e)

Next ==
    \/ Claim \/ ReapStaleInstances
    \/ \E e \in execs : HostCall(e) \/ FinalizeWorkflowSegment(e) \/ WorkerDies(e)
    \/ Tick \/ DeliverSignal \/ SettlePromise \/ CreateUpdateRequest
    \/ \E c \in Children : ChildFinishes(c) \/ ChildContinuesAsNew(c)

Spec == Init /\ [][Next]_vars
-----------------------------------------------------------------------------
TypeOK ==
    /\ now \in 1..MaxTime
    /\ lease \in [status: {"ready", "running", "done"}, generation: 0..MaxSegments]
    /\ \A i \in DOMAIN event_history : event_history[i].ts \in 1..(MaxTime + Len(Program) * Timeout)
    /\ \A i \in DOMAIN signals : signals[i].id \in 1..sent.signals /\ signals[i].at \in 1..now
    /\ sent.settles <= MaxSettles /\ Range(updates) \subseteq 1..sent.updates
    /\ promise.kind \in {"pending", "promise_resolved", "promise_rejected"}
    /\ \A c \in Children : children[c].run \in 1..MaxChain
    /\ \A e \in execs : e.gen \in 1..lease.generation /\ e.pc \in 1..(Len(Program) + 1)
    /\ effects \in [Positions -> Nat]

(* Replay: once an event is stored past a host call, every later execution  *)
(* of the run is told there what the one that stored it was told.           *)
AnswersAgree ==
    \A e \in execs : Owns(e) =>
        \A p \in Positions :
            told[p] # NULL /\ e.answers[p] # NULL => e.answers[p] = told[p]

(* consumeDelivered after recordEvent: a delivery leaves the queue only     *)
(* when the event that says it was received is stored.                      *)
SignalNotLost ==
    \A id \in 1..sent.signals :
        \/ \E i \in DOMAIN signals : signals[i].id = id
        \/ \E i \in DOMAIN event_history : event_history[i] = [event_history[i] EXCEPT
                                              !.type = "signal_received", !.val = <<id>>]

(* PollSignal takes the oldest delivery: the run receives them in order, a  *)
(* repeated one directly after itself, whatever died or was reaped between. *)
SignalsInOrder ==
    \A i, j \in DOMAIN event_history :
        i < j /\ event_history[i].type = "signal_received" /\ event_history[j].type = "signal_received"
            => event_history[i].val[1] <= event_history[j].val[1]

(* A timeout is measured from the await that is in the history: a session   *)
(* reports as many as it has awaits whose recorded deadline has passed.     *)
TimeoutsAreDue ==
    \A e \in execs :
        Cardinality({p \in Positions : Program[p] \in {"signals", "promise"} /\ e.answers[p] = TimedOut})
          <= Cardinality({i \in DOMAIN e.hist :
                             /\ e.hist[i].type \in {"await_signals", "await_promise"}
                             /\ now >= e.hist[i].ts + Timeout})

=============================================================================
