----------------------------- MODULE EventFlush -----------------------------
(***************************************************************************)
(* How the events an execution records reach event_history.  recordEvent   *)
(* appends to the session's memory and persists at once: either with one   *)
(* fenced INSERT (direct), or through the worker's AdaptiveFlusher, which  *)
(* collects the events of all its runs, checks their fences in one         *)
(* transaction and inserts them in a second, unfenced statement (batch).   *)
(* A failed flush does not stop the session; the end of the segment writes *)
(* every event again, in the transaction that gives the claim up.          *)
(*                                                                         *)
(* The lease is reduced to the fence.  What a step records is represented  *)
(* by the generation of the execution that ran it: two executions of one   *)
(* step may see different answers from the outside world.                  *)
(***************************************************************************)
EXTENDS Integers, Sequences, FiniteSets

CONSTANTS
    Runs,           \* workflow run ids
    Workers,        \* worker daemon ids
    NULL,           \* SQL NULL
    MaxGeneration,  \* bound: no claim or loss once generation is here
    MaxSteps,       \* bound: a run records at most this many events
    MaxBatch,       \* AdaptiveFlusher.maxBatch
    BatchEnabled    \* a flusher registry is configured

(* What the constants may be. *)
ConstantsOK == /\ NULL \notin Workers /\ NULL \notin Nat
               /\ MaxGeneration \in Nat /\ MaxSteps \in Nat
               /\ MaxBatch \in Nat \ {0} /\ BatchEnabled \in BOOLEAN
ASSUME FlushAssumption == ConstantsOK

VARIABLES
    lease,          \* assigned_to and generation of each run; settled or not
    event_history,  \* per run and step, the generation that wrote the row
    execs,          \* executions, each with its in-memory history
    queue,          \* per worker, AdaptiveFlusher.events
    armed,          \* per worker, AdaptiveFlusher.timer is counting down
    fired,          \* per worker, onTimer was started and waits for the lock
    flights         \* flushAndNotify goroutines

vars == <<lease, event_history, execs, queue, armed, fired, flights>>

Steps == 0 .. MaxSteps - 1
Lease == [assigned_to: Workers \cup {NULL}, generation: Nat, settled: BOOLEAN]

\* history[i] is the record replay will use for step i - 1; loaded is how many
\* came from the database; acked are the steps reported eventPersisted
Exec == [worker: Workers, run: Runs, gen: Nat,
         at: {"claimed", "running", "waiting", "failing"},
         history: Seq([step: Steps, gen: Nat]), loaded: Nat, acked: SUBSET Steps]

Entry == [run: Runs, gen: Nat, step: Steps]
Flight == [worker: Workers, entries: SUBSET Entry, checked: BOOLEAN]

HoldsByWorker(w, r, g) == lease[r].assigned_to = w
Holds(w, r, g) == lease[r].assigned_to = w /\ lease[r].generation = g
Fence(e) == Holds(e.worker, e.run, e.gen)
-----------------------------------------------------------------------------
(* The table. *)

\* INSERT ... ON CONFLICT: a row that is already there is left as it is
Inserted(table, entries) ==
    [r \in Runs |-> [s \in Steps |->
        LET new == {x \in entries : x.run = r /\ x.step = s}
        IN IF table[r][s] = NULL /\ new # {} THEN (CHOOSE x \in new : TRUE).gen
           ELSE table[r][s]]]

Cleared(table, r) == [table EXCEPT ![r] = [s \in Steps |-> NULL]]

Rows(r) == {[step |-> s, gen |-> event_history[r][s]] : s \in {t \in Steps : event_history[r][t] # NULL}}

\* SELECT ... ORDER BY step: the answer lists every row once, in the order of steps
LoadEventHistory(r) ==
    {h \in UNION {[1..n -> Rows(r)] : n \in 0..MaxSteps} :
        /\ Rows(r) = {h[i] : i \in DOMAIN h}
        /\ \A i, j \in DOMAIN h : i < j => h[i].step < h[j].step}

AnyHistoryIsDense(h) == TRUE
validateReplayStepDensity(h) == \A i \in 1..Len(h) : h[i].step = i - 1

EntriesOf(e) == {[run |-> e.run, gen |-> e.history[i].gen, step |-> e.history[i].step] :
                    i \in (e.loaded + 1)..Len(e.history)}
-----------------------------------------------------------------------------
Init == /\ lease = [r \in Runs |->
                      [assigned_to |-> NULL, generation |-> 0, settled |-> FALSE]]
        /\ event_history = [r \in Runs |-> [s \in Steps |-> NULL]]
        /\ execs = {}
        /\ queue = [w \in Workers |-> {}]
        /\ armed = [w \in Workers |-> FALSE]
        /\ fired = [w \in Workers |-> FALSE]
        /\ flights = {}

flusher == <<queue, armed, fired, flights>>

Claim(w, r) ==
    /\ lease[r].assigned_to = NULL /\ ~lease[r].settled
    /\ lease[r].generation < MaxGeneration
    /\ lease' = [lease EXCEPT ![r].assigned_to = w, ![r].generation = @ + 1]
    /\ execs' = execs \cup {[worker |-> w, run |-> r, gen |-> lease[r].generation + 1,
                             at |-> "claimed", history |-> <<>>, loaded |-> 0, acked |-> {}]}
    /\ UNCHANGED <<event_history, flusher>>

(* executeWorkflow reads the history, and refuses to replay one with a gap *)
LoadHistory(e) ==
    /\ e.at = "claimed"
    /\ \E h \in LoadEventHistory(e.run) :
       execs' = (execs \ {e}) \cup
           {IF validateReplayStepDensity(h)
            THEN [e EXCEPT !.at = "running", !.history = h, !.loaded = Len(h)]
            ELSE [e EXCEPT !.at = "failing"]}
    /\ UNCHANGED <<lease, event_history, flusher>>

(* A claim lost to the reaper or to a mark (the run is requeued), or to a  *)
(* one-phase terminate (it is settled).  The execution is not told.        *)
LoseClaim(r, settled) ==
    /\ lease[r].assigned_to # NULL
    /\ lease[r].generation < MaxGeneration
    /\ lease' = [lease EXCEPT ![r] = [assigned_to |-> NULL, generation |-> @.generation + 1,
                                      settled |-> settled]]
    /\ UNCHANGED <<event_history, execs, flusher>>

ExecEnds(e) == /\ e.at # "waiting"
               /\ execs' = execs \ {e}
               /\ UNCHANGED <<lease, event_history, flusher>>

WorkerDies(w) ==
    /\ \E e \in execs : e.worker = w
    /\ execs' = {e \in execs : e.worker # w}
    /\ queue' = [queue EXCEPT ![w] = {}]
    /\ armed' = [armed EXCEPT ![w] = FALSE]
    /\ fired' = [fired EXCEPT ![w] = FALSE]
    /\ flights' = {f \in flights : f.worker # w}
    /\ UNCHANGED <<lease, event_history>>
-----------------------------------------------------------------------------
(* recordEvent.  The record is in memory before the write is tried and     *)
(* stays there whatever becomes of the write.                              *)

Recorded(e, ok) ==
    [e EXCEPT !.history = Append(@, [step |-> Len(@), gen |-> e.gen]),
              !.acked = IF ok THEN @ \cup {Len(e.history)} ELSE @]

NewEntry(e) == [run |-> e.run, gen |-> e.gen, step |-> Len(e.history)]

(* flushEvent: insertEventSQL carries the fence.  It is retried until the  *)
(* window closes; the last attempt may have been applied and its answer    *)
(* lost, or found its own row and then lost the lease before Heartbeat.    *)
ReachesTableUnfenced(e) == TRUE
ReachesTable(e) == Fence(e)

flushEvent(e) ==
    /\ e.at = "running" /\ Len(e.history) < MaxSteps
    /\ \E wrote, ok \in BOOLEAN :
        /\ wrote => ReachesTable(e)
        /\ ok => wrote
        /\ event_history' = IF wrote THEN Inserted(event_history, {NewEntry(e)})
                            ELSE event_history
        /\ execs' = (execs \ {e}) \cup {Recorded(e, ok)}
    /\ UNCHANGED <<lease, flusher>>

(* AdaptiveFlusher.Flush in batch mode.  The session then waits for the    *)
(* answer, so each execution has at most one entry under way.  updateRate  *)
(* may enter or leave batch mode at any call.                              *)
Arms(w) == armed[w] \/ queue[w] = {}

TakeBatch(w, entries) ==
    /\ queue' = [queue EXCEPT ![w] = {}]
    /\ flights' = flights \cup {[worker |-> w, entries |-> entries, checked |-> FALSE]}

Flush(e) ==
    /\ BatchEnabled
    /\ e.at = "running" /\ Len(e.history) < MaxSteps
    /\ execs' = (execs \ {e}) \cup {[Recorded(e, FALSE) EXCEPT !.at = "waiting"]}
    /\ LET w == e.worker
           events == queue[w] \cup {NewEntry(e)}
       IN IF Cardinality(events) >= MaxBatch
          THEN /\ TakeBatch(w, events)
               /\ armed' = [armed EXCEPT ![w] = FALSE]
          ELSE /\ queue' = [queue EXCEPT ![w] = events]
               /\ armed' = [armed EXCEPT ![w] = Arms(w)]
               /\ UNCHANGED flights
    /\ UNCHANGED <<lease, event_history, fired>>

(* maxWait elapses: the callback starts, and may find that a full batch    *)
(* has left in the meantime, or take the entries of the next one early.    *)
TimerFires(w) == /\ armed[w]
                 /\ armed' = [armed EXCEPT ![w] = FALSE]
                 /\ fired' = [fired EXCEPT ![w] = TRUE]
                 /\ UNCHANGED <<lease, event_history, execs, queue, flights>>

onTimer(w) ==
    /\ fired[w]
    /\ fired' = [fired EXCEPT ![w] = FALSE]
    /\ IF queue[w] = {} THEN UNCHANGED <<queue, flights>> ELSE TakeBatch(w, queue[w])
    /\ UNCHANGED <<lease, event_history, execs, armed>>

(* TenantFlusherRegistry.Shutdown, or Run at the end of its context *)
Shutdown(w) ==
    /\ queue[w] # {}
    /\ TakeBatch(w, queue[w])
    /\ armed' = [armed EXCEPT ![w] = FALSE]
    /\ UNCHANGED <<lease, event_history, execs, fired>>
-----------------------------------------------------------------------------
(* flushAndNotify, for one batch. *)

Answered(w, entries, ok) ==
    {IF e.worker = w /\ e.at = "waiting"
          /\ \E x \in entries : x.run = e.run /\ x.gen = e.gen
     THEN [e EXCEPT !.at = "running",
                    !.acked = IF ok THEN @ \cup {Len(e.history) - 1} ELSE @]
     ELSE e : e \in execs}

\* fencedOK holds run ids, so one entry with the fence lets through every
\* entry of its run
fencedOK(f) == {x.run : x \in {y \in f.entries : Holds(f.worker, y.run, y.gen)}}
Held(f) == {x \in f.entries : x.run \in fencedOK(f)}

(* The fence check commits, releasing the rows; a database error fails the *)
(* whole batch.                                                            *)
partitionFencedBatch(f) ==
    /\ ~f.checked
    /\ \E held \in {Held(f), {}} :
        /\ execs' = Answered(f.worker, f.entries \ held, FALSE)
        /\ flights' = (flights \ {f}) \cup
              (IF held = {} THEN {} ELSE {[f EXCEPT !.entries = held, !.checked = TRUE]})
    /\ UNCHANGED <<lease, event_history, queue, armed, fired>>

\* two new rows for one step in one statement: PostgreSQL refuses the whole
\* INSERT ("cannot affect row a second time")
Clash(entries) ==
    \E x, y \in entries : /\ x # y /\ x.run = y.run /\ x.step = y.step
                          /\ event_history[x.run][x.step] = NULL

AnswersNil(wrote) == {TRUE}
Answers(wrote) == IF wrote THEN BOOLEAN ELSE {FALSE}

InsertBatch(f) ==
    /\ f.checked
    /\ \E wrote \in BOOLEAN : \E ok \in Answers(wrote) :
        /\ wrote => ~Clash(f.entries)
        /\ event_history' = IF wrote THEN Inserted(event_history, f.entries)
                            ELSE event_history
        /\ execs' = Answered(f.worker, f.entries, ok)
    /\ flights' = flights \ {f}
    /\ UNCHANGED <<lease, queue, armed, fired>>
-----------------------------------------------------------------------------
(* The end of a segment.  Without the fence the transaction rolls back and *)
(* nothing but ExecEnds is left.                                           *)

AppendsNothing(e) == {}
appendEventsInTx(e) == EntriesOf(e)

GiveUp(e, settled, table) ==
    /\ Fence(e)
    /\ lease' = [lease EXCEPT ![e.run].assigned_to = NULL, ![e.run].settled = settled]
    /\ event_history' = table
    /\ execs' = execs \ {e}
    /\ UNCHANGED flusher

FinalizeSuspend(e) ==
    e.at = "running" /\ GiveUp(e, FALSE, Inserted(event_history, appendEventsInTx(e)))

FinalizeDone(e) == e.at = "running" /\ GiveUp(e, TRUE, Cleared(event_history, e.run))

FailWorkflow(e) == e.at \in {"running", "failing"} /\ GiveUp(e, TRUE, event_history)
-----------------------------------------------------------------------------
Next ==
    \/ \E w \in Workers, r \in Runs : Claim(w, r)
    \/ \E r \in Runs, settled \in BOOLEAN : LoseClaim(r, settled)
    \/ \E w \in Workers : \/ WorkerDies(w) \/ TimerFires(w)
                          \/ onTimer(w) \/ Shutdown(w)
    \/ \E e \in execs : \/ LoadHistory(e) \/ flushEvent(e) \/ Flush(e) \/ ExecEnds(e)
                        \/ FinalizeSuspend(e) \/ FinalizeDone(e) \/ FailWorkflow(e)
    \/ \E f \in flights : partitionFencedBatch(f) \/ InsertBatch(f)

Spec == Init /\ [][Next]_vars

(* Timers fire, their callbacks get the lock, and a batch goroutine's      *)
(* database calls return: each is retried for a bounded window only.       *)
Fairness ==
    /\ \A w \in Workers : WF_vars(TimerFires(w)) /\ WF_vars(onTimer(w))
    /\ WF_vars(\E f \in flights : partitionFencedBatch(f))
    /\ WF_vars(\E f \in flights : InsertBatch(f))

FairSpec == Spec /\ Fairness
-----------------------------------------------------------------------------
(* Every variable is well formed; what a session was told is persisted is  *)
(* a step it recorded.                                                     *)
TypeOK == /\ lease \in [Runs -> Lease]
          /\ event_history \in [Runs -> [Steps -> Nat \cup {NULL}]]
          /\ execs \subseteq Exec
          /\ \A e \in execs : e.acked \subseteq 0 .. Len(e.history) - 1
          /\ queue \in [Workers -> SUBSET Entry]
          /\ armed \in [Workers -> BOOLEAN] /\ fired \in [Workers -> BOOLEAN]
          /\ flights \subseteq Flight

(* A write made under a lost fence does not become a row: whatever an      *)
(* execution that was reaped or preempted still tries, the rows that       *)
(* appear were written by the present owner of the run.                    *)
WriteNeedsFenceStep ==
       \A r \in Runs, s \in Steps :
          event_history'[r][s] # event_history[r][s] /\ event_history'[r][s] # NULL =>
              /\ lease[r].assigned_to # NULL
              /\ event_history'[r][s] = lease[r].generation
WriteNeedsFence == [][WriteNeedsFenceStep]_vars

(* The owner's memory and the table agree: every step it replayed and      *)
(* every step it was told is persisted is stored with the value it saw, so *)
(* a successor that replays it takes the same path.                        *)
OwnerAgreesWithTable ==
    \A e \in execs : Fence(e) =>
        \A s \in e.acked \cup (0 .. e.loaded - 1) :
            event_history[e.run][s] = e.history[s + 1].gen

(* A suspended segment leaves all of its history behind, also the steps    *)
(* whose own flush had failed: the next claim replays what this one saw.   *)
SuspendLeavesWholeHistoryStep ==
       \A e \in execs : FinalizeSuspend(e) =>
          \A i \in 1..Len(e.history) :
              event_history'[e.run][i - 1] = e.history[i].gen
SuspendLeavesWholeHistory == [][SuspendLeavesWholeHistoryStep]_vars

(* A session never takes the record of one step for another's: a failed    *)
(* flush followed by a good one and a crash leaves a gap in the table, and *)
(* the next claim refuses that history instead of shifting it.             *)
ReplayKeepsSteps ==
    \A e \in execs : \A i \in 1..Len(e.history) : e.history[i].step = i - 1

(* An event answered with nil has a row as long as its run is held, in     *)
(* batch mode too, where errors, lost fences and clashes of other entries  *)
(* of the batch share its statement.                                       *)
AnsweredMeansStored ==
    \A e \in execs : Fence(e) => \A s \in e.acked : event_history[e.run][s] # NULL

=============================================================================
