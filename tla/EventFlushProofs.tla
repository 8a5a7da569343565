-------------------------- MODULE EventFlushProofs --------------------------
(***************************************************************************)
(* For any runs and workers and any number of claims and steps: in both    *)
(* modes replay takes no record for another step's and a step that was     *)
(* answered with nil has its row; in direct mode a deposed holder writes   *)
(* nothing, the owner's memory agrees with the table, and a suspended      *)
(* segment leaves its whole history.                                       *)
(***************************************************************************)
EXTENDS EventFlush, TLAPS

Record == [step: Steps, gen: Nat]
Table == [Runs -> [Steps -> Nat \cup {NULL}]]

LEMMA StepsAreNat == Steps \subseteq Nat /\ \A n \in Nat : n < MaxSteps => n \in Steps
BY FlushAssumption DEF ConstantsOK, Steps

LEMMA RowsAreRecords == ASSUME event_history \in Table, NEW r \in Runs PROVE Rows(r) \subseteq Record
BY DEF Rows, Record, Table

(* A history that was read and found dense is the table's own. *)
LEMMA LoadedHistory ==
    ASSUME event_history \in Table, NEW r \in Runs, NEW h \in LoadEventHistory(r)
    PROVE  /\ h \in Seq(Record)
           /\ \A i \in 1..Len(h) : h[i].gen = event_history[r][h[i].step]
           /\ \A s \in Steps : event_history[r][s] # NULL => \E i \in 1..Len(h) : h[i].step = s
<1>1. Rows(r) \subseteq Record BY RowsAreRecords
<1>2. Rows(r) = {h[i] : i \in DOMAIN h} BY DEF LoadEventHistory
<1>3. h \in Seq(Record) /\ 1..Len(h) = DOMAIN h
  <2>1. PICK n \in 0..MaxSteps : h \in [1..n -> Rows(r)] BY Zenon DEF LoadEventHistory
  <2>2. n \in Nat BY FlushAssumption DEF ConstantsOK
  <2> QED BY <1>1, <2>1, <2>2
<1>4. ASSUME NEW i \in 1..Len(h) PROVE h[i].gen = event_history[r][h[i].step]
  <2>1. h[i] \in Rows(r) BY Zenon, <1>2, <1>3
  <2> QED BY <2>1 DEF Rows
<1>5. ASSUME NEW s \in Steps, event_history[r][s] # NULL PROVE \E i \in 1..Len(h) : h[i].step = s
  <2>1. [step |-> s, gen |-> event_history[r][s]] \in Rows(r) BY <1>5 DEF Rows
  <2>2. PICK i \in DOMAIN h : h[i] = [step |-> s, gen |-> event_history[r][s]] BY <1>2, <2>1
  <2> QED BY <1>3, <2>2
<1> QED BY <1>3, <1>4, <1>5

LEMMA InsertedIsTable ==
    ASSUME NEW t \in Table, NEW entries \in SUBSET Entry
    PROVE  Inserted(t, entries) \in Table
<1> SUFFICES ASSUME NEW r \in Runs, NEW s \in Steps
             PROVE  Inserted(t, entries)[r][s] \in Nat \cup {NULL}
  BY DEF Inserted, Table
<1> DEFINE new == {x \in entries : x.run = r /\ x.step = s}
<1>1. Inserted(t, entries)[r][s] = IF t[r][s] = NULL /\ new # {} THEN (CHOOSE x \in new : TRUE).gen ELSE t[r][s]
  BY DEF Inserted
<1>2. new # {} => (CHOOSE x \in new : TRUE) \in new
  OBVIOUS
<1>3. new \subseteq Entry OBVIOUS
<1> QED BY <1>1, <1>2, <1>3 DEF Entry, Table

(* recordEvent's own step, with the answer it got. *)
LEMMA RecordedIsExec ==
    ASSUME NEW e \in Exec, NEW ok \in BOOLEAN, Len(e.history) < MaxSteps,
           e.acked \subseteq 0 .. Len(e.history) - 1
    PROVE  /\ Recorded(e, ok) \in Exec
           /\ Recorded(e, ok).run = e.run /\ Recorded(e, ok).gen = e.gen
           /\ Recorded(e, ok).worker = e.worker /\ Recorded(e, ok).loaded = e.loaded /\ Recorded(e, ok).at = e.at
           /\ Recorded(e, ok).history = Append(e.history, [step |-> Len(e.history), gen |-> e.gen])
           /\ Recorded(e, ok).acked = IF ok THEN e.acked \cup {Len(e.history)} ELSE e.acked
           /\ Recorded(e, ok).acked \subseteq 0 .. Len(Recorded(e, ok).history) - 1
<1>1. e.history \in Seq(Record) /\ Len(e.history) \in Steps
  <2>1. e.history \in Seq(Record) BY DEF Exec, Record
  <2> QED BY <2>1, StepsAreNat
<1>2. Append(e.history, [step |-> Len(e.history), gen |-> e.gen]) \in Seq(Record)
  BY <1>1 DEF Exec, Record
<1>3. Len(Append(e.history, [step |-> Len(e.history), gen |-> e.gen])) = Len(e.history) + 1
  BY <1>1
<1>4. (IF ok THEN e.acked \cup {Len(e.history)} ELSE e.acked) \in SUBSET Steps
  BY <1>1 DEF Exec
<1>5. (IF ok THEN e.acked \cup {Len(e.history)} ELSE e.acked) \subseteq 0 .. (Len(e.history) + 1) - 1
  BY <1>1
<1> QED BY Zenon, <1>2, <1>3, <1>4, <1>5 DEF Recorded, Exec, Record
-----------------------------------------------------------------------------
(* Type correctness, in both modes. *)

(* A session that waits for a batch has recorded something, and one that   *)
(* did not read its history yet, or refused it, knows of no step.          *)
StepInv == /\ TypeOK
           /\ ReplayKeepsSteps
           /\ \A e \in execs : /\ e.at = "waiting" => Len(e.history) > 0
                               /\ e.at \in {"claimed", "failing"} => e.acked = {} /\ e.loaded = 0

LEMMA StepInvInit == Init => StepInv
<1> SUFFICES ASSUME Init PROVE StepInv
  OBVIOUS
<1>1. lease \in [Runs -> Lease] BY DEF Init, Lease
<1>2. event_history \in [Runs -> [Steps -> Nat \cup {NULL}]] BY DEF Init
<1>3. queue \in [Workers -> SUBSET Entry] BY DEF Init
<1>4. armed \in [Workers -> BOOLEAN] /\ fired \in [Workers -> BOOLEAN] BY DEF Init
<1>5. execs = {} /\ flights = {} BY DEF Init
<1> QED BY <1>1, <1>2, <1>3, <1>4, <1>5 DEF StepInv, TypeOK, ReplayKeepsSteps

(* What one execution turns into keeps the set of executions well formed. *)
LEMMA OneExecChanges ==
    ASSUME TypeOK, NEW e \in execs, NEW n \in Exec, n.acked \subseteq 0 .. Len(n.history) - 1,
           execs' = (execs \ {e}) \cup {n}
    PROVE  execs' \subseteq Exec /\ \A x \in execs' : x.acked \subseteq 0 .. Len(x.history) - 1
BY DEF TypeOK

LEMMA TakeBatchTypes ==
    ASSUME TypeOK, NEW w \in Workers, NEW entries \in SUBSET Entry, TakeBatch(w, entries)
    PROVE  queue' \in [Workers -> SUBSET Entry] /\ flights' \subseteq Flight
<1>1. queue' \in [Workers -> SUBSET Entry] BY DEF TypeOK, TakeBatch
<1>2. [worker |-> w, entries |-> entries, checked |-> FALSE] \in Flight BY DEF Flight
<1> QED BY Zenon, <1>1, <1>2 DEF TypeOK, TakeBatch

LEMMA AnsweredTypes ==
    ASSUME StepInv, NEW w, NEW entries, NEW ok \in BOOLEAN
    PROVE  /\ Answered(w, entries, ok) \subseteq Exec
           /\ \A x \in Answered(w, entries, ok) : x.acked \subseteq 0 .. Len(x.history) - 1
           /\ \A x \in Answered(w, entries, ok) :
                 \E e \in execs : x.history = e.history /\ x.run = e.run /\ x.gen = e.gen /\ x.worker = e.worker
<1> SUFFICES ASSUME NEW x \in Answered(w, entries, ok)
             PROVE  /\ x \in Exec /\ x.acked \subseteq 0 .. Len(x.history) - 1
                    /\ \E e \in execs : x.history = e.history /\ x.run = e.run /\ x.gen = e.gen /\ x.worker = e.worker
  OBVIOUS
<1>1. PICK e \in execs :
        x = IF e.worker = w /\ e.at = "waiting" /\ \E y \in entries : y.run = e.run /\ y.gen = e.gen
            THEN [e EXCEPT !.at = "running", !.acked = IF ok THEN @ \cup {Len(e.history) - 1} ELSE @]
            ELSE e
  BY Zenon DEF Answered
<1>2. e \in Exec /\ e.acked \subseteq 0 .. Len(e.history) - 1 BY DEF StepInv, TypeOK
<1>3. e.history \in Seq(Record) BY <1>2 DEF Exec, Record
<1>4. e.at = "waiting" => Len(e.history) - 1 \in Steps
  <2> SUFFICES ASSUME e.at = "waiting" PROVE Len(e.history) - 1 \in Steps
    OBVIOUS
  <2>1. Len(e.history) \in 1..Len(e.history) BY <1>3 DEF StepInv
  <2>2. e.history[Len(e.history)].step = Len(e.history) - 1 BY <2>1 DEF StepInv, ReplayKeepsSteps
  <2>3. e.history[Len(e.history)] \in Record BY <1>3, <2>1
  <2> QED BY <2>2, <2>3 DEF Record
<1>5. CASE x = e BY <1>2, <1>5
<1>6. CASE x # e
  <2>1. e.at = "waiting" /\ x = [e EXCEPT !.at = "running", !.acked = IF ok THEN @ \cup {Len(e.history) - 1} ELSE @]
    BY <1>1, <1>6
  <2>2. x.history = e.history /\ x.run = e.run /\ x.gen = e.gen /\ x.worker = e.worker
        /\ x.acked = IF ok THEN e.acked \cup {Len(e.history) - 1} ELSE e.acked
    BY <1>2, <2>1 DEF Exec
  <2>3. x.acked \subseteq Steps /\ x.acked \subseteq 0 .. Len(x.history) - 1
    BY <1>2, <1>3, <1>4, <2>1, <2>2, StepsAreNat DEF Exec
  <2>4. x \in Exec BY Zenon, <1>2, <2>1, <2>2, <2>3 DEF Exec
  <2> QED BY <2>2, <2>3, <2>4
<1> QED BY <1>5, <1>6

LEMMA StepInvNext == ASSUME StepInv, [Next]_vars PROVE StepInv'
<1> DEFINE Kept(x) == \A i \in 1..Len(x.history) : x.history[i].step = i - 1
           Waits(x) == /\ x.at = "waiting" => Len(x.history) > 0
                       /\ x.at \in {"claimed", "failing"} => x.acked = {} /\ x.loaded = 0
           Fine(x) == x \in Exec /\ x.acked \subseteq 0 .. Len(x.history) - 1 /\ Kept(x) /\ Waits(x)
<1>0. TypeOK /\ \A x \in execs : Fine(x)
  BY DEF StepInv, TypeOK, ReplayKeepsSteps
<1>s. ASSUME lease' \in [Runs -> Lease], event_history' \in Table, \A x \in execs' : Fine(x),
             queue' \in [Workers -> SUBSET Entry], armed' \in [Workers -> BOOLEAN],
             fired' \in [Workers -> BOOLEAN], flights' \subseteq Flight
      PROVE  StepInv'
  BY <1>s DEF StepInv, TypeOK, ReplayKeepsSteps, Table
<1> USE FlushAssumption DEF ConstantsOK
<1>1. ASSUME NEW w \in Workers, NEW r \in Runs, Claim(w, r) PROVE StepInv'
  <2> DEFINE n == [worker |-> w, run |-> r, gen |-> lease[r].generation + 1,
                   at |-> "claimed", history |-> <<>>, loaded |-> 0, acked |-> {}]
  <2>1. lease[r] \in Lease BY Zenon, <1>0 DEF TypeOK
  <2>2. Fine(n)
    <3>1. n \in Exec BY <2>1 DEF Exec, Lease
    <3> QED BY <3>1
  <2>3. lease' \in [Runs -> Lease] BY <1>0, <1>1, <2>1 DEF Claim, TypeOK, Lease
  <2>4. execs' = execs \cup {n} BY <1>1 DEF Claim
  <2> QED BY Zenon, <1>0, <1>1, <1>s, <2>2, <2>3, <2>4 DEF Claim, flusher, TypeOK, Table
<1>2. ASSUME NEW r \in Runs, NEW settled \in BOOLEAN, LoseClaim(r, settled) PROVE StepInv'
  <2>1. lease' \in [Runs -> Lease] BY <1>0, <1>2 DEF LoseClaim, TypeOK, Lease
  <2> QED BY <1>0, <1>2, <1>s, <2>1 DEF LoseClaim, flusher, TypeOK, Table
<1>3. ASSUME NEW w \in Workers, WorkerDies(w) PROVE StepInv'
  <2>1. execs' \subseteq execs /\ flights' \subseteq flights BY <1>3 DEF WorkerDies
  <2>2. queue' \in [Workers -> SUBSET Entry] BY <1>0, <1>3 DEF WorkerDies, TypeOK
  <2> QED BY <1>0, <1>3, <1>s, <2>1, <2>2 DEF WorkerDies, TypeOK, Table
<1>4. ASSUME NEW w \in Workers, TimerFires(w) PROVE StepInv'
  BY <1>0, <1>4, <1>s DEF TimerFires, TypeOK, Table
<1>5. ASSUME NEW w \in Workers, onTimer(w) PROVE StepInv'
  <2>1. queue[w] \in SUBSET Entry BY <1>0 DEF TypeOK
  <2>2. queue' \in [Workers -> SUBSET Entry] /\ flights' \subseteq Flight
    BY <1>0, <1>5, <2>1, TakeBatchTypes DEF onTimer, TypeOK
  <2> QED BY Zenon, <1>0, <1>5, <1>s, <2>2 DEF onTimer, TypeOK, Table
<1>6. ASSUME NEW w \in Workers, Shutdown(w) PROVE StepInv'
  <2>1. queue[w] \in SUBSET Entry BY <1>0 DEF TypeOK
  <2>2. queue' \in [Workers -> SUBSET Entry] /\ flights' \subseteq Flight
    BY <1>0, <1>6, <2>1, TakeBatchTypes DEF Shutdown
  <2> QED BY Zenon, <1>0, <1>6, <1>s, <2>2 DEF Shutdown, TypeOK, Table
<1>7. ASSUME NEW e \in execs, LoadHistory(e) PROVE StepInv'
  <2>1. e \in Exec /\ e.run \in Runs BY Zenon, <1>0 DEF Exec
  <2>2. PICK h \in LoadEventHistory(e.run) :
           execs' = (execs \ {e}) \cup
             {IF validateReplayStepDensity(h)
              THEN [e EXCEPT !.at = "running", !.history = h, !.loaded = Len(h)]
              ELSE [e EXCEPT !.at = "failing"]}
    BY Zenon, <1>7 DEF LoadHistory
  <2>3. h \in Seq(Record) BY <1>0, <2>1, LoadedHistory DEF TypeOK, Table
  <2>4. CASE validateReplayStepDensity(h)
    <3> DEFINE n == [e EXCEPT !.at = "running", !.history = h, !.loaded = Len(h)]
    <3>0. n.history = h /\ n.at = "running" /\ n.acked = e.acked BY <2>1 DEF Exec
    <3>1. n \in Exec
      <4>1. Len(h) \in Nat BY <2>3
      <4> QED BY Zenon, <2>1, <2>3, <4>1 DEF Exec, Record
    <3>2. e.acked = {} BY <1>0, <1>7 DEF LoadHistory
    <3>3. Fine(n) BY <2>4, <3>0, <3>1, <3>2 DEF validateReplayStepDensity
    <3> QED BY Zenon, <1>0, <1>7, <1>s, <2>2, <2>4, <3>3 DEF LoadHistory, flusher, TypeOK, Table
  <2>5. CASE ~validateReplayStepDensity(h)
    <3> DEFINE n == [e EXCEPT !.at = "failing"]
    <3>1. n \in Exec /\ n.history = e.history /\ n.at = "failing" /\ n.acked = e.acked /\ n.loaded = e.loaded
      BY <2>1 DEF Exec
    <3>2. Fine(n) BY <1>0, <1>7, <3>1 DEF LoadHistory
    <3> QED BY Zenon, <1>0, <1>7, <1>s, <2>2, <2>5, <3>2 DEF LoadHistory, flusher, TypeOK, Table
  <2> QED BY <2>4, <2>5
<1>8. ASSUME NEW e \in execs, NEW ok \in BOOLEAN, e.at = "running", Len(e.history) < MaxSteps
      PROVE  /\ Fine(Recorded(e, ok)) /\ Recorded(e, ok).at = "running"
             /\ Fine([Recorded(e, ok) EXCEPT !.at = "waiting"])
             /\ NewEntry(e) \in Entry
  <2>1. e \in Exec /\ e.history \in Seq(Record) BY Zenon, <1>0 DEF Exec, Record
  <2>2. Recorded(e, ok) \in Exec /\ Recorded(e, ok).at = "running"
        /\ Recorded(e, ok).acked \subseteq 0 .. Len(Recorded(e, ok).history) - 1
        /\ Recorded(e, ok).history = Append(e.history, [step |-> Len(e.history), gen |-> e.gen])
    BY Zenon, <1>0, <1>8, RecordedIsExec
  <2>3. Len(Recorded(e, ok).history) = Len(e.history) + 1 /\ Len(Recorded(e, ok).history) > 0
    BY <2>1, <2>2
  <2>4. Kept(Recorded(e, ok)) BY <1>0, <2>1, <2>2, <2>3
  <2>5. Fine(Recorded(e, ok)) BY <2>2, <2>3, <2>4
  <2> DEFINE n == [Recorded(e, ok) EXCEPT !.at = "waiting"]
  <2>6. n \in Exec /\ n.history = Recorded(e, ok).history /\ n.acked = Recorded(e, ok).acked /\ n.at = "waiting"
    BY ZenonT(30), <2>2 DEF Exec
  <2>7. Fine(n) BY Zenon, <2>3, <2>5, <2>6
  <2>8. NewEntry(e) \in Entry BY <1>8, <2>1, StepsAreNat DEF NewEntry, Entry, Exec
  <2> QED BY Zenon, <2>2, <2>5, <2>7, <2>8
<1>9. ASSUME NEW e \in execs, flushEvent(e) PROVE StepInv'
  <2>1. PICK wrote \in BOOLEAN, ok \in BOOLEAN :
           /\ event_history' = IF wrote THEN Inserted(event_history, {NewEntry(e)}) ELSE event_history
           /\ execs' = (execs \ {e}) \cup {Recorded(e, ok)}
    BY <1>9 DEF flushEvent
  <2>2. Fine(Recorded(e, ok)) /\ {NewEntry(e)} \in SUBSET Entry BY ZenonT(30), <1>8, <1>9 DEF flushEvent
  <2>3. event_history' \in Table BY Zenon, <1>0, <2>1, <2>2, InsertedIsTable DEF TypeOK, Table
  <2> QED BY <1>0, <1>9, <1>s, <2>1, <2>2, <2>3 DEF flushEvent, flusher, TypeOK
<1>10. ASSUME NEW e \in execs, Flush(e) PROVE StepInv'
  <2> DEFINE n == [Recorded(e, FALSE) EXCEPT !.at = "waiting"]
             w == e.worker
             events == queue[w] \cup {NewEntry(e)}
  <2>1. Fine(n) /\ NewEntry(e) \in Entry BY Zenon, <1>8, <1>10 DEF Flush
  <2>2. w \in Workers BY <1>0 DEF Exec
  <2>3. events \in SUBSET Entry BY <1>0, <2>1, <2>2 DEF TypeOK
  <2>4. execs' = (execs \ {e}) \cup {n} BY <1>10 DEF Flush
  <2>5. \A x \in execs' : Fine(x) BY Zenon, <1>0, <2>1, <2>4
  <2>6. armed' \in [Workers -> BOOLEAN] /\ queue' \in [Workers -> SUBSET Entry] /\ flights' \subseteq Flight
    <3>1. CASE Cardinality(events) >= MaxBatch
      <4>1. TakeBatch(w, events) /\ armed' = [armed EXCEPT ![w] = FALSE] BY <1>10, <3>1 DEF Flush
      <4> QED BY <1>0, <2>2, <2>3, <4>1, TakeBatchTypes DEF TypeOK
    <3>2. CASE ~(Cardinality(events) >= MaxBatch)
      <4>1. queue' = [queue EXCEPT ![w] = events] /\ flights' = flights BY <1>10, <3>2 DEF Flush
      <4>2. armed' = [armed EXCEPT ![w] = Arms(w)] /\ Arms(w) \in BOOLEAN BY <1>10, <3>2, Zenon DEF Flush, Arms
      <4>3. armed' \in [Workers -> BOOLEAN] BY <1>0, <2>2, <4>2 DEF TypeOK
      <4> QED BY Zenon, <1>0, <2>2, <2>3, <4>1, <4>3 DEF TypeOK
    <3> QED BY <3>1, <3>2
  <2> QED BY Zenon, <1>0, <1>10, <1>s, <2>5, <2>6 DEF Flush, TypeOK, Table
<1>11. ASSUME NEW e \in execs, ExecEnds(e) PROVE StepInv'
  BY <1>0, <1>11, <1>s DEF ExecEnds, flusher, TypeOK, Table
<1>12. ASSUME NEW e \in execs, NEW settled \in BOOLEAN, NEW t \in Table, GiveUp(e, settled, t) PROVE StepInv'
  <2>1. e.run \in Runs BY <1>0 DEF Exec
  <2>2. lease' \in [Runs -> Lease]
    <3>1. lease[e.run] \in Lease BY <1>0, <2>1 DEF TypeOK
    <3>2. lease' = [lease EXCEPT ![e.run] = [lease[e.run] EXCEPT !.assigned_to = NULL, !.settled = settled]]
      BY Zenon, <1>0, <1>12, <2>1 DEF GiveUp, TypeOK
    <3>3. [lease[e.run] EXCEPT !.assigned_to = NULL, !.settled = settled] \in Lease BY Zenon, <3>1 DEF Lease
    <3> QED BY Zenon, <1>0, <3>2, <3>3 DEF TypeOK
  <2> QED BY <1>0, <1>12, <1>s, <2>2 DEF GiveUp, flusher, TypeOK, Table
<1>13. ASSUME NEW e \in execs PROVE /\ Inserted(event_history, appendEventsInTx(e)) \in Table
                                     /\ Cleared(event_history, e.run) \in Table
                                     /\ event_history \in Table
  <2>1. e \in Exec /\ e.history \in Seq(Record) /\ e.loaded \in Nat BY Zenon, <1>0 DEF Exec, Record
  <2>2. ASSUME NEW i \in (e.loaded + 1)..Len(e.history)
        PROVE  [run |-> e.run, gen |-> e.history[i].gen, step |-> e.history[i].step] \in Entry
    <3>1. e.history[i] \in Record BY <2>1
    <3> QED BY <2>1, <3>1 DEF Entry, Exec, Record
  <2>3. appendEventsInTx(e) \in SUBSET Entry BY <2>2 DEF appendEventsInTx, EntriesOf
  <2>4. event_history \in Table BY <1>0 DEF TypeOK, Table
  <2>5. Cleared(event_history, e.run) \in Table BY Zenon, <2>4 DEF Cleared, Table
  <2> QED BY <2>3, <2>4, <2>5, InsertedIsTable
<1>14. ASSUME NEW e \in execs, FinalizeSuspend(e) \/ FinalizeDone(e) \/ FailWorkflow(e) PROVE StepInv'
  BY Zenon, <1>12, <1>13, <1>14 DEF FinalizeSuspend, FinalizeDone, FailWorkflow
<1>15. ASSUME NEW w, NEW entries, NEW ok \in BOOLEAN, execs' = Answered(w, entries, ok)
       PROVE  \A x \in execs' : Fine(x)
  <2> SUFFICES ASSUME NEW x \in execs' PROVE Fine(x)
    OBVIOUS
  <2>1. PICK e \in execs :
          x = IF e.worker = w /\ e.at = "waiting" /\ \E y \in entries : y.run = e.run /\ y.gen = e.gen
              THEN [e EXCEPT !.at = "running", !.acked = IF ok THEN @ \cup {Len(e.history) - 1} ELSE @]
              ELSE e
    BY Zenon, <1>15 DEF Answered
  <2>2. x = e \/ (x.history = e.history /\ x.at = "running") BY <1>0, <2>1 DEF Exec
  <2>3. x \in Exec /\ x.acked \subseteq 0 .. Len(x.history) - 1 BY <1>15, AnsweredTypes
  <2> QED BY <1>0, <2>2, <2>3
<1>16. ASSUME NEW f \in flights, partitionFencedBatch(f) PROVE StepInv'
  <2>1. PICK held \in {Held(f), {}} :
           /\ execs' = Answered(f.worker, f.entries \ held, FALSE)
           /\ flights' = (flights \ {f}) \cup
                 (IF held = {} THEN {} ELSE {[f EXCEPT !.entries = held, !.checked = TRUE]})
    BY Zenon, <1>16 DEF partitionFencedBatch
  <2>2. f \in Flight /\ held \subseteq f.entries BY <1>0 DEF TypeOK, Held
  <2>3. flights' \subseteq Flight BY ZenonT(30), <1>0, <2>1, <2>2 DEF TypeOK, Flight
  <2> QED BY Zenon, <1>0, <1>15, <1>16, <1>s, <2>1, <2>3 DEF partitionFencedBatch, TypeOK, Table
<1>17. ASSUME NEW f \in flights, InsertBatch(f) PROVE StepInv'
  <2>1. PICK wrote \in BOOLEAN, ok \in BOOLEAN :
           /\ event_history' = IF wrote THEN Inserted(event_history, f.entries) ELSE event_history
           /\ execs' = Answered(f.worker, f.entries, ok)
    BY Zenon, <1>17 DEF InsertBatch, Answers
  <2>2. f.entries \in SUBSET Entry BY <1>0 DEF TypeOK, Flight
  <2>3. event_history' \in Table BY <1>0, <2>1, <2>2, InsertedIsTable DEF TypeOK, Table
  <2> QED BY <1>0, <1>15, <1>17, <1>s, <2>1, <2>3 DEF InsertBatch, TypeOK
<1>18. CASE UNCHANGED vars
  BY <1>0, <1>18, <1>s DEF vars, TypeOK, Table
<1> QED
  BY Zenon, <1>1, <1>2, <1>3, <1>4, <1>5, <1>6, <1>7, <1>9, <1>10, <1>11, <1>14, <1>16, <1>17, <1>18 DEF Next

(* In direct and in batch mode, a session never takes the record of one    *)
(* step for another's: executeWorkflow refuses a history with a gap.       *)
THEOREM ReplayIsDense == Spec => []ReplayKeepsSteps
<1>1. StepInv /\ [Next]_vars => StepInv'
  BY StepInvNext
<1>2. StepInv => ReplayKeepsSteps
  BY DEF StepInv
<1> QED
  BY StepInvInit, <1>1, <1>2, PTL DEF Spec
-----------------------------------------------------------------------------
(* Direct mode: every event is written by its own fenced INSERT. *)

(* What an execution knows of its run.  While it holds the fence nobody    *)
(* else writes the table, so the steps it loaded and the steps it was told *)
(* are persisted are there as it saw them, and there is nothing else than  *)
(* its own records.                                                        *)
Knows(e) ==
    /\ e.gen <= lease[e.run].generation
    /\ e.loaded <= Len(e.history)
    /\ \A i \in (e.loaded + 1)..Len(e.history) : e.history[i].gen = e.gen
    /\ Fence(e) =>
        /\ \A s \in e.acked \cup (0 .. e.loaded - 1) : event_history[e.run][s] = e.history[s + 1].gen
        /\ e.at = "running" =>
             \A s \in Steps : event_history[e.run][s] # NULL =>
                s < Len(e.history) /\ (s >= e.loaded => event_history[e.run][s] = e.gen)

DirectInv ==
    /\ StepInv
    /\ flights = {} /\ \A w \in Workers : queue[w] = {}
    /\ \A e \in execs : Knows(e)
    /\ \A e, f \in execs : e.run = f.run /\ e.gen = f.gen => e = f

LEMMA InsertedOne ==
    ASSUME NEW t \in Table, NEW x \in Entry, NEW r \in Runs, NEW s \in Steps
    PROVE  Inserted(t, {x})[r][s] = IF t[r][s] = NULL /\ r = x.run /\ s = x.step THEN x.gen ELSE t[r][s]
<1> DEFINE new == {y \in {x} : y.run = r /\ y.step = s}
<1>1. Inserted(t, {x})[r][s] = IF t[r][s] = NULL /\ new # {} THEN (CHOOSE y \in new : TRUE).gen ELSE t[r][s]
  BY DEF Inserted
<1>2. new # {} <=> (r = x.run /\ s = x.step) OBVIOUS
<1>3. new # {} => (CHOOSE y \in new : TRUE) = x OBVIOUS
<1> QED BY <1>1, <1>2, <1>3

(* The end of a segment writes what is missing of the segment's own steps. *)
LEMMA InsertedOwn ==
    ASSUME NEW t \in Table, NEW e \in Exec, Knows(e), \A i \in 1..Len(e.history) : e.history[i].step = i - 1,
           NEW r \in Runs, NEW s \in Steps
    PROVE  Inserted(t, EntriesOf(e))[r][s] =
              IF t[r][s] = NULL /\ r = e.run /\ s \in e.loaded .. Len(e.history) - 1 THEN e.gen ELSE t[r][s]
<1> DEFINE new == {y \in EntriesOf(e) : y.run = r /\ y.step = s}
<1>0. e.history \in Seq(Record) /\ e.loaded \in Nat BY DEF Exec, Record
<1>1. Inserted(t, EntriesOf(e))[r][s] = IF t[r][s] = NULL /\ new # {} THEN (CHOOSE y \in new : TRUE).gen ELSE t[r][s]
  BY DEF Inserted
<1>2. \A y \in EntriesOf(e) : y.run = e.run /\ y.gen = e.gen /\ y.step \in e.loaded .. Len(e.history) - 1
  BY SMTT(30), <1>0 DEF EntriesOf, Knows
<1>3. ASSUME r = e.run, s \in e.loaded .. Len(e.history) - 1 PROVE new # {}
  <2>1. s + 1 \in (e.loaded + 1)..Len(e.history) /\ s + 1 \in 1..Len(e.history) BY <1>0, <1>3, StepsAreNat
  <2>2. e.history[s + 1].step = s BY <2>1, StepsAreNat
  <2>3. [run |-> e.run, gen |-> e.history[s + 1].gen, step |-> e.history[s + 1].step] \in EntriesOf(e)
    BY <2>1 DEF EntriesOf
  <2> QED BY <1>3, <2>2, <2>3
<1>4. new # {} => (CHOOSE y \in new : TRUE) \in new OBVIOUS
<1>5. new # {} => (CHOOSE y \in new : TRUE).gen = e.gen /\ r = e.run /\ s \in e.loaded .. Len(e.history) - 1
  BY Zenon, <1>2, <1>4
<1> QED BY <1>1, <1>3, <1>5

LEMMA DirectInvInit == Init => DirectInv
<1> SUFFICES ASSUME Init PROVE DirectInv
  OBVIOUS
<1>1. execs = {} /\ flights = {} BY DEF Init
<1>2. \A w \in Workers : queue[w] = {} BY DEF Init
<1> QED BY <1>1, <1>2, StepInvInit DEF DirectInv

LEMMA OneHolder ==
    ASSUME DirectInv, NEW e \in execs, NEW f \in execs, Fence(e), Fence(f), e.run = f.run
    PROVE  e = f
BY DEF DirectInv, Fence, Holds

(* What an execution knows outlasts every step that leaves its rows alone  *)
(* or takes its fence.                                                     *)
LEMMA KnowsKept ==
    ASSUME NEW x \in Exec, Knows(x), lease \in [Runs -> Lease], lease' \in [Runs -> Lease],
           lease'[x.run].generation >= lease[x.run].generation,
           Fence(x)' => Fence(x) /\ event_history'[x.run] = event_history[x.run]
    PROVE  Knows(x)'
<1>1. x.gen \in Nat /\ x.run \in Runs BY DEF Exec
<1>2. x.gen <= lease'[x.run].generation BY SMTT(30), <1>1 DEF Knows, Lease
<1> QED BY <1>2 DEF Knows

LEMMA DirectInvNext == ASSUME ~BatchEnabled, DirectInv, [Next]_vars PROVE DirectInv'
<1>0. StepInv /\ StepInv' /\ TypeOK /\ TypeOK'
  BY StepInvNext DEF DirectInv, StepInv
<1>t. /\ execs \subseteq Exec /\ lease \in [Runs -> Lease] /\ event_history \in Table
      /\ execs' \subseteq Exec /\ lease' \in [Runs -> Lease] /\ event_history' \in Table
  BY <1>0 DEF TypeOK, Table
<1>d. flights = {} /\ (\A w \in Workers : queue[w] = {}) /\ \A x \in execs : Knows(x)
  BY DEF DirectInv
<1>n. NULL \notin Workers BY FlushAssumption DEF ConstantsOK
<1>w. ASSUME \A x \in execs' : Knows(x)', flights' = {}, queue' = queue,
             \A x, y \in execs' : x.run = y.run /\ x.gen = y.gen => x = y
      PROVE  DirectInv'
  BY <1>0, <1>d, <1>w DEF DirectInv
<1>1. ASSUME NEW w \in Workers, NEW r \in Runs, Claim(w, r) PROVE DirectInv'
  <2>n. PICK n : n = [worker |-> w, run |-> r, gen |-> lease[r].generation + 1,
                      at |-> "claimed", history |-> <<>>, loaded |-> 0, acked |-> {}]
    BY Zenon
  <2>1. /\ lease' = [lease EXCEPT ![r].assigned_to = w, ![r].generation = @ + 1]
        /\ execs' = execs \cup {n} /\ event_history' = event_history
        /\ flights' = flights /\ queue' = queue
    BY <1>1, <2>n DEF Claim, flusher
  <2>2. lease[r] \in Lease /\ lease'[r].generation = lease[r].generation + 1 /\ lease[r].generation \in Nat
    BY <1>t, <2>1 DEF Lease
  <2>3. ASSUME NEW x \in execs PROVE Knows(x)' /\ (x.run = r => x.gen < n.gen)
    <3>1. x \in Exec /\ Knows(x) /\ x.run \in Runs /\ x.gen \in Nat BY Zenon, <1>t, <1>d DEF Exec
    <3>2. CASE x.run = r
      <4>1. x.gen < lease'[r].generation /\ x.gen < n.gen BY <2>n, <2>2, <3>1, <3>2 DEF Knows
      <4>2. ~Fence(x)' BY <2>2, <3>1, <3>2, <4>1 DEF Fence, Holds
      <4>3. lease'[x.run].generation >= lease[x.run].generation BY <2>2, <3>2
      <4> QED BY Zenon, <1>t, <3>1, <4>1, <4>2, <4>3, KnowsKept
    <3>3. CASE x.run # r
      <4>1. lease'[x.run] = lease[x.run] /\ lease[x.run] \in Lease BY <1>t, <2>1, <3>1, <3>3
      <4>2. Fence(x)' => Fence(x) BY <4>1 DEF Fence, Holds
      <4>3. lease'[x.run].generation >= lease[x.run].generation BY <4>1 DEF Lease
      <4> QED BY <1>t, <2>1, <3>1, <3>3, <4>2, <4>3, KnowsKept
    <3> QED BY <3>2, <3>3
  <2>4. Knows(n)'
    <3>1. n.gen <= lease'[n.run].generation BY <2>n, <2>2
    <3>2. n.loaded <= Len(n.history) /\ (n.loaded + 1)..Len(n.history) = {} BY <2>n
    <3>3. n.acked \cup (0 .. n.loaded - 1) = {} /\ n.at # "running" BY <2>n
    <3> QED BY <3>1, <3>2, <3>3 DEF Knows
  <2>5. \A x, y \in execs' : x.run = y.run /\ x.gen = y.gen => x = y
    <3>1. n.run = r /\ n.gen \in Nat BY <2>n, <2>2
    <3> SUFFICES ASSUME NEW x \in execs', NEW y \in execs', x.run = y.run, x.gen = y.gen PROVE x = y
      OBVIOUS
    <3>2. x.gen \in Nat /\ y.gen \in Nat BY <1>t DEF Exec
    <3>3. CASE x \in execs /\ y \in execs BY <3>3 DEF DirectInv
    <3>4. CASE x = n \/ y = n BY <2>1, <2>3, <3>1, <3>2, <3>4
    <3> QED BY <2>1, <3>3, <3>4
  <2>6. \A x \in execs' : Knows(x)' BY <2>1, <2>3, <2>4
  <2> QED BY <1>d, <1>w, <2>1, <2>5, <2>6
<1>2. ASSUME NEW r \in Runs, NEW settled \in BOOLEAN, LoseClaim(r, settled) PROVE DirectInv'
  <2>1. /\ lease' = [lease EXCEPT ![r] = [assigned_to |-> NULL, generation |-> lease[r].generation + 1,
                                          settled |-> settled]]
        /\ execs' = execs /\ event_history' = event_history /\ flights' = flights /\ queue' = queue
    BY <1>2 DEF LoseClaim, flusher
  <2>2. lease[r] \in Lease BY <1>t
  <2>3. ASSUME NEW x \in execs PROVE Knows(x)'
    <3>1. x \in Exec /\ Knows(x) /\ x.run \in Runs /\ x.worker \in Workers BY Zenon, <1>t, <1>d DEF Exec
    <3>2. Fence(x)' => Fence(x) BY <1>t, <1>n, <2>1, <3>1 DEF Fence, Holds
    <3>3. lease'[x.run].generation >= lease[x.run].generation
      BY <1>t, <2>1, <2>2, <3>1 DEF Lease
    <3> QED BY <1>t, <2>1, <3>1, <3>2, <3>3, KnowsKept
  <2> QED BY <1>d, <1>w, <2>1, <2>3 DEF DirectInv
<1>3. ASSUME execs' \subseteq execs, lease' = lease, event_history' = event_history,
             flights' = {}, queue' = queue
      PROVE  DirectInv'
  <2>1. ASSUME NEW x \in execs' PROVE Knows(x)'
    BY <1>d, <1>3, <2>1 DEF Knows, Fence, Holds
  <2> QED BY <1>3, <1>w, <2>1 DEF DirectInv
<1>4. ASSUME NEW w \in Workers, WorkerDies(w) PROVE DirectInv'
  <2>1. execs' \subseteq execs /\ lease' = lease /\ event_history' = event_history /\ flights' = {}
    BY <1>4, <1>d DEF WorkerDies
  <2>2. queue' = queue
    <3>1. queue[w] = {} /\ queue \in [Workers -> SUBSET Entry] BY <1>0, <1>d DEF TypeOK
    <3> QED BY <1>4, <3>1 DEF WorkerDies
  <2> QED BY <1>3, <2>1, <2>2
<1>5. ASSUME NEW w \in Workers, TimerFires(w) \/ onTimer(w) \/ Shutdown(w) PROVE DirectInv'
  BY <1>3, <1>5, <1>d DEF TimerFires, onTimer, Shutdown
<1>6. ASSUME NEW e \in execs, ExecEnds(e) PROVE DirectInv'
  BY <1>3, <1>6, <1>d DEF ExecEnds, flusher
<1>7. ASSUME NEW e \in execs, NEW n \in Exec, execs' = (execs \ {e}) \cup {n},
             n.run = e.run, n.gen = e.gen, Knows(n)', lease' = lease, flights' = flights, queue' = queue,
             \A x \in execs : x # e /\ Fence(x) => event_history'[x.run] = event_history[x.run]
      PROVE  DirectInv'
  <2>1. ASSUME NEW x \in execs, x # e PROVE Knows(x)'
    <3>1. x \in Exec /\ Knows(x) /\ x.run \in Runs BY Zenon, <1>t, <1>d DEF Exec
    <3>2. Fence(x)' => Fence(x) BY <1>7 DEF Fence, Holds
    <3>3. lease'[x.run].generation >= lease[x.run].generation
      <4>1. lease[x.run] \in Lease BY <1>t, <3>1
      <4> QED BY <1>7, <4>1 DEF Lease
    <3> QED BY <1>t, <1>7, <2>1, <3>1, <3>2, <3>3, KnowsKept
  <2>2. \A x \in execs' : Knows(x)' BY <1>7, <2>1
  <2>3. \A x, y \in execs' : x.run = y.run /\ x.gen = y.gen => x = y BY <1>7 DEF DirectInv
  <2> QED BY <1>7, <1>d, <1>w, <2>2, <2>3
<1>8. ASSUME NEW e \in execs, LoadHistory(e) PROVE DirectInv'
  <2>1. /\ lease' = lease /\ event_history' = event_history /\ flights' = flights /\ queue' = queue
        /\ e.at = "claimed"
    BY <1>8 DEF LoadHistory, flusher
  <2>2. PICK h \in LoadEventHistory(e.run) :
           execs' = (execs \ {e}) \cup
             {IF validateReplayStepDensity(h)
              THEN [e EXCEPT !.at = "running", !.history = h, !.loaded = Len(h)]
              ELSE [e EXCEPT !.at = "failing"]}
    BY Zenon, <1>8 DEF LoadHistory
  <2>3. e \in Exec /\ Knows(e) /\ e.run \in Runs /\ e.acked = {} /\ e.loaded = 0
    BY Zenon, <1>0, <1>t, <1>d, <2>1 DEF Exec, StepInv
  <2>4. /\ h \in Seq(Record)
        /\ \A i \in 1..Len(h) : h[i].gen = event_history[e.run][h[i].step]
        /\ \A s \in Steps : event_history[e.run][s] # NULL => \E i \in 1..Len(h) : h[i].step = s
    BY <1>t, <2>3, LoadedHistory
  <2>5. CASE validateReplayStepDensity(h)
    <3> DEFINE n == [e EXCEPT !.at = "running", !.history = h, !.loaded = Len(h)]
    <3>1. /\ n.run = e.run /\ n.gen = e.gen /\ n.worker = e.worker /\ n.acked = {} /\ n.loaded = Len(h)
          /\ n.history = h /\ n.at = "running"
      BY <2>3 DEF Exec
    <3>2. execs' = (execs \ {e}) \cup {n} BY <2>2, <2>5
    <3>3. n \in Exec BY <1>t, <3>2
    <3> HIDE DEF n
    <3>4. Len(h) \in Nat BY <2>4
    <3>5. \A i \in 1..Len(h) : h[i].step = i - 1 BY <2>5 DEF validateReplayStepDensity
    <3>6. ASSUME NEW s \in 0 .. Len(h) - 1 PROVE event_history[e.run][s] = h[s + 1].gen
      <4>1. s + 1 \in 1..Len(h) /\ (s + 1) - 1 = s BY <3>4
      <4> QED BY ZenonT(30), <2>4, <3>5, <4>1
    <3>7. ASSUME NEW s \in Steps, event_history[e.run][s] # NULL PROVE s < Len(h)
      BY <2>4, <3>4, <3>5, <3>7
    <3>8. Knows(n)'
      <4>1. n.gen <= lease'[n.run].generation BY <2>1, <2>3, <3>1 DEF Knows
      <4>2. n.loaded <= Len(n.history) /\ (n.loaded + 1)..Len(n.history) = {} BY <3>1, <3>4
      <4>3. \A s \in n.acked \cup (0 .. n.loaded - 1) : event_history'[n.run][s] = n.history[s + 1].gen
        BY <2>1, <3>1, <3>6
      <4>4. \A s \in Steps : event_history'[n.run][s] # NULL => s < Len(n.history) /\ ~(s >= n.loaded)
        BY <2>1, <3>1, <3>4, <3>7, StepsAreNat
      <4> QED BY <4>1, <4>2, <4>3, <4>4 DEF Knows
    <3> QED BY <1>7, <2>1, <3>1, <3>2, <3>3, <3>8
  <2>6. CASE ~validateReplayStepDensity(h)
    <3> DEFINE n == [e EXCEPT !.at = "failing"]
    <3>1. /\ n.run = e.run /\ n.gen = e.gen /\ n.worker = e.worker /\ n.acked = {} /\ n.loaded = 0
          /\ n.history = e.history /\ n.at = "failing"
      BY <2>3 DEF Exec
    <3>2. execs' = (execs \ {e}) \cup {n} BY <2>2, <2>6
    <3>3. n \in Exec BY <1>t, <3>2
    <3> HIDE DEF n
    <3>4. Knows(n)' BY Zenon, <2>1, <2>3, <3>1 DEF Knows, Fence, Holds
    <3> QED BY <1>7, <2>1, <3>1, <3>2, <3>3, <3>4
  <2> QED BY <2>5, <2>6
<1>9. ASSUME NEW e \in execs, flushEvent(e) PROVE DirectInv'
  <2>1. PICK wrote \in BOOLEAN, ok \in BOOLEAN :
           /\ wrote => Fence(e)
           /\ ok => wrote
           /\ event_history' = IF wrote THEN Inserted(event_history, {NewEntry(e)}) ELSE event_history
           /\ execs' = (execs \ {e}) \cup {Recorded(e, ok)}
    BY <1>9 DEF flushEvent, ReachesTable
  <2>2. /\ lease' = lease /\ flights' = flights /\ queue' = queue
        /\ e.at = "running" /\ Len(e.history) < MaxSteps
    BY <1>9 DEF flushEvent, flusher
  <2> DEFINE n == Recorded(e, ok)
             len == Len(e.history)
  <2>3. e \in Exec /\ Knows(e) /\ e.acked \subseteq 0 .. len - 1 BY <1>0, <1>t, <1>d DEF TypeOK
  <2>4. e.history \in Seq(Record) /\ e.run \in Runs /\ e.loaded \in Nat /\ e.gen \in Nat
    BY <2>3 DEF Exec, Record
  <2>5. len \in Nat /\ len \in Steps /\ MaxSteps \in Nat BY <2>2, <2>4, StepsAreNat, FlushAssumption DEF ConstantsOK
  <2>6. /\ n.run = e.run /\ n.gen = e.gen /\ n.worker = e.worker /\ n.loaded = e.loaded /\ n.at = "running"
        /\ n.history = Append(e.history, [step |-> len, gen |-> e.gen])
        /\ n.acked = IF ok THEN e.acked \cup {len} ELSE e.acked
        /\ n \in Exec
    BY Zenon, <2>2, <2>3, RecordedIsExec
  <2>7. /\ Len(n.history) = len + 1 /\ n.history[len + 1].gen = e.gen
        /\ \A i \in 1..len : n.history[i] = e.history[i]
    BY <2>4, <2>6
  <2>8. NewEntry(e) \in Entry /\ NewEntry(e).run = e.run /\ NewEntry(e).step = len /\ NewEntry(e).gen = e.gen
    BY <2>4, <2>5 DEF NewEntry, Entry
  <2> HIDE DEF n, len
  <2>9. \A r \in Runs, s \in Steps :
           event_history'[r][s] = IF wrote /\ event_history[r][s] = NULL /\ r = e.run /\ s = len THEN e.gen
                                  ELSE event_history[r][s]
    BY <1>t, <2>1, <2>8, InsertedOne
  <2>10. \A x \in execs : x # e /\ Fence(x) => event_history'[x.run] = event_history[x.run]
    <3> SUFFICES ASSUME NEW x \in execs, x # e, Fence(x) PROVE event_history'[x.run] = event_history[x.run]
      OBVIOUS
    <3>1. x.run \in Runs BY <1>t DEF Exec
    <3>2. wrote => x.run # e.run BY <2>1, OneHolder
    <3>3. \A s \in Steps : event_history'[x.run][s] = event_history[x.run][s] BY <2>9, <3>1, <3>2
    <3>4. event_history'[x.run] \in [Steps -> Nat \cup {NULL}] /\ event_history[x.run] \in [Steps -> Nat \cup {NULL}]
      BY <1>t, <3>1 DEF Table
    <3> QED BY <3>3, <3>4
  <2>11. Knows(n)'
    <3>1. n.gen <= lease'[n.run].generation BY <2>2, <2>3, <2>6 DEF Knows
    <3>2. n.loaded <= Len(n.history) BY <2>3, <2>4, <2>5, <2>6, <2>7 DEF Knows, len
    <3>3. ASSUME NEW i \in (n.loaded + 1)..Len(n.history) PROVE n.history[i].gen = n.gen
      <4>1. CASE i = len + 1 BY <2>6, <2>7, <4>1
      <4>2. CASE i # len + 1
        <5>1. i \in (e.loaded + 1)..len /\ i \in 1..len BY <2>4, <2>5, <2>6, <2>7, <3>3, <4>2
        <5> QED BY <2>3, <2>6, <2>7, <5>1 DEF Knows, len
      <4> QED BY <4>1, <4>2
    <3>4. ASSUME Fence(n)', NEW s \in n.acked \cup (0 .. n.loaded - 1)
          PROVE  event_history'[n.run][s] = n.history[s + 1].gen
      <4>1. Fence(e) BY <2>2, <2>6, <3>4 DEF Fence, Holds
      <4>2. CASE s = len
        <5>1. ok BY <2>3, <2>4, <2>5, <2>6, <3>4, <4>2 DEF Knows, len
        <5>2. event_history[e.run][len] = NULL BY <2>2, <2>3, <2>5, <4>1 DEF Knows, len
        <5> QED BY Zenon, <2>1, <2>4, <2>5, <2>6, <2>7, <2>9, <4>2, <5>1, <5>2
      <4>3. CASE s # len
        <5>1. s \in e.acked \cup (0 .. e.loaded - 1) BY <2>6, <3>4, <4>3
        <5>0. e.loaded <= len BY <2>3 DEF Knows, len
        <5>2. s \in 0 .. len - 1
          <6>1. CASE s \in e.acked BY <2>3, <6>1
          <6>2. CASE s \in 0 .. e.loaded - 1 BY <2>4, <2>5, <5>0, <6>2
          <6> QED BY <5>1, <6>1, <6>2
        <5>3. s \in Steps /\ s + 1 \in 1..len BY <2>5, <5>2 DEF Steps
        <5>4. event_history[e.run][s] = e.history[s + 1].gen BY <2>3, <4>1, <5>1 DEF Knows
        <5> QED BY Zenon, <2>4, <2>6, <2>7, <2>9, <4>3, <5>3, <5>4
      <4> QED BY <4>2, <4>3
    <3>5. ASSUME Fence(n)', NEW s \in Steps, event_history'[n.run][s] # NULL
          PROVE  s < Len(n.history) /\ (s >= n.loaded => event_history'[n.run][s] = n.gen)
      <4>1. Fence(e) BY <2>2, <2>6, <3>5 DEF Fence, Holds
      <4>2. CASE event_history'[e.run][s] # event_history[e.run][s]
        BY SMTT(30), <2>4, <2>5, <2>6, <2>7, <2>9, <4>2
      <4>3. CASE event_history'[e.run][s] = event_history[e.run][s]
        <5>1. s < len /\ (s >= e.loaded => event_history[e.run][s] = e.gen)
          BY <2>2, <2>3, <2>6, <3>5, <4>1, <4>3 DEF Knows, len
        <5> QED BY SMTT(30), <2>5, <2>6, <2>7, <4>3, <5>1, StepsAreNat
      <4> QED BY <4>2, <4>3
    <3> QED BY <3>1, <3>2, <3>3, <3>4, <3>5 DEF Knows
  <2>12. execs' = (execs \ {e}) \cup {n} BY <2>1 DEF n
  <2> QED BY <1>7, <2>2, <2>6, <2>10, <2>11, <2>12
<1>10. ASSUME NEW e \in execs, Flush(e) PROVE DirectInv'
  BY <1>10 DEF Flush
<1>11. ASSUME NEW e \in execs, NEW settled \in BOOLEAN, NEW t \in Table, GiveUp(e, settled, t),
              \A r \in Runs : r # e.run => t[r] = event_history[r]
       PROVE  DirectInv'
  <2>1. /\ lease' = [lease EXCEPT ![e.run].assigned_to = NULL, ![e.run].settled = settled]
        /\ event_history' = t /\ execs' = execs \ {e} /\ flights' = flights /\ queue' = queue
    BY <1>11 DEF GiveUp, flusher
  <2>2. e.run \in Runs /\ lease[e.run] \in Lease BY <1>t DEF Exec
  <2>3. lease'[e.run].generation = lease[e.run].generation /\ lease'[e.run].assigned_to = NULL
    BY <1>t, <2>1, <2>2 DEF Lease
  <2>4. ASSUME NEW x \in execs PROVE Knows(x)'
    <3>1. x \in Exec /\ Knows(x) /\ x.run \in Runs /\ x.worker \in Workers /\ lease[x.run] \in Lease
      BY Zenon, <1>t, <1>d DEF Exec
    <3>2. CASE x.run = e.run
      <4>1. ~Fence(x)' BY <1>n, <2>3, <3>1, <3>2 DEF Fence, Holds
      <4>2. lease'[x.run].generation >= lease[x.run].generation BY <2>2, <2>3, <3>2 DEF Lease
      <4> QED BY <1>t, <3>1, <4>1, <4>2, KnowsKept
    <3>3. CASE x.run # e.run
      <4>1. lease'[x.run] = lease[x.run] BY <1>t, <2>1, <3>1, <3>3
      <4>2. Fence(x)' => Fence(x) BY <4>1 DEF Fence, Holds
      <4>3. lease'[x.run].generation >= lease[x.run].generation BY <3>1, <4>1 DEF Lease
      <4> QED BY <1>t, <1>11, <2>1, <3>1, <3>3, <4>2, <4>3, KnowsKept
    <3> QED BY <3>2, <3>3
  <2> QED BY <1>d, <1>w, <2>1, <2>4 DEF DirectInv
<1>12. ASSUME NEW e \in execs, FinalizeSuspend(e) PROVE DirectInv'
  <2> DEFINE t == Inserted(event_history, EntriesOf(e))
  <2>1. GiveUp(e, FALSE, t) BY Zenon, <1>12 DEF FinalizeSuspend, appendEventsInTx
  <2>2. t \in Table BY <1>t, <2>1 DEF GiveUp
  <2>3. e \in Exec /\ Knows(e) /\ \A i \in 1..Len(e.history) : e.history[i].step = i - 1
    BY <1>0, <1>t, <1>d DEF StepInv, ReplayKeepsSteps
  <2>4. ASSUME NEW r \in Runs, r # e.run PROVE t[r] = event_history[r]
    <3>1. \A s \in Steps : t[r][s] = event_history[r][s] BY <1>t, <2>3, <2>4, InsertedOwn
    <3>2. t[r] \in [Steps -> Nat \cup {NULL}] /\ event_history[r] \in [Steps -> Nat \cup {NULL}]
      BY <1>t, <2>2 DEF Table
    <3> HIDE DEF t
    <3> QED BY <3>1, <3>2
  <2> HIDE DEF t
  <2> QED BY Zenon, <1>11, <2>1, <2>2, <2>4
<1>13. ASSUME NEW e \in execs, FinalizeDone(e) PROVE DirectInv'
  <2>1. GiveUp(e, TRUE, Cleared(event_history, e.run)) BY Zenon, <1>13 DEF FinalizeDone
  <2>2. Cleared(event_history, e.run) \in Table BY <1>t, <2>1 DEF GiveUp
  <2>3. \A r \in Runs : r # e.run => Cleared(event_history, e.run)[r] = event_history[r]
    BY <1>t DEF Cleared, Table
  <2> QED BY Zenon, <1>11, <2>1, <2>2, <2>3
<1>14. ASSUME NEW e \in execs, FailWorkflow(e) PROVE DirectInv'
  BY Zenon, <1>11, <1>14, <1>t DEF FailWorkflow
<1>15. CASE UNCHANGED vars
  BY <1>3, <1>15, <1>d DEF vars
<1> QED
  BY Zenon, <1>1, <1>2, <1>4, <1>5, <1>6, <1>8, <1>9, <1>10, <1>12, <1>13, <1>14, <1>15, <1>d DEF Next

LEMMA DirectInvariant == ~BatchEnabled => (Spec => []DirectInv)
<1> SUFFICES ASSUME ~BatchEnabled PROVE Spec => []DirectInv
  OBVIOUS
<1>1. DirectInv /\ [Next]_vars => DirectInv'
  BY DirectInvNext
<1> QED
  BY DirectInvInit, <1>1, PTL DEF Spec

(* Without a flusher, the owner's memory and the table agree on every step *)
(* it replayed and every step it was told is persisted.                    *)
THEOREM OwnerAgrees == ~BatchEnabled => (Spec => []OwnerAgreesWithTable)
<1> SUFFICES ASSUME ~BatchEnabled PROVE Spec => []OwnerAgreesWithTable
  OBVIOUS
<1>1. DirectInv => OwnerAgreesWithTable
  BY DEF DirectInv, Knows, OwnerAgreesWithTable
<1> QED
  BY DirectInvariant, <1>1, PTL

(* What the table looks like after a session's last write. *)
LEMMA SuspendWrites ==
    ASSUME DirectInv, NEW e \in execs, FinalizeSuspend(e), NEW r \in Runs, NEW s \in Steps
    PROVE  event_history'[r][s] =
              IF event_history[r][s] = NULL /\ r = e.run /\ s \in e.loaded .. Len(e.history) - 1
              THEN e.gen ELSE event_history[r][s]
<1>1. event_history' = Inserted(event_history, EntriesOf(e))
  BY DEF FinalizeSuspend, GiveUp, appendEventsInTx
<1>2. event_history \in Table /\ e \in Exec /\ Knows(e) /\ \A i \in 1..Len(e.history) : e.history[i].step = i - 1
  BY DEF DirectInv, StepInv, TypeOK, ReplayKeepsSteps, Table
<1> QED BY <1>1, <1>2, InsertedOwn

(* Without a flusher, a write made under a lost fence does not become a    *)
(* row: insertEventSQL and the transaction that ends a segment carry the   *)
(* fence, so what appears was written by the run's present owner.          *)
THEOREM WritesAreFenced == ~BatchEnabled => (Spec => WriteNeedsFence)
<1> SUFFICES ASSUME ~BatchEnabled PROVE Spec => WriteNeedsFence
  OBVIOUS
<1>1. ASSUME DirectInv, [Next]_vars PROVE [WriteNeedsFenceStep]_vars
  <2> SUFFICES ASSUME NEW r \in Runs, NEW s \in Steps,
                      event_history'[r][s] # event_history[r][s], event_history'[r][s] # NULL
               PROVE  lease[r].assigned_to # NULL /\ event_history'[r][s] = lease[r].generation
    BY DEF WriteNeedsFenceStep
  <2>0. /\ execs \subseteq Exec /\ event_history \in Table /\ flights = {} /\ NULL \notin Workers
        /\ \A e \in execs : Fence(e) => lease[e.run].assigned_to # NULL /\ e.gen = lease[e.run].generation
    BY Zenon, <1>1, FlushAssumption DEF DirectInv, StepInv, TypeOK, Table, ConstantsOK, Fence, Holds, Exec
  <2>1. ASSUME NEW e \in execs, flushEvent(e) PROVE Fence(e) /\ r = e.run /\ event_history'[r][s] = e.gen
    <3>1. event_history' = Inserted(event_history, {NewEntry(e)}) /\ Fence(e) /\ Len(e.history) < MaxSteps
      BY Zenon, <2>1 DEF flushEvent, ReachesTable
    <3>2. NewEntry(e) \in Entry /\ NewEntry(e).run = e.run /\ NewEntry(e).gen = e.gen
      <4>1. e \in Exec /\ e.history \in Seq(Record) BY Zenon, <2>0 DEF Exec, Record
      <4>2. Len(e.history) \in Steps BY <3>1, <4>1, StepsAreNat
      <4> QED BY <4>1, <4>2 DEF NewEntry, Entry, Exec
    <3> QED BY <2>0, <3>1, <3>2, InsertedOne
  <2>2. ASSUME NEW e \in execs, FinalizeSuspend(e) PROVE Fence(e) /\ r = e.run /\ event_history'[r][s] = e.gen
    <3>1. Fence(e) BY <2>2 DEF FinalizeSuspend, GiveUp
    <3> QED BY <1>1, <2>2, <3>1, SuspendWrites
  <2>3. ASSUME NEW e \in execs, FinalizeDone(e) PROVE FALSE
    <3>1. event_history' = [event_history EXCEPT ![e.run] = [q \in Steps |-> NULL]]
      BY <2>3 DEF FinalizeDone, GiveUp, Cleared
    <3> QED BY <2>0, <3>1 DEF Table
  <2>4. CASE \E e \in execs : flushEvent(e) \/ FinalizeSuspend(e) \/ FinalizeDone(e)
    BY <2>0, <2>1, <2>2, <2>3, <2>4
  <2>5. CASE ~\E e \in execs : flushEvent(e) \/ FinalizeSuspend(e) \/ FinalizeDone(e)
    <3>1. event_history' = event_history
      BY Zenon, <1>1, <2>0, <2>5 DEF Next, vars, flusher, Claim, LoseClaim, WorkerDies, TimerFires, onTimer, Shutdown,
                              LoadHistory, Flush, ExecEnds, FailWorkflow, GiveUp
    <3> QED BY <3>1
  <2> QED BY <2>4, <2>5
<1> QED
  BY DirectInvariant, <1>1, PTL DEF Spec, WriteNeedsFence

(* Without a flusher, a suspended segment leaves all of its history        *)
(* behind, also the steps whose own flush had failed.                      *)
THEOREM SuspensionIsWhole == ~BatchEnabled => (Spec => SuspendLeavesWholeHistory)
<1> SUFFICES ASSUME ~BatchEnabled PROVE Spec => SuspendLeavesWholeHistory
  OBVIOUS
<1>1. ASSUME DirectInv PROVE [SuspendLeavesWholeHistoryStep]_vars
  <2> SUFFICES ASSUME NEW e \in execs, FinalizeSuspend(e), NEW i \in 1..Len(e.history)
               PROVE  event_history'[e.run][i - 1] = e.history[i].gen
    BY DEF SuspendLeavesWholeHistoryStep
  <2>1. e \in Exec /\ Knows(e) /\ Fence(e) /\ e.at = "running" /\ e.history[i].step = i - 1
    BY <1>1 DEF DirectInv, StepInv, TypeOK, ReplayKeepsSteps, FinalizeSuspend, GiveUp
  <2>2. e.history \in Seq(Record) /\ e.run \in Runs /\ e.loaded \in Nat BY <2>1 DEF Exec, Record
  <2>3. i - 1 \in Steps
    <3>1. e.history[i] \in Record BY <2>2
    <3> QED BY <2>1, <3>1 DEF Record
  <2>4. CASE i <= e.loaded
    <3>1. i - 1 \in 0 .. e.loaded - 1 /\ (i - 1) + 1 = i BY <2>2, <2>4
    <3>2. event_history[e.run][i - 1] = e.history[i].gen BY <2>1, <3>1 DEF Knows
    <3>3. ~(i - 1 \in e.loaded .. Len(e.history) - 1) BY <2>2, <2>4
    <3> QED BY <1>1, <2>2, <2>3, <3>2, <3>3, SuspendWrites
  <2>5. CASE ~(i <= e.loaded)
    <3>1. i \in (e.loaded + 1)..Len(e.history) /\ i - 1 \in e.loaded .. Len(e.history) - 1 /\ i - 1 >= e.loaded
      BY <2>2, <2>5
    <3>2. e.history[i].gen = e.gen BY <2>1, <3>1 DEF Knows
    <3>3. event_history[e.run][i - 1] # NULL => event_history[e.run][i - 1] = e.gen
      BY <2>1, <2>3, <3>1 DEF Knows
    <3> QED BY <1>1, <2>2, <2>3, <3>1, <3>2, <3>3, SuspendWrites
  <2> QED BY <2>4, <2>5
<1> QED
  BY DirectInvariant, <1>1, PTL DEF Spec, SuspendLeavesWholeHistory
-----------------------------------------------------------------------------
(* Both modes: what a session was told is persisted has a row. *)

Same(x, y) == x.run = y.run /\ x.gen = y.gen

(* An entry under way at worker w is the last step of a session that waits *)
(* there for its answer, if that session is still alive.                   *)
Pending(w, x) ==
    /\ x.gen <= lease[x.run].generation
    /\ \A e \in execs : Same(e, x) =>
          e.worker = w /\ e.at = "waiting" /\ x.step = Len(e.history) - 1

(* The entries of one execution are in one queue or in one batch. *)
OnePlace(q, fs) ==
    /\ \A v, w \in Workers : \A x \in q[v], y \in q[w] : Same(x, y) => v = w
    /\ \A w \in Workers, f \in fs : \A x \in q[w], y \in f.entries : ~Same(x, y)
    /\ \A f, g \in fs : \A x \in f.entries, y \in g.entries : Same(x, y) => f = g

BatchInv ==
    /\ StepInv
    /\ AnsweredMeansStored
    /\ \A e \in execs : e.gen <= lease[e.run].generation
    /\ \A e, f \in execs : Same(e, f) => e = f
    /\ \A w \in Workers : \A x \in queue[w] : Pending(w, x)
    /\ \A f \in flights : \A x \in f.entries : Pending(f.worker, x)
    /\ OnePlace(queue, flights)

LEMMA BatchInvInit == Init => BatchInv
<1> SUFFICES ASSUME Init PROVE BatchInv
  OBVIOUS
<1>1. execs = {} /\ flights = {} BY DEF Init
<1>2. \A w \in Workers : queue[w] = {} BY DEF Init
<1> QED BY <1>1, <1>2, StepInvInit DEF BatchInv, AnsweredMeansStored, OnePlace

(* No row that is there is lost by an INSERT, and every entry has one then. *)
LEMMA InsertedStays ==
    ASSUME NEW t \in Table, NEW entries \in SUBSET Entry
    PROVE  /\ \A r \in Runs, s \in Steps : t[r][s] # NULL => Inserted(t, entries)[r][s] # NULL
           /\ \A x \in entries : Inserted(t, entries)[x.run][x.step] # NULL
<1> DEFINE new(r, s) == {x \in entries : x.run = r /\ x.step = s}
<1>1. ASSUME NEW r \in Runs, NEW s \in Steps
      PROVE  Inserted(t, entries)[r][s] =
                IF t[r][s] = NULL /\ new(r, s) # {} THEN (CHOOSE x \in new(r, s) : TRUE).gen ELSE t[r][s]
  BY DEF Inserted
<1>2. ASSUME NEW x \in entries PROVE Inserted(t, entries)[x.run][x.step] # NULL
  <2>1. x.run \in Runs /\ x.step \in Steps /\ x \in new(x.run, x.step) BY DEF Entry
  <2>2. PICK y \in entries : y = CHOOSE z \in new(x.run, x.step) : TRUE BY <2>1
  <2>3. y.gen # NULL BY FlushAssumption DEF ConstantsOK, Entry
  <2> QED BY <1>1, <2>1, <2>2, <2>3
<1>3. ASSUME NEW r \in Runs, NEW s \in Steps, t[r][s] # NULL PROVE Inserted(t, entries)[r][s] # NULL
  BY Zenon, <1>1, <1>3
<1> QED BY <1>2, <1>3

(* Steps that only end executions, drop entries or take fences away. *)
LEMMA FewerIsFine ==
    ASSUME BatchInv, StepInv', execs' \subseteq execs, flights' \subseteq flights,
           \A w \in Workers : queue'[w] \subseteq queue[w],
           \A r \in Runs : lease[r].generation <= lease'[r].generation,
           \A x \in execs' : Fence(x)' => /\ Fence(x)
                                          /\ \A s \in Steps : event_history[x.run][s] # NULL =>
                                                event_history'[x.run][s] # NULL
    PROVE  BatchInv'
<1>t. /\ execs \subseteq Exec /\ flights \subseteq Flight /\ queue \in [Workers -> SUBSET Entry]
      /\ lease \in [Runs -> Lease] /\ lease' \in [Runs -> Lease]
  BY DEF BatchInv, StepInv, TypeOK
<1>g. ASSUME NEW r \in Runs, NEW g \in Nat, g <= lease[r].generation PROVE g <= lease'[r].generation
  BY <1>t, <1>g DEF Lease
<1>1. AnsweredMeansStored'
  <2> SUFFICES ASSUME NEW x \in execs', Fence(x)', NEW s \in x.acked PROVE event_history'[x.run][s] # NULL
    BY DEF AnsweredMeansStored, Fence, Holds
  <2>1. x \in execs /\ s \in Steps BY <1>t DEF Exec
  <2> QED BY <2>1 DEF BatchInv, AnsweredMeansStored
<1>2. ASSUME NEW x \in execs' PROVE x.gen <= lease'[x.run].generation
  <2>1. x.run \in Runs /\ x.gen \in Nat /\ x.gen <= lease[x.run].generation BY Zenon, <1>t DEF BatchInv, Exec
  <2> QED BY Zenon, <1>g, <2>1
<1>3. \A w, x : x \in Entry /\ Pending(w, x) => Pending(w, x)'
  BY <1>g DEF Pending, Entry
<1>4. \A w \in Workers : \A x \in queue'[w] : Pending(w, x)'
  BY <1>t, <1>3 DEF BatchInv
<1>5. \A f \in flights' : \A x \in f.entries : Pending(f.worker, x)'
  BY <1>t, <1>3 DEF BatchInv, Flight
<1>6. OnePlace(queue', flights') BY Zenon DEF BatchInv, OnePlace
<1>7. \A e, f \in execs' : Same(e, f) => e = f BY DEF BatchInv
<1> QED BY <1>1, <1>2, <1>4, <1>5, <1>6, <1>7 DEF BatchInv, OnePlace

(* An execution that does not wait goes on. *)
LEMMA OneGoesOn ==
    ASSUME BatchInv, StepInv', NEW e \in execs, NEW n, e.at # "waiting",
           Same(n, e), n.worker = e.worker, execs' = (execs \ {e}) \cup {n},
           lease' = lease, queue' = queue, flights' = flights,
           \A r \in Runs, s \in Steps : event_history[r][s] # NULL => event_history'[r][s] # NULL,
           Fence(e) => \A s \in n.acked : event_history'[e.run][s] # NULL
    PROVE  BatchInv'
<1>t. execs \subseteq Exec BY DEF BatchInv, StepInv, TypeOK
<1>1. AnsweredMeansStored'
  <2> SUFFICES ASSUME NEW x \in execs', Fence(x)', NEW s \in x.acked PROVE event_history'[x.run][s] # NULL
    BY DEF AnsweredMeansStored, Fence, Holds
  <2>1. CASE x = n
    <3>1. Fence(e) BY <2>1 DEF Fence, Holds, Same
    <3> QED BY <2>1, <3>1 DEF Same
  <2>2. CASE x \in execs
    <3>1. Fence(x) BY DEF Fence, Holds
    <3>2. event_history[x.run][s] # NULL BY <2>2, <3>1 DEF BatchInv, AnsweredMeansStored
    <3>3. x.run \in Runs /\ s \in Steps BY <1>t, <2>2 DEF Exec
    <3> QED BY <3>2, <3>3
  <2> QED BY <2>1, <2>2
<1>2. \A x \in execs' : x.gen <= lease'[x.run].generation BY DEF BatchInv, Same
<1>3. \A w, x : Pending(w, x) => Pending(w, x)'
  <2> SUFFICES ASSUME NEW w, NEW x, Pending(w, x) PROVE Pending(w, x)'
    OBVIOUS
  <2>1. ~Same(e, x) BY DEF Pending
  <2>2. ~Same(n, x) BY <2>1 DEF Same
  <2> QED BY <2>2 DEF Pending
<1>4. \A w \in Workers : \A x \in queue'[w] : Pending(w, x)' BY <1>3 DEF BatchInv
<1>5. \A f \in flights' : \A x \in f.entries : Pending(f.worker, x)' BY <1>3 DEF BatchInv
<1>6. ASSUME NEW x \in execs', NEW y \in execs', Same(x, y) PROVE x = y
  <2>1. \A u \in execs \ {e} : ~Same(u, n) /\ ~Same(n, u) BY Zenon DEF BatchInv, Same
  <2>2. CASE x = n \/ y = n BY Zenon, <1>6, <2>1, <2>2
  <2>3. CASE x \in execs /\ y \in execs BY Zenon, <1>6, <2>3 DEF BatchInv
  <2> QED BY Zenon, <2>2, <2>3
<1> QED BY Zenon, <1>1, <1>2, <1>4, <1>5, <1>6 DEF BatchInv, OnePlace

(* A queue that becomes a batch keeps the entries where they are. *)
LEMMA TakenIsOnePlace ==
    ASSUME NEW q \in [Workers -> SUBSET Entry], NEW fs, NEW w \in Workers, OnePlace(q, fs)
    PROVE  OnePlace([q EXCEPT ![w] = {}], fs \cup {[worker |-> w, entries |-> q[w], checked |-> FALSE]})
<1> DEFINE q1 == [q EXCEPT ![w] = {}]
           new == [worker |-> w, entries |-> q[w], checked |-> FALSE]
<1>1. \A v \in Workers : q1[v] \subseteq q[v] /\ (v = w => q1[v] = {}) OBVIOUS
<1>2. new.entries = q[w] OBVIOUS
<1> HIDE DEF q1, new
<1>3. ASSUME NEW v \in Workers, NEW u \in Workers, NEW x \in q1[v], NEW y \in q1[u], Same(x, y) PROVE v = u
  BY Zenon, <1>1, <1>3 DEF OnePlace
<1>4. ASSUME NEW v \in Workers, NEW f \in fs \cup {new}, NEW x \in q1[v], NEW y \in f.entries PROVE ~Same(x, y)
  <2>1. CASE f \in fs BY Zenon, <1>1, <2>1 DEF OnePlace
  <2>2. CASE f = new
    <3>1. x \in q[v] /\ y \in q[w] /\ v # w BY Zenon, <1>1, <1>2, <2>2
    <3> QED BY Zenon, <3>1 DEF OnePlace
  <2> QED BY Zenon, <2>1, <2>2
<1>5. ASSUME NEW f \in fs \cup {new}, NEW g \in fs \cup {new}, NEW x \in f.entries, NEW y \in g.entries, Same(x, y)
      PROVE  f = g
  <2>1. ASSUME NEW h \in fs, NEW a \in h.entries, NEW b \in new.entries PROVE ~Same(a, b) /\ ~Same(b, a)
    <3>1. ~Same(b, a) BY Zenon, <1>2 DEF OnePlace
    <3> QED BY Zenon, <3>1 DEF Same
  <2>2. CASE f \in fs /\ g \in fs BY Zenon, <1>5, <2>2 DEF OnePlace
  <2>3. CASE f \in fs /\ g = new BY Zenon, <1>5, <2>1, <2>3
  <2>4. CASE f = new /\ g \in fs BY Zenon, <1>5, <2>1, <2>4
  <2> QED BY Zenon, <2>2, <2>3, <2>4
<1> QED BY Zenon, <1>3, <1>4, <1>5 DEF OnePlace, q1, new

LEMMA TakenIsPending ==
    ASSUME NEW q \in [Workers -> SUBSET Entry], NEW fs, NEW w \in Workers,
           queue' = [q EXCEPT ![w] = {}],
           flights' = fs \cup {[worker |-> w, entries |-> q[w], checked |-> FALSE]},
           \A v \in Workers : \A x \in q[v] : Pending(v, x)',
           \A f \in fs : \A x \in f.entries : Pending(f.worker, x)'
    PROVE  /\ \A v \in Workers : \A x \in queue'[v] : Pending(v, x)'
           /\ \A f \in flights' : \A x \in f.entries : Pending(f.worker, x)'
<1> DEFINE new == [worker |-> w, entries |-> q[w], checked |-> FALSE]
<1>1. \A v \in Workers : queue'[v] \subseteq q[v] OBVIOUS
<1>2. new.entries = q[w] /\ new.worker = w OBVIOUS
<1> HIDE DEF new
<1>3. ASSUME NEW f \in flights', NEW x \in f.entries PROVE Pending(f.worker, x)'
  <2>1. CASE f \in fs BY Zenon, <2>1
  <2>2. CASE f = new BY Zenon, <1>2, <2>2
  <2> QED BY Zenon, <2>1, <2>2 DEF new
<1>4. ASSUME NEW v \in Workers, NEW x \in queue'[v] PROVE Pending(v, x)' BY Zenon, <1>1
<1> QED BY Zenon, <1>3, <1>4

(* A queue leaves as a batch and nothing else happens. *)
LEMMA TakingIsFine ==
    ASSUME BatchInv, StepInv', NEW w \in Workers, TakeBatch(w, queue[w]), UNCHANGED <<lease, event_history, execs>>
    PROVE  BatchInv'
<1>1. queue \in [Workers -> SUBSET Entry] BY DEF BatchInv, StepInv, TypeOK
<1>2. OnePlace(queue', flights') BY Zenon, <1>1, TakenIsOnePlace DEF BatchInv, TakeBatch
<1>3. \A v, x : Pending(v, x)' <=> Pending(v, x) BY Zenon DEF Pending
<1>4. /\ \A v \in Workers : \A x \in queue'[v] : Pending(v, x)'
      /\ \A f \in flights' : \A x \in f.entries : Pending(f.worker, x)'
  <2>1. \A v \in Workers : \A x \in queue[v] : Pending(v, x)' BY Zenon, <1>3 DEF BatchInv
  <2>2. \A f \in flights : \A x \in f.entries : Pending(f.worker, x)' BY Zenon, <1>3 DEF BatchInv
  <2> QED BY Zenon, <1>1, <2>1, <2>2, TakenIsPending DEF TakeBatch
<1>5. AnsweredMeansStored' BY Zenon DEF BatchInv, AnsweredMeansStored, Fence, Holds
<1> QED BY Zenon, <1>2, <1>4, <1>5 DEF BatchInv

(* An entry that is not answered stays pending when others are. *)
LEMMA AnswersReachTheirOwn ==
    ASSUME BatchInv, NEW w, NEW entries, NEW ok \in BOOLEAN, execs' = Answered(w, entries, ok), lease' = lease,
           NEW v, NEW x, Pending(v, x), \A y \in entries : ~Same(x, y)
    PROVE  Pending(v, x)'
<1> SUFFICES ASSUME NEW n \in execs', Same(n, x)
             PROVE  n.worker = v /\ n.at = "waiting" /\ x.step = Len(n.history) - 1
  BY DEF Pending
<1> DEFINE hit(e) == e.worker = w /\ e.at = "waiting" /\ \E y \in entries : y.run = e.run /\ y.gen = e.gen
<1>1. PICK e \in execs :
        n = IF hit(e) THEN [e EXCEPT !.at = "running", !.acked = IF ok THEN @ \cup {Len(e.history) - 1} ELSE @] ELSE e
  BY Zenon DEF Answered
<1>2. e \in Exec BY Zenon DEF BatchInv, StepInv, TypeOK
<1>3. n.run = e.run /\ n.gen = e.gen
  <2>1. CASE hit(e) BY <1>1, <1>2, <2>1 DEF Exec
  <2>2. CASE ~hit(e) BY <1>1, <2>2
  <2> QED BY <2>1, <2>2
<1>4. ~hit(e) BY Zenon, <1>3 DEF Same
<1>5. n = e BY Zenon, <1>1, <1>4
<1> QED BY Zenon, <1>5 DEF Pending

(* The answers of a batch: nobody else hears of it, and who is told nil    *)
(* has its row.                                                            *)
LEMMA AnswersAreFine ==
    ASSUME BatchInv, StepInv', NEW f \in flights, NEW entries \in SUBSET f.entries, NEW ok \in BOOLEAN,
           execs' = Answered(f.worker, entries, ok), lease' = lease, queue' = queue,
           NEW k, flights' \subseteq (flights \ {f}) \cup {k}, k.worker = f.worker, k.entries \subseteq f.entries,
           \A x \in k.entries, y \in entries : ~Same(x, y),
           \A r \in Runs, s \in Steps : event_history[r][s] # NULL => event_history'[r][s] # NULL,
           ok => \A x \in entries : event_history'[x.run][x.step] # NULL
    PROVE  BatchInv'
<1>t. execs \subseteq Exec /\ \A w \in Workers : queue[w] \subseteq Entry BY DEF BatchInv, StepInv, TypeOK
<1> DEFINE hit(e) == e.worker = f.worker /\ e.at = "waiting" /\ \E y \in entries : y.run = e.run /\ y.gen = e.gen
           ans(e) == IF hit(e) THEN [e EXCEPT !.at = "running", !.acked = IF ok THEN @ \cup {Len(e.history) - 1} ELSE @]
                     ELSE e
<1>1. \A n \in execs' : \E e \in execs : n = ans(e) BY Zenon DEF Answered
<1>2. ASSUME NEW e \in execs
      PROVE  /\ Same(ans(e), e) /\ ans(e).worker = e.worker
             /\ ans(e).acked = IF ok /\ hit(e) THEN e.acked \cup {Len(e.history) - 1} ELSE e.acked
  <2>1. e \in Exec BY <1>t
  <2>2. CASE hit(e) BY <2>1, <2>2 DEF Exec, Same
  <2>3. CASE ~hit(e) BY <2>3 DEF Same
  <2> QED BY <2>2, <2>3
<1>3. ASSUME NEW e \in execs, hit(e), ok PROVE event_history'[e.run][Len(e.history) - 1] # NULL
  <2>1. PICK y \in entries : y.run = e.run /\ y.gen = e.gen BY Zenon, <1>3
  <2>2. Pending(f.worker, y) BY Zenon, <2>1 DEF BatchInv
  <2>3. y.step = Len(e.history) - 1 BY Zenon, <2>1, <2>2 DEF Pending, Same
  <2> QED BY Zenon, <1>3, <2>1, <2>3
<1> HIDE DEF hit, ans
<1>4. AnsweredMeansStored'
  <2> SUFFICES ASSUME NEW n \in execs', Fence(n)', NEW s \in n.acked PROVE event_history'[n.run][s] # NULL
    BY Zenon DEF AnsweredMeansStored, Fence, Holds
  <2>1. PICK e \in execs : n = ans(e) BY Zenon, <1>1
  <2>2. Fence(e) /\ n.run = e.run BY Zenon, <1>2, <2>1 DEF Fence, Holds, Same
  <2>3. CASE s \in e.acked
    <3>1. event_history[e.run][s] # NULL BY Zenon, <2>2, <2>3 DEF BatchInv, AnsweredMeansStored
    <3>2. e.run \in Runs /\ s \in Steps BY <1>t, <2>3 DEF Exec
    <3> QED BY Zenon, <2>2, <3>1, <3>2
  <2>4. CASE s \notin e.acked
    <3>1. ok /\ hit(e) /\ s = Len(e.history) - 1 BY Zenon, <1>2, <2>1, <2>4
    <3> QED BY Zenon, <1>3, <2>2, <3>1
  <2> QED BY <2>3, <2>4
<1>5. ASSUME NEW n \in execs', NEW m \in execs' PROVE n.gen <= lease'[n.run].generation /\ (Same(n, m) => n = m)
  <2>1. PICK e \in execs : n = ans(e) BY Zenon, <1>1
  <2>2. PICK d \in execs : m = ans(d) BY Zenon, <1>1
  <2>3. Same(n, e) /\ Same(m, d) BY Zenon, <1>2, <2>1, <2>2
  <2>4. Same(n, m) => e = d BY Zenon, <2>3 DEF BatchInv, Same
  <2> QED BY Zenon, <2>1, <2>2, <2>3, <2>4 DEF BatchInv, Same
<1>6. ASSUME NEW w \in Workers, NEW x \in queue'[w] PROVE Pending(w, x)'
  <2>1. Pending(w, x) /\ \A y \in entries : ~Same(x, y) BY Zenon DEF BatchInv, OnePlace
  <2> QED BY Zenon, <2>1, AnswersReachTheirOwn
<1>7. ASSUME NEW g \in flights', NEW x \in g.entries PROVE Pending(g.worker, x)'
  <2>1. CASE g = k
    <3>1. Pending(f.worker, x) BY Zenon, <2>1 DEF BatchInv
    <3> QED BY Zenon, <2>1, <3>1, AnswersReachTheirOwn
  <2>2. CASE g \in flights \ {f}
    <3>1. Pending(g.worker, x) BY Zenon, <2>2 DEF BatchInv
    <3>2. \A y \in f.entries : ~Same(x, y) BY Zenon, <2>2 DEF BatchInv, OnePlace
    <3>3. \A y \in entries : ~Same(x, y) BY Zenon, <3>2
    <3> QED BY Zenon, <3>1, <3>3, AnswersReachTheirOwn
  <2> QED BY Zenon, <2>1, <2>2
<1>8. OnePlace(queue', flights')
  <2>1. ASSUME NEW w \in Workers, NEW g \in flights', NEW x \in queue'[w], NEW y \in g.entries PROVE ~Same(x, y)
    <3>1. \E h \in flights : y \in h.entries BY Zenon
    <3> QED BY Zenon, <3>1 DEF BatchInv, OnePlace
  <2>2. ASSUME NEW g \in flights', NEW h \in flights', NEW x \in g.entries, NEW y \in h.entries, Same(x, y) PROVE g = h
    <3>1. CASE g = k /\ h = k BY <3>1
    <3>2. CASE g = k /\ h \in flights \ {f} BY Zenon, <2>2, <3>2 DEF BatchInv, OnePlace
    <3>3. CASE g \in flights \ {f} /\ h = k BY Zenon, <2>2, <3>3 DEF BatchInv, OnePlace
    <3>4. CASE g \in flights \ {f} /\ h \in flights \ {f} BY Zenon, <2>2, <3>4 DEF BatchInv, OnePlace
    <3> QED BY Zenon, <3>1, <3>2, <3>3, <3>4
  <2>3. \A v, w \in Workers : \A x \in queue'[v], y \in queue'[w] : Same(x, y) => v = w
    BY Zenon DEF BatchInv, OnePlace
  <2> QED BY Zenon, <2>1, <2>2, <2>3 DEF OnePlace
<1> QED BY Zenon, <1>4, <1>5, <1>6, <1>7, <1>8 DEF BatchInv

LEMMA BatchInvNext == ASSUME BatchInv, [Next]_vars PROVE BatchInv'
<1>0. StepInv /\ StepInv' /\ TypeOK /\ TypeOK' BY Zenon, StepInvNext DEF BatchInv, StepInv
<1>t. /\ execs \subseteq Exec /\ lease \in [Runs -> Lease] /\ event_history \in Table
      /\ queue \in [Workers -> SUBSET Entry] /\ flights \subseteq Flight
      /\ execs' \subseteq Exec /\ lease' \in [Runs -> Lease] /\ event_history' \in Table
  BY Zenon, <1>0 DEF TypeOK, Table
<1>n. NULL \notin Workers BY FlushAssumption DEF ConstantsOK
<1>k. ASSUME NEW r \in Runs PROVE lease[r] \in Lease /\ lease[r].generation \in Nat
  BY <1>t DEF Lease
<1>1. ASSUME NEW w \in Workers, NEW r \in Runs, Claim(w, r) PROVE BatchInv'
  <2>n. PICK n : n = [worker |-> w, run |-> r, gen |-> lease[r].generation + 1,
                      at |-> "claimed", history |-> <<>>, loaded |-> 0, acked |-> {}]
    BY Zenon
  <2>1. /\ lease' = [lease EXCEPT ![r].assigned_to = w, ![r].generation = @ + 1]
        /\ execs' = execs \cup {n} /\ event_history' = event_history
        /\ flights' = flights /\ queue' = queue
    BY Zenon, <1>1, <2>n DEF Claim, flusher
  <2>2. /\ lease'[r].generation = lease[r].generation + 1
        /\ \A u \in Runs \ {r} : lease'[u] = lease[u]
        /\ n.run = r /\ n.gen = lease[r].generation + 1 /\ n.acked = {}
    BY <1>t, <1>k, <2>n, <2>1 DEF Lease
  <2>3. ASSUME NEW u \in Runs, NEW g \in Nat, g <= lease[u].generation
        PROVE  g <= lease'[u].generation /\ (u = r => g # n.gen)
    BY <1>k, <2>2, <2>3
  <2>4. AnsweredMeansStored'
    <3> SUFFICES ASSUME NEW x \in execs', Fence(x)', NEW s \in x.acked PROVE event_history[x.run][s] # NULL
      BY Zenon, <2>1 DEF AnsweredMeansStored, Fence, Holds
    <3>1. x \in execs BY Zenon, <2>1, <2>2
    <3>2. x.run \in Runs /\ x.gen \in Nat /\ x.gen <= lease[x.run].generation BY Zenon, <1>t, <3>1 DEF BatchInv, Exec
    <3>3. x.run # r
      <4>1. x.gen = lease'[x.run].generation BY DEF Fence, Holds
      <4> QED BY <2>2, <2>3, <3>2, <4>1
    <3>4. Fence(x) BY <2>2, <3>2, <3>3 DEF Fence, Holds
    <3> QED BY Zenon, <3>1, <3>4 DEF BatchInv, AnsweredMeansStored
  <2>5. ASSUME NEW x \in execs PROVE x.gen <= lease'[x.run].generation /\ ~Same(x, n) /\ ~Same(n, x)
    <3>1. x.run \in Runs /\ x.gen \in Nat /\ x.gen <= lease[x.run].generation BY Zenon, <1>t DEF BatchInv, Exec
    <3> QED BY Zenon, <2>2, <2>3, <3>1 DEF Same
  <2>6. n.gen <= lease'[n.run].generation BY <1>k, <2>2
  <2>7. ASSUME NEW x \in execs', NEW y \in execs', Same(x, y) PROVE x = y
    BY Zenon, <2>1, <2>5, <2>7 DEF BatchInv
  <2>8. ASSUME NEW v, NEW x \in Entry, Pending(v, x) PROVE Pending(v, x)'
    <3>1. x.run \in Runs /\ x.gen \in Nat /\ x.gen <= lease[x.run].generation BY Zenon, <2>8 DEF Pending, Entry
    <3>2. x.gen <= lease'[x.run].generation /\ ~Same(n, x) BY Zenon, <2>2, <2>3, <3>1 DEF Same
    <3> QED BY Zenon, <2>1, <2>8, <3>2 DEF Pending
  <2>9. ASSUME NEW v \in Workers, NEW x \in queue'[v] PROVE Pending(v, x)'
    <3>1. x \in Entry /\ Pending(v, x) BY Zenon, <1>t, <2>1 DEF BatchInv
    <3> QED BY Zenon, <2>8, <3>1
  <2>10. ASSUME NEW f \in flights', NEW x \in f.entries PROVE Pending(f.worker, x)'
    <3>1. x \in Entry BY <1>t, <2>1 DEF Flight
    <3>2. Pending(f.worker, x) BY Zenon, <2>1 DEF BatchInv
    <3> QED BY Zenon, <2>8, <3>1, <3>2
  <2>11. \A x \in execs' : x.gen <= lease'[x.run].generation BY Zenon, <2>1, <2>5, <2>6
  <2>12. OnePlace(queue', flights') BY Zenon, <2>1 DEF BatchInv
  <2> QED BY Zenon, <1>0, <2>4, <2>7, <2>9, <2>10, <2>11, <2>12 DEF BatchInv
<1>2. ASSUME NEW r \in Runs, NEW settled \in BOOLEAN, LoseClaim(r, settled) PROVE BatchInv'
  <2>1. /\ lease' = [lease EXCEPT ![r] = [assigned_to |-> NULL, generation |-> lease[r].generation + 1,
                                          settled |-> settled]]
        /\ execs' = execs /\ event_history' = event_history /\ flights' = flights /\ queue' = queue
    BY Zenon, <1>2, <1>t DEF LoseClaim, flusher
  <2>2. \A u \in Runs : lease[u].generation <= lease'[u].generation BY <1>t, <1>k, <2>1
  <2>3. ASSUME NEW x \in execs PROVE Fence(x)' => Fence(x)
    <3>1. x.run \in Runs /\ x.worker \in Workers BY Zenon, <1>t DEF Exec
    <3> QED BY <1>t, <1>n, <2>1, <3>1 DEF Fence, Holds
  <2> QED BY Zenon, <1>0, <2>1, <2>2, <2>3, FewerIsFine
<1>3. ASSUME NEW w \in Workers, WorkerDies(w) PROVE BatchInv'
  <2>1. execs' \subseteq execs /\ flights' \subseteq flights /\ lease' = lease /\ event_history' = event_history
    BY Zenon, <1>3 DEF WorkerDies
  <2>2. \A v \in Workers : queue'[v] \subseteq queue[v] BY <1>t, <1>3 DEF WorkerDies
  <2>3. \A u \in Runs : lease[u].generation <= lease'[u].generation BY <1>k, <2>1
  <2>4. \A x : Fence(x)' => Fence(x) BY Zenon, <2>1 DEF Fence, Holds
  <2> QED BY Zenon, <1>0, <2>1, <2>2, <2>3, <2>4, FewerIsFine
<1>4. ASSUME UNCHANGED <<lease, event_history, queue, flights>>, execs' \subseteq execs PROVE BatchInv'
  <2>1. \A u \in Runs : lease[u].generation <= lease'[u].generation BY <1>k, <1>4
  <2>2. \A x : Fence(x)' => Fence(x) BY Zenon, <1>4 DEF Fence, Holds
  <2> QED BY Zenon, <1>0, <1>4, <2>1, <2>2, FewerIsFine
<1>5. ASSUME NEW w \in Workers, TimerFires(w) \/ onTimer(w) \/ Shutdown(w) PROVE BatchInv'
  <2>1. CASE TakeBatch(w, queue[w]) /\ UNCHANGED <<lease, event_history, execs>>
    BY Zenon, <1>0, <2>1, TakingIsFine
  <2>2. CASE UNCHANGED <<lease, event_history, execs, queue, flights>> BY Zenon, <1>4, <2>2
  <2> QED BY Zenon, <1>5, <2>1, <2>2 DEF TimerFires, onTimer, Shutdown
<1>6. ASSUME NEW e \in execs, LoadHistory(e) PROVE BatchInv'
  <2>1. PICK h : execs' = (execs \ {e}) \cup
             {IF validateReplayStepDensity(h)
              THEN [e EXCEPT !.at = "running", !.history = h, !.loaded = Len(h)]
              ELSE [e EXCEPT !.at = "failing"]}
    BY Zenon, <1>6 DEF LoadHistory
  <2> DEFINE n == IF validateReplayStepDensity(h)
                  THEN [e EXCEPT !.at = "running", !.history = h, !.loaded = Len(h)]
                  ELSE [e EXCEPT !.at = "failing"]
  <2>2. e \in Exec /\ e.at = "claimed" BY Zenon, <1>6, <1>t DEF LoadHistory
  <2>3. n.run = e.run /\ n.gen = e.gen /\ n.worker = e.worker /\ n.acked = e.acked
    BY <2>2 DEF Exec
  <2>4. Same(n, e) BY Zenon, <2>3 DEF Same
  <2>5. UNCHANGED <<lease, event_history, queue, flights>> BY Zenon, <1>6 DEF LoadHistory, flusher
  <2>6. Fence(e) => \A s \in n.acked : event_history'[e.run][s] # NULL
    BY Zenon, <2>3, <2>5 DEF BatchInv, AnsweredMeansStored
  <2>7. e.at # "waiting" BY <2>2
  <2>8. execs' = (execs \ {e}) \cup {n} BY Zenon, <2>1
  <2> HIDE DEF n
  <2> QED BY Zenon, <1>0, <2>3, <2>4, <2>5, <2>6, <2>7, <2>8, OneGoesOn
<1>7. ASSUME NEW e \in execs, e.at = "running", Len(e.history) < MaxSteps, NEW ok \in BOOLEAN
      PROVE  /\ e \in Exec /\ e.history \in Seq(Record) /\ NewEntry(e) \in Entry
             /\ Recorded(e, ok) \in Exec /\ Same(Recorded(e, ok), e) /\ Recorded(e, ok).worker = e.worker
             /\ Recorded(e, ok).history = Append(e.history, [step |-> Len(e.history), gen |-> e.gen])
             /\ Recorded(e, ok).acked = IF ok THEN e.acked \cup {Len(e.history)} ELSE e.acked
  <2>1. e \in Exec /\ e.acked \subseteq 0 .. Len(e.history) - 1 BY Zenon, <1>0 DEF TypeOK
  <2>2. e.history \in Seq(Record) BY <2>1 DEF Exec, Record
  <2>3. Len(e.history) \in Steps BY <1>7, <2>2, StepsAreNat
  <2>4. NewEntry(e) \in Entry BY Zenon, <2>1, <2>3 DEF NewEntry, Entry, Exec
  <2> QED BY Zenon, <1>7, <2>1, <2>2, <2>4, RecordedIsExec DEF Same
<1>8. ASSUME NEW e \in execs, flushEvent(e) PROVE BatchInv'
  <2>1. PICK wrote \in BOOLEAN, ok \in BOOLEAN :
           /\ ok => wrote
           /\ event_history' = IF wrote THEN Inserted(event_history, {NewEntry(e)}) ELSE event_history
           /\ execs' = (execs \ {e}) \cup {Recorded(e, ok)}
    BY Zenon, <1>8 DEF flushEvent
  <2>2. e.at = "running" /\ Len(e.history) < MaxSteps /\ UNCHANGED <<lease, queue, flights>>
    BY Zenon, <1>8 DEF flushEvent, flusher
  <2>3. /\ e \in Exec /\ {NewEntry(e)} \in SUBSET Entry /\ Same(Recorded(e, ok), e)
        /\ Recorded(e, ok).worker = e.worker
        /\ Recorded(e, ok).acked = IF ok THEN e.acked \cup {Len(e.history)} ELSE e.acked
    BY Zenon, <1>7, <2>2
  <2>4. \A r \in Runs, s \in Steps : event_history[r][s] # NULL => event_history'[r][s] # NULL
    BY Zenon, <1>t, <2>1, <2>3, InsertedStays
  <2>5. ok => event_history'[e.run][Len(e.history)] # NULL
    <3>1. NewEntry(e).run = e.run /\ NewEntry(e).step = Len(e.history) BY DEF NewEntry
    <3>2. ok => event_history'[NewEntry(e).run][NewEntry(e).step] # NULL BY Zenon, <1>t, <2>1, <2>3, InsertedStays
    <3> QED BY Zenon, <3>1, <3>2
  <2>6. Fence(e) => \A s \in Recorded(e, ok).acked : event_history'[e.run][s] # NULL
    <3>1. e.run \in Runs /\ e.acked \subseteq Steps BY Zenon, <2>3 DEF Exec
    <3>2. Fence(e) => \A s \in e.acked : event_history'[e.run][s] # NULL
      BY Zenon, <2>4, <3>1 DEF BatchInv, AnsweredMeansStored
    <3> QED BY Zenon, <2>3, <2>5, <3>2
  <2>7. e.at # "waiting" BY <2>2
  <2> QED BY Zenon, <1>0, <2>1, <2>2, <2>3, <2>4, <2>6, <2>7, OneGoesOn
<1>9. ASSUME NEW e \in execs, Flush(e) PROVE BatchInv'
  <2> DEFINE w == e.worker
             x == NewEntry(e)
             q1 == [queue EXCEPT ![w] = queue[w] \cup {x}]
  <2>n. PICK n : n = [Recorded(e, FALSE) EXCEPT !.at = "waiting"] BY Zenon
  <2>1. /\ e.at = "running" /\ Len(e.history) < MaxSteps /\ UNCHANGED <<lease, event_history>>
        /\ execs' = (execs \ {e}) \cup {n}
    BY Zenon, <1>9, <2>n DEF Flush
  <2>2. /\ e \in Exec /\ e.history \in Seq(Record) /\ x \in Entry /\ Recorded(e, FALSE) \in Exec
        /\ Same(Recorded(e, FALSE), e) /\ Recorded(e, FALSE).worker = e.worker
        /\ Recorded(e, FALSE).history = Append(e.history, [step |-> Len(e.history), gen |-> e.gen])
        /\ Recorded(e, FALSE).acked = e.acked
    BY Zenon, <1>7, <2>1
  <2>3. n.run = e.run /\ n.gen = e.gen /\ n.worker = w /\ n.acked = e.acked /\ n.at = "waiting"
        /\ n.history = Append(e.history, [step |-> Len(e.history), gen |-> e.gen])
    BY Zenon, <2>n, <2>2 DEF Exec, Same
  <2>4. x.run = e.run /\ x.gen = e.gen /\ x.step = Len(n.history) - 1
    <3>1. x.step = Len(e.history) /\ x.run = e.run /\ x.gen = e.gen BY DEF NewEntry
    <3>2. Len(n.history) = Len(e.history) + 1 BY <2>2, <2>3
    <3>3. Len(e.history) \in Nat BY <2>2
    <3> QED BY <3>1, <3>2, <3>3
  <2>5. w \in Workers /\ q1 \in [Workers -> SUBSET Entry] /\ q1[w] = queue[w] \cup {x}
        /\ \A v \in Workers \ {w} : q1[v] = queue[v]
    <3>1. w \in Workers BY Zenon, <2>2 DEF Exec
    <3> QED BY <1>t, <2>2, <3>1
  <2> HIDE DEF x, w, q1
  <2>6. \A d \in execs \ {e} : ~Same(d, e) /\ ~Same(e, d) /\ ~Same(d, n) /\ ~Same(n, d) /\ ~Same(d, x)
    BY Zenon, <2>3, <2>4 DEF BatchInv, Same
  <2>7. ASSUME NEW v, NEW z, Pending(v, z) PROVE ~Same(z, x) /\ ~Same(x, z) /\ Pending(v, z)'
    <3>1. e.at # "waiting" BY <2>1
    <3>2. ~Same(e, z) BY Zenon, <2>7, <3>1 DEF Pending
    <3>3. ~Same(n, z) /\ ~Same(z, x) /\ ~Same(x, z) BY Zenon, <2>3, <2>4, <3>2 DEF Same
    <3> QED BY Zenon, <2>1, <2>7, <3>3 DEF Pending
  <2>8. Pending(w, x)'
    <3>1. x.gen <= lease'[x.run].generation BY Zenon, <2>1, <2>4 DEF BatchInv
    <3>2. ASSUME NEW d \in execs', Same(d, x) PROVE d.worker = w /\ d.at = "waiting" /\ x.step = Len(d.history) - 1
      <4>1. d = n BY Zenon, <2>1, <2>6, <3>2
      <4> QED BY Zenon, <2>3, <2>4, <4>1
    <3> QED BY Zenon, <3>1, <3>2 DEF Pending
  <2>9. ASSUME NEW v \in Workers, NEW z \in q1[v] PROVE Pending(v, z)'
    <3>1. CASE z \in queue[v] BY Zenon, <2>7, <3>1 DEF BatchInv
    <3>2. CASE z \notin queue[v]
      <4>1. v = w /\ z = x BY Zenon, <2>5, <3>2
      <4> QED BY Zenon, <2>8, <4>1
    <3> QED BY Zenon, <3>1, <3>2
  <2>10. \A f \in flights : \A z \in f.entries : Pending(f.worker, z)' BY Zenon, <2>7 DEF BatchInv
  <2>11. OnePlace(q1, flights)
    <3>1. ASSUME NEW v \in Workers, NEW z \in queue[v] PROVE ~Same(z, x) /\ ~Same(x, z) BY Zenon, <2>7 DEF BatchInv
    <3>2. ASSUME NEW f \in flights, NEW z \in f.entries PROVE ~Same(x, z) BY Zenon, <2>7 DEF BatchInv
    <3>3. ASSUME NEW v \in Workers, NEW z \in q1[v] PROVE z \in queue[v] \/ (v = w /\ z = x) BY Zenon, <2>5
    <3>4. ASSUME NEW u \in Workers, NEW v \in Workers, NEW y \in q1[u], NEW z \in q1[v], Same(y, z) PROVE u = v
      <4>1. CASE y \in queue[u] /\ z \in queue[v] BY Zenon, <3>4, <4>1 DEF BatchInv, OnePlace
      <4>2. CASE y = x /\ u = w /\ z = x /\ v = w BY <4>2
      <4>3. CASE y = x /\ z \in queue[v] BY Zenon, <3>1, <3>4, <4>3
      <4>4. CASE y \in queue[u] /\ z = x BY Zenon, <3>1, <3>4, <4>4
      <4> QED BY Zenon, <3>3, <4>1, <4>2, <4>3, <4>4
    <3>5. ASSUME NEW v \in Workers, NEW f \in flights, NEW y \in q1[v], NEW z \in f.entries PROVE ~Same(y, z)
      <4>1. CASE y \in queue[v] BY Zenon, <4>1 DEF BatchInv, OnePlace
      <4>2. CASE y = x BY Zenon, <3>2, <4>2
      <4> QED BY Zenon, <3>3, <4>1, <4>2
    <3> QED BY Zenon, <3>4, <3>5 DEF BatchInv, OnePlace
  <2>12. /\ OnePlace(queue', flights')
         /\ \A v \in Workers : \A z \in queue'[v] : Pending(v, z)'
         /\ \A f \in flights' : \A z \in f.entries : Pending(f.worker, z)'
    <3>1. CASE Cardinality(q1[w]) >= MaxBatch
      <4>1. TakeBatch(w, q1[w]) BY Zenon, <1>9, <2>5, <3>1 DEF Flush, w, x
      <4>2. queue' = [q1 EXCEPT ![w] = {}] BY <1>t, <2>5, <4>1 DEF TakeBatch, q1
      <4>3. flights' = flights \cup {[worker |-> w, entries |-> q1[w], checked |-> FALSE]} BY Zenon, <4>1 DEF TakeBatch
      <4>4. OnePlace(queue', flights') BY Zenon, <2>5, <2>11, <4>2, <4>3, TakenIsOnePlace
      <4> QED BY Zenon, <2>5, <2>9, <2>10, <4>2, <4>3, <4>4, TakenIsPending
    <3>2. CASE ~(Cardinality(q1[w]) >= MaxBatch)
      <4>1. queue' = q1 /\ flights' = flights BY Zenon, <1>9, <2>5, <3>2 DEF Flush, w, x, q1
      <4> QED BY Zenon, <2>9, <2>10, <2>11, <4>1
    <3> QED BY Zenon, <3>1, <3>2
  <2>13. AnsweredMeansStored'
    <3> SUFFICES ASSUME NEW d \in execs', Fence(d)', NEW s \in d.acked PROVE event_history[d.run][s] # NULL
      BY Zenon, <2>1 DEF AnsweredMeansStored, Fence, Holds
    <3>1. CASE d = n
      <4>1. Fence(e) BY Zenon, <2>1, <2>3, <3>1 DEF Fence, Holds, w
      <4> QED BY Zenon, <2>3, <3>1, <4>1 DEF BatchInv, AnsweredMeansStored
    <3>2. CASE d \in execs
      <4>1. Fence(d) BY Zenon, <2>1 DEF Fence, Holds
      <4> QED BY Zenon, <3>2, <4>1 DEF BatchInv, AnsweredMeansStored
    <3> QED BY Zenon, <2>1, <3>1, <3>2
  <2>14. \A d \in execs' : d.gen <= lease'[d.run].generation BY Zenon, <2>1, <2>3 DEF BatchInv
  <2>15. ASSUME NEW c \in execs', NEW d \in execs', Same(c, d) PROVE c = d
    BY Zenon, <2>1, <2>6, <2>15 DEF BatchInv
  <2> QED BY Zenon, <1>0, <2>12, <2>13, <2>14, <2>15 DEF BatchInv
<1>10. ASSUME NEW e \in execs, NEW settled \in BOOLEAN, NEW table, GiveUp(e, settled, table),
              \A r \in Runs \ {e.run}, s \in Steps : event_history[r][s] # NULL => table[r][s] # NULL
       PROVE  BatchInv'
  <2>1. /\ lease' = [lease EXCEPT ![e.run].assigned_to = NULL, ![e.run].settled = settled]
        /\ event_history' = table /\ execs' \subseteq execs /\ UNCHANGED <<queue, flights>>
    BY Zenon, <1>10 DEF GiveUp, flusher
  <2>2. e.run \in Runs BY Zenon, <1>t DEF Exec
  <2>3. /\ lease'[e.run].assigned_to = NULL /\ lease'[e.run].generation = lease[e.run].generation
        /\ \A u \in Runs \ {e.run} : lease'[u] = lease[u]
    BY <1>t, <1>k, <2>1, <2>2 DEF Lease
  <2>4. \A u \in Runs : lease[u].generation <= lease'[u].generation BY <1>k, <2>2, <2>3
  <2>5. ASSUME NEW d \in execs', Fence(d)'
        PROVE  Fence(d) /\ \A s \in Steps : event_history[d.run][s] # NULL => event_history'[d.run][s] # NULL
    <3>1. d.run \in Runs /\ d.worker \in Workers BY Zenon, <1>t DEF Exec
    <3>2. d.run # e.run BY Zenon, <1>n, <2>3, <2>5, <3>1 DEF Fence, Holds
    <3>3. Fence(d) BY Zenon, <2>3, <2>5, <3>1, <3>2 DEF Fence, Holds
    <3> QED BY Zenon, <1>10, <2>1, <3>1, <3>2, <3>3
  <2> QED BY Zenon, <1>0, <2>1, <2>4, <2>5, FewerIsFine
<1>11. ASSUME NEW e \in execs, FinalizeSuspend(e) \/ FinalizeDone(e) \/ FailWorkflow(e) PROVE BatchInv'
  <2>1. e \in Exec /\ e.history \in Seq(Record) /\ e.loaded \in Nat BY Zenon, <1>t DEF Exec, Record
  <2>2. appendEventsInTx(e) \in SUBSET Entry
    <3>1. ASSUME NEW i \in (e.loaded + 1)..Len(e.history)
          PROVE  [run |-> e.run, gen |-> e.history[i].gen, step |-> e.history[i].step] \in Entry
      <4>1. e.history[i] \in Record BY <2>1
      <4> QED BY Zenon, <2>1, <4>1 DEF Entry, Exec, Record
    <3> QED BY Zenon, <3>1 DEF appendEventsInTx, EntriesOf
  <2>3. CASE FinalizeSuspend(e)
    <3>1. \A r \in Runs, s \in Steps : event_history[r][s] # NULL =>
             Inserted(event_history, appendEventsInTx(e))[r][s] # NULL
      BY Zenon, <1>t, <2>2, InsertedStays
    <3> QED BY Zenon, <1>10, <2>3, <3>1 DEF FinalizeSuspend
  <2>4. CASE FinalizeDone(e)
    <3>1. \A r \in Runs \ {e.run} : Cleared(event_history, e.run)[r] = event_history[r] BY <1>t DEF Cleared, Table
    <3> QED BY Zenon, <1>10, <2>4, <3>1 DEF FinalizeDone
  <2>5. CASE FailWorkflow(e) BY Zenon, <1>10, <2>5 DEF FailWorkflow
  <2> QED BY Zenon, <1>11, <2>3, <2>4, <2>5
<1>12. ASSUME NEW f \in flights, partitionFencedBatch(f) PROVE BatchInv'
  <2>1. PICK held \in {Held(f), {}} :
           /\ execs' = Answered(f.worker, f.entries \ held, FALSE)
           /\ flights' = (flights \ {f}) \cup
                 (IF held = {} THEN {} ELSE {[f EXCEPT !.entries = held, !.checked = TRUE]})
    BY Zenon, <1>12 DEF partitionFencedBatch
  <2>2. UNCHANGED <<lease, event_history, queue>> BY Zenon, <1>12 DEF partitionFencedBatch
  <2> DEFINE k == [f EXCEPT !.entries = held, !.checked = TRUE]
  <2>3. k.worker = f.worker /\ k.entries = held
    <3>1. f \in Flight BY Zenon, <1>t
    <3> QED BY <3>1 DEF Flight
  <2>4. flights' \subseteq (flights \ {f}) \cup {k} BY Zenon, <2>1
  <2> HIDE DEF k
  <2>5. held \subseteq f.entries BY Zenon, <2>1 DEF Held
  <2>6. ASSUME NEW x \in held, NEW y \in f.entries \ held PROVE ~Same(x, y)
    BY Zenon, <2>1, <2>6 DEF Held, Same
  <2>7. f.entries \ held \in SUBSET f.entries BY Zenon
  <2>8. \A x \in k.entries, y \in f.entries \ held : ~Same(x, y) BY Zenon, <2>3, <2>6
  <2>9. k.entries \subseteq f.entries BY Zenon, <2>3, <2>5
  <2> QED BY Zenon, <1>0, <2>1, <2>2, <2>3, <2>4, <2>7, <2>8, <2>9, AnswersAreFine
<1>13. ASSUME NEW f \in flights, InsertBatch(f) PROVE BatchInv'
  <2>1. PICK wrote \in BOOLEAN, ok \in BOOLEAN :
           /\ ok => wrote
           /\ event_history' = IF wrote THEN Inserted(event_history, f.entries) ELSE event_history
           /\ execs' = Answered(f.worker, f.entries, ok)
    BY Zenon, <1>13 DEF InsertBatch, Answers
  <2>2. flights' = flights \ {f} /\ UNCHANGED <<lease, queue>> BY Zenon, <1>13 DEF InsertBatch
  <2>3. f.entries \in SUBSET Entry BY <1>t DEF Flight
  <2>4. \A r \in Runs, s \in Steps : event_history[r][s] # NULL => event_history'[r][s] # NULL
    BY Zenon, <1>t, <2>1, <2>3, InsertedStays
  <2>5. ok => \A x \in f.entries : event_history'[x.run][x.step] # NULL
    BY Zenon, <1>t, <2>1, <2>3, InsertedStays
  <2> DEFINE k == [worker |-> f.worker, entries |-> {}]
  <2>6. k.worker = f.worker /\ k.entries = {} BY Zenon
  <2>7. flights' \subseteq (flights \ {f}) \cup {k} /\ f.entries \in SUBSET f.entries BY Zenon, <2>2
  <2> HIDE DEF k
  <2>8. k.entries \subseteq f.entries /\ \A x \in k.entries, y \in f.entries : ~Same(x, y) BY Zenon, <2>6
  <2> QED BY Zenon, <1>0, <2>1, <2>2, <2>4, <2>5, <2>6, <2>7, <2>8, AnswersAreFine
<1>14. ASSUME NEW e \in execs, ExecEnds(e) PROVE BatchInv'
  BY Zenon, <1>4, <1>14 DEF ExecEnds, flusher
<1>15. CASE UNCHANGED vars BY Zenon, <1>4, <1>15 DEF vars
<1> QED
  BY Zenon, <1>1, <1>2, <1>3, <1>5, <1>6, <1>8, <1>9, <1>11, <1>12, <1>13, <1>14, <1>15 DEF Next

(* In direct and in batch mode, an event that was answered with nil has    *)
(* its row for as long as its run is held: flushAndNotify answers each     *)
(* entry of a batch with what became of that entry.                        *)
THEOREM AnswersAreTrue == Spec => []AnsweredMeansStored
<1>1. BatchInv /\ [Next]_vars => BatchInv'
  BY BatchInvNext
<1>2. BatchInv => AnsweredMeansStored
  BY DEF BatchInv
<1> QED
  BY BatchInvInit, <1>1, <1>2, PTL DEF Spec
=============================================================================
