-------------------------- MODULE CallIntentProofs --------------------------
(***************************************************************************)
(* For any number of steps, calls and claims, and whatever crashes,        *)
(* executions without a lease, late requests, failing writes, resolvers,   *)
(* operators and sweeps do: a write-ahead call takes effect at most once   *)
(* for a step, its row tells the truth about it, the row was there before  *)
(* the request went out, and a record that has its outcome keeps it.       *)
(*                                                                         *)
(* The invariant follows the right to dispatch a step's call: it is with   *)
(* one execution that has written the intent, then with one request, then  *)
(* spent; until the history is deleted the row shows that it was given.    *)
(***************************************************************************)
EXTENDS CallIntent, TLAPS, WellFoundedInduction

(* A guest that catches errors is not re-replayed over a swept history.    *)
(* ReReplay looks at the history, the sweep deletes it, and the claim is   *)
(* made ready all the same (engine/admin_ops.go:116); such a guest would   *)
(* catch the mismatch of its first step and dispatch the next one again.   *)
Hypothesis == Retention /\ Operator => CatchChoices \subseteq {FALSE}

(* The row of a write-ahead call, and the time its row is kept.            *)
IntentRow(s) == event_history[s] # NULL /\ event_history[s].rec.op = "intent"
RecordOK(rec) == rec.out.by = "pending" => rec.op = "intent"
Kept == lease.status # "done" /\ ~swept

(* What a row says of the service is so; a swept table holds what          *)
(* operators have appended since.                                          *)
RowOK(s) ==
    event_history[s] # NULL =>
        /\ RecordOK(event_history[s].rec)
        /\ event_history[s].checksum = NoChecksum => event_history[s].rec.op = "intent"
        /\ event_history[s].rec.op = "intent" =>
             /\ event_history[s].rec.out.by \in {"call", "key", "lookup"} => applied[s] > 0
             /\ event_history[s].rec.out.by = "notsent" => s \in refused /\ applied[s] = 0
        /\ swept => event_history[s].rec.op = "admin" /\ event_history[s].checksum # NoChecksum

(* The intent is written and its call not yet completed.                   *)
OutThere(e) == e.at \in {"written", "calling", "returned"}

(* What an execution has in memory agrees with the table, also after it    *)
(* lost its claim; after a sweep the one that holds the claim has read     *)
(* nothing of its own.                                                     *)
ExecOK(e) ==
    /\ e.gen <= lease.generation
    /\ Len(e.history) <= MaxSteps /\ e.step <= Len(e.history) /\ e.loaded <= Len(e.history)
    /\ e.at = "claimed" => e.step = 0
    /\ OutThere(e) => e.step \in Steps /\ e.step = Len(e.history) /\ e.call \in Calls
    /\ OutThere(e) /\ Kept => IntentRow(e.step)
    /\ e.at = "returned" => /\ e.answer.by \in {"call", "error"}
                            /\ e.answer.by = "call" => applied[e.step] > 0
    /\ \A i \in 1..Len(e.history) :
          /\ RecordOK(e.history[i])
          /\ Kept /\ e.history[i].op = "intent" => IntentRow(i - 1)
    /\ swept /\ Fence(e) =>
          \/ e.at \in {"claimed", "failing"}
          \/ e.at = "guest" /\ e.step = 0 /\ Len(e.history) > 0 /\ e.history[1].op = "admin"

(* The right to dispatch a step's call is in one place.                    *)
Tokens ==
    /\ \A e, f \in execs : e.at = "written" /\ f.at = "written" /\ e.step = f.step => e = f
    /\ \A e \in execs, q \in requests : e.at = "written" => q.key # e.step
    /\ \A q, r \in requests : q.key = r.key => q = r
    /\ ~KeyReplay => /\ \A e \in execs : e.at = "written" => applied[e.step] = 0
                     /\ \A q \in requests : applied[q.key] = 0
    /\ \A s \in Steps : applied[s] <= 1
    /\ Kept => /\ \A q \in requests : IntentRow(q.key)
               /\ \A s \in Steps : applied[s] > 0 => IntentRow(s)

(* A claim over a swept table is one that an operator made ready.          *)
SweepOK == /\ guest.catches \in CatchChoices
           /\ admin # NULL => Operator
           /\ swept => Retention
           /\ swept /\ lease.status \in {"ready", "running"} => Stored # {} /\ ~guest.catches

(* What an operator read and has not written yet.                          *)
AdminOK == admin # NULL => /\ admin.verb = "resolve" => admin.step \in Steps
                           /\ admin.verb = "rereplay" => admin.generation < MaxGeneration

IInv == /\ TypeOK
        /\ \A s \in Steps : RowOK(s)
        /\ \A e \in execs : ExecOK(e)
        /\ Tokens /\ SweepOK /\ AdminOK
-----------------------------------------------------------------------------
(* The operators of the table. *)

(* What the constants are.                                                 *)
LEMMA Bounds == /\ MaxGeneration \in Nat /\ MaxCalls \in Nat /\ MaxSteps \in Nat
                /\ NULL \notin Row
  BY Zenon, CallAssumption DEF ConstantsOK

Table == [Steps -> Row \cup {NULL}]

(* A non-empty set of steps has a highest one. *)
LEMMA HasHighest ==
    ASSUME NEW S \in SUBSET Steps, S # {}
    PROVE  Highest(S) \in S /\ \A y \in S : y <= Highest(S)
  <1> DEFINE T == {MaxSteps - x : x \in S}
  <1>1. \A x \in S : x \in Int /\ MaxSteps - x \in Nat
    BY Bounds DEF Steps
  <1>2. T \subseteq Nat /\ T # {}
    BY <1>1
  <1>3. PICK x \in T : \A y \in T : ~(<<y, x>> \in OpToRel(<, Nat))
    <2> HIDE DEF T
    <2>1. QED BY Zenon, <1>2, NatLessThanWellFounded, WFMin
  <1>4. \A y \in T : ~(y < x)
    <2> HIDE DEF T
    <2>1. QED BY Zenon, <1>2, <1>3 DEF OpToRel
  <1>5. PICK z \in S : x = MaxSteps - z
    OBVIOUS
  <1>6. ASSUME NEW y \in S PROVE y <= z
    <2>1. MaxSteps - y \in T
      OBVIOUS
    <2>2. ~(MaxSteps - y < MaxSteps - z)
      BY <1>4, <1>5, <2>1
    <2>3. QED BY <1>1, <2>2, Bounds
  <1>7. QED BY <1>6 DEF Highest

(* MAX(step) of the table, -1 for an empty one. *)
LEMMA MaxStepBounds ==
    /\ maxStep \in Int /\ maxStep + 1 \in Nat
    /\ Stored # {} => maxStep \in Stored
    /\ Stored = {} => maxStep = -1
    /\ \A s \in Stored : s <= maxStep
  <1>1. CASE Stored = {}
    BY <1>1 DEF maxStep
  <1>2. CASE Stored # {}
    <2>1. Stored \in SUBSET Steps
      BY DEF Stored
    <2>2. maxStep \in Stored /\ \A s \in Stored : s <= maxStep
      BY <1>2, <2>1, HasHighest DEF maxStep
    <2>3. QED BY <1>2, <2>1, <2>2, Bounds DEF Steps
  <1>3. QED BY <1>1, <1>2

(* previousStoredChecksum is a checksum of the table, or none. *)
LEMMA PreviousChecksumType ==
    ASSUME NEW table \in Table, NEW s
    PROVE  previousStoredChecksum(table, s) \in StepRecords
  <1> DEFINE below == StoredBelow(table, s)
  <1>1. CASE below = {}
    BY <1>1 DEF previousStoredChecksum, NoChecksum, StepRecords
  <1>2. CASE below # {}
    <2>1. below \in SUBSET Steps
      BY DEF StoredBelow
    <2>2. Highest(below) \in below
      BY <1>2, <2>1, HasHighest
    <2>3. Highest(below) \in Steps /\ table[Highest(below)] # NULL
      BY <2>2 DEF StoredBelow
    <2>4. table[Highest(below)] \in Row
      BY <2>3 DEF Table
    <2>5. QED BY <1>2, <2>4 DEF previousStoredChecksum, Row
  <1>3. QED BY <1>1, <1>2

(* A checksum is that of a chain and not the empty one.                    *)
LEMMA ChecksumType ==
    ASSUME NEW s \in Steps, NEW rec \in EventRecord, NEW prev \in StepRecords
    PROVE  /\ computeEventChecksum(s, rec, prev) \in StepRecords
           /\ computeEventChecksum(s, rec, prev) # NoChecksum
  <1>1. <<s, rec>> \in Steps \X EventRecord
    OBVIOUS
  <1>2. QED BY <1>1 DEF computeEventChecksum, StepRecords, NoChecksum

(* A row that is there stays as it is; a new one is the record, chained. *)
LEMMA InsertedRows ==
    ASSUME NEW table \in Table, NEW s \in Steps, NEW rec \in EventRecord,
           NEW checksum \in StepRecords
    PROVE  /\ Inserted(table, s, rec, checksum) \in Table
           /\ \A t \in Steps : t # s \/ table[t] # NULL =>
                 Inserted(table, s, rec, checksum)[t] = table[t]
           /\ table[s] = NULL =>
                 /\ Inserted(table, s, rec, checksum)[s] # NULL
                 /\ Inserted(table, s, rec, checksum)[s].rec = rec
                 /\ Inserted(table, s, rec, checksum)[s].checksum = checksum
  <1> DEFINE row == [rec |-> rec, checksum |-> checksum]
  <1>1. row \in Row /\ row # NULL
    BY Bounds DEF Row
  <1>2. QED BY <1>1 DEF Inserted, Table

(* appendEventsInTx leaves the rows that are there as they are. *)
LEMMA AppendedRows ==
    ASSUME NEW table \in Table, NEW from \in Nat, NEW recs \in Seq(EventRecord)
    PROVE  LET new == appendEventsInTx(table, from, recs) IN
           /\ new \in Table
           /\ \A s \in Steps :
                /\ table[s] # NULL => new[s] = table[s]
                /\ table[s] = NULL /\ new[s] # NULL =>
                     /\ s - from + 1 \in 1..Len(recs) /\ new[s].rec = recs[s - from + 1]
                     /\ new[s].checksum # NoChecksum
                /\ table[s] = NULL /\ s \in from..(from + Len(recs) - 1) => new[s] # NULL
  <1> DEFINE rec(s) == recs[s - from + 1]
             prev == previousStoredChecksum(table, from)
             chain(s) == prev \cup {<<t, rec(t)>> : t \in from..s}
             new == appendEventsInTx(table, from, recs)
             range == from..(from + Len(recs) - 1)
  <1>1. \A s \in Steps : new[s] = IF table[s] = NULL /\ s \in range
                                  THEN [rec |-> rec(s), checksum |-> chain(s)] ELSE table[s]
    BY DEF appendEventsInTx
  <1>2. \A s \in range : rec(s) \in EventRecord /\ s - from + 1 \in 1..Len(recs)
    OBVIOUS
  <1>3. prev \in StepRecords
    BY PreviousChecksumType
  <1>4. ASSUME NEW s \in Steps, s \in range
        PROVE  chain(s) \in StepRecords /\ chain(s) # NoChecksum
    <2>1. \A t \in from..s : t \in Steps /\ t \in range
      BY <1>4, Bounds DEF Steps
    <2>2. s \in from..s
      BY <1>4
    <2>3. \A t \in from..s : <<t, rec(t)>> \in Steps \X EventRecord
      BY <1>2, <2>1
    <2>4. QED
      <3> HIDE DEF rec, prev
      <3>1. QED BY Zenon, <1>3, <2>2, <2>3 DEF StepRecords, NoChecksum
  <1>5. ASSUME NEW s \in Steps, table[s] = NULL, s \in range
        PROVE  /\ new[s] \in Row /\ new[s] # NULL
               /\ new[s].rec = rec(s) /\ new[s].checksum # NoChecksum
    <2> HIDE DEF rec, chain, new
    <2>1. new[s] = [rec |-> rec(s), checksum |-> chain(s)]
      BY <1>1, <1>5
    <2>2. new[s] \in Row
      BY <1>2, <1>4, <1>5, <2>1 DEF Row
    <2>3. QED BY <1>4, <1>5, <2>1, <2>2, Bounds
  <1>6. new \in Table
    <2>1. new = [s \in Steps |-> new[s]]
      BY DEF appendEventsInTx
    <2>2. \A s \in Steps : new[s] \in Row \cup {NULL}
      <3> HIDE DEF rec, chain, new
      <3>1. QED BY Zenon, <1>1, <1>5 DEF Table
    <2>3. QED
      <3> HIDE DEF new
      <3>1. QED BY <2>1, <2>2 DEF Table
  <1>7. QED
    <2>1. \A s \in Steps :
                /\ table[s] # NULL => new[s] = table[s]
                /\ table[s] = NULL /\ new[s] # NULL =>
                     /\ s - from + 1 \in 1..Len(recs) /\ new[s].rec = recs[s - from + 1]
                     /\ new[s].checksum # NoChecksum
                /\ table[s] = NULL /\ s \in range => new[s] # NULL
      <3> HIDE DEF chain, new
      <3>1. QED BY Zenon, <1>1, <1>2, <1>5
    <2>2. QED BY <1>6, <2>1

(* ResolveCallIntent gives one row its outcome and touches nothing but the *)
(* checksums of the others.                                                *)
LEMMA ResolvedRows ==
    ASSUME event_history \in Table, NEW s \in Steps, NEW rec \in EventRecord,
           NEW h \in StepRecords
    PROVE  LET new == ResolveCallIntent(s, rec, h) IN
           /\ new \in Table
           /\ new[s] # NULL /\ new[s].rec = rec /\ new[s].checksum # NoChecksum
           /\ \A t \in Steps \ {s} :
                \/ new[t] = event_history[t]
                \/ /\ event_history[t] # NULL /\ new[t] # NULL
                   /\ new[t].rec = event_history[t].rec /\ new[t].checksum # NoChecksum
  <1> DEFINE checksum == computeEventChecksum(s, rec, previousStoredChecksum(event_history, s))
             later == chainRepairsAfter(h, s)
             chained(t) == checksum \cup {r \in later : r[1] <= t}
             new == ResolveCallIntent(s, rec, h)
  <1>1. \A t \in Steps : new[t] =
          IF t = s THEN [rec |-> rec, checksum |-> checksum]
          ELSE IF event_history[t] # NULL /\ \E r \in later : r[1] = t
               THEN [event_history[t] EXCEPT !.checksum = chained(t)]
               ELSE event_history[t]
    BY DEF ResolveCallIntent
  <1>2. new = [t \in Steps |-> new[t]]
    BY DEF ResolveCallIntent
  <1>3. checksum \in StepRecords /\ checksum # NoChecksum
    BY PreviousChecksumType, ChecksumType
  <1>4. later \subseteq h
    BY DEF chainRepairsAfter
  <1> HIDE DEF checksum, later, new
  <1>5. \A t \in Steps : chained(t) \in StepRecords /\ chained(t) # NoChecksum
    BY <1>3, <1>4 DEF StepRecords, NoChecksum
  <1> HIDE DEF chained
  <1>6. new[s] \in Row /\ new[s] # NULL /\ new[s].rec = rec /\ new[s].checksum # NoChecksum
    <2>1. new[s] = [rec |-> rec, checksum |-> checksum]
      BY Zenon, <1>1
    <2>2. new[s] \in Row
      BY <1>3, <2>1 DEF Row
    <2>3. QED BY <1>3, <2>1, <2>2, Bounds
  <1>7. ASSUME NEW t \in Steps, t # s
        PROVE  /\ new[t] \in Row \cup {NULL}
               /\ \/ new[t] = event_history[t]
                  \/ /\ event_history[t] # NULL /\ new[t] # NULL
                     /\ new[t].rec = event_history[t].rec /\ new[t].checksum # NoChecksum
    <2>1. CASE event_history[t] # NULL /\ \E r \in later : r[1] = t
      <3>1. new[t] = [event_history[t] EXCEPT !.checksum = chained(t)]
        BY <1>1, <1>7, <2>1
      <3>2. event_history[t] \in Row
        BY <2>1 DEF Table
      <3>3. /\ new[t] \in Row
            /\ new[t].rec = event_history[t].rec /\ new[t].checksum = chained(t)
        BY <1>5, <3>1, <3>2 DEF Row
      <3>4. QED BY <1>5, <2>1, <3>3, Bounds
    <2>2. CASE ~(event_history[t] # NULL /\ \E r \in later : r[1] = t)
      <3>1. new[t] = event_history[t]
        BY Zenon, <1>1, <1>7, <2>2
      <3>2. QED BY <3>1 DEF Table
    <2>3. QED BY <2>1, <2>2
  <1>8. new \in Table
    <2>1. \A t \in Steps : new[t] \in Row \cup {NULL}
      BY <1>6, <1>7
    <2>2. QED BY <1>2, <2>1 DEF Table
  <1>9. QED BY <1>6, <1>7, <1>8 DEF new
-----------------------------------------------------------------------------
(* What a session's step does to its record. *)

(* The guest is told, and goes on or stops.                                *)
LEMMA ToldFields ==
    ASSUME NEW e \in Exec, e.call \in Calls, NEW ok
    PROVE  LET f == Told(e, ok) IN
           /\ f \in Exec /\ f.at \in {"guest", "failing"}
           /\ f.gen = e.gen /\ f.history = e.history /\ f.loaded = e.loaded /\ f.step = e.step
           /\ ~ok /\ ~guest.catches => f.at = "failing"
  <1>1. CASE ok \/ guest.catches
    <2>1. PICK c : c = e.call + 1
      BY Zenon
    <2>2. c \in 1..(MaxCalls + 1)
      BY <2>1, Bounds DEF Calls
    <2>3. Told(e, ok) = [e EXCEPT !.at = "guest", !.call = c]
      BY <1>1, <2>1 DEF Told
    <2>4. QED BY Zenon, <1>1, <2>2, <2>3 DEF Exec
  <1>2. CASE ~(ok \/ guest.catches)
    <2>1. Told(e, ok) = [e EXCEPT !.at = "failing"]
      BY <1>2 DEF Told
    <2>2. QED BY <2>1 DEF Exec
  <1>3. QED BY <1>1, <1>2

(* A record is consumed.                                                   *)
LEMMA AdvancedFields ==
    ASSUME NEW e \in Exec, Replaying(e), Len(e.history) <= MaxSteps
    PROVE  LET f == Advanced(e) IN
           /\ f \in Exec /\ f.gen = e.gen /\ f.history = e.history /\ f.loaded = e.loaded
           /\ f.step = e.step + 1 /\ f.call = e.call /\ f.at = e.at
  <1> DEFINE rec == e.history[e.step + 1]
             last == computeEventChecksum(e.step, rec, e.lastChecksum)
  <1>1. e.step \in Steps /\ rec \in EventRecord
    BY Bounds DEF Replaying, Exec, Steps
  <1>2. last \in StepRecords
    BY <1>1, ChecksumType DEF Exec
  <1>3. PICK n : n = e.step + 1
    BY Zenon
  <1>4. n \in Nat
    BY <1>3 DEF Exec
  <1>5. Advanced(e) = [e EXCEPT !.step = n, !.lastChecksum = last]
    BY <1>3 DEF Advanced
  <1> HIDE DEF last
  <1>6. Advanced(e) \in Exec
    BY Zenon, <1>2, <1>4, <1>5 DEF Exec
  <1>7. \A f : f = [e EXCEPT !.step = n, !.lastChecksum = last] =>
          /\ f.gen = e.gen /\ f.history = e.history /\ f.loaded = e.loaded
          /\ f.step = n /\ f.call = e.call /\ f.at = e.at
    BY DEF Exec
  <1>8. QED BY <1>3, <1>5, <1>6, <1>7, Zenon

(* What every step keeps: claims, effects, and the rows of write-ahead     *)
(* calls until the history is deleted.                                     *)
Keeps ==
    /\ lease.generation <= lease'.generation
    /\ \A s \in Steps : applied[s] > 0 => applied'[s] > 0
    /\ Kept' => Kept /\ \A s \in Steps : IntentRow(s) => IntentRow(s)'

(* ExecOK of an execution is not disturbed by the steps of others. *)
LEMMA ExecKept ==
    ASSUME TypeOK, lease'.generation \in Int, Keeps, NEW e \in Exec, ExecOK(e),
           swept' /\ Fence(e)' => swept /\ Fence(e)
    PROVE  ExecOK(e)'
  <1>1. e.gen <= lease'.generation
    BY Bounds DEF TypeOK, Keeps, ExecOK, Exec
  <1>2. OutThere(e) /\ Kept' => IntentRow(e.step)'
    BY DEF ExecOK, Keeps
  <1>3. e.at = "returned" => /\ e.answer.by \in {"call", "error"}
                             /\ e.answer.by = "call" => applied'[e.step] > 0
    BY DEF ExecOK, Keeps, OutThere
  <1>4. ASSUME NEW i \in 1..Len(e.history)
        PROVE  /\ RecordOK(e.history[i])
               /\ Kept' /\ e.history[i].op = "intent" => IntentRow(i - 1)'
    <2>1. i - 1 \in Steps
      BY Bounds DEF Steps, ExecOK, Exec
    <2>2. QED BY <2>1 DEF ExecOK, Keeps
  <1>5. swept' /\ Fence(e)' =>
          \/ e.at \in {"claimed", "failing"}
          \/ e.at = "guest" /\ e.step = 0 /\ Len(e.history) > 0 /\ e.history[1].op = "admin"
    BY Zenon DEF ExecOK
  <1>6. QED BY Zenon, <1>1, <1>2, <1>3, <1>4, <1>5 DEF ExecOK, RecordOK, OutThere

(* RowOK of a row that keeps its record. *)
LEMMA RowKept ==
    ASSUME NEW s \in Steps, RowOK(s), swept' = swept,
           applied[s] > 0 => applied'[s] > 0,
           s \in refused /\ applied[s] = 0 => s \in refused' /\ applied'[s] = 0,
           \/ event_history'[s] = event_history[s]
           \/ /\ event_history[s] # NULL /\ event_history'[s].rec = event_history[s].rec
              /\ event_history'[s].checksum # NoChecksum
    PROVE  RowOK(s)'
  BY DEF RowOK, RecordOK

(* One request, one written execution or one effect per step. *)
LEMMA TokensKept ==
    ASSUME Tokens, Keeps, requests' \subseteq requests, applied' = applied,
           requests \subseteq [key: Steps, gen: 1..MaxGeneration],
           \A e \in execs' : e.at = "written" => e \in execs
    PROVE  Tokens'
  <1>1. \A q \in requests : q.key \in Steps
    OBVIOUS
  <1>2. QED BY <1>1 DEF Tokens, Keeps

(* A session's step, with the lease as it was. *)
LEMMA SessionStepKeeps ==
    ASSUME IInv, NEW e \in execs, NEW f \in Exec, Moves(e, f), ExecOK(f)',
           guest' = guest, lease' = lease, swept' = swept, admin' = admin,
           event_history' \in Table, \A s \in Steps : RowOK(s)',
           \A s \in Steps : event_history[s] # NULL => event_history'[s] # NULL,
           Keeps, Tokens',
           requests' \subseteq [key: Steps, gen: 1..MaxGeneration],
           applied' \in [Steps -> Nat], refused' \subseteq Steps
    PROVE  IInv'
  <1>1. TypeOK'
    <2>1. execs' \subseteq Exec
      BY DEF IInv, TypeOK, Moves
    <2>2. QED BY <2>1 DEF IInv, TypeOK, Table
  <1>2. ASSUME NEW x \in execs' PROVE ExecOK(x)'
    <2>1. CASE x = f
      BY <2>1
    <2>2. CASE x # f
      <3>1. x \in execs /\ x \in Exec
        BY <1>2, <2>2 DEF Moves, IInv, TypeOK
      <3>2. lease'.generation \in Int
        BY DEF IInv, TypeOK
      <3>3. swept' /\ Fence(x)' => swept /\ Fence(x)
        BY DEF Fence
      <3>4. QED BY Zenon, <3>1, <3>2, <3>3, ExecKept DEF IInv
    <2>3. QED BY <2>1, <2>2
  <1>3. SweepOK'
    BY DEF IInv, SweepOK, Stored
  <1>4. AdminOK'
    BY Zenon DEF IInv, AdminOK
  <1>5. QED BY <1>1, <1>2, <1>3, <1>4 DEF IInv

(* The same when neither the table nor the service is touched. *)
LEMMA QuietStepKeeps ==
    ASSUME IInv, NEW e \in execs, NEW f \in Exec, Moves(e, f), ExecOK(f), f.at # "written",
           UNCHANGED <<guest, lease, event_history, swept, service, admin>>
    PROVE  IInv'
  <1>1. Keeps
    BY DEF Keeps, Kept, IntentRow, IInv, TypeOK, service
  <1>2. Tokens'
    BY Zenon, <1>1, TokensKept DEF IInv, TypeOK, Moves, service
  <1>3. ExecOK(f)'
    BY <1>1, ExecKept DEF IInv, TypeOK, Fence
  <1>4. ASSUME NEW s \in Steps PROVE RowOK(s)'
    BY RowKept DEF IInv, service
  <1>5. QED BY Zenon, <1>1, <1>2, <1>3, <1>4, SessionStepKeeps DEF IInv, TypeOK, Table, service
-----------------------------------------------------------------------------
(* One lemma per step of a session. *)

(* The records of a dense table, as a session's history. *)
LEMMA DenseHistory ==
    ASSUME IInv, validateReplayStepDensity,
           NEW h, h = [i \in 1..(maxStep + 1) |-> event_history[i - 1].rec]
    PROVE  /\ h \in Seq(EventRecord) /\ Len(h) = maxStep + 1 /\ maxStep + 1 <= MaxSteps
           /\ \A i \in 1..Len(h) : /\ i - 1 \in Stored /\ h[i] = event_history[i - 1].rec
                                   /\ RecordOK(h[i]) /\ (h[i].op = "intent" => IntentRow(i - 1))
  <1>1. maxStep \in Int /\ maxStep + 1 \in Nat /\ maxStep + 1 <= MaxSteps
    BY MaxStepBounds, Bounds DEF Stored, Steps
  <1>2. \A i \in 1..(maxStep + 1) : i - 1 \in Stored /\ i - 1 \in Steps
    BY <1>1 DEF validateReplayStepDensity, Stored
  <1>3. \A i \in 1..(maxStep + 1) : event_history[i - 1] # NULL /\ event_history[i - 1] \in Row
    BY <1>2 DEF Stored, IInv, TypeOK
  <1>4. h \in Seq(EventRecord) /\ Len(h) = maxStep + 1
    BY <1>1, <1>3 DEF Row
  <1>5. ASSUME NEW i \in 1..(maxStep + 1)
        PROVE  /\ i - 1 \in Stored /\ h[i] = event_history[i - 1].rec
               /\ RecordOK(h[i]) /\ (h[i].op = "intent" => IntentRow(i - 1))
    BY <1>2, <1>3 DEF IInv, RowOK, IntentRow
  <1>6. QED BY Zenon, <1>1, <1>4, <1>5

(* The history is read, or is refused for its gaps or checksums.           *)
LEMMA LoadHistoryKeeps ==
    ASSUME IInv, NEW e \in execs, LoadHistory(e)
    PROVE  IInv'
  <1>1. e \in Exec /\ ExecOK(e) /\ e.at = "claimed" /\ e.step = 0
    BY DEF IInv, TypeOK, LoadHistory, ExecOK
  <1>2. CASE validateReplayStepDensity /\ VerifyWorkflowEvents
    <2>1. PICK h : h = [i \in 1..(maxStep + 1) |-> event_history[i - 1].rec]
      BY Zenon
    <2>2. /\ h \in Seq(EventRecord) /\ Len(h) = maxStep + 1 /\ maxStep + 1 <= MaxSteps
          /\ \A i \in 1..Len(h) : /\ i - 1 \in Stored /\ h[i] = event_history[i - 1].rec
                                  /\ RecordOK(h[i]) /\ (h[i].op = "intent" => IntentRow(i - 1))
      BY <1>2, <2>1, DenseHistory
    <2>3. PICK n : n = maxStep + 1
      BY Zenon
    <2>4. n \in Nat /\ n = Len(h)
      BY <2>2, <2>3, MaxStepBounds
    <2>5. PICK f : f = [e EXCEPT !.at = "guest", !.loaded = n, !.history = h]
      BY Zenon
    <2>6. f \in Exec
      BY Zenon, <1>1, <2>2, <2>4, <2>5 DEF Exec
    <2>7. /\ f.at = "guest" /\ f.loaded = n /\ f.history = h /\ f.gen = e.gen /\ f.step = 0
      BY Zenon, <1>1, <2>5 DEF Exec
    <2>8. swept /\ Fence(f) => Len(h) > 0 /\ h[1].op = "admin"
      <3>1. SUFFICES ASSUME swept, Fence(f) PROVE Len(h) > 0 /\ h[1].op = "admin"
        OBVIOUS
      <3>2. Stored # {}
        BY <3>1 DEF Fence, IInv, SweepOK
      <3>3. maxStep \in Stored /\ maxStep \in Steps
        BY <3>2, MaxStepBounds DEF Stored
      <3>4. Len(h) > 0 /\ 1 \in 1..Len(h)
        BY <2>2, <3>3 DEF Steps
      <3>5. 1 - 1 \in Stored /\ h[1] = event_history[1 - 1].rec
        BY <2>2, <3>4
      <3>6. 0 \in Steps /\ event_history[0] # NULL /\ h[1] = event_history[0].rec
        BY <3>5 DEF Stored
      <3>7. QED BY <3>1, <3>4, <3>6 DEF IInv, RowOK
    <2>9. ExecOK(f)
      BY <1>1, <2>2, <2>4, <2>7, <2>8 DEF ExecOK, OutThere
    <2>10. Moves(e, f)
      BY <1>2, <2>1, <2>3, <2>5 DEF LoadHistory
    <2>11. QED BY <2>6, <2>7, <2>9, <2>10, QuietStepKeeps DEF LoadHistory
  <1>3. CASE ~(validateReplayStepDensity /\ VerifyWorkflowEvents)
    <2>1. PICK f : f = [e EXCEPT !.at = "failing"]
      BY Zenon
    <2>2. /\ f \in Exec /\ f.at = "failing" /\ f.loaded = e.loaded /\ f.history = e.history
          /\ f.gen = e.gen /\ f.step = e.step
      BY Zenon, <1>1, <2>1 DEF Exec
    <2>3. ExecOK(f)
      BY <1>1, <2>2 DEF ExecOK, OutThere, Fence
    <2>4. Moves(e, f)
      BY Zenon, <1>3, <2>1 DEF LoadHistory
    <2>5. QED BY <2>2, <2>3, <2>4, QuietStepKeeps DEF LoadHistory
  <1>4. QED BY <1>2, <1>3

(* A fresh call of the execution that holds the claim finds no sweep. *)
LEMMA FreshMeansUnswept ==
    ASSUME NEW e \in Exec, ExecOK(e), Fence(e),
           (e.at = "guest" /\ ~Replaying(e)) \/ OutThere(e)
    PROVE  ~swept
  BY Zenon DEF ExecOK, Replaying, OutThere, Exec

(* An execution that recorded an event and goes on, or stops. *)
LEMMA RecordedExec ==
    ASSUME IInv, NEW e \in execs, e.step = Len(e.history), e.step \in Steps, e.call \in Calls,
           NEW rec \in EventRecord, RecordOK(rec), NEW f \in Exec,
           f.at \in {"guest", "failing"}, f.gen = e.gen, f.loaded = e.loaded,
           f.history = Append(e.history, rec), f.step = e.step + 1,
           Kept /\ rec.op = "intent" => IntentRow(e.step)',
           swept' /\ Fence(f)' => ~swept, Keeps,
           lease' = lease, swept' = swept
    PROVE  ExecOK(f)'
  <1>1. e \in Exec /\ ExecOK(e)
    BY Zenon DEF IInv, TypeOK
  <1>2. /\ Len(f.history) = Len(e.history) + 1
        /\ \A i \in 1..Len(e.history) : f.history[i] = e.history[i]
        /\ f.history[Len(e.history) + 1] = rec
    BY <1>1 DEF Exec
  <1>3. Len(e.history) \in Nat /\ e.loaded \in Nat /\ Len(f.history) <= MaxSteps
    BY <1>1, <1>2, Bounds DEF Exec, Steps
  <1>4. ASSUME NEW i \in 1..Len(f.history)
        PROVE  /\ RecordOK(f.history[i])
               /\ Kept' /\ f.history[i].op = "intent" => IntentRow(i - 1)'
    <2>1. CASE i \in 1..Len(e.history)
      <3>1. i - 1 \in Steps
        BY <1>2, <1>3, <2>1, Bounds DEF Steps
      <3>2. QED BY Zenon, <1>1, <1>2, <2>1, <3>1 DEF ExecOK, Keeps
    <2>2. CASE i = Len(e.history) + 1
      BY <1>2, <1>3, <2>2 DEF Keeps
    <2>3. QED BY <1>2, <1>3, <2>1, <2>2
  <1>5. /\ f.gen <= lease'.generation /\ f.step <= Len(f.history) /\ f.loaded <= Len(f.history)
    BY <1>1, <1>2, <1>3 DEF ExecOK
  <1>6. QED BY Zenon, <1>2, <1>3, <1>4, <1>5 DEF ExecOK, OutThere, RecordOK

(* A call past the history.                                                *)
LEMMA freshCallKeeps ==
    ASSUME IInv, NEW e \in execs, freshCall(e)
    PROVE  IInv'
  <1> DEFINE rec == [op |-> "plain", call |-> e.call, out |-> Out("call", e.gen)]
             checksum == computeEventChecksum(e.step, rec, e.lastChecksum)
  <1>1. PICK wrote, flushed \in BOOLEAN :
          /\ wrote => Fence(e)
          /\ event_history' = IF wrote THEN Inserted(event_history, e.step, rec, checksum)
                              ELSE event_history
          /\ Moves(e, Told(Recorded(e, rec, flushed), TRUE))
    BY Zenon DEF freshCall
  <1>2. /\ e \in Exec /\ ExecOK(e) /\ e.at = "guest" /\ e.call \in Calls /\ ~Replaying(e)
        /\ e.step \in Steps
    BY Zenon DEF IInv, TypeOK, freshCall, AtCall
  <1>3. rec \in EventRecord /\ RecordOK(rec) /\ rec.op = "plain" /\ rec.out.by = "call"
    BY <1>2, Bounds DEF EventRecord, Outcome, Out, Ops, Calls, Exec, RecordOK
  <1> HIDE DEF rec
  <1>4. checksum \in StepRecords /\ checksum # NoChecksum
    BY Zenon, <1>2, <1>3, ChecksumType DEF Exec
  <1> HIDE DEF checksum
  <1>5. e.step = Len(e.history)
    BY <1>2 DEF ExecOK, Replaying, Exec
  <1>6. event_history \in Table
    BY Zenon DEF IInv, TypeOK, Table
  <1>7. /\ event_history' \in Table
        /\ \A s \in Steps : event_history[s] # NULL => event_history'[s] = event_history[s]
        /\ \A s \in Steps : event_history[s] = NULL /\ event_history'[s] # NULL =>
              /\ event_history'[s].rec = rec /\ event_history'[s].checksum = checksum /\ ~swept
    <2>1. CASE wrote
      <3>1. event_history' = Inserted(event_history, e.step, rec, checksum)
        BY Zenon, <1>1, <2>1
      <3>2. ~swept
        BY Zenon, <1>1, <1>2, <2>1, FreshMeansUnswept
      <3>3. QED BY <1>2, <1>3, <1>4, <1>6, <3>1, <3>2, InsertedRows
    <2>2. CASE ~wrote
      BY Zenon, <1>1, <1>6, <2>2
    <2>3. QED BY Zenon, <2>1, <2>2
  <1>8. UNCHANGED <<guest, lease, swept, service, admin>>
    BY Zenon DEF freshCall
  <1>9. Keeps
    BY <1>7, <1>8 DEF Keeps, Kept, IntentRow, IInv, TypeOK, service
  <1>10. ASSUME NEW s \in Steps PROVE RowOK(s)'
    <2>1. CASE event_history'[s] = event_history[s]
      BY Zenon, <1>8, <2>1, RowKept DEF IInv, service
    <2>2. CASE event_history'[s] # event_history[s]
      <3>1. event_history'[s].rec = rec /\ event_history'[s].checksum = checksum /\ ~swept
        BY <1>7, <2>2
      <3>2. QED BY Zenon, <1>3, <1>4, <1>8, <3>1 DEF RowOK
    <2>3. QED BY Zenon, <2>1, <2>2
  <1>11. PICK g : g = Recorded(e, rec, flushed)
    BY Zenon
  <1>12. /\ g \in Exec /\ g.gen = e.gen /\ g.loaded = e.loaded /\ g.call = e.call
         /\ g.history = Append(e.history, rec) /\ g.step = e.step + 1
    <2>1. PICK h : h = Append(e.history, rec)
      BY Zenon
    <2>2. PICK n : n = e.step + 1
      BY Zenon
    <2>3. PICK last : last = IF flushed THEN checksum ELSE e.lastChecksum
      BY Zenon
    <2>4. h \in Seq(EventRecord) /\ n \in Nat /\ last \in StepRecords
      BY <1>2, <1>3, <1>4, <2>1, <2>2, <2>3 DEF Exec
    <2>5. g = [e EXCEPT !.history = h, !.step = n, !.lastChecksum = last]
      BY <1>11, <2>1, <2>2, <2>3 DEF Recorded, checksum
    <2>6. g \in Exec
      BY Zenon, <1>2, <2>4, <2>5 DEF Exec
    <2>7. g.gen = e.gen /\ g.loaded = e.loaded /\ g.call = e.call /\ g.history = h /\ g.step = n
      BY <1>2, <2>5 DEF Exec
    <2>8. QED BY <2>1, <2>2, <2>6, <2>7
  <1>13. PICK f : f = Told(g, TRUE)
    BY Zenon
  <1>14. /\ f \in Exec /\ f.at \in {"guest", "failing"} /\ f.gen = e.gen /\ f.loaded = e.loaded
         /\ f.history = Append(e.history, rec) /\ f.step = e.step + 1
    BY Zenon, <1>2, <1>12, <1>13, ToldFields
  <1>15. swept' /\ Fence(f)' => ~swept
    BY Zenon, <1>2, <1>8, <1>14, FreshMeansUnswept DEF Fence
  <1>16. ExecOK(f)'
    BY Zenon, <1>2, <1>3, <1>5, <1>8, <1>9, <1>14, <1>15, RecordedExec
  <1>17. Moves(e, f)
    BY Zenon, <1>1, <1>11, <1>13
  <1>18. Tokens'
    BY Zenon, <1>8, <1>9, <1>14, <1>17, TokensKept DEF IInv, TypeOK, Moves, service
  <1>19. QED
    BY Zenon, <1>7, <1>8, <1>9, <1>10, <1>14, <1>16, <1>17, <1>18, SessionStepKeeps
       DEF IInv, TypeOK, service

(* An execution that is out there: its intent is written, its request is   *)
(* on the way or has been answered.                                        *)
LEMMA OutThereExec ==
    ASSUME IInv, NEW e \in execs, e.step \in Steps, e.step = Len(e.history), e.call \in Calls,
           NEW f \in Exec, OutThere(f), f.gen = e.gen, f.loaded = e.loaded,
           f.history = e.history, f.step = e.step, f.call = e.call,
           Kept' => IntentRow(f.step)', Keeps,
           f.at = "returned" => /\ f.answer.by \in {"call", "error"}
                                /\ f.answer.by = "call" => applied[f.step] > 0,
           ~(swept /\ Fence(e)), lease' = lease, swept' = swept
    PROVE  ExecOK(f)'
  <1>1. e \in Exec /\ ExecOK(e)
    BY DEF IInv, TypeOK
  <1>2. ~(swept' /\ Fence(f)')
    BY Zenon DEF Fence
  <1>3. ASSUME NEW i \in 1..Len(f.history)
        PROVE  /\ RecordOK(f.history[i])
               /\ Kept' /\ f.history[i].op = "intent" => IntentRow(i - 1)'
    <2>1. i - 1 \in Steps
      BY <1>1, Bounds DEF Steps, ExecOK, Exec
    <2>2. QED BY Zenon, <1>1, <2>1 DEF ExecOK, Keeps
  <1>4. f.at = "returned" => /\ f.answer.by \in {"call", "error"}
                             /\ f.answer.by = "call" => applied'[f.step] > 0
    BY Zenon DEF Keeps
  <1>5. f.at # "claimed"
    BY Zenon DEF OutThere
  <1>6. QED BY Zenon, <1>1, <1>2, <1>3, <1>4, <1>5 DEF ExecOK, RecordOK, OutThere

(* An execution that is told of a failure without having recorded it. *)
LEMMA ToldExec ==
    ASSUME IInv, NEW e \in execs, NEW f \in Exec, f.at \in {"guest", "failing"},
           f.gen = e.gen, f.loaded = e.loaded, f.history = e.history,
           f.step \in e.step..Len(e.history), Keeps,
           swept /\ Fence(e) => f.at = "failing", lease' = lease, swept' = swept
    PROVE  ExecOK(f)'
  <1>1. e \in Exec /\ ExecOK(e)
    BY Zenon DEF IInv, TypeOK
  <1>2. swept' /\ Fence(f)' => f.at = "failing"
    BY Zenon DEF Fence
  <1>3. ASSUME NEW i \in 1..Len(f.history)
        PROVE  /\ RecordOK(f.history[i])
               /\ Kept' /\ f.history[i].op = "intent" => IntentRow(i - 1)'
    <2>1. i - 1 \in Steps
      BY <1>1, Bounds DEF Steps, ExecOK, Exec
    <2>2. QED BY Zenon, <1>1, <2>1 DEF ExecOK, Keeps
  <1>4. f.step <= Len(f.history)
    BY <1>1 DEF Exec
  <1>5. QED BY Zenon, <1>1, <1>2, <1>3, <1>4 DEF ExecOK, RecordOK, OutThere

(* The row of an intent.                                                   *)
LEMMA PendingRow ==
    ASSUME NEW c \in Calls, NEW row, row = [rec |-> Pending(c), checksum |-> NoChecksum]
    PROVE  /\ row \in Row /\ row # NULL
           /\ row.rec.op = "intent" /\ row.rec.out.by = "pending"
  <1>1. Pending(c) \in EventRecord /\ Pending(c).op = "intent" /\ Pending(c).out.by = "pending"
    BY Bounds DEF Pending, EventRecord, Outcome, Out, Ops, Calls
  <1>2. NoChecksum \in StepRecords
    BY Zenon DEF NoChecksum, StepRecords
  <1>3. row \in Row /\ row.rec = Pending(c)
    BY <1>1, <1>2 DEF Row
  <1>4. QED BY Zenon, <1>1, <1>3, Bounds

(* The intent gets its row, and with it the right to dispatch is given.    *)
LEMMA WriteCallIntentKeeps ==
    ASSUME IInv, NEW e \in execs, WriteCallIntent(e)
    PROVE  IInv'
  <1> DEFINE s == e.step
  <1>1. PICK row : row = [rec |-> Pending(e.call), checksum |-> NoChecksum]
    BY Zenon
  <1>2. PICK wrote, ok \in BOOLEAN :
          /\ wrote => Fence(e) /\ event_history[s] = NULL
          /\ ok => wrote
          /\ event_history' = IF wrote THEN [event_history EXCEPT ![s] = row] ELSE event_history
          /\ Moves(e, IF ok THEN [e EXCEPT !.at = "written"] ELSE Told(e, FALSE))
    BY <1>1, Zenon DEF WriteCallIntent, IntentAccepted
  <1>3. /\ e \in Exec /\ ExecOK(e) /\ e.at = "guest" /\ e.call \in Calls /\ ~Replaying(e)
        /\ s \in Steps
    BY Zenon DEF IInv, TypeOK, WriteCallIntent, AtCall
  <1>4. s = Len(e.history)
    BY <1>3 DEF ExecOK, Replaying, Exec
  <1>5. row \in Row /\ row # NULL /\ row.rec.op = "intent" /\ row.rec.out.by = "pending"
    BY Zenon, <1>1, <1>3, PendingRow
  <1>6. event_history \in Table
    BY DEF IInv, TypeOK, Table
  <1>7. /\ event_history' \in Table
        /\ \A t \in Steps : event_history[t] # NULL => event_history'[t] = event_history[t]
        /\ \A t \in Steps : event_history[t] = NULL /\ event_history'[t] # NULL =>
              wrote /\ t = s /\ event_history'[t] = row
        /\ wrote => event_history'[s] = row
    <2>1. CASE wrote
      <3>1. event_history' = [event_history EXCEPT ![s] = row] /\ event_history[s] = NULL
        BY <1>2, <2>1
      <3>2. QED BY Zenon, <1>3, <1>5, <1>6, <2>1, <3>1 DEF Table
    <2>2. CASE ~wrote
      BY Zenon, <1>2, <1>6, <2>2
    <2>3. QED BY Zenon, <2>1, <2>2
  <1>8. UNCHANGED <<guest, lease, swept, service, admin>>
    BY Zenon DEF WriteCallIntent
  <1>9. Keeps
    BY <1>7, <1>8 DEF Keeps, Kept, IntentRow, IInv, TypeOK, service
  <1>10. ~(swept /\ Fence(e))
    BY Zenon, <1>3, FreshMeansUnswept
  <1>11. ASSUME NEW t \in Steps PROVE RowOK(t)'
    <2>1. CASE event_history'[t] = event_history[t]
      BY <1>8, <2>1, RowKept DEF IInv, service
    <2>2. CASE event_history'[t] # event_history[t]
      <3>1. event_history'[t] = row /\ ~swept
        BY Zenon, <1>2, <1>7, <1>10, <2>2
      <3>2. QED BY <1>5, <1>8, <3>1 DEF RowOK, RecordOK
    <2>3. QED BY <2>1, <2>2
  <1>12. CASE ok
    <2>1. PICK f : f = [e EXCEPT !.at = "written"]
      BY Zenon
    <2>2. /\ f \in Exec /\ f.at = "written" /\ f.gen = e.gen /\ f.loaded = e.loaded
          /\ f.history = e.history /\ f.step = s /\ f.call = e.call
      BY <1>3, <2>1 DEF Exec
    <2>3. Moves(e, f)
      BY <1>2, <1>12, <2>1
    <2>4. IntentRow(s)'
      BY Zenon, <1>2, <1>5, <1>7, <1>12 DEF IntentRow
    <2>5. ExecOK(f)'
      BY Zenon, <1>3, <1>4, <1>8, <1>9, <1>10, <2>2, <2>4, OutThereExec DEF OutThere
    <2>6. Kept /\ ~IntentRow(s) /\ wrote
      BY Zenon, <1>2, <1>10, <1>12 DEF Kept, Fence, IntentRow
    <2>7. /\ \A x \in execs : x.at = "written" => x.step # s
          /\ \A q \in requests : q.key # s
          /\ ~(applied[s] > 0)
      BY Zenon, <1>3, <2>6 DEF IInv, ExecOK, OutThere, Tokens
    <2>8. applied[s] = 0
      BY <1>3, <2>7 DEF IInv, TypeOK
    <2>9. Tokens'
      <3>1. \A x \in execs' : x = f \/ x \in execs
        BY <2>3 DEF Moves
      <3>2. requests' = requests /\ applied' = applied
        BY Zenon, <1>8 DEF service
      <3>3. \A x, y \in execs' : x.at = "written" /\ y.at = "written" /\ x.step = y.step => x = y
        BY Zenon, <2>2, <2>7, <3>1 DEF IInv, Tokens
      <3>4. \A x \in execs', q \in requests' : x.at = "written" => q.key # x.step
        BY Zenon, <2>2, <2>7, <3>1, <3>2 DEF IInv, Tokens
      <3>5. ~KeyReplay => \A x \in execs' : x.at = "written" => applied'[x.step] = 0
        BY Zenon, <2>2, <2>8, <3>1, <3>2 DEF IInv, Tokens
      <3>6. \A q \in requests : q.key \in Steps
        BY Zenon DEF IInv, TypeOK
      <3>7. Kept' => /\ \A q \in requests' : IntentRow(q.key)'
                     /\ \A t \in Steps : applied'[t] > 0 => IntentRow(t)'
        BY Zenon, <1>9, <3>2, <3>6 DEF IInv, Tokens, Keeps
      <3>8. QED BY Zenon, <3>2, <3>3, <3>4, <3>5, <3>7 DEF IInv, Tokens
    <2>10. QED
      BY Zenon, <1>7, <1>8, <1>9, <1>11, <2>2, <2>3, <2>5, <2>9, SessionStepKeeps
         DEF IInv, TypeOK, service
  <1>13. CASE ~ok
    <2>1. PICK f : f = Told(e, FALSE)
      BY Zenon
    <2>2. /\ f \in Exec /\ f.at \in {"guest", "failing"} /\ f.gen = e.gen /\ f.loaded = e.loaded
          /\ f.history = e.history /\ f.step = e.step
      BY Zenon, <1>3, <2>1, ToldFields
    <2>3. Moves(e, f)
      BY Zenon, <1>2, <1>13, <2>1
    <2>4. e.step \in e.step..Len(e.history)
      BY <1>3, <1>4 DEF Steps
    <2>5. ExecOK(f)'
      BY Zenon, <1>8, <1>9, <1>10, <2>2, <2>4, ToldExec
    <2>6. Tokens'
      BY Zenon, <1>8, <1>9, <2>2, <2>3, TokensKept DEF IInv, TypeOK, Moves, service
    <2>7. QED
      BY Zenon, <1>7, <1>8, <1>9, <1>11, <2>2, <2>3, <2>5, <2>6, SessionStepKeeps
         DEF IInv, TypeOK, service
  <1>14. QED BY <1>12, <1>13

(* The right moves from the execution to the request.                      *)
LEMMA callServiceKeeps ==
    ASSUME IInv, NEW e \in execs, callService(e)
    PROVE  IInv'
  <1> DEFINE s == e.step
  <1>1. /\ e \in Exec /\ ExecOK(e) /\ e.at = "written" /\ OutThere(e)
        /\ s \in Steps /\ s = Len(e.history) /\ e.call \in Calls
    BY DEF IInv, TypeOK, callService, ExecOK, OutThere
  <1>2. PICK f : f = [e EXCEPT !.at = "calling"]
    BY Zenon
  <1>3. /\ f \in Exec /\ f.at = "calling" /\ f.gen = e.gen /\ f.loaded = e.loaded
        /\ f.history = e.history /\ f.step = s /\ f.call = e.call
    BY <1>1, <1>2 DEF Exec
  <1>4. PICK p : p = [key |-> s, gen |-> e.gen]
    BY Zenon
  <1>5. p \in [key: Steps, gen: 1..MaxGeneration] /\ p.key = s
    BY <1>1, <1>4 DEF Exec
  <1>6. /\ Moves(e, f) /\ requests' = requests \cup {p}
        /\ UNCHANGED <<guest, lease, event_history, swept, applied, refused, admin>>
    BY Zenon, <1>2, <1>4 DEF callService
  <1>7. Keeps
    BY <1>6 DEF Keeps, Kept, IntentRow, IInv, TypeOK
  <1>8. ~(swept /\ Fence(e))
    BY Zenon, <1>1, FreshMeansUnswept
  <1>9. Kept => IntentRow(s)
    BY Zenon, <1>1 DEF ExecOK
  <1>10. Kept' => IntentRow(s)'
    BY Zenon, <1>1, <1>7, <1>9 DEF Keeps
  <1>11. ExecOK(f)'
    BY Zenon, <1>1, <1>3, <1>6, <1>7, <1>8, <1>10, OutThereExec DEF OutThere
  <1>12. ASSUME NEW t \in Steps PROVE RowOK(t)'
    BY Zenon, <1>6, RowKept DEF IInv
  <1>13. Tokens'
    <2>1. \A x \in execs' : x.at = "written" => x \in execs /\ x # e
      BY <1>3, <1>6 DEF Moves
    <2>2. \A q \in requests' : q = p \/ q \in requests
      BY Zenon, <1>6
    <2>3. /\ \A x \in execs : x.at = "written" /\ x.step = s => x = e
          /\ \A q \in requests : q.key # s
      BY Zenon, <1>1 DEF IInv, Tokens
    <2>4. ~KeyReplay => applied[s] = 0
      BY Zenon, <1>1 DEF IInv, Tokens
    <2>5. \A x, y \in execs' : x.at = "written" /\ y.at = "written" /\ x.step = y.step => x = y
      BY Zenon, <2>1 DEF IInv, Tokens
    <2>6. \A x \in execs', q \in requests' : x.at = "written" => q.key # x.step
      BY Zenon, <1>5, <2>1, <2>2, <2>3 DEF IInv, Tokens
    <2>7. \A q, r \in requests' : q.key = r.key => q = r
      BY Zenon, <1>5, <2>2, <2>3 DEF IInv, Tokens
    <2>8. ~KeyReplay => /\ \A x \in execs' : x.at = "written" => applied'[x.step] = 0
                        /\ \A q \in requests' : applied'[q.key] = 0
      BY Zenon, <1>5, <1>6, <2>1, <2>2, <2>4 DEF IInv, Tokens
    <2>9. \A q \in requests : q.key \in Steps
      BY Zenon DEF IInv, TypeOK
    <2>10. Kept' => /\ \A q \in requests' : IntentRow(q.key)'
                    /\ \A t \in Steps : applied'[t] > 0 => IntentRow(t)'
      BY Zenon, <1>5, <1>6, <1>7, <1>10, <2>2, <2>9 DEF IInv, Tokens, Keeps
    <2>11. QED BY Zenon, <1>6, <2>5, <2>6, <2>7, <2>8, <2>10 DEF IInv, Tokens
  <1>14. QED
    BY Zenon, <1>3, <1>5, <1>6, <1>7, <1>11, <1>12, <1>13, SessionStepKeeps DEF IInv, TypeOK, Table

(* The answer, or an error, reaches the execution.                         *)
LEMMA CallReturnsKeeps ==
    ASSUME IInv, NEW e \in execs, CallReturns(e)
    PROVE  IInv'
  <1>1. /\ e \in Exec /\ ExecOK(e) /\ e.at = "calling" /\ OutThere(e)
        /\ e.step \in Steps /\ e.step = Len(e.history) /\ e.call \in Calls
    BY Zenon DEF IInv, TypeOK, CallReturns, ExecOK, OutThere
  <1>2. PICK by \in {"call", "error"} :
          /\ by = "call" => applied[e.step] > 0
          /\ Moves(e, [e EXCEPT !.at = "returned", !.answer = Out(by, e.gen)])
    BY Zenon DEF CallReturns
  <1>3. PICK out : out = Out(by, e.gen)
    BY Zenon
  <1>4. out \in Outcome /\ out.by = by
    BY <1>1, <1>3, Bounds DEF Outcome, Out, Exec
  <1>5. PICK f : f = [e EXCEPT !.at = "returned", !.answer = out]
    BY Zenon
  <1>6. /\ f \in Exec /\ f.at = "returned" /\ f.answer = out /\ f.gen = e.gen
        /\ f.loaded = e.loaded /\ f.history = e.history /\ f.step = e.step /\ f.call = e.call
    BY Zenon, <1>1, <1>4, <1>5 DEF Exec
  <1>7. Moves(e, f)
    BY <1>2, <1>3, <1>5
  <1>8. ExecOK(f)
    <2>1. ~(swept /\ Fence(e))
      BY Zenon, <1>1, FreshMeansUnswept
    <2>2. ~(swept /\ Fence(f))
      BY <1>6, <2>1 DEF Fence
    <2>3. f.answer.by \in {"call", "error"} /\ (f.answer.by = "call" => applied[f.step] > 0)
      BY Zenon, <1>2, <1>4, <1>6
    <2>4. QED BY Zenon, <1>1, <1>6, <2>2, <2>3 DEF ExecOK, OutThere
  <1>9. QED BY Zenon, <1>6, <1>7, <1>8, QuietStepKeeps DEF CallReturns

(* The outcome is written to a row that is still pending.                  *)
LEMMA CompleteCallIntentKeeps ==
    ASSUME IInv, NEW e \in execs, CompleteCallIntent(e)
    PROVE  IInv'
  <1> DEFINE s == e.step
             rec == Done(Pending(e.call), e.answer)
             checksum == computeEventChecksum(s, rec, e.lastChecksum)
  <1>1. /\ e \in Exec /\ ExecOK(e) /\ e.at = "returned" /\ OutThere(e)
        /\ s \in Steps /\ s = Len(e.history) /\ e.call \in Calls
        /\ e.answer.by \in {"call", "error"} /\ (e.answer.by = "call" => applied[s] > 0)
    BY Zenon DEF IInv, TypeOK, CompleteCallIntent, ExecOK, OutThere
  <1>2. rec \in EventRecord /\ rec.op = "intent" /\ rec.out = e.answer /\ RecordOK(rec)
    <2>1. e.answer \in Outcome /\ e.call \in 0..MaxCalls
      BY <1>1, Bounds DEF Exec, Calls
    <2>2. rec = [op |-> "intent", call |-> e.call, out |-> e.answer]
      BY DEF Done, Pending
    <2>3. QED BY <2>1, <2>2 DEF EventRecord, Ops, RecordOK
  <1> HIDE DEF rec
  <1>3. checksum \in StepRecords /\ checksum # NoChecksum
    BY <1>1, <1>2, ChecksumType DEF Exec
  <1>4. PICK row : row = [rec |-> rec, checksum |-> checksum]
    BY Zenon
  <1>5. PICK wrote, ok \in BOOLEAN :
          /\ wrote => Fence(e) /\ StillPending(s)
          /\ ok => wrote
          /\ event_history' = IF wrote THEN [event_history EXCEPT ![s] = row] ELSE event_history
          /\ Moves(e, IF ok
                THEN Told([e EXCEPT !.history = Append(@, rec), !.step = @ + 1,
                                    !.lastChecksum = checksum], e.answer.by = "call")
                ELSE Told(e, FALSE))
    BY <1>4, Zenon DEF CompleteCallIntent, rec
  <1> HIDE DEF checksum
  <1>6. row \in Row /\ row # NULL /\ row.rec = rec /\ row.checksum = checksum
    <2>1. row \in Row /\ row.rec = rec /\ row.checksum = checksum
      BY Zenon, <1>2, <1>3, <1>4 DEF Row
    <2>2. QED BY Zenon, <2>1, Bounds
  <1>7. event_history \in Table
    BY DEF IInv, TypeOK, Table
  <1>8. ~(swept /\ Fence(e))
    BY <1>1, FreshMeansUnswept
  <1>9. wrote => ~swept
    BY Zenon, <1>5, <1>8
  <1>10. /\ event_history' \in Table
         /\ \A t \in Steps : t # s \/ ~wrote => event_history'[t] = event_history[t]
         /\ wrote => event_history'[s] = row /\ event_history[s] # NULL
    <2>1. CASE wrote
      <3>1. event_history' = [event_history EXCEPT ![s] = row]
        BY <1>5, <2>1
      <3>2. event_history[s] # NULL
        BY <1>5, <2>1 DEF StillPending, isPendingIntent
      <3>3. QED BY Zenon, <1>1, <1>6, <1>7, <2>1, <3>1, <3>2 DEF Table
    <2>2. CASE ~wrote
      BY <1>5, <1>7, <2>2
    <2>3. QED BY Zenon, <2>1, <2>2
  <1>11. UNCHANGED <<guest, lease, swept, service, admin>>
    BY Zenon DEF CompleteCallIntent
  <1>12. \A t \in Steps : IntentRow(t) => IntentRow(t)'
    BY Zenon, <1>2, <1>6, <1>10 DEF IntentRow
  <1>13. Keeps
    BY <1>11, <1>12 DEF Keeps, Kept, IInv, TypeOK, service
  <1>14. ASSUME NEW t \in Steps PROVE RowOK(t)'
    <2>1. CASE t # s \/ ~wrote
      BY Zenon, <1>10, <1>11, <2>1, RowKept DEF IInv, service
    <2>2. CASE t = s /\ wrote
      BY Zenon, <1>1, <1>2, <1>3, <1>6, <1>9, <1>10, <1>11, <2>2 DEF RowOK, service
    <2>3. QED BY Zenon, <2>1, <2>2
  <1>15. \A t \in Steps : event_history[t] # NULL => event_history'[t] # NULL
    BY <1>6, <1>10
  <1>16. CASE ok
    <2>1. PICK g : g = [e EXCEPT !.history = Append(@, rec), !.step = @ + 1,
                                 !.lastChecksum = checksum]
      BY Zenon
    <2>2. /\ g \in Exec /\ g.gen = e.gen /\ g.loaded = e.loaded /\ g.call = e.call
          /\ g.history = Append(e.history, rec) /\ g.step = s + 1
      <3>1. PICK h : h = Append(e.history, rec)
        BY Zenon
      <3>2. PICK n : n = s + 1
        BY Zenon
      <3>3. h \in Seq(EventRecord) /\ n \in Nat
        BY <1>1, <1>2, <3>1, <3>2 DEF Exec
      <3>4. g = [e EXCEPT !.history = h, !.step = n, !.lastChecksum = checksum]
        BY <2>1, <3>1, <3>2
      <3>5. g \in Exec
        BY Zenon, <1>1, <1>3, <3>3, <3>4 DEF Exec
      <3>6. g.gen = e.gen /\ g.loaded = e.loaded /\ g.call = e.call /\ g.history = h /\ g.step = n
        BY <1>1, <3>4 DEF Exec
      <3>7. QED BY Zenon, <3>1, <3>2, <3>5, <3>6
    <2>3. PICK f : f = Told(g, e.answer.by = "call")
      BY Zenon
    <2>4. /\ f \in Exec /\ f.at \in {"guest", "failing"} /\ f.gen = e.gen /\ f.loaded = e.loaded
          /\ f.history = Append(e.history, rec) /\ f.step = s + 1
      BY <1>1, <2>2, <2>3, ToldFields
    <2>5. Moves(e, f)
      BY Zenon, <1>5, <1>16, <2>1, <2>3
    <2>6. IntentRow(s)'
      BY Zenon, <1>2, <1>5, <1>6, <1>10, <1>16 DEF IntentRow
    <2>7. swept' /\ Fence(f)' => ~swept
      BY Zenon, <1>8, <1>11, <2>4 DEF Fence
    <2>8. ExecOK(f)'
      BY Zenon, <1>1, <1>2, <1>11, <1>13, <2>4, <2>6, <2>7, RecordedExec
    <2>9. Tokens'
      BY Zenon, <1>11, <1>13, <2>4, <2>5, TokensKept DEF IInv, TypeOK, Moves, service
    <2>10. QED
      BY Zenon, <1>10, <1>11, <1>13, <1>14, <1>15, <2>4, <2>5, <2>8, <2>9, SessionStepKeeps
         DEF IInv, TypeOK, service
  <1>17. CASE ~ok
    <2>1. PICK f : f = Told(e, FALSE)
      BY Zenon
    <2>2. /\ f \in Exec /\ f.at \in {"guest", "failing"} /\ f.gen = e.gen /\ f.loaded = e.loaded
          /\ f.history = e.history /\ f.step = e.step
      BY Zenon, <1>1, <2>1, ToldFields
    <2>3. Moves(e, f)
      BY Zenon, <1>5, <1>17, <2>1
    <2>4. e.step \in e.step..Len(e.history)
      BY <1>1 DEF Steps
    <2>5. ExecOK(f)'
      BY Zenon, <1>8, <1>11, <1>13, <2>2, <2>4, ToldExec
    <2>6. Tokens'
      BY <1>11, <1>13, <2>2, <2>3, TokensKept DEF IInv, TypeOK, Moves, service
    <2>7. QED
      BY <1>10, <1>11, <1>13, <1>14, <1>15, <2>2, <2>3, <2>5, <2>6, SessionStepKeeps
         DEF IInv, TypeOK, service
  <1>18. QED BY <1>16, <1>17

(* An execution that consumes a record and is told what it says. *)
LEMMA AdvancedExec ==
    ASSUME IInv, NEW e \in execs, AtCall(e), Replaying(e), NEW ok, NEW f,
           f = Told(Advanced(e), ok), Keeps,
           swept /\ Fence(e) => ~ok /\ ~guest.catches, lease' = lease, swept' = swept
    PROVE  f \in Exec /\ f.at \in {"guest", "failing"} /\ ExecOK(f)'
  <1>1. e \in Exec /\ ExecOK(e) /\ e.call \in Calls /\ Len(e.history) <= MaxSteps
    BY Zenon DEF IInv, TypeOK, ExecOK, AtCall
  <1>2. PICK g : g = Advanced(e)
    BY Zenon
  <1>3. /\ g \in Exec /\ g.gen = e.gen /\ g.history = e.history /\ g.loaded = e.loaded
        /\ g.step = e.step + 1 /\ g.call = e.call
    BY Zenon, <1>1, <1>2, AdvancedFields
  <1>4. /\ f \in Exec /\ f.at \in {"guest", "failing"} /\ f.gen = e.gen
        /\ f.history = e.history /\ f.loaded = e.loaded /\ f.step = e.step + 1
        /\ ~ok /\ ~guest.catches => f.at = "failing"
    BY Zenon, <1>1, <1>2, <1>3, ToldFields
  <1>5. f.step \in e.step..Len(e.history)
    BY <1>1, <1>4 DEF Replaying, Exec
  <1>6. QED BY <1>4, <1>5, ToldExec

(* After a sweep the owner's guest finds nothing of its own. *)
LEMMA SweptIsNotRecognised ==
    ASSUME IInv, NEW e \in execs, AtCall(e), swept, Fence(e)
    PROVE  ~Recognised(e) /\ ~guest.catches
  <1>1. /\ e \in Exec /\ ExecOK(e) /\ e.at = "guest" /\ e.call \in Calls
    BY Zenon DEF IInv, TypeOK, AtCall
  <1>2. e.step = 0 /\ e.history[1].op = "admin"
    BY Zenon, <1>1 DEF ExecOK
  <1>3. guest.ops[e.call] \in Ops
    BY Zenon, <1>1 DEF IInv, TypeOK
  <1>4. e.history[e.step + 1].op = "admin"
    BY <1>2
  <1>5. ~Recognised(e)
    BY Zenon, <1>3, <1>4 DEF Recognised, Ops
  <1>6. QED BY Zenon, <1>5 DEF IInv, SweepOK, Fence

(* A record answers the call.                                              *)
LEMMA replayCallKeeps ==
    ASSUME IInv, NEW e \in execs, replayCall(e)
    PROVE  IInv'
  <1> DEFINE ok == Recognised(e) /\ e.history[e.step + 1].out.by \notin {"error", "notsent"}
  <1>1. PICK f : f = Told(Advanced(e), ok)
    BY Zenon
  <1>2. /\ Moves(e, f) /\ AtCall(e) /\ Replaying(e)
        /\ UNCHANGED <<guest, lease, event_history, swept, service, admin>>
    BY <1>1 DEF replayCall
  <1>3. Keeps
    BY <1>2 DEF Keeps, Kept, IntentRow, IInv, TypeOK, service
  <1>4. swept /\ Fence(e) => ~ok /\ ~guest.catches
    BY Zenon, <1>2, SweptIsNotRecognised
  <1> HIDE DEF ok
  <1>5. f \in Exec /\ f.at \in {"guest", "failing"} /\ ExecOK(f)'
    BY Zenon, <1>1, <1>2, <1>3, <1>4, AdvancedExec
  <1>6. ASSUME NEW s \in Steps PROVE RowOK(s)'
    BY Zenon, <1>2, RowKept DEF IInv, service
  <1>7. Tokens'
    BY Zenon, <1>2, <1>3, <1>5, TokensKept DEF IInv, TypeOK, Moves, service
  <1>8. QED
    BY Zenon, <1>2, <1>3, <1>5, <1>6, <1>7, SessionStepKeeps DEF IInv, TypeOK, Table, service

(* A pending record: replay by key, lookup, or a failure.                  *)
LEMMA resolveAmbiguityKeeps ==
    ASSUME IInv, NEW e \in execs, resolveAmbiguity(e)
    PROVE  IInv'
  <1> DEFINE s == e.step
             rec(by) == Done(e.history[s + 1], Out(by, e.gen))
             h == {<<i - 1, e.history[i]>> : i \in 1..Len(e.history)}
             Decided(by, ok) ==
                /\ ok => by # "none" /\ Fence(e) /\ StillPending(s)
                /\ event_history' = IF ok THEN ResolveCallIntent(s, rec(by), h) ELSE event_history
                /\ by = "key" => /\ KeyReplay /\ s \notin refused /\ refused' = refused
                                 /\ applied' = [applied EXCEPT ![s] = IF @ = 0 THEN 1 ELSE @]
                /\ by = "lookup" => applied[s] > 0 /\ applied' = applied /\ refused' = refused
                /\ by = "notsent" => /\ applied[s] = 0 /\ applied' = applied
                                     /\ refused' = refused \cup {s}
                /\ by = "none" => applied' = applied /\ refused' = refused
             Bys == {"key", "lookup", "notsent", "none"}
  <1>1. /\ AtCall(e) /\ Replaying(e) /\ Recognised(e) /\ FoundPending(e) /\ requests' = requests
        /\ UNCHANGED <<guest, lease, swept, admin>>
    BY Zenon DEF resolveAmbiguity, service
  <1>2. \E by \in Bys, ok, x \in BOOLEAN : Decided(by, ok) /\ Moves(e, Told(Advanced(e), x))
    <2> DEFINE Resolved(by) ==
          \E ok \in BOOLEAN :
             /\ ok => Fence(e) /\ StillPending(s)
             /\ event_history' = IF ok THEN ResolveCallIntent(s, rec(by), h) ELSE event_history
             /\ Moves(e, Told(Advanced(e), ok /\ by # "notsent"))
    <2>1. \A by \in {"key", "lookup", "notsent"} : Resolved(by) =>
            \E ok, x \in BOOLEAN :
               /\ ok => Fence(e) /\ StillPending(s)
               /\ event_history' = IF ok THEN ResolveCallIntent(s, rec(by), h) ELSE event_history
               /\ Moves(e, Told(Advanced(e), x))
      <3> HIDE DEF rec, h
      <3>1. QED BY Zenon
    <2>2. CASE /\ KeyReplay /\ s \notin refused
               /\ applied' = [applied EXCEPT ![s] = IF @ = 0 THEN 1 ELSE @]
               /\ UNCHANGED <<requests, refused>> /\ Resolved("key")
      <3> HIDE DEF rec, h, Resolved
      <3>1. QED BY <2>1, <2>2, Zenon
    <2>3. CASE Resolver /\ applied[s] > 0 /\ UNCHANGED service /\ Resolved("lookup")
      <3> HIDE DEF rec, h, Resolved
      <3>1. QED BY <2>1, <2>3, Zenon DEF service
    <2>4. CASE /\ Resolver /\ applied[s] = 0 /\ refused' = refused \cup {s}
               /\ UNCHANGED <<requests, applied>> /\ Resolved("notsent")
      <3> HIDE DEF rec, h, Resolved
      <3>1. QED BY <2>1, <2>4, Zenon
    <2>5. CASE Moves(e, Told(Advanced(e), FALSE)) /\ UNCHANGED <<event_history, service>>
      <3> HIDE DEF rec, h, Resolved
      <3>1. QED BY <2>5, Zenon DEF service
    <2>6. QED BY <2>2, <2>3, <2>4, <2>5, Zenon DEF resolveAmbiguity
  <1>3. PICK by \in Bys, ok, x \in BOOLEAN : Decided(by, ok) /\ Moves(e, Told(Advanced(e), x))
    BY <1>2, Zenon
  <1>4. /\ e \in Exec /\ ExecOK(e) /\ s \in Steps /\ s + 1 \in 1..Len(e.history)
        /\ e.history[s + 1] \in EventRecord
    BY <1>1, Bounds DEF IInv, TypeOK, ExecOK, Replaying, Exec, Steps
  <1>5. e.history[s + 1].op = "intent" /\ (Kept => IntentRow(s))
    <2>1. RecordOK(e.history[s + 1]) /\ e.history[s + 1].out.by = "pending"
      BY Zenon, <1>1, <1>4 DEF ExecOK, FoundPending
    <2>2. (s + 1) - 1 = s
      BY <1>4 DEF Steps
    <2>3. e.history[s + 1].op = "intent"
      BY Zenon, <2>1 DEF RecordOK
    <2>4. QED BY Zenon, <1>4, <2>2, <2>3 DEF ExecOK
  <1>6. ~(swept /\ Fence(e))
    BY Zenon, <1>1, SweptIsNotRecognised
  <1>7. by # "none" => rec(by) \in EventRecord /\ rec(by).op = "intent" /\ rec(by).out.by = by
    <2>1. by # "none" => Out(by, e.gen) \in Outcome /\ Out(by, e.gen).by = by
      BY <1>4, Bounds DEF Out, Outcome, Exec
    <2>2. QED BY Zenon, <1>4, <1>5, <2>1 DEF Done, EventRecord
  <1>8. h \in StepRecords
    <2>1. \A i \in 1..Len(e.history) : i - 1 \in Steps /\ e.history[i] \in EventRecord
      BY <1>4, Bounds DEF ExecOK, Exec, Steps
    <2>2. QED BY <2>1 DEF StepRecords
  <1>9. event_history \in Table
    BY DEF IInv, TypeOK, Table
  <1> HIDE DEF rec, h
  <1>10. /\ event_history' \in Table
         /\ ok => /\ ~swept /\ by # "none" /\ event_history[s] # NULL
                  /\ event_history'[s] # NULL /\ event_history'[s].rec = rec(by)
                  /\ event_history'[s].checksum # NoChecksum
         /\ \A t \in Steps : t # s \/ ~ok =>
               \/ event_history'[t] = event_history[t]
               \/ /\ event_history[t] # NULL /\ event_history'[t] # NULL
                  /\ event_history'[t].rec = event_history[t].rec
                  /\ event_history'[t].checksum # NoChecksum
    <2>1. CASE ok
      <3>1. event_history' = ResolveCallIntent(s, rec(by), h) /\ by # "none"
        BY <1>3, <2>1
      <3>2. event_history[s] # NULL /\ ~swept
        BY Zenon, <1>3, <1>6, <2>1 DEF StillPending, isPendingIntent
      <3>3. QED BY <1>4, <1>7, <1>8, <1>9, <2>1, <3>1, <3>2, ResolvedRows
    <2>2. CASE ~ok
      BY Zenon, <1>3, <1>9, <2>2
    <2>3. QED BY <2>1, <2>2
  <1>11. /\ applied' \in [Steps -> Nat] /\ refused' \subseteq Steps
         /\ \A t \in Steps : /\ applied[t] > 0 => applied'[t] > 0
                             /\ t \in refused /\ applied[t] = 0 => t \in refused' /\ applied'[t] = 0
                             /\ applied[t] <= 1 => applied'[t] <= 1
                             /\ t # s => applied'[t] = applied[t]
         /\ ~KeyReplay => applied' = applied
    BY <1>3, <1>4 DEF IInv, TypeOK
  <1>12. \A t \in Steps : IntentRow(t) => IntentRow(t)'
    BY <1>7, <1>10 DEF IntentRow
  <1>13. Keeps
    BY <1>1, <1>11, <1>12 DEF Keeps, Kept, IInv, TypeOK
  <1>14. ASSUME NEW t \in Steps PROVE RowOK(t)'
    <2>1. CASE t # s \/ ~ok
      BY Zenon, <1>1, <1>10, <1>11, <2>1, RowKept DEF IInv
    <2>2. CASE t = s /\ ok
      <3>1. by \in {"key", "lookup"} => applied'[s] > 0
        BY <1>3, <1>4 DEF IInv, TypeOK
      <3>2. by = "notsent" => s \in refused' /\ applied'[s] = 0
        BY Zenon, <1>3
      <3>3. rec(by).op = "intent" /\ rec(by).out.by = by /\ by \in {"key", "lookup", "notsent"}
        BY <1>7, <1>10, <2>2
      <3>4. QED BY <1>1, <1>10, <2>2, <3>1, <3>2, <3>3 DEF RowOK, RecordOK
    <2>3. QED BY <2>1, <2>2
  <1>15. PICK f : f = Told(Advanced(e), x)
    BY Zenon
  <1>16. f \in Exec /\ f.at \in {"guest", "failing"} /\ ExecOK(f)'
    BY Zenon, <1>1, <1>6, <1>13, <1>15, AdvancedExec
  <1>17. Moves(e, f)
    BY <1>3, <1>15
  <1>18. Tokens'
    <2>1. \A y \in execs' : y.at = "written" => y \in execs
      BY Zenon, <1>16, <1>17 DEF Moves
    <2>2. \A q \in requests : q.key \in Steps
      BY DEF IInv, TypeOK
    <2>3. ~KeyReplay => /\ \A y \in execs' : y.at = "written" => applied'[y.step] = 0
                        /\ \A q \in requests' : applied'[q.key] = 0
      BY Zenon, <1>1, <1>11, <2>1 DEF IInv, Tokens
    <2>4. Kept' => /\ \A q \in requests' : IntentRow(q.key)'
                   /\ \A t \in Steps : applied'[t] > 0 => IntentRow(t)'
      <3>1. SUFFICES ASSUME Kept'
                     PROVE /\ \A q \in requests : IntentRow(q.key)
                           /\ \A t \in Steps : applied'[t] > 0 => IntentRow(t)
        BY Zenon, <1>1, <1>12, <2>2
      <3>2. Kept
        BY Zenon, <1>13, <3>1 DEF Keeps
      <3>3. QED BY Zenon, <1>5, <1>11, <3>2 DEF IInv, Tokens
    <2>5. \A t \in Steps : applied'[t] <= 1
      BY Zenon, <1>11 DEF IInv, Tokens
    <2>6. QED BY Zenon, <1>1, <2>1, <2>3, <2>4, <2>5 DEF IInv, Tokens
  <1>19. \A t \in Steps : event_history[t] # NULL => event_history'[t] # NULL
    BY Zenon, <1>10
  <1>20. QED
    BY Zenon, <1>1, <1>10, <1>11, <1>13, <1>14, <1>16, <1>17, <1>18, <1>19, SessionStepKeeps
       DEF IInv, TypeOK
-----------------------------------------------------------------------------
(* Claims, the service, and the end of a segment. *)

(* A step that adds no execution. *)
LEMMA OutsideStepKeeps ==
    ASSUME IInv, TypeOK', execs' \subseteq execs, Keeps, \A s \in Steps : RowOK(s)',
           Tokens', SweepOK', AdminOK',
           \A e \in execs' : swept' /\ Fence(e)' => swept /\ Fence(e)
    PROVE  IInv'
  <1>1. ASSUME NEW e \in execs' PROVE ExecOK(e)'
    <2>1. e \in Exec /\ ExecOK(e) /\ TypeOK
      BY Zenon DEF IInv, TypeOK
    <2>2. lease'.generation \in Int
      BY DEF TypeOK
    <2>3. QED BY Zenon, <2>1, <2>2, ExecKept
  <1>2. QED BY Zenon, <1>1 DEF IInv

(* The lease.                                                              *)
LEMMA ClaimKeeps ==
    ASSUME IInv, Claim
    PROVE  IInv'
  <1>1. PICK g : g = lease.generation + 1
    BY Zenon
  <1>2. lease.generation \in Int /\ g \in 1..MaxGeneration /\ lease.generation < g
    BY <1>1, Bounds DEF IInv, TypeOK, Claim
  <1>3. PICK f : f = [gen |-> g, at |-> "claimed", call |-> 1,
                      history |-> <<>>, loaded |-> 0, step |-> 0,
                      lastChecksum |-> NoChecksum, answer |-> Out("pending", 0)]
    BY Zenon
  <1>4. /\ execs' = execs \cup {f} /\ lease' = [status |-> "running", generation |-> g]
        /\ lease.status = "ready" /\ UNCHANGED <<guest, event_history, swept, service, admin>>
    BY Zenon, <1>1, <1>3 DEF Claim
  <1>5. lease'.generation = g /\ lease'.status = "running"
    BY Zenon, <1>4
  <1>6. f \in Exec
    <2>1. Out("pending", 0) \in Outcome /\ NoChecksum \in StepRecords
      BY Bounds DEF Out, Outcome, NoChecksum, StepRecords
    <2>2. 1 \in 1..(MaxCalls + 1)
      BY Bounds
    <2>3. <<>> \in Seq(EventRecord)
      OBVIOUS
    <2>4. QED BY Zenon, <1>2, <1>3, <2>1, <2>2, <2>3 DEF Exec
  <1>7. /\ f.gen = g /\ f.at = "claimed" /\ f.history = <<>> /\ f.loaded = 0 /\ f.step = 0
    BY Zenon, <1>3
  <1>8. TypeOK'
    <2>1. lease' \in [status: {"ready", "running", "done", "failed"}, generation: 0..MaxGeneration]
      BY <1>2, <1>4, Bounds
    <2>2. execs' \subseteq Exec
      BY Zenon, <1>4, <1>6 DEF IInv, TypeOK
    <2>3. QED BY Zenon, <1>4, <2>1, <2>2 DEF IInv, TypeOK, service
  <1>9. Keeps
    BY <1>2, <1>4, <1>5 DEF Keeps, Kept, IntentRow, service
  <1>10. ExecOK(f)'
    <2>1. Len(f.history) = 0
      BY <1>7
    <2>2. QED BY <1>2, <1>5, <1>7, <2>1, Bounds DEF ExecOK, OutThere
  <1>11. ASSUME NEW e \in execs' PROVE ExecOK(e)'
    <2>1. CASE e = f
      BY Zenon, <1>10, <2>1
    <2>2. CASE e # f
      <3>1. e \in execs /\ e \in Exec /\ ExecOK(e) /\ TypeOK
        BY Zenon, <1>4, <1>11, <2>2 DEF IInv, TypeOK
      <3>2. ~Fence(e)'
        BY <1>2, <1>5, <3>1 DEF Fence, ExecOK, Exec
      <3>3. lease'.generation \in Int
        BY <1>2, <1>5
      <3>4. QED BY Zenon, <1>9, <3>1, <3>2, <3>3, ExecKept
    <2>3. QED BY <2>1, <2>2
  <1>12. ASSUME NEW s \in Steps PROVE RowOK(s)'
    BY Zenon, <1>4, RowKept DEF IInv, service
  <1>13. Tokens'
    BY Zenon, <1>4, <1>7, <1>9, TokensKept DEF IInv, TypeOK, service
  <1>14. SweepOK' /\ AdminOK'
    BY Zenon, <1>4, <1>5 DEF IInv, SweepOK, AdminOK, Stored
  <1>15. QED BY Zenon, <1>8, <1>11, <1>12, <1>13, <1>14 DEF IInv

LEMMA LoseClaimKeeps ==
    ASSUME IInv, LoseClaim
    PROVE  IInv'
  <1>1. PICK g : g = lease.generation + 1
    BY Zenon
  <1>2. lease.generation \in Int /\ g \in 0..MaxGeneration /\ lease.generation < g
    BY <1>1, Bounds DEF IInv, TypeOK, LoseClaim
  <1>3. /\ lease' = [status |-> "ready", generation |-> g] /\ lease.status = "running"
        /\ UNCHANGED <<guest, event_history, swept, execs, service, admin>>
    BY Zenon, <1>1 DEF LoseClaim
  <1>4. lease'.generation = g /\ lease'.status = "ready"
    BY Zenon, <1>3
  <1>5. TypeOK'
    BY Zenon, <1>2, <1>3 DEF IInv, TypeOK, service
  <1>6. Keeps
    BY <1>2, <1>3, <1>4 DEF Keeps, Kept, IntentRow, service
  <1>7. ASSUME NEW s \in Steps PROVE RowOK(s)'
    BY Zenon, <1>3, RowKept DEF IInv, service
  <1>8. Tokens'
    BY Zenon, <1>3, <1>6, TokensKept DEF IInv, TypeOK, service
  <1>9. SweepOK' /\ AdminOK'
    BY Zenon, <1>3, <1>4 DEF IInv, SweepOK, AdminOK, Stored
  <1>10. \A e \in execs' : ~Fence(e)'
    BY Zenon, <1>4 DEF Fence
  <1>11. QED BY Zenon, <1>3, <1>5, <1>6, <1>7, <1>8, <1>9, <1>10, OutsideStepKeeps

LEMMA WorkerDiesKeeps ==
    ASSUME IInv, NEW e \in execs, WorkerDies(e)
    PROVE  IInv'
  <1>1. /\ execs' \subseteq execs
        /\ UNCHANGED <<guest, lease, event_history, swept, service, admin>>
    BY Zenon DEF WorkerDies
  <1>2. TypeOK'
    BY Zenon, <1>1 DEF IInv, TypeOK, service
  <1>3. Keeps
    BY <1>1 DEF Keeps, Kept, IntentRow, IInv, TypeOK, service
  <1>4. ASSUME NEW s \in Steps PROVE RowOK(s)'
    BY Zenon, <1>1, RowKept DEF IInv, service
  <1>5. Tokens'
    BY Zenon, <1>1, <1>3, TokensKept DEF IInv, TypeOK, service
  <1>6. SweepOK' /\ AdminOK'
    BY Zenon, <1>1 DEF IInv, SweepOK, AdminOK, Stored
  <1>7. QED BY Zenon, <1>1, <1>2, <1>3, <1>4, <1>5, <1>6, OutsideStepKeeps DEF Fence

(* A request that the service executes, refuses, or never sees. *)
LEMMA RequestEnds ==
    ASSUME IInv, NEW q \in requests, Arrives(q) \/ Lost(q)
    PROVE  IInv'
  <1> DEFINE s == q.key
  <1>1. /\ requests' = requests \ {q} /\ s \in Steps
        /\ UNCHANGED <<guest, lease, event_history, swept, execs, refused, admin>>
    BY Zenon DEF Arrives, Lost, IInv, TypeOK
  <1>2. \/ applied' = applied
        \/ /\ s \notin refused /\ (KeyReplay => ~(applied[s] > 0))
           /\ applied' = [applied EXCEPT ![s] = @ + 1]
    BY Zenon DEF Arrives, Lost
  <1>3. applied \in [Steps -> Nat]
    BY Zenon DEF IInv, TypeOK
  <1>4. /\ applied' \in [Steps -> Nat]
        /\ \A t \in Steps : /\ applied[t] > 0 => applied'[t] > 0
                            /\ t \in refused /\ applied[t] = 0 => applied'[t] = 0
                            /\ t # s => applied'[t] = applied[t]
    BY <1>1, <1>2, <1>3
  <1>5. ~KeyReplay => applied[s] = 0
    BY Zenon DEF IInv, Tokens
  <1>6. applied'[s] <= 1
    <2>1. CASE applied' = applied
      BY Zenon, <1>1, <2>1 DEF IInv, Tokens
    <2>2. CASE (KeyReplay => ~(applied[s] > 0)) /\ applied' = [applied EXCEPT ![s] = @ + 1]
      <3>1. applied[s] \in Nat /\ KeyReplay \in BOOLEAN
        BY Zenon, <1>1, <1>3, CallAssumption DEF ConstantsOK
      <3>2. applied[s] = 0
        BY <1>5, <2>2, <3>1
      <3>3. QED BY <1>1, <1>3, <2>2, <3>2
    <2>3. QED BY <1>2, <2>1, <2>2
  <1>7. TypeOK'
    BY Zenon, <1>1, <1>4 DEF IInv, TypeOK
  <1>8. Keeps
    BY <1>1, <1>4 DEF Keeps, Kept, IntentRow, IInv, TypeOK
  <1>9. ASSUME NEW t \in Steps PROVE RowOK(t)'
    BY Zenon, <1>1, <1>4, RowKept DEF IInv
  <1>10. Tokens'
    <2>1. \A e \in execs : e.at = "written" => e.step \in Steps /\ e.step # s
      BY Zenon, <1>1 DEF IInv, Tokens, ExecOK, OutThere
    <2>2. \A r \in requests' : r \in requests /\ r.key \in Steps /\ r.key # s
      BY Zenon, <1>1 DEF IInv, Tokens, TypeOK
    <2>3. ~KeyReplay => /\ \A e \in execs' : e.at = "written" => applied'[e.step] = 0
                        /\ \A r \in requests' : applied'[r.key] = 0
      BY Zenon, <1>1, <1>4, <2>1, <2>2 DEF IInv, Tokens
    <2>4. \A t \in Steps : applied'[t] <= 1
      BY Zenon, <1>4, <1>6 DEF IInv, Tokens
    <2>5. Kept' => /\ \A r \in requests' : IntentRow(r.key)'
                   /\ \A t \in Steps : applied'[t] > 0 => IntentRow(t)'
      BY Zenon, <1>1, <1>4, <1>8, <2>2 DEF IInv, Tokens, Keeps
    <2>6. QED BY Zenon, <1>1, <2>2, <2>3, <2>4, <2>5 DEF IInv, Tokens
  <1>11. SweepOK' /\ AdminOK'
    BY Zenon, <1>1 DEF IInv, SweepOK, AdminOK, Stored
  <1>12. QED BY Zenon, <1>1, <1>7, <1>8, <1>9, <1>10, <1>11, OutsideStepKeeps DEF Fence

(* The records behind those that were loaded.                              *)
LEMMA RestOfHistory ==
    ASSUME NEW S, NEW h \in Seq(S), NEW m \in Nat, m <= Len(h),
           NEW r, r = SubSeq(h, m + 1, Len(h))
    PROVE  /\ r \in Seq(S) /\ Len(r) = Len(h) - m
           /\ \A k \in 1..Len(r) : r[k] = h[m + k]
  <1>1. Len(h) \in Nat
    OBVIOUS
  <1>2. PICK n : n = Len(h) - m
    BY Zenon
  <1>3. n \in Nat /\ \A k \in 1..n : m + k \in 1..Len(h)
    BY <1>1, <1>2
  <1>4. Len(r) = n
    BY <1>1, <1>2
  <1>5. \A k \in 1..n : r[k] = h[m + k]
    BY <1>1, <1>2, <1>3
  <1>6. r \in Seq(S)
    BY <1>1
  <1>7. QED BY Zenon, <1>2, <1>4, <1>5, <1>6

(* The records a suspension still has to append are none of write-ahead    *)
(* calls: those have their rows.                                           *)
LEMMA FinalizeSuspendKeeps ==
    ASSUME IInv, NEW e \in execs, FinalizeSuspend(e)
    PROVE  IInv'
  <1>1. e \in Exec /\ ExecOK(e) /\ e.at = "guest" /\ ~Replaying(e) /\ Fence(e)
    BY Zenon DEF IInv, TypeOK, FinalizeSuspend
  <1>2. ~swept /\ Kept
    BY <1>1, FreshMeansUnswept DEF Kept, Fence
  <1>3. PICK recs : recs = SubSeq(e.history, e.loaded + 1, Len(e.history))
    BY Zenon
  <1>4. /\ e.history \in Seq(EventRecord) /\ e.loaded \in Nat /\ e.loaded <= Len(e.history)
    BY <1>1 DEF Exec, ExecOK
  <1>5. /\ recs \in Seq(EventRecord) /\ Len(recs) = Len(e.history) - e.loaded
        /\ \A k \in 1..Len(recs) : recs[k] = e.history[e.loaded + k]
    <2>1. PICK h, m : h = e.history /\ m = e.loaded
      BY Zenon
    <2>2. h \in Seq(EventRecord) /\ m \in Nat /\ m <= Len(h) /\ recs = SubSeq(h, m + 1, Len(h))
      BY <1>3, <1>4, <2>1, Zenon
    <2>3. recs \in Seq(EventRecord) /\ Len(recs) = Len(h) - m
          /\ \A k \in 1..Len(recs) : recs[k] = h[m + k]
      BY <2>2, RestOfHistory
    <2>4. QED BY <2>1, <2>3, Zenon
  <1>6. PICK new : new = appendEventsInTx(event_history, e.loaded, recs)
    BY Zenon
  <1>7. /\ event_history' = new /\ lease' = [lease EXCEPT !.status = "ready"]
        /\ execs' \subseteq execs /\ UNCHANGED <<guest, swept, service, admin>>
    BY Zenon, <1>3, <1>6 DEF FinalizeSuspend
  <1>8. event_history \in Table
    BY DEF IInv, TypeOK, Table
  <1>9. /\ new \in Table
        /\ \A s \in Steps :
             /\ event_history[s] # NULL => new[s] = event_history[s]
             /\ event_history[s] = NULL /\ new[s] # NULL =>
                  /\ s - e.loaded + 1 \in 1..Len(recs) /\ new[s].rec = recs[s - e.loaded + 1]
                  /\ new[s].checksum # NoChecksum
    BY Zenon, <1>4, <1>5, <1>6, <1>8, AppendedRows
  <1>10. ASSUME NEW s \in Steps, event_history[s] = NULL, new[s] # NULL
         PROVE  RecordOK(new[s].rec) /\ new[s].rec.op # "intent" /\ new[s].checksum # NoChecksum
    <2>1. s \in Int
      BY Bounds DEF Steps
    <2>2. /\ s - e.loaded + 1 \in 1..Len(recs) /\ new[s].rec = recs[s - e.loaded + 1]
          /\ new[s].checksum # NoChecksum
      BY Zenon, <1>9, <1>10
    <2>3. PICK k \in 1..Len(recs) : k = s - e.loaded + 1
      BY Zenon, <2>2
    <2>4. /\ e.loaded + k = s + 1 /\ s + 1 \in 1..Len(e.history) /\ (s + 1) - 1 = s
      BY <1>4, <1>5, <2>1, <2>3
    <2>5. new[s].rec = e.history[s + 1]
      BY Zenon, <1>5, <2>2, <2>3, <2>4
    <2>6. ~IntentRow(s)
      BY <1>10 DEF IntentRow
    <2>7. QED BY <1>1, <1>2, <2>2, <2>4, <2>5, <2>6 DEF ExecOK
  <1>11. /\ lease'.generation = lease.generation /\ lease'.status = "ready"
         /\ lease' \in [status: {"ready", "running", "done", "failed"}, generation: 0..MaxGeneration]
         /\ lease.generation \in Int
    BY <1>7 DEF IInv, TypeOK
  <1>12. TypeOK'
    BY Zenon, <1>7, <1>9, <1>11 DEF IInv, TypeOK, Table, service
  <1>13. Keeps
    BY <1>2, <1>7, <1>9, <1>11 DEF Keeps, Kept, IntentRow, service
  <1>14. ASSUME NEW s \in Steps PROVE RowOK(s)'
    <2>1. CASE event_history'[s] = event_history[s]
      BY Zenon, <1>7, <2>1, RowKept DEF IInv, service
    <2>2. CASE event_history'[s] # event_history[s]
      <3>1. event_history[s] = NULL /\ new[s] # NULL
        BY Zenon, <1>7, <1>9, <2>2
      <3>2. QED BY Zenon, <1>2, <1>7, <1>10, <3>1 DEF RowOK
    <2>3. QED BY <2>1, <2>2
  <1>15. Tokens'
    BY Zenon, <1>7, <1>13, TokensKept DEF IInv, TypeOK, service
  <1>16. SweepOK' /\ AdminOK'
    BY Zenon, <1>2, <1>7 DEF IInv, SweepOK, AdminOK
  <1>17. \A x \in execs' : ~Fence(x)'
    BY <1>11 DEF Fence
  <1>18. QED BY Zenon, <1>7, <1>12, <1>13, <1>14, <1>15, <1>16, <1>17, OutsideStepKeeps

(* The run ends; its history may go.                                       *)
LEMMA FinalizeDoneKeeps ==
    ASSUME IInv, NEW e \in execs, FinalizeDone(e)
    PROVE  IInv'
  <1>1. /\ lease' = [lease EXCEPT !.status = "done"] /\ event_history' = [s \in Steps |-> NULL]
        /\ execs' \subseteq execs /\ UNCHANGED <<guest, swept, service, admin>>
    BY DEF FinalizeDone
  <1>2. /\ lease'.generation = lease.generation /\ lease'.status = "done"
        /\ lease' \in [status: {"ready", "running", "done", "failed"}, generation: 0..MaxGeneration]
        /\ lease.generation \in Int
    BY <1>1 DEF IInv, TypeOK
  <1>3. TypeOK'
    BY <1>1, <1>2 DEF IInv, TypeOK, service
  <1>4. Keeps
    BY <1>1, <1>2 DEF Keeps, Kept, service
  <1>5. \A s \in Steps : RowOK(s)'
    BY <1>1 DEF RowOK
  <1>6. Tokens'
    BY Zenon, <1>1, <1>4, TokensKept DEF IInv, TypeOK, service
  <1>7. SweepOK' /\ AdminOK'
    BY Zenon, <1>1, <1>2 DEF IInv, SweepOK, AdminOK
  <1>8. \A x \in execs' : ~Fence(x)'
    BY <1>2 DEF Fence
  <1>9. QED BY Zenon, <1>1, <1>3, <1>4, <1>5, <1>6, <1>7, <1>8, OutsideStepKeeps

LEMMA FailWorkflowKeeps ==
    ASSUME IInv, NEW e \in execs, FailWorkflow(e)
    PROVE  IInv'
  <1>1. /\ lease' = [lease EXCEPT !.status = "failed"] /\ execs' \subseteq execs
        /\ lease.status = "running" /\ UNCHANGED <<guest, event_history, swept, service, admin>>
    BY DEF FailWorkflow, Fence
  <1>2. /\ lease'.generation = lease.generation /\ lease'.status = "failed"
        /\ lease' \in [status: {"ready", "running", "done", "failed"}, generation: 0..MaxGeneration]
        /\ lease.generation \in Int
    BY <1>1 DEF IInv, TypeOK
  <1>3. TypeOK'
    BY Zenon, <1>1, <1>2 DEF IInv, TypeOK, service
  <1>4. Keeps
    BY <1>1, <1>2 DEF Keeps, Kept, IntentRow, service
  <1>5. ASSUME NEW s \in Steps PROVE RowOK(s)'
    BY <1>1, RowKept DEF IInv, service
  <1>6. Tokens'
    BY Zenon, <1>1, <1>4, TokensKept DEF IInv, TypeOK, service
  <1>7. SweepOK' /\ AdminOK'
    BY Zenon, <1>1, <1>2 DEF IInv, SweepOK, AdminOK
  <1>8. \A x \in execs' : ~Fence(x)'
    BY Zenon, <1>2 DEF Fence
  <1>9. QED BY Zenon, <1>1, <1>3, <1>4, <1>5, <1>6, <1>7, <1>8, OutsideStepKeeps
-----------------------------------------------------------------------------
(* The operator, and retention. *)

(* A step of an operator: no execution and no request moves, and no        *)
(* execution gets the claim.                                               *)
LEMMA OperatorStepKeeps ==
    ASSUME IInv, UNCHANGED <<guest, swept, execs, service>>,
           event_history' \in Table, \A s \in Steps : RowOK(s)',
           Kept' => Kept, \A s \in Steps : IntentRow(s) => IntentRow(s)',
           lease' \in [status: {"ready", "running", "done", "failed"}, generation: 0..MaxGeneration],
           lease' = lease \/ (lease.generation < lease'.generation /\ lease'.status # "running"),
           admin' = NULL \/ admin' \in AdminRequest, SweepOK', AdminOK'
    PROVE  IInv'
  <1>1. lease.generation \in Int /\ lease'.generation \in Int
    BY DEF IInv, TypeOK
  <1>2. Keeps
    BY <1>1 DEF Keeps, service
  <1>3. TypeOK'
    BY Zenon DEF IInv, TypeOK, Table, service
  <1>4. Tokens'
    BY Zenon, <1>2, TokensKept DEF IInv, TypeOK, service
  <1>5. \A x \in execs' : Fence(x)' => Fence(x)
    BY Zenon DEF Fence
  <1>6. QED BY Zenon, <1>2, <1>3, <1>4, <1>5, OutsideStepKeeps

(* The audit event goes above the rows that were read, or nowhere. *)
LEMMA AuditRows ==
    ASSUME IInv, NEW from \in Nat, UNCHANGED <<swept, service>>,
           event_history' = appendEventsInTx(event_history, from, <<AdminAction>>)
    PROVE  /\ event_history' \in Table
           /\ \A s \in Steps : RowOK(s)'
           /\ \A s \in Steps : event_history[s] # NULL => event_history'[s] = event_history[s]
           /\ \A s \in Steps : IntentRow(s) => IntentRow(s)'
           /\ from \in Steps => event_history'[from] # NULL
  <1>1. PICK recs : recs = <<AdminAction>>
    BY Zenon
  <1>2. AdminAction \in EventRecord /\ AdminAction.op = "admin" /\ AdminAction.out.by = "audit"
    BY Bounds DEF AdminAction, EventRecord, Out, Outcome
  <1>3. recs \in Seq(EventRecord) /\ Len(recs) = 1 /\ recs[1] = AdminAction
    BY <1>1, <1>2
  <1>4. event_history \in Table
    BY DEF IInv, TypeOK, Table
  <1>5. event_history' = appendEventsInTx(event_history, from, recs)
    BY <1>1
  <1>6. /\ event_history' \in Table
        /\ \A s \in Steps :
             /\ event_history[s] # NULL => event_history'[s] = event_history[s]
             /\ event_history[s] = NULL /\ event_history'[s] # NULL =>
                  /\ s - from + 1 \in 1..Len(recs) /\ event_history'[s].rec = recs[s - from + 1]
                  /\ event_history'[s].checksum # NoChecksum
             /\ event_history[s] = NULL /\ s \in from..(from + Len(recs) - 1) =>
                  event_history'[s] # NULL
    <2>1. PICK new : new = appendEventsInTx(event_history, from, recs)
      BY Zenon
    <2>2. /\ new \in Table
          /\ \A s \in Steps :
             /\ event_history[s] # NULL => new[s] = event_history[s]
             /\ event_history[s] = NULL /\ new[s] # NULL =>
                  /\ s - from + 1 \in 1..Len(recs) /\ new[s].rec = recs[s - from + 1]
                  /\ new[s].checksum # NoChecksum
             /\ event_history[s] = NULL /\ s \in from..(from + Len(recs) - 1) => new[s] # NULL
      BY Zenon, <1>3, <1>4, <2>1, AppendedRows
    <2>3. QED BY <1>5, <2>1, <2>2, Zenon
  <1>7. ASSUME NEW s \in Steps PROVE RowOK(s)'
    <2>1. CASE event_history'[s] = event_history[s]
      BY Zenon, <2>1, RowKept DEF IInv, service
    <2>2. CASE event_history'[s] # event_history[s]
      <3>1. /\ s - from + 1 \in 1..1 /\ event_history'[s].rec = recs[s - from + 1]
            /\ event_history'[s].checksum # NoChecksum
        BY Zenon, <1>3, <1>6, <2>2
      <3>2. event_history'[s].rec = AdminAction
        BY <1>3, <3>1
      <3>3. QED BY Zenon, <1>2, <3>1, <3>2 DEF RowOK, RecordOK
    <2>3. QED BY Zenon, <2>1, <2>2
  <1>8. from \in Steps => event_history'[from] # NULL
    BY <1>3, <1>6 DEF Steps
  <1>9. QED BY <1>6, <1>7, <1>8 DEF IntentRow

(* The operator's verbs, each a read and a write.                          *)
LEMMA ResolveStepReadsKeeps ==
    ASSUME IInv, NEW s \in Steps, ResolveStepReads(s)
    PROVE  IInv'
  <1>1. PICK h, n : h = LoadEventHistory /\ n = maxStep + 1
    BY Zenon
  <1>2. /\ admin' = [verb |-> "resolve", step |-> s, history |-> h,
                     audit |-> n, generation |-> lease.generation]
        /\ Operator /\ UNCHANGED <<guest, lease, event_history, swept, execs, service>>
    BY Zenon, <1>1 DEF ResolveStepReads
  <1>3. h \in StepRecords /\ n \in Nat
    <2>1. \A t \in Stored : t \in Steps /\ event_history[t].rec \in EventRecord
      BY DEF Stored, IInv, TypeOK, Row
    <2>2. QED BY <1>1, <2>1, MaxStepBounds DEF LoadEventHistory, StepRecords
  <1>4. admin' \in AdminRequest /\ admin'.step = s
    <2>1. s \in Nat /\ lease.generation \in 0..MaxGeneration
      BY Bounds DEF Steps, IInv, TypeOK
    <2>2. QED BY Zenon, <1>2, <1>3, <2>1 DEF AdminRequest
  <1>5. ASSUME NEW t \in Steps PROVE RowOK(t)'
    BY Zenon, <1>2, RowKept DEF IInv, service
  <1>6. SweepOK' /\ AdminOK'
    BY Zenon, <1>2, <1>4 DEF IInv, SweepOK, AdminOK, Stored
  <1>7. QED BY Zenon, <1>2, <1>4, <1>5, <1>6, OperatorStepKeeps DEF IInv, TypeOK, Table, Kept, IntentRow

LEMMA ResolveStepWritesKeeps ==
    ASSUME IInv, ResolveStepWrites
    PROVE  IInv'
  <1> DEFINE s == admin.step
  <1>1. /\ admin \in AdminRequest /\ admin.verb = "resolve" /\ s \in Steps /\ admin # NULL
        /\ UNCHANGED <<guest, lease, swept, execs, service>>
    BY DEF IInv, TypeOK, AdminOK, ResolveStepWrites
  <1>2. CASE StillPending(s)
    <2>1. PICK rec : rec = Done(event_history[s].rec, Out("operator", 0))
      BY Zenon
    <2>2. event_history' = ResolveCallIntent(s, rec, admin.history)
      BY <1>2, <2>1 DEF ResolveStepWrites
    <2>3. admin' = [admin EXCEPT !.verb = "audit"]
      BY <1>2 DEF ResolveStepWrites
    <2>4. /\ event_history[s] \in Row /\ event_history[s] # NULL
          /\ event_history[s].rec.op = "intent" /\ ~swept
      BY Zenon, <1>1, <1>2 DEF StillPending, isPendingIntent, IInv, TypeOK, RowOK
    <2>5. rec \in EventRecord /\ rec.op = "intent" /\ rec.out.by = "operator"
      BY <2>1, <2>4, Bounds DEF Done, Out, Outcome, EventRecord, Row
    <2>6. admin.history \in StepRecords /\ event_history \in Table
      BY Zenon, <1>1 DEF AdminRequest, IInv, TypeOK, Table
    <2>7. /\ event_history' \in Table
          /\ event_history'[s] # NULL /\ event_history'[s].rec = rec
          /\ event_history'[s].checksum # NoChecksum
          /\ \A t \in Steps \ {s} :
               \/ event_history'[t] = event_history[t]
               \/ /\ event_history[t] # NULL /\ event_history'[t] # NULL
                  /\ event_history'[t].rec = event_history[t].rec
                  /\ event_history'[t].checksum # NoChecksum
      BY <1>1, <2>2, <2>5, <2>6, ResolvedRows
    <2>8. ASSUME NEW t \in Steps PROVE RowOK(t)'
      <3>1. CASE t # s
        BY Zenon, <1>1, <2>7, <3>1, RowKept DEF IInv, service
      <3>2. CASE t = s
        BY Zenon, <1>1, <2>4, <2>5, <2>7, <3>2 DEF RowOK, RecordOK
      <3>3. QED BY Zenon, <3>1, <3>2
    <2>9. \A t \in Steps : IntentRow(t) => IntentRow(t)'
      BY <2>5, <2>7 DEF IntentRow
    <2>10. admin' \in AdminRequest /\ admin'.verb = "audit"
      BY Zenon, <1>1, <2>3 DEF AdminRequest
    <2>11. SweepOK' /\ AdminOK'
      BY Zenon, <1>1, <2>4, <2>10 DEF IInv, SweepOK, AdminOK
    <2>12. QED
      BY Zenon, <1>1, <2>7, <2>8, <2>9, <2>10, <2>11, OperatorStepKeeps DEF IInv, TypeOK, Kept
  <1>3. CASE ~StillPending(s)
    <2>1. admin' = NULL /\ UNCHANGED event_history
      BY <1>3 DEF ResolveStepWrites
    <2>2. ASSUME NEW t \in Steps PROVE RowOK(t)'
      BY Zenon, <1>1, <2>1, RowKept DEF IInv, service
    <2>3. SweepOK' /\ AdminOK'
      BY Zenon, <1>1, <2>1 DEF IInv, SweepOK, AdminOK, Stored
    <2>4. QED
      BY Zenon, <1>1, <2>1, <2>2, <2>3, OperatorStepKeeps DEF IInv, TypeOK, Table, Kept, IntentRow
  <1>4. QED BY <1>2, <1>3

LEMMA AppendAuditKeeps ==
    ASSUME IInv, AppendAudit
    PROVE  IInv'
  <1>1. /\ admin \in AdminRequest /\ admin' = NULL
        /\ event_history' = appendEventsInTx(event_history, admin.audit, <<AdminAction>>)
        /\ UNCHANGED <<guest, lease, swept, execs, service>>
    BY DEF IInv, TypeOK, AppendAudit
  <1>2. admin.audit \in Nat
    BY Zenon, <1>1 DEF AdminRequest
  <1>3. /\ event_history' \in Table /\ \A s \in Steps : RowOK(s)'
        /\ \A s \in Steps : event_history[s] # NULL => event_history'[s] = event_history[s]
        /\ \A s \in Steps : IntentRow(s) => IntentRow(s)'
    BY Zenon, <1>1, <1>2, AuditRows
  <1>4. SweepOK' /\ AdminOK'
    BY Zenon, <1>1, <1>3 DEF IInv, SweepOK, AdminOK, Stored
  <1>5. QED BY Zenon, <1>1, <1>3, <1>4, OperatorStepKeeps DEF IInv, TypeOK, Kept

LEMMA ReReplayReadsKeeps ==
    ASSUME IInv, ReReplayReads
    PROVE  IInv'
  <1>1. /\ admin' = [verb |-> "rereplay", step |-> 0, history |-> {}, audit |-> 0,
                     generation |-> lease.generation]
        /\ Operator /\ lease.generation < MaxGeneration
        /\ UNCHANGED <<guest, lease, event_history, swept, execs, service>>
    BY Zenon DEF ReReplayReads
  <1>2. {} \in StepRecords /\ lease.generation \in 0..MaxGeneration
    BY Zenon DEF StepRecords, IInv, TypeOK
  <1>3. admin' \in AdminRequest /\ admin'.verb = "rereplay" /\ admin'.generation < MaxGeneration
    BY Zenon, <1>1, <1>2 DEF AdminRequest
  <1>4. ASSUME NEW t \in Steps PROVE RowOK(t)'
    BY Zenon, <1>1, RowKept DEF IInv, service
  <1>5. SweepOK' /\ AdminOK'
    BY <1>1, <1>3 DEF IInv, SweepOK, AdminOK, Stored
  <1>6. QED BY Zenon, <1>1, <1>3, <1>4, <1>5, OperatorStepKeeps DEF IInv, TypeOK, Table, Kept, IntentRow

(* The one step that needs the hypothesis: a re-replay may restart a run   *)
(* whose history was swept after the operator looked.                      *)
LEMMA AdminReReplayKeeps ==
    ASSUME IInv, AdminReReplay, Hypothesis
    PROVE  IInv'
  <1>1. /\ admin # NULL /\ admin' = NULL /\ UNCHANGED <<guest, swept, execs, service>>
        /\ admin.generation < MaxGeneration
    BY Zenon DEF AdminReReplay, IInv, AdminOK
  <1>2. CASE /\ lease.status = "failed" /\ lease.generation = admin.generation
             /\ maxStep + 1 \in Steps
             /\ lease' = [status |-> "ready", generation |-> lease.generation + 1]
             /\ event_history' = appendEventsInTx(event_history, maxStep + 1, <<AdminAction>>)
    <2>1. PICK n : n = maxStep + 1
      BY Zenon
    <2>2. n \in Nat /\ n \in Steps
      BY Zenon, <1>2, <2>1, MaxStepBounds
    <2>3. event_history' = appendEventsInTx(event_history, n, <<AdminAction>>)
      BY Zenon, <1>2, <2>1
    <2>4. /\ event_history' \in Table /\ \A s \in Steps : RowOK(s)'
          /\ \A s \in Steps : event_history[s] # NULL => event_history'[s] = event_history[s]
          /\ \A s \in Steps : IntentRow(s) => IntentRow(s)'
          /\ event_history'[n] # NULL
      BY Zenon, <1>1, <2>2, <2>3, AuditRows
    <2>5. PICK g : g = lease.generation + 1
      BY Zenon
    <2>6. lease.generation \in Int /\ g \in 0..MaxGeneration /\ lease.generation < g
      BY <1>1, <1>2, <2>5, Bounds DEF IInv, TypeOK
    <2>7. /\ lease' = [status |-> "ready", generation |-> g]
          /\ lease'.status = "ready" /\ lease'.generation = g
      BY <1>2, <2>5
    <2>8. lease' \in [status: {"ready", "running", "done", "failed"}, generation: 0..MaxGeneration]
      BY <2>6, <2>7
    <2>9. swept => ~guest.catches
      BY Zenon, <1>1 DEF IInv, SweepOK, Hypothesis
    <2>10. SweepOK' /\ AdminOK'
      BY <1>1, <2>2, <2>4, <2>7, <2>9 DEF IInv, SweepOK, AdminOK, Stored
    <2>11. Kept' => Kept
      BY <1>1, <1>2 DEF Kept
    <2>12. QED BY Zenon, <1>1, <2>4, <2>6, <2>7, <2>8, <2>10, <2>11, OperatorStepKeeps
  <1>3. CASE UNCHANGED <<lease, event_history>>
    <2>1. ASSUME NEW t \in Steps PROVE RowOK(t)'
      BY Zenon, <1>1, <1>3, RowKept DEF IInv, service
    <2>2. SweepOK' /\ AdminOK'
      BY Zenon, <1>1, <1>3 DEF IInv, SweepOK, AdminOK, Stored
    <2>3. QED
      BY Zenon, <1>1, <1>3, <2>1, <2>2, OperatorStepKeeps DEF IInv, TypeOK, Table, Kept, IntentRow
  <1>4. QED BY <1>2, <1>3, Zenon DEF AdminReReplay

LEMMA AdminForceFailKeeps ==
    ASSUME IInv, AdminForceFail
    PROVE  IInv'
  <1>1. /\ lease' = [status |-> "failed", generation |-> lease.generation + 1]
        /\ lease.generation < MaxGeneration /\ lease.status \in {"ready", "running"}
        /\ event_history' = appendEventsInTx(event_history, maxStep + 1, <<AdminAction>>)
        /\ UNCHANGED <<guest, swept, execs, service, admin>>
    BY DEF AdminForceFail
  <1>2. PICK n : n = maxStep + 1
    BY Zenon
  <1>3. n \in Nat
    BY Zenon, <1>2, MaxStepBounds
  <1>4. event_history' = appendEventsInTx(event_history, n, <<AdminAction>>)
    BY Zenon, <1>1, <1>2
  <1>5. /\ event_history' \in Table /\ \A s \in Steps : RowOK(s)'
        /\ \A s \in Steps : IntentRow(s) => IntentRow(s)'
    BY Zenon, <1>1, <1>3, <1>4, AuditRows
  <1>6. PICK g : g = lease.generation + 1
    BY Zenon
  <1>7. lease.generation \in Int /\ g \in 0..MaxGeneration /\ lease.generation < g
    BY <1>1, <1>6, Bounds DEF IInv, TypeOK
  <1>8. /\ lease' = [status |-> "failed", generation |-> g]
        /\ lease'.status = "failed" /\ lease'.generation = g
    BY Zenon, <1>1, <1>6
  <1>9. lease' \in [status: {"ready", "running", "done", "failed"}, generation: 0..MaxGeneration]
    BY Zenon, <1>7, <1>8
  <1>10. SweepOK' /\ AdminOK'
    BY Zenon, <1>1, <1>8 DEF IInv, SweepOK, AdminOK
  <1>11. Kept' => Kept
    BY Zenon, <1>1 DEF Kept
  <1>12. admin' = NULL \/ admin' \in AdminRequest
    BY Zenon, <1>1 DEF IInv, TypeOK
  <1>13. QED BY Zenon, <1>1, <1>5, <1>7, <1>8, <1>9, <1>10, <1>11, <1>12, OperatorStepKeeps

(* The sweep takes the whole history of a run that is over. *)
LEMMA DeleteExpiredEventsKeeps ==
    ASSUME IInv, DeleteExpiredEvents
    PROVE  IInv'
  <1>1. /\ event_history' = [s \in Steps |-> NULL] /\ swept' = TRUE /\ lease.status = "failed"
        /\ Retention /\ UNCHANGED <<guest, lease, execs, service, admin>>
    BY Zenon DEF DeleteExpiredEvents
  <1>2. TypeOK'
    BY Zenon, <1>1 DEF IInv, TypeOK, service
  <1>3. Keeps
    BY <1>1 DEF Keeps, Kept, service, IInv, TypeOK
  <1>4. \A s \in Steps : RowOK(s)'
    BY Zenon, <1>1 DEF RowOK
  <1>5. Tokens'
    BY Zenon, <1>1, <1>3, TokensKept DEF IInv, TypeOK, service
  <1>6. SweepOK' /\ AdminOK'
    BY Zenon, <1>1 DEF IInv, SweepOK, AdminOK
  <1>7. \A x \in execs' : ~Fence(x)'
    BY Zenon, <1>1 DEF Fence
  <1>8. QED BY Zenon, <1>1, <1>2, <1>3, <1>4, <1>5, <1>6, <1>7, OutsideStepKeeps
-----------------------------------------------------------------------------
(* Together. *)

LEMMA InitInvariant ==
    ASSUME Init
    PROVE  IInv
  <1>1. TypeOK
    <2>1. guest \in [ops: [Calls -> Ops], catches: BOOLEAN]
      <3>1. CatchChoices \subseteq BOOLEAN
        BY Zenon, CallAssumption DEF ConstantsOK
      <3>2. QED BY <3>1 DEF Init
    <2>2. lease \in [status: {"ready", "running", "done", "failed"}, generation: 0..MaxGeneration]
      BY Bounds DEF Init
    <2>3. QED BY Zenon, <2>1, <2>2 DEF Init, TypeOK
  <1>2. execs = {} /\ requests = {} /\ admin = NULL /\ swept = FALSE
    BY Zenon DEF Init
  <1>3. \A s \in Steps : RowOK(s)
    BY Zenon DEF Init, RowOK
  <1>4. \A s \in Steps : applied[s] = 0
    BY Zenon DEF Init
  <1>5. Tokens
    BY <1>2, <1>4 DEF Tokens
  <1>6. SweepOK /\ AdminOK
    BY <1>2 DEF Init, SweepOK, AdminOK
  <1>7. QED BY Zenon, <1>1, <1>2, <1>3, <1>5, <1>6 DEF IInv

(* Every step keeps the invariant. *)
LEMMA NextKeepsInvariant ==
    ASSUME IInv, [Next]_vars, Hypothesis
    PROVE  IInv'
  <1>1. CASE Claim \/ LoseClaim
    BY Zenon, <1>1, ClaimKeeps, LoseClaimKeeps
  <1>2. ASSUME NEW e \in execs, SessionStep(e) PROVE IInv'
    BY <1>2, LoadHistoryKeeps, freshCallKeeps, WriteCallIntentKeeps, callServiceKeeps,
       CallReturnsKeeps, CompleteCallIntentKeeps, replayCallKeeps, resolveAmbiguityKeeps,
       FinalizeSuspendKeeps, FinalizeDoneKeeps, FailWorkflowKeeps, Zenon DEF SessionStep
  <1>3. ASSUME NEW e \in execs, WorkerDies(e) PROVE IInv'
    BY Zenon, <1>3, WorkerDiesKeeps
  <1>4. ASSUME NEW q \in requests, Arrives(q) \/ Lost(q) PROVE IInv'
    BY <1>4, RequestEnds
  <1>5. CASE OperatorStep
    <2>1. ASSUME NEW s \in Steps, ResolveStepReads(s) PROVE IInv'
      BY Zenon, <2>1, ResolveStepReadsKeeps
    <2>2. CASE ResolveStepWrites \/ AppendAudit \/ ReReplayReads
      BY Zenon, <2>2, ResolveStepWritesKeeps, AppendAuditKeeps, ReReplayReadsKeeps
    <2>3. CASE AdminReReplay \/ AdminForceFail \/ DeleteExpiredEvents
      BY Zenon, <2>3, AdminReReplayKeeps, AdminForceFailKeeps, DeleteExpiredEventsKeeps
    <2>4. QED BY Zenon, <1>5, <2>1, <2>2, <2>3 DEF OperatorStep
  <1>6. CASE UNCHANGED vars
    <2>1. UNCHANGED <<guest, lease, event_history, swept, execs, requests, applied, refused, admin>>
      BY Zenon, <1>6 DEF vars
    <2>2. TypeOK'
      BY Zenon, <2>1 DEF IInv, TypeOK
    <2>3. \A s \in Steps : RowOK(s)'
      BY Zenon, <2>1 DEF IInv, RowOK
    <2>4. \A e \in execs' : ExecOK(e)'
      BY Zenon, <2>1 DEF IInv, ExecOK, Kept, IntentRow, Fence
    <2>5. Tokens'
      BY Zenon, <2>1 DEF IInv, Tokens, Kept, IntentRow
    <2>6. SweepOK' /\ AdminOK'
      BY Zenon, <2>1 DEF IInv, SweepOK, AdminOK, Stored
    <2>7. QED BY Zenon, <2>2, <2>3, <2>4, <2>5, <2>6 DEF IInv
  <1>7. QED BY <1>1, <1>2, <1>3, <1>4, <1>5, <1>6, Zenon DEF Next

(* The invariant says what the run checks. *)
LEMMA InvariantSays ==
    ASSUME IInv
    PROVE  EffectsAreRecorded
  <1>1. applied \in [Steps -> Nat]
    BY DEF IInv, TypeOK
  <1>2. EffectMatchesRecord
    BY <1>1 DEF IInv, Tokens, RowOK, EffectMatchesRecord
  <1>3. DispatchIsRecorded
    BY Zenon DEF IInv, Tokens, Kept, IntentRow, DispatchIsRecorded
  <1>4. QED BY <1>2, <1>3 DEF IInv, EffectsAreRecorded

(* freshCallWithIntent, replayCall, ResolveStep and the rest: whatever     *)
(* crashes, zombies, late requests, failing writes, resolvers, operators   *)
(* and sweeps do, a write-ahead call takes effect at most once per step,   *)
(* its row says so truly, and it was recorded before it was dispatched.    *)
THEOREM CallsTakeEffectOnce ==
    ASSUME Hypothesis
    PROVE  Spec => []EffectsAreRecorded
  <1>1. Init => IInv
    BY InitInvariant
  <1>2. IInv /\ [Next]_vars => IInv'
    BY NextKeepsInvariant
  <1>3. IInv => EffectsAreRecorded
    BY InvariantSays
  <1>4. QED BY <1>1, <1>2, <1>3, PTL DEF Spec

(* ResolveCallIntent on the rows it does not resolve. *)
LEMMA ResolvedOthers ==
    ASSUME event_history \in Table, NEW s, NEW rec, NEW h, NEW t \in Steps, t # s,
           event_history[t] # NULL,
           event_history' = ResolveCallIntent(s, rec, h)
    PROVE  event_history'[t].rec = event_history[t].rec
  <1> DEFINE later == chainRepairsAfter(h, s)
             checksum == computeEventChecksum(s, rec, previousStoredChecksum(event_history, s))
             chained == checksum \cup {r \in later : r[1] <= t}
  <1>1. \/ event_history'[t] = event_history[t]
        \/ event_history'[t] = [event_history[t] EXCEPT !.checksum = chained]
    BY Zenon DEF ResolveCallIntent
  <1>2. event_history[t] \in Row
    BY DEF Table
  <1> HIDE DEF chained
  <1>3. QED BY <1>1, <1>2 DEF Row

(* A resolved or completed row was pending. *)
LEMMA ResolvingKeepsOutcomes ==
    ASSUME event_history \in Table, NEW s, NEW rec, NEW h, StillPending(s),
           event_history' = ResolveCallIntent(s, rec, h)
    PROVE  OutcomeKeptStep
  <1>1. ASSUME NEW t \in Steps, event_history[t] # NULL, ~isPendingIntent(event_history[t])
        PROVE  event_history'[t].rec = event_history[t].rec
    <2>1. t # s
      BY <1>1 DEF StillPending
    <2>2. QED BY Zenon, <1>1, <2>1, ResolvedOthers
  <1>2. QED BY <1>1, Zenon DEF OutcomeKeptStep

(* Every action, for the records that have an outcome.                     *)
LEMMA StepKeepsOutcomes ==
    ASSUME TypeOK, [Next]_vars
    PROVE  OutcomeKeptStep
  <1>1. event_history \in Table
    BY DEF TypeOK, Table
  <1>2. ASSUME \A s \in Steps : event_history[s] # NULL => event_history'[s] = event_history[s]
        PROVE  OutcomeKeptStep
    BY <1>2, Zenon DEF OutcomeKeptStep
  <1>3. ASSUME \A s \in Steps : event_history'[s] = NULL
        PROVE  OutcomeKeptStep
    BY <1>3, Zenon DEF OutcomeKeptStep
  <1>4. ASSUME NEW from, NEW recs, event_history' = appendEventsInTx(event_history, from, recs)
        PROVE  OutcomeKeptStep
    <2>1. \A s \in Steps : event_history[s] # NULL => event_history'[s] = event_history[s]
      BY <1>4, Zenon DEF appendEventsInTx
    <2>2. QED BY <1>2, <2>1
  <1>5. ASSUME UNCHANGED event_history PROVE OutcomeKeptStep
    BY <1>2, <1>5, Zenon
  <1>6. ASSUME NEW e \in execs, SessionStep(e) PROVE OutcomeKeptStep
    <2>1. CASE freshCall(e)
      <3>1. PICK rec, checksum :
              \/ event_history' = Inserted(event_history, e.step, rec, checksum)
              \/ event_history' = event_history
        BY <2>1, Zenon DEF freshCall
      <3>2. e.step \in Steps
        BY Zenon, <2>1 DEF freshCall
      <3>3. \A s \in Steps : event_history[s] # NULL => event_history'[s] = event_history[s]
        BY Zenon, <1>1, <3>1, <3>2 DEF Inserted, Table
      <3>4. QED BY <1>2, <3>3
    <2>2. CASE WriteCallIntent(e)
      <3>1. PICK row : \/ /\ event_history[e.step] = NULL
                          /\ event_history' = [event_history EXCEPT ![e.step] = row]
                       \/ event_history' = event_history
        BY <2>2, Zenon DEF WriteCallIntent, IntentAccepted
      <3>2. \A s \in Steps : event_history[s] # NULL => event_history'[s] = event_history[s]
        BY <1>1, <3>1 DEF Table
      <3>3. QED BY <1>2, <3>2
    <2>3. CASE CompleteCallIntent(e)
      <3>1. PICK row : \/ /\ isPendingIntent(event_history[e.step])
                          /\ event_history' = [event_history EXCEPT ![e.step] = row]
                       \/ event_history' = event_history
        BY <2>3, Zenon DEF CompleteCallIntent, StillPending
      <3>2. \A s \in Steps : ~isPendingIntent(event_history[s]) =>
                event_history'[s] = event_history[s]
        BY Zenon, <1>1, <3>1 DEF Table
      <3>3. QED BY <3>2, Zenon DEF OutcomeKeptStep
    <2>4. CASE resolveAmbiguity(e)
      <3>1. PICK rec, h :
              \/ StillPending(e.step) /\ event_history' = ResolveCallIntent(e.step, rec, h)
              \/ event_history' = event_history
        <4> DEFINE h == {<<i - 1, e.history[i]>> : i \in 1..Len(e.history)}
                   Out3(by) == Done(e.history[e.step + 1], Out(by, e.gen))
        <4>1. \/ event_history' = event_history
              \/ \E by \in {"key", "lookup", "notsent"} :
                    StillPending(e.step) /\ event_history' = ResolveCallIntent(e.step, Out3(by), h)
          BY <2>4, Zenon DEF resolveAmbiguity
        <4> HIDE DEF h, Out3
        <4>2. QED BY <4>1, Zenon
      <3>2. QED BY Zenon, <1>1, <1>5, <3>1, ResolvingKeepsOutcomes
    <2>5. CASE FinalizeSuspend(e)
      BY <1>4, <2>5, Zenon DEF FinalizeSuspend
    <2>6. CASE FinalizeDone(e)
      BY <1>3, <2>6 DEF FinalizeDone
    <2>7. QED
      BY <1>5, <1>6, <2>1, <2>2, <2>3, <2>4, <2>5, <2>6, Zenon
         DEF SessionStep, LoadHistory, callService, CallReturns, replayCall, FailWorkflow
  <1>7. CASE OperatorStep
    <2>1. CASE ResolveStepWrites
      <3>1. PICK s, rec, h : \/ StillPending(s) /\ event_history' = ResolveCallIntent(s, rec, h)
                             \/ event_history' = event_history
        BY <2>1, Zenon DEF ResolveStepWrites
      <3>2. QED BY <1>1, <1>5, <3>1, ResolvingKeepsOutcomes
    <2>2. CASE AppendAudit \/ AdminReReplay \/ AdminForceFail
      BY <1>4, <1>5, <2>2, Zenon DEF AppendAudit, AdminReReplay, AdminForceFail
    <2>3. CASE DeleteExpiredEvents
      BY <1>3, <2>3 DEF DeleteExpiredEvents
    <2>4. QED
      BY <1>5, <1>7, <2>1, <2>2, <2>3, Zenon DEF OperatorStep, ResolveStepReads, ReReplayReads
  <1>8. QED
    BY <1>5, <1>6, <1>7, Zenon
       DEF Next, vars, Claim, LoseClaim, WorkerDies, Arrives, Lost

(* CompleteCallIntent, ResolveCallIntent and ResolveStep race for a        *)
(* pending row, and appends race with all of them: no step of any actor    *)
(* changes a record that has its outcome.                                  *)
THEOREM OutcomesAreKept ==
    ASSUME Hypothesis
    PROVE  Spec => [][OutcomeKeptStep]_vars
  <1>1. Init => IInv
    BY InitInvariant
  <1>2. IInv /\ [Next]_vars => IInv'
    BY NextKeepsInvariant
  <1>3. IInv /\ [Next]_vars => [OutcomeKeptStep]_vars
    BY StepKeepsOutcomes DEF IInv
  <1>4. QED BY <1>1, <1>2, <1>3, PTL DEF Spec
=============================================================================
