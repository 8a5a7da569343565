----------------------- MODULE IdempotentStartProofs -----------------------
(***************************************************************************)
(* For any requests, keys, clock and faults: under one key one run is      *)
(* started or one signal delivered while the key's time lasts, and key     *)
(* rows tell the truth.                                                    *)
(***************************************************************************)
EXTENDS IdempotentStart, TLAPS

Statuses == {"none", "live", "dead_lettered", "done", "gone"}
KeyRow == [of : Requests, expires : Nat]
TxPcs == {"arrived", "lookup", "clear", "insert", "write", "reread", "token", "deliver", "over"}
Tx == [pc : TxPcs, at : Nat, cleared : BOOLEAN]

Types ==
    /\ now \in Nat
    /\ keys \in [Slots -> {NoRow} \cup KeyRow]
    /\ runs \in [Runs -> Statuses]
    /\ since \in [Runs -> Nat]
    /\ signals \subseteq Requests
    /\ tx \in [Requests -> Tx]
    /\ told \in [Requests -> Requests \cup Outcomes]
    /\ until \in [Requests -> Nat]

HoldsRow(q) == tx[q].pc \in {"write", "deliver"} \/ tx[q].cleared

(* One request: the time of its transaction, the operation its statements  *)
(* belong to, what was already said and done, and what it knows of the row *)
(* it holds.                                                               *)
RequestOK(q) ==
    /\ InTransaction(q) => tx[q].at <= now /\ now <= tx[q].at + Span
    /\ tx[q].cleared => tx[q].pc \in {"insert", "write"}
    /\ tx[q].pc \in {"lookup", "clear", "insert", "write", "reread"} => q \in Starts
    /\ tx[q].pc \in {"token", "deliver"} => q \in Signals /\ runs[Req[q].target] # "none"
    /\ tx[q].pc # "over" => told[q] = "waiting"
    /\ tx[q].pc # "over" /\ q \in Starts => runs[q] = "none"
    /\ HoldsRow(q) => keys[Slot(q)] = NoRow \/ (tx[q].cleared /\ keys[Slot(q)].expires <= tx[q].at)
    /\ q \in Starts /\ told[q] \in Requests => Slot(told[q]) = Slot(q) /\ SameAs(q, told[q])

Exclusive == \A p, q \in Requests : HoldsRow(p) /\ HoldsRow(q) /\ Slot(p) = Slot(q) => p = q

(* One row: it is under its own request's key and it tells the truth.      *)
RowOK(s) ==
    keys[s] # NoRow =>
        /\ Slot(keys[s].of) = s
        /\ keys[s].of \in Signals => keys[s].of \in signals
        /\ runs[workflow_id(keys[s])] \notin {"none", "gone"}

(* What a request created and is current has the key's row.                *)
CurrentHasRow(q) == Current(q) => keys[Slot(q)] = [of |-> q, expires |-> until[q]]

StartInv ==
    /\ Types
    /\ \A q \in Requests : RequestOK(q)
    /\ Exclusive
    /\ \A s \in Slots : RowOK(s)
    /\ \A q \in Requests : CurrentHasRow(q)

-----------------------------------------------------------------------------
LEMMA Constants ==
    /\ \A q \in Requests :
          /\ Slot(q) \in Slots /\ q \in Runs /\ q # "none" /\ q \notin Outcomes /\ q \notin DOMAIN Old
          /\ q \in Starts <=> q \notin Signals
          /\ q \in Signals => Req[q].op = "signal" /\ Req[q].target \in Runs
    /\ \A p, q \in Requests : Slot(p) = Slot(q) => (p \in Starts <=> q \in Starts)
BY StartAssumption DEF ConstantsOK, Slots, Slot, Runs, Starts, Signals

LEMMA Times ==
    /\ TTL \in Nat /\ Retention \in Nat /\ Span \in Nat
    /\ TTL > Span + Span /\ Retention > Span + Span
BY StartAssumption DEF ConstantsOK

LEMMA Rows ==
    /\ NoRow \notin KeyRow
    /\ \A q \in Requests, n \in Nat : [of |-> q, expires |-> n] \in KeyRow
BY Constants DEF NoRow, KeyRow

LEMMA StartInvInit == Init => StartInv
<1> SUFFICES ASSUME Init PROVE StartInv
  OBVIOUS
<1>1. Types
  BY StartAssumption DEF Init, Types, Runs, Statuses, Tx, TxPcs, Outcomes, ConstantsOK
<1>2. ASSUME NEW q \in Requests PROVE RequestOK(q) /\ CurrentHasRow(q) /\ ~HoldsRow(q)
  <2>1. tx[q] = [pc |-> "arrived", at |-> 0, cleared |-> FALSE] /\ told[q] = "waiting" /\ until[q] = 0
    BY DEF Init
  <2>2. runs[q] = "none"
    BY Constants DEF Init
  <2>3. "waiting" \notin Requests
    BY Constants DEF Outcomes
  <2> QED BY <2>1, <2>2, <2>3 DEF RequestOK, CurrentHasRow, Current, HoldsRow, InTransaction, Init
<1>3. \A s \in Slots : RowOK(s)
  BY DEF Init, RowOK
<1> QED BY <1>1, <1>2, <1>3 DEF StartInv, Exclusive

(* A step that changes the handler of one request and its answer only.     *)
LEMMA HandlerStep ==
    ASSUME StartInv, NEW q \in Requests, NEW x \in Tx, NEW t \in Requests \cup Outcomes,
           tx' = [tx EXCEPT ![q] = x], told' = [told EXCEPT ![q] = t],
           UNCHANGED <<now, keys, runs, since, signals, until>>,
           RequestOK(q)',
           x.pc \in {"write", "deliver"} \/ x.cleared => HoldsRow(q) \/ ~Locked(Slot(q), q)
    PROVE  StartInv'
<1>1. Types'
  BY DEF StartInv, Types
<1>2. tx'[q] = x /\ \A p \in Requests \ {q} : tx'[p] = tx[p] /\ told'[p] = told[p]
  BY DEF StartInv, Types
<1>3. ASSUME NEW p \in Requests PROVE RequestOK(p)'
  <2>1. CASE p = q BY Zenon, <2>1
  <2>2. CASE p # q BY <1>2, <2>2 DEF StartInv, RequestOK, HoldsRow, InTransaction
  <2> QED BY <2>1, <2>2
<1>4. Exclusive'
  BY <1>2 DEF StartInv, Exclusive, HoldsRow, Locked
<1>5. \A s \in Slots : RowOK(s)'
  BY DEF StartInv, RowOK
<1>6. \A p \in Requests : CurrentHasRow(p)'
  BY DEF StartInv, CurrentHasRow, Current
<1> QED BY <1>1, <1>3, <1>4, <1>5, <1>6 DEF StartInv

(* The statements of a request that leave keys and runs alone.             *)
LEMMA HandlerStepPreserves ==
    ASSUME StartInv, NEW q \in Requests,
           \/ Handle(q) \/ Lookup(q) \/ ClearExpired(q) \/ Insert(q) \/ Reread(q) \/ ClaimToken(q)
           \/ LoseConnection(q)
    PROVE  StartInv'
<1> DEFINE x == tx[q]
           row == keys[Slot(q)]
<1>1. /\ now \in Nat /\ x \in Tx /\ told[q] \in Requests \cup Outcomes /\ Slot(q) \in Slots
      /\ row \in {NoRow} \cup KeyRow /\ RequestOK(q) /\ RowOK(Slot(q))
      /\ tx \in [Requests -> Tx] /\ told \in [Requests -> Requests \cup Outcomes]
  BY Constants DEF StartInv, Types
<1>2. Ended \in Tx /\ Outcomes \cap Requests = {}
      /\ {"waiting", "refused", "mismatch", "error", "no_rows"} \subseteq Outcomes
  BY Constants DEF Ended, Tx, TxPcs, Outcomes
<1>3. told' = [told EXCEPT ![q] = told[q]] <=> told' = told
  BY <1>1
<1>4. ASSUME NEW t \in Requests \cup Outcomes, Answer(q, t),
             UNCHANGED <<now, keys, runs, since, signals, until>>,
             q \in Starts /\ t \in Requests => Slot(t) = Slot(q) /\ SameAs(q, t)
      PROVE  StartInv'
  <2>1. tx' = [tx EXCEPT ![q] = Ended] /\ told' = [told EXCEPT ![q] = t] BY <1>4 DEF Answer
  <2>2. tx'[q] = Ended /\ told'[q] = t BY <1>1, <2>1
  <2>3. RequestOK(q)' BY <1>4, <2>2 DEF RequestOK, HoldsRow, InTransaction, Ended
  <2> QED BY Zenon, <1>2, <1>4, <2>1, <2>3, HandlerStep DEF Ended
<1>5. ASSUME NEW y \in Tx, tx' = [tx EXCEPT ![q] = y], UNCHANGED <<now, keys, runs, since, signals, until, told>>,
             RequestOK(q)', y.pc \in {"write", "deliver"} \/ y.cleared => HoldsRow(q) \/ ~Locked(Slot(q), q)
      PROVE  StartInv'
  BY Zenon, <1>1, <1>3, <1>5, HandlerStep
<1>6. ASSUME row # NoRow, q \in Starts, SameRequest(row, q) PROVE row.of \in Requests /\ Slot(row.of) = Slot(q) /\ SameAs(q, row.of)
  BY <1>1, <1>6 DEF RowOK, SameRequest, SameDefinition, checkIdempotencyInput, SameAs, KeyRow
<1>7. CASE Handle(q)
  <2>1. CASE Refuses(q)
    BY <1>2, <1>4, <1>7, <2>1 DEF Handle
  <2>2. CASE ~Refuses(q)
    <3> DEFINE y == [pc |-> IF Req[q].op = "signal" THEN "token" ELSE "lookup", at |-> now, cleared |-> FALSE]
    <3>1. y \in Tx /\ y.pc \in {"token", "lookup"} /\ y.at = now /\ ~y.cleared /\ (y.pc = "token" <=> q \in Signals)
      BY <1>1 DEF Tx, TxPcs, Starts, Signals
    <3>2. /\ tx' = [tx EXCEPT ![q] = y] /\ x.pc = "arrived" /\ told' = told
          /\ UNCHANGED <<now, keys, runs, since, signals, until>>
      BY <1>7, <2>2 DEF Handle, At
    <3> HIDE DEF y
    <3>3. tx'[q] = y BY <1>1, <3>2
    <3>4. q \in Signals => runs[Req[q].target] # "none"
      BY Zenon, <2>2 DEF Refuses, Starts, Signals
    <3>5. RequestOK(q)'
      <4>1. now <= now /\ now <= now + Span BY <1>1, Times
      <4>2. q \in Starts \/ q \in Signals BY Constants
      <4> QED BY <1>1, <3>1, <3>2, <3>3, <3>4, <4>1, <4>2 DEF RequestOK, HoldsRow, InTransaction
    <3> QED BY Zenon, <1>5, <3>1, <3>2, <3>5
  <2> QED BY <2>1, <2>2
<1>8. CASE Lookup(q)
  <2>1. q \in Starts /\ x.pc = "lookup" /\ UNCHANGED <<now, keys, runs, since, signals, until>>
    BY Zenon, <1>1, <1>8 DEF Lookup, At, RequestOK
  <2>2. CASE Live(row, x.at)
    <3>1. Answer(q, Hit(row, q)) /\ row # NoRow
      BY <1>8, <2>2 DEF Lookup, Live, Exists
    <3> QED BY Zenon, <1>2, <1>4, <1>6, <2>1, <3>1 DEF Hit
  <2>3. CASE ~Live(row, x.at)
    <3> DEFINE y == [x EXCEPT !.pc = "clear"]
    <3>1. y \in Tx /\ y.pc = "clear" /\ y.at = x.at /\ y.cleared = x.cleared
      BY <1>1 DEF Tx, TxPcs
    <3>2. tx' = [tx EXCEPT ![q] = y] /\ told' = told
      BY <1>8, <2>3 DEF Lookup, Goto
    <3> HIDE DEF y
    <3>3. tx'[q] = y BY Zenon, <1>1, <3>2
    <3>4. RequestOK(q)'
      BY <1>1, <2>1, <3>1, <3>2, <3>3 DEF RequestOK, HoldsRow, InTransaction
    <3> QED BY Zenon, <1>1, <1>5, <2>1, <3>1, <3>2, <3>4 DEF RequestOK
  <2> QED BY Zenon, <2>2, <2>3
<1>9. CASE ClearExpired(q)
  <2> DEFINE y == [x EXCEPT !.pc = "insert", !.cleared = Clears(row, x.at)]
  <2>1. /\ q \in Starts /\ x.pc = "clear" /\ ~Locked(Slot(q), q)
        /\ UNCHANGED <<now, keys, runs, since, signals, until, told>>
    BY <1>1, <1>9 DEF ClearExpired, At, RequestOK
  <2>2. Clears(row, x.at) \in BOOLEAN /\ (Clears(row, x.at) => row.expires <= x.at)
    BY DEF Clears, Exists
  <2>3. y \in Tx /\ y.pc = "insert" /\ y.at = x.at /\ y.cleared = Clears(row, x.at)
    BY Zenon, <1>1, <2>2 DEF Tx, TxPcs
  <2>4. tx' = [tx EXCEPT ![q] = y]
    BY Zenon, <1>1, <1>9 DEF ClearExpired
  <2> HIDE DEF y
  <2>5. tx'[q] = y BY Zenon, <1>1, <2>4
  <2>6. RequestOK(q)'
    BY <1>1, <2>1, <2>2, <2>3, <2>5 DEF RequestOK, HoldsRow, InTransaction
  <2> QED BY Zenon, <1>5, <2>1, <2>3, <2>4, <2>6
<1>10. CASE Insert(q)
  <2>1. /\ q \in Starts /\ x.pc = "insert" /\ ~Locked(Slot(q), q)
        /\ UNCHANGED <<now, keys, runs, since, signals, until, told>>
    BY <1>1, <1>10 DEF Insert, At, RequestOK
  <2>2. CASE Exists(Row(q))
    <3> DEFINE y == [pc |-> "reread", at |-> now, cleared |-> FALSE]
    <3>1. y \in Tx /\ y.pc = "reread" /\ y.at = now /\ ~y.cleared
      BY <1>1 DEF Tx, TxPcs
    <3>2. tx' = [tx EXCEPT ![q] = y] BY Zenon, <1>10, <2>2 DEF Insert
    <3> HIDE DEF y
    <3>3. tx'[q] = y BY <1>1, <3>2
    <3>4. RequestOK(q)'
      <4>1. now <= now /\ now <= now + Span BY <1>1, Times
      <4> QED BY <1>1, <2>1, <3>1, <3>3, <4>1 DEF RequestOK, HoldsRow, InTransaction
    <3> QED BY Zenon, <1>5, <2>1, <3>1, <3>2, <3>4
  <2>3. CASE ~Exists(Row(q))
    <3> DEFINE y == [x EXCEPT !.pc = "write"]
    <3>1. y \in Tx /\ y.pc = "write" /\ y.at = x.at /\ y.cleared = x.cleared
      BY <1>1 DEF Tx, TxPcs
    <3>2. tx' = [tx EXCEPT ![q] = y] BY <1>10, <2>3 DEF Insert, Goto
    <3> HIDE DEF y
    <3>3. tx'[q] = y BY <1>1, <3>2
    <3>4. x.cleared \/ row = NoRow BY <2>3 DEF Exists, Row
    <3>5. RequestOK(q)'
      BY Zenon, <1>1, <2>1, <3>1, <3>3, <3>4 DEF RequestOK, HoldsRow, InTransaction
    <3> QED BY Zenon, <1>5, <2>1, <3>1, <3>2, <3>5
  <2> QED BY Zenon, <2>2, <2>3
<1>11. CASE Reread(q)
  <2>1. q \in Starts /\ UNCHANGED <<now, keys, runs, since, signals, until>>
    BY Zenon, <1>1, <1>11 DEF Reread, At, RequestOK
  <2>2. CASE Live(row, x.at)
    <3>1. Answer(q, Hit(row, q)) /\ row # NoRow
      BY <1>11, <2>2 DEF Reread, Live, Exists, RereadHit
    <3> QED BY <1>2, <1>4, <1>6, <2>1, <3>1 DEF Hit
  <2>3. CASE ~Live(row, x.at)
    BY <1>2, <1>4, <1>11, <2>1, <2>3 DEF Reread
  <2> QED BY <2>2, <2>3
<1>12. CASE ClaimToken(q)
  <2>1. /\ q \in Signals /\ x.pc = "token" /\ ~Locked(Slot(q), q)
        /\ UNCHANGED <<now, keys, runs, since, signals, until>>
    BY Zenon, <1>1, <1>12 DEF ClaimToken, At, RequestOK
  <2>2. CASE Exists(row)
    <3>1. Answer(q, row.of) /\ row.of \in Requests /\ q \notin Starts
      BY <1>1, <1>12, <2>1, <2>2, Constants DEF ClaimToken, Exists, KeyRow
    <3> QED BY SMTT(30), <1>4, <2>1, <3>1
  <2>3. CASE ~Exists(row)
    <3> DEFINE y == [x EXCEPT !.pc = "deliver"]
    <3>1. y \in Tx /\ y.pc = "deliver" /\ y.at = x.at /\ y.cleared = x.cleared
      BY <1>1 DEF Tx, TxPcs
    <3>2. tx' = [tx EXCEPT ![q] = y] /\ told' = told BY <1>12, <2>3 DEF ClaimToken, Goto
    <3> HIDE DEF y
    <3>3. tx'[q] = y BY <1>1, <3>2
    <3>4. row = NoRow BY Zenon, <2>3 DEF Exists
    <3>5. RequestOK(q)'
      BY <1>1, <2>1, <3>1, <3>2, <3>3, <3>4 DEF RequestOK, HoldsRow, InTransaction
    <3> QED BY Zenon, <1>5, <2>1, <3>1, <3>2, <3>5
  <2> QED BY Zenon, <2>2, <2>3
<1>13. CASE LoseConnection(q)
  BY <1>2, <1>4, <1>13 DEF LoseConnection, Abandon
<1> QED BY Zenon, <1>7, <1>8, <1>9, <1>10, <1>11, <1>12, <1>13

(* Nothing that is current stands under a key whose row is held.           *)
LEMMA HeldMeansNotCurrent ==
    ASSUME StartInv, NEW q \in Requests, NEW p \in Requests, tx[q].pc \in {"write", "deliver"}, Slot(p) = Slot(q)
    PROVE  ~Current(p)
<1>1. /\ RequestOK(q) /\ CurrentHasRow(p) /\ now \in Nat /\ tx[q].at \in Nat /\ until[p] \in Nat
  BY DEF StartInv, Types, Tx
<1>2. [of |-> p, expires |-> until[p]] \in KeyRow
  BY <1>1, Rows
<1> QED BY <1>1, <1>2, Rows DEF RequestOK, HoldsRow, InTransaction, CurrentHasRow, Current

(* A commit: the key's row, and the run or the signal.                     *)
LEMMA CommitPreserves ==
    ASSUME StartInv, NEW q \in Requests, NEW t \in {q, "error"}, tx[q].pc \in {"write", "deliver"},
           keys' = [keys EXCEPT ![Slot(q)] = NewRow(q)],
           until' = [until EXCEPT ![q] = tx[q].at + TTL],
           Answer(q, t), UNCHANGED <<now, since>>,
           \/ q \in Starts /\ runs' = [runs EXCEPT ![q] = "live"] /\ signals' = signals
           \/ q \in Signals /\ runs' = runs /\ runs[Req[q].target] \notin {"none", "gone"} /\ signals' = signals \cup {q}
    PROVE  StartInv'
<1>1. /\ Types /\ RequestOK(q) /\ Slot(q) \in Slots /\ tx[q] \in Tx /\ tx[q].at \in Nat /\ q \in Runs
      /\ q \in Starts => runs[q] = "none"
  BY Zenon, Constants DEF StartInv, Types, Tx, RequestOK
<1>2. NewRow(q) \in KeyRow /\ NewRow(q) # NoRow /\ NewRow(q).of = q /\ NewRow(q) = [of |-> q, expires |-> tx[q].at + TTL]
  BY <1>1, Times, Rows DEF NewRow
<1>3. /\ tx' = [tx EXCEPT ![q] = Ended] /\ told' = [told EXCEPT ![q] = t]
      /\ Ended \in Tx /\ Ended.pc = "over" /\ ~Ended.cleared /\ t \in Requests \cup Outcomes
      /\ t \in Requests => t = q
  BY Constants DEF Answer, Ended, Tx, TxPcs, Outcomes
<1>4. Types'
  <2>1. keys' \in [Slots -> {NoRow} \cup KeyRow] BY <1>1, <1>2 DEF Types
  <2>2. runs' \in [Runs -> Statuses] /\ signals' \subseteq Requests BY <1>1 DEF Types, Statuses
  <2>3. until' \in [Requests -> Nat] BY <1>1, Times DEF Types
  <2> QED BY <1>1, <1>3, <2>1, <2>2, <2>3 DEF Types
<1>5. /\ tx'[q] = Ended /\ told'[q] = t /\ until'[q] = tx[q].at + TTL /\ keys'[Slot(q)] = NewRow(q)
      /\ \A p \in Requests \ {q} : tx'[p] = tx[p] /\ told'[p] = told[p] /\ until'[p] = until[p]
      /\ \A s \in Slots \ {Slot(q)} : keys'[s] = keys[s]
      /\ \A r \in Runs : runs'[r] = runs[r] \/ (runs[r] = "none" /\ runs'[r] = "live" /\ r = q)
  BY Zenon, <1>1, <1>3 DEF Types
<1>6. HoldsRow(q)
  BY DEF HoldsRow
<1>7. ASSUME NEW p \in Requests PROVE RequestOK(p)'
  <2>1. CASE p = q
    BY <1>3, <1>5, <2>1 DEF RequestOK, HoldsRow, InTransaction, SameAs
  <2>2. CASE p # q
    <3>1. HoldsRow(p) => Slot(p) # Slot(q) BY <1>6, <2>2 DEF StartInv, Exclusive
    <3>2. Slot(p) \in Slots /\ p \in Runs /\ (p \in Signals => Req[p].target \in Runs) BY Constants
    <3>3. RequestOK(p) BY DEF StartInv
    <3> QED BY <1>5, <2>2, <3>1, <3>2, <3>3 DEF RequestOK, HoldsRow, InTransaction
  <2> QED BY Zenon, <2>1, <2>2
<1>8. Exclusive'
  BY <1>3, <1>5 DEF StartInv, Exclusive, HoldsRow
<1>9. ASSUME NEW s \in Slots PROVE RowOK(s)'
  <2>1. CASE s = Slot(q)
    <3>1. workflow_id(keys'[s]) = IF q \in Signals THEN Req[q].target ELSE q
      BY <1>2, <1>5, <2>1 DEF workflow_id, Starts, Signals
    <3> QED BY <1>1, <1>2, <1>5, <2>1, <3>1, Constants DEF RowOK, Types
  <2>2. CASE s # Slot(q) /\ keys[s] # NoRow
    <3>1. keys'[s] = keys[s] /\ RowOK(s) /\ keys[s].of \in Requests
      BY Zenon, <1>1, <1>5, <2>2 DEF StartInv, Types, KeyRow
    <3>2. workflow_id(keys[s]) \in Runs
      BY Zenon, <3>1, Constants DEF workflow_id, Starts, Signals
    <3> QED BY <1>5, <2>2, <3>1, <3>2 DEF RowOK, workflow_id
  <2>3. CASE s # Slot(q) /\ keys[s] = NoRow
    BY <1>5, <2>3 DEF RowOK
  <2> QED BY Zenon, <2>1, <2>2, <2>3
<1>10. ASSUME NEW p \in Requests PROVE CurrentHasRow(p)'
  <2>1. CASE p = q
    BY <1>2, <1>5, <2>1 DEF CurrentHasRow
  <2>2. CASE p # q
    <3>1. Current(p)' => Current(p)
      BY <1>5, <2>2, Constants DEF Current
    <3>2. Slot(p) = Slot(q) => ~Current(p)
      BY HeldMeansNotCurrent
    <3>3. CurrentHasRow(p) /\ Slot(p) \in Slots BY Constants DEF StartInv
    <3> QED BY <1>5, <2>2, <3>1, <3>2, <3>3 DEF CurrentHasRow
  <2> QED BY <2>1, <2>2
<1> QED BY Zenon, <1>4, <1>7, <1>8, <1>9, <1>10 DEF StartInv

(* The sweeps take rows away, and a run with the rows that name it.        *)
LEMMA SweepPreserves ==
    ASSUME StartInv, Sweep \/ \E r \in Runs : Purge(r)
    PROVE  StartInv'
<1>1. Types
  BY DEF StartInv
<1>2. /\ UNCHANGED <<now, since, signals, tx, told, until>>
      /\ \A s \in Slots : keys'[s] = keys[s] \/ keys'[s] = NoRow
      /\ keys' \in [Slots -> {NoRow} \cup KeyRow] /\ runs' \in [Runs -> Statuses]
      /\ \A r \in Runs : runs'[r] = runs[r] \/ (runs[r] # "none" /\ runs'[r] = "gone")
  BY <1>1 DEF Types, Sweep, Purge, Statuses
<1>3. ASSUME NEW s \in Slots, keys[s] # NoRow
      PROVE  /\ keys[s] \in KeyRow /\ keys[s].of \in Requests /\ workflow_id(keys[s]) \in Runs
             /\ keys'[s] # NoRow => runs'[workflow_id(keys[s])] = runs[workflow_id(keys[s])]
             /\ keys'[s] = NoRow => keys[s].expires < now \/ runs'[workflow_id(keys[s])] = "gone"
  <2>1. keys[s] \in KeyRow /\ keys[s].of \in Requests
    BY <1>1, <1>3 DEF Types, KeyRow
  <2>2. workflow_id(keys[s]) \in Runs
    BY Zenon, <2>1, Constants DEF workflow_id, Starts, Signals
  <2>3. CASE Sweep
    BY <1>3, <2>1, <2>2, <2>3 DEF Sweep, Outdated
  <2>4. ASSUME NEW r \in Runs, Purge(r)
        PROVE  /\ keys'[s] # NoRow => runs'[workflow_id(keys[s])] = runs[workflow_id(keys[s])]
               /\ keys'[s] = NoRow => runs'[workflow_id(keys[s])] = "gone"
    <3>1. runs' = [runs EXCEPT ![r] = "gone"] /\ (keys'[s] = NoRow <=> workflow_id(keys[s]) = r)
      BY <1>3, <2>4 DEF Purge, Names, Exists
    <3> QED BY <1>1, <2>2, <3>1 DEF Types
  <2> QED BY <2>1, <2>2, <2>3, <2>4
<1>4. Types'
  BY Zenon, <1>1, <1>2 DEF Types
<1>5. ASSUME NEW q \in Requests PROVE RequestOK(q)'
  <2>1. RequestOK(q) /\ Slot(q) \in Slots /\ q \in Runs /\ (q \in Signals => Req[q].target \in Runs)
    BY Constants DEF StartInv
  <2> QED BY Zenon, <1>2, <2>1 DEF RequestOK, HoldsRow, InTransaction
<1>6. Exclusive'
  BY Zenon, <1>2 DEF StartInv, Exclusive, HoldsRow
<1>7. ASSUME NEW s \in Slots PROVE RowOK(s)'
  BY Zenon, <1>2, <1>3 DEF StartInv, RowOK, workflow_id
<1>8. ASSUME NEW q \in Requests PROVE CurrentHasRow(q)'
  <2> DEFINE w == IF q \in Signals THEN Req[q].target ELSE q
             s == Slot(q)
  <2>1. CurrentHasRow(q) /\ s \in Slots /\ w \in Runs /\ until[q] \in Nat /\ now \in Nat
    BY <1>1, Constants DEF StartInv, Types
  <2>2. SUFFICES ASSUME Current(q)' PROVE keys'[s] = [of |-> q, expires |-> until'[q]]
    BY DEF CurrentHasRow
  <2>3. Current(q) /\ until[q] > now /\ runs'[w] # "gone"
    BY <1>2, <2>1, <2>2 DEF Current
  <2>4. keys[s] = [of |-> q, expires |-> until[q]] /\ keys[s] # NoRow
    BY <2>1, <2>3, Rows DEF CurrentHasRow
  <2>5. workflow_id(keys[s]) = w
    BY <2>4 DEF workflow_id, Starts, Signals
  <2> QED BY SMTT(30), <1>2, <1>3, <2>1, <2>3, <2>4, <2>5
<1> QED BY <1>4, <1>5, <1>6, <1>7, <1>8 DEF StartInv

LEMMA StartInvNext == ASSUME StartInv, [Next]_vars PROVE StartInv'
<1>1. Types
  BY DEF StartInv
<1>2. ASSUME NEW q \in Requests, CommitRun(q) PROVE StartInv'
  <2>1. PICK lost \in BOOLEAN : Answer(q, IF lost THEN "error" ELSE q)
    BY Zenon, <1>2 DEF CommitRun
  <2>2. q \in Starts /\ tx[q].pc = "write"
    BY <1>2 DEF CommitRun, At, StartInv, RequestOK
  <2>3. \E t \in {q, "error"} : Answer(q, t)
    BY <2>1
  <2> QED BY Zenon, <1>2, <2>2, <2>3, CommitPreserves DEF CommitRun
<1>3. ASSUME NEW q \in Requests, CommitSignal(q) PROVE StartInv'
  <2>1. q \in Signals /\ tx[q].pc = "deliver" /\ runs[Req[q].target] # "none" /\ RequestOK(q) /\ q \notin Starts
    BY <1>3, Constants DEF CommitSignal, At, StartInv, RequestOK
  <2>2. CASE runs[Req[q].target] = "gone"
    <3>1. /\ tx' = [tx EXCEPT ![q] = Ended] /\ told' = [told EXCEPT ![q] = "not_found"]
          /\ UNCHANGED <<now, keys, runs, since, signals, until>>
      BY <1>3, <2>2 DEF CommitSignal, Answer, NotFound
    <3>2. Ended \in Tx /\ "not_found" \in Outcomes
      BY DEF Ended, Tx, TxPcs, Outcomes
    <3>3. tx'[q] = Ended BY <1>1, <3>1 DEF Types
    <3>4. RequestOK(q)' BY SMTT(30), <2>1, <3>3 DEF RequestOK, HoldsRow, InTransaction, Ended
    <3> QED BY ZenonT(30), <3>1, <3>2, <3>4, HandlerStep DEF Ended
  <2>3. CASE runs[Req[q].target] # "gone"
    <3>1. PICK lost \in BOOLEAN : Answer(q, IF lost THEN "error" ELSE q)
      BY <1>3, <2>3 DEF CommitSignal
    <3>2. \E t \in {q, "error"} : Answer(q, t)
      BY <3>1
    <3> QED BY <1>3, <2>1, <2>3, <3>2, CommitPreserves DEF CommitSignal
  <2> QED BY Zenon, <2>2, <2>3
<1>4. ASSUME NEW r \in Runs, Settle(r) PROVE StartInv'
  <2>1. /\ UNCHANGED <<now, keys, signals, tx, told, until>>
        /\ runs' \in [Runs -> Statuses] /\ since' \in [Runs -> Nat]
        /\ \A u \in Runs : runs'[u] = runs[u] \/ (runs[u] \notin {"none", "gone"} /\ runs'[u] \notin {"none", "gone"})
    BY <1>1, <1>4 DEF Settle, Types, Statuses
  <2>2. Types' BY <1>1, <2>1 DEF Types
  <2>3. ASSUME NEW q \in Requests PROVE RequestOK(q)' /\ CurrentHasRow(q)'
    <3>1. q \in Runs /\ (q \in Signals => Req[q].target \in Runs) /\ RequestOK(q) /\ CurrentHasRow(q)
      BY Zenon, Constants DEF StartInv
    <3>2. RequestOK(q)' BY <2>1, <3>1 DEF RequestOK, HoldsRow, InTransaction
    <3>3. CurrentHasRow(q)' BY <2>1, <3>1 DEF CurrentHasRow, Current
    <3> QED BY <3>2, <3>3
  <2>4. ASSUME NEW s \in Slots, keys[s] # NoRow PROVE RowOK(s)'
    <3>1. keys[s].of \in Requests BY <1>1, <2>4 DEF Types, KeyRow
    <3>2. workflow_id(keys[s]) \in Runs BY <3>1, Constants DEF workflow_id, Starts, Signals
    <3> QED BY <2>1, <2>4, <3>2 DEF StartInv, RowOK, workflow_id
  <2>5. \A s \in Slots : RowOK(s)' BY <2>1, <2>4 DEF RowOK
  <2>6. Exclusive' BY Zenon, <2>1 DEF StartInv, Exclusive, HoldsRow
  <2> QED BY <2>2, <2>3, <2>5, <2>6 DEF StartInv
<1>5. CASE Tick
  <2>1. UNCHANGED <<keys, runs, since, signals, tx, told, until>> /\ now' = now + 1 /\ now \in Nat
    BY <1>1, <1>5 DEF Tick, Types
  <2>2. ASSUME NEW q \in Requests PROVE RequestOK(q)' /\ CurrentHasRow(q)'
    <3>1. tx[q].at \in Nat /\ until[q] \in Nat /\ RequestOK(q) /\ CurrentHasRow(q) /\ (InTransaction(q) => now < tx[q].at + Span)
      BY <1>1, <1>5 DEF StartInv, Types, Tx, Tick
    <3>a. InTransaction(q) => tx[q].at <= now BY ZenonT(30), <3>1 DEF RequestOK
    <3>t. /\ InTransaction(q) => tx[q].at <= now' /\ now' <= tx[q].at + Span
          /\ until[q] > now' => until[q] > now
      BY <2>1, <3>1, <3>a, Times
    <3>2. RequestOK(q)' BY Zenon, <2>1, <3>1, <3>t DEF RequestOK, HoldsRow, InTransaction
    <3>3. Current(q)' => Current(q) BY Zenon, <2>1, <3>t DEF Current
    <3>4. CurrentHasRow(q)' BY Zenon, <2>1, <3>1, <3>3 DEF CurrentHasRow
    <3> QED BY <3>2, <3>4
  <2> QED BY <1>1, <2>1, <2>2 DEF StartInv, Types, Exclusive, HoldsRow, RowOK, workflow_id
<1>6. CASE OpenOrClose \/ UNCHANGED vars
  <2>1. UNCHANGED <<now, keys, runs, since, signals, tx, told, until>>
    BY Zenon, <1>6 DEF OpenOrClose, vars
  <2>2. Types' /\ Exclusive' /\ \A s \in Slots : RowOK(s)'
    BY <2>1 DEF StartInv, Types, Exclusive, HoldsRow, RowOK, workflow_id
  <2>3. ASSUME NEW q \in Requests PROVE RequestOK(q)' /\ CurrentHasRow(q)'
    BY Zenon, <2>1 DEF StartInv, RequestOK, HoldsRow, InTransaction, CurrentHasRow, Current
  <2> QED BY Zenon, <2>2, <2>3 DEF StartInv
<1> QED
  BY <1>2, <1>3, <1>4, <1>5, <1>6, HandlerStepPreserves, SweepPreserves DEF Next, Step

LEMMA StartInvariant == Spec => []StartInv
<1>1. StartInv /\ [Next]_vars => StartInv'
  BY StartInvNext
<1> QED BY StartInvInit, <1>1, PTL DEF Spec

(* Under one key at most one run is started, and at most one signal        *)
(* delivered, while the key's time lasts.                                  *)
THEOREM StartsOncePerKey == Spec => []OncePerKey
<1>1. StartInv => OncePerKey
  <2> SUFFICES ASSUME StartInv, NEW p \in Requests, NEW q \in Requests, Slot(p) = Slot(q), Current(p), Current(q)
               PROVE  p = q
    BY DEF OncePerKey
  <2>1. keys[Slot(q)] = [of |-> q, expires |-> until[q]] /\ keys[Slot(q)] = [of |-> p, expires |-> until[p]]
    BY DEF StartInv, CurrentHasRow
  <2> QED BY <2>1
<1> QED BY StartInvariant, <1>1, PTL

(* A key row never claims a signal that was not delivered or a run that is *)
(* not there, and a start is told only of a run that asked for the same.   *)
THEOREM KeysTellTheTruth == Spec => []KeysAreHonest
<1>1. StartInv => KeysAreHonest
  BY DEF KeysAreHonest, StartInv, KeyTellsTheTruth, RowOK, Exists, ToldOfTheSame, RequestOK, Starts
<1> QED BY StartInvariant, <1>1, PTL
=============================================================================
