------------------------- MODULE StartPromiseProofs -------------------------
(***************************************************************************)
(* What a client is told, for any requests, keys, clock and faults: the    *)
(* statements of startNewRun implement the promise of StartOnce, and a     *)
(* request that lost the race for its key finds the winner.                *)
(***************************************************************************)
EXTENDS IdempotentStartProofs

(* How the row a loser of the race re-reads came about: it was committed   *)
(* after the loser's transaction began, by one that had begun at most Span *)
(* before, and its run has not been settled for long.  The re-read is in a *)
(* transaction of its own, begun at most Span later.                       *)
Fresh(row, t, later) ==
    /\ row.expires + Span + later >= t + TTL
    /\ runs[row.of] = "live" \/ since[row.of] + later >= t

WinnerOK(q) ==
    /\ tx[q].pc = "clear" =>
          keys[Slot(q)] = NoRow \/ keys[Slot(q)].expires <= tx[q].at \/ Fresh(keys[Slot(q)], tx[q].at, 0)
    /\ tx[q].pc = "insert" /\ ~tx[q].cleared =>
          keys[Slot(q)] = NoRow \/ Fresh(keys[Slot(q)], tx[q].at, 0)
    /\ tx[q].pc = "reread" => keys[Slot(q)] # NoRow /\ Fresh(keys[Slot(q)], tx[q].at, Span)
    /\ told[q] # "no_rows"

WinnerInv == \A q \in Requests : WinnerOK(q)

(* A key outlives three transactions: the winner's, the loser's and the    *)
(* one in which the loser re-reads.                                        *)
LongKeys == TTL > 3 * Span

LEMMA LongTimes == LongKeys => TTL > Span + Span + Span
BY StartAssumption DEF ConstantsOK, LongKeys

(* A step that changes neither the rows of the keys nor the runs they name *)
(* leaves a request's view of the winner alone, and so does its own next   *)
(* statement.                                                              *)
LEMMA WinnerHandlerStep ==
    ASSUME StartInv, WinnerInv, NEW q \in Requests,
           \/ Handle(q) \/ Lookup(q) \/ ClearExpired(q) \/ Insert(q) \/ Reread(q) \/ ClaimToken(q)
           \/ LoseConnection(q),
           LongKeys
    PROVE  WinnerInv'
<1> DEFINE x == tx[q]
           row == keys[Slot(q)]
<1>1. /\ now \in Nat /\ x \in Tx /\ x.at \in Nat /\ Slot(q) \in Slots
      /\ row \in {NoRow} \cup KeyRow /\ RequestOK(q) /\ WinnerOK(q)
      /\ tx \in [Requests -> Tx] /\ told \in [Requests -> Requests \cup Outcomes]
  BY Constants DEF StartInv, Types, Tx, WinnerInv
<1>2. /\ UNCHANGED <<now, keys, runs, since>>
      /\ \A p \in Requests \ {q} : tx'[p] = tx[p] /\ told'[p] = told[p]
  BY Zenon, <1>1 DEF Handle, Lookup, ClearExpired, Insert, Reread, ClaimToken, LoseConnection, Abandon, Answer, Goto
<1>3. SUFFICES WinnerOK(q)'
  BY <1>2 DEF WinnerInv, WinnerOK, Fresh
<1>4. "no_rows" \notin Requests
  BY Constants DEF Outcomes
<1>5. ASSUME NEW t, Answer(q, t), t # "no_rows" PROVE WinnerOK(q)'
  <2>1. tx'[q] = Ended /\ told'[q] = t BY <1>1, <1>5 DEF Answer
  <2>2. tx'[q].pc = "over" BY <2>1 DEF Ended
  <2> QED BY <1>5, <2>1, <2>2 DEF WinnerOK
<1>6. ASSUME row # NoRow PROVE Hit(row, q) # "no_rows" /\ row.of # "no_rows" /\ row.expires \in Nat
  BY <1>1, <1>4, <1>6 DEF Hit, KeyRow
<1>7. CASE Handle(q)
  <2>1. CASE Refuses(q) BY Zenon, <1>5, <1>7, <2>1 DEF Handle
  <2>2. CASE ~Refuses(q)
    <3>1. tx'[q].pc \in {"token", "lookup"} /\ told' = told
      <4> DEFINE y == [pc |-> IF Req[q].op = "signal" THEN "token" ELSE "lookup", at |-> now, cleared |-> FALSE]
      <4>1. tx' = [tx EXCEPT ![q] = y] /\ told' = told BY <1>7, <2>2 DEF Handle
      <4>2. tx'[q] = y BY <1>1, <4>1
      <4>3. y.pc \in {"token", "lookup"} OBVIOUS
      <4> HIDE DEF y
      <4> QED BY Zenon, <4>1, <4>2, <4>3
    <3> QED BY <1>1, <3>1 DEF WinnerOK
  <2> QED BY <2>1, <2>2
<1>8. CASE Lookup(q)
  <2>1. CASE Live(row, x.at)
    BY Zenon, <1>5, <1>6, <1>8, <2>1 DEF Lookup, Live, Exists
  <2>2. CASE ~Live(row, x.at)
    <3>1. tx'[q].pc = "clear" /\ tx'[q].at = x.at /\ told' = told
      BY <1>1, <1>8, <2>2 DEF Lookup, Goto, Tx
    <3>2. row = NoRow \/ row.expires <= x.at
      BY <1>1, <1>6, <2>2 DEF Live, Exists
    <3> QED BY <1>1, <1>2, <3>1, <3>2 DEF WinnerOK
  <2> QED BY <2>1, <2>2
<1>9. CASE ClearExpired(q)
  <2>1. tx'[q].pc = "insert" /\ tx'[q].at = x.at /\ tx'[q].cleared = Clears(row, x.at) /\ told' = told /\ x.pc = "clear"
    BY <1>1, <1>9 DEF ClearExpired, At, Tx
  <2> QED BY Zenon, <1>1, <1>2, <2>1 DEF WinnerOK, Fresh, Clears, Exists
<1>10. CASE Insert(q)
  <2>1. CASE Exists(Row(q))
    <3>1. tx'[q].pc = "reread" /\ tx'[q].at = now /\ told' = told /\ x.pc = "insert"
      BY <1>1, <1>10, <2>1 DEF Insert, At
    <3>2. ~x.cleared /\ row # NoRow
      BY <2>1 DEF Exists, Row
    <3>3. row \in KeyRow /\ row.expires \in Nat /\ row.of \in Requests
      BY Zenon, <1>1, <3>2 DEF KeyRow
    <3>4. since[row.of] \in Nat /\ x.at <= now /\ now <= x.at + Span
      BY Zenon, <1>1, <3>1, <3>3, Constants DEF StartInv, Types, RequestOK, InTransaction
    <3>5. Fresh(row, x.at, 0)
      BY Zenon, <1>1, <3>1, <3>2 DEF WinnerOK
    <3>6. Fresh(row, now, Span)
      BY <1>1, <3>3, <3>4, <3>5, Times, LongTimes DEF Fresh
    <3> QED BY <1>1, <1>2, <3>1, <3>2, <3>6 DEF WinnerOK, Fresh
  <2>2. CASE ~Exists(Row(q))
    <3>1. tx'[q].pc = "write" /\ told' = told
      BY <1>1, <1>10, <2>2 DEF Insert, Goto, Tx
    <3> QED BY <1>1, <3>1 DEF WinnerOK
  <2> QED BY Zenon, <2>1, <2>2
<1>11. CASE Reread(q)
  <2>1. row # NoRow /\ Fresh(row, x.at, Span)
    BY Zenon, <1>1, <1>11 DEF Reread, At, WinnerOK
  <2>2. Live(row, x.at)
    BY <1>1, <1>6, <2>1, Times, LongTimes DEF Live, Exists, Fresh
  <2> QED BY Zenon, <1>5, <1>6, <1>11, <2>1, <2>2 DEF Reread, RereadHit
<1>12. CASE ClaimToken(q)
  <2>1. CASE Exists(row) BY <1>5, <1>6, <1>12, <2>1 DEF ClaimToken, Exists
  <2>2. CASE ~Exists(row)
    <3>1. tx'[q].pc = "deliver" /\ told' = told
      BY <1>1, <1>12, <2>2 DEF ClaimToken, Goto, Tx
    <3> QED BY <1>1, <3>1 DEF WinnerOK
  <2> QED BY <2>1, <2>2
<1>13. CASE LoseConnection(q)
  BY <1>5, <1>13 DEF LoseConnection, Abandon
<1> QED BY <1>7, <1>8, <1>9, <1>10, <1>11, <1>12, <1>13

(* The row a request is about to re-read outlives the re-read: its time is *)
(* not over, and the retention of its run has not passed.                  *)
LEMMA WinnerOutlives ==
    ASSUME StartInv, NEW q \in Requests, WinnerOK(q), tx[q].pc = "reread", LongKeys
    PROVE  /\ keys[Slot(q)] \in KeyRow /\ keys[Slot(q)].of \in Requests
           /\ keys[Slot(q)].expires > now
           /\ runs[keys[Slot(q)].of] # "live" => since[keys[Slot(q)].of] + Retention > now
<1> DEFINE row == keys[Slot(q)]
<1>1. row \in KeyRow /\ Fresh(row, tx[q].at, Span)
  BY Constants DEF WinnerOK, StartInv, Types
<1>2. row.of \in Requests /\ row.expires \in Nat /\ now \in Nat /\ tx[q].at \in Nat /\ since[row.of] \in Nat
  BY <1>1, Constants DEF KeyRow, StartInv, Types, Tx
<1>3. tx[q].at <= now /\ now <= tx[q].at + Span
  BY DEF StartInv, RequestOK, InTransaction
<1> HIDE DEF row
<1>4. row.expires > now
  BY <1>1, <1>2, <1>3, Times, LongTimes DEF Fresh
<1>5. runs[row.of] # "live" => since[row.of] + Retention > now
  BY <1>1, <1>2, <1>3, Times, LongTimes DEF Fresh
<1> QED BY <1>1, <1>2, <1>4, <1>5 DEF row

(* The rows that starts meet are those of starts.                          *)
LEMMA StartsMeetStarts ==
    ASSUME StartInv, NEW q \in Starts, keys[Slot(q)] # NoRow
    PROVE  /\ keys[Slot(q)] \in KeyRow /\ keys[Slot(q)].of \in Starts /\ keys[Slot(q)].of \in Runs
           /\ workflow_id(keys[Slot(q)]) = keys[Slot(q)].of
<1>1. q \in Requests /\ Slot(q) \in Slots
  BY Constants DEF Starts
<1>2. keys[Slot(q)] \in KeyRow /\ keys[Slot(q)].of \in Requests
  BY <1>1 DEF StartInv, Types, KeyRow
<1>3. keys[Slot(q)].of \in Starts
  BY <1>1, <1>2, Constants DEF StartInv, RowOK
<1> QED BY <1>2, <1>3, Constants DEF workflow_id, Starts

LEMMA WinnerInvNext == ASSUME StartInv, WinnerInv, [Next]_vars, LongKeys PROVE WinnerInv'
<1>1. Types
  BY Zenon DEF StartInv
<1> DEFINE Races(p) == tx[p].pc \in {"clear", "insert", "reread"}
<1>2. ASSUME NEW p \in Requests, Races(p)
      PROVE  /\ p \in Starts /\ Slot(p) \in Slots /\ tx[p].at \in Nat /\ now \in Nat
             /\ tx[p].at <= now /\ RequestOK(p) /\ WinnerOK(p)
  BY <1>1, <1>2, Constants DEF StartInv, RequestOK, InTransaction, Types, Tx, WinnerInv
<1>3. ASSUME NEW q \in Requests, CommitRun(q) PROVE WinnerInv'
  <2>1. /\ tx[q].pc = "write" /\ tx[q].at \in Nat /\ now \in Nat /\ q \in Starts
        /\ tx[q].at <= now /\ now <= tx[q].at + Span /\ Slot(q) \in Slots /\ q \in Runs
    BY <1>1, <1>3, Constants DEF CommitRun, At, StartInv, RequestOK, InTransaction, Types, Tx
  <2>2. /\ tx'[q] = Ended /\ told'[q] \in {q, "error"} /\ since' = since
        /\ \A p \in Requests \ {q} : tx'[p] = tx[p] /\ told'[p] = told[p]
        /\ \A s \in Slots \ {Slot(q)} : keys'[s] = keys[s]
        /\ keys'[Slot(q)] = [of |-> q, expires |-> tx[q].at + TTL]
        /\ runs'[q] = "live" /\ \A r \in Runs \ {q} : runs'[r] = runs[r]
    BY Zenon, <1>1, <1>3, <2>1 DEF CommitRun, Answer, Types, NewRow
  <2>3. WinnerOK(q)'
    <3>1. tx'[q].pc = "over" BY <2>2 DEF Ended
    <3>2. told'[q] # "no_rows" BY <2>2, Constants DEF Outcomes
    <3> QED BY Zenon, <3>1, <3>2 DEF WinnerOK
  <2>4. ASSUME NEW p \in Requests, p # q PROVE WinnerOK(p)'
    <3>1. CASE ~Races(p)
      BY <2>2, <2>4, <3>1 DEF WinnerInv, WinnerOK
    <3>2. CASE Races(p) /\ Slot(p) = Slot(q)
      <4>1. /\ keys'[Slot(p)] # NoRow /\ keys'[Slot(p)].expires + Span + 0 >= tx[p].at + TTL
            /\ runs'[keys'[Slot(p)].of] = "live"
        <5>1. tx[p].at \in Nat /\ tx[p].at <= now BY <1>2, <3>2
        <5>2. tx[q].at + TTL + Span + 0 >= tx[p].at + TTL BY <2>1, <5>1, Times
        <5>3. keys'[Slot(p)] = [of |-> q, expires |-> tx[q].at + TTL] BY <2>2, <3>2
        <5>4. keys'[Slot(p)] # NoRow BY <2>1, <5>3, Rows, Times
        <5>5. runs'[q] = "live" BY <2>2
        <5> QED BY <5>2, <5>3, <5>4, <5>5
      <4>2. tx[p].pc # "reread"
        <5> SUFFICES ASSUME tx[p].pc = "reread" PROVE FALSE
          OBVIOUS
        <5>1. keys[Slot(q)] \in KeyRow /\ keys[Slot(q)].expires > now
          BY <1>2, <3>2, WinnerOutlives
        <5>2. keys[Slot(q)].expires <= tx[q].at /\ keys[Slot(q)].expires \in Nat
          BY Zenon, <2>1, <5>1, Rows DEF StartInv, RequestOK, HoldsRow, KeyRow
        <5> QED BY <2>1, <5>1, <5>2
      <4>3. tx'[p] = tx[p] /\ told'[p] = told[p] /\ told[p] # "no_rows" BY <1>2, <2>2, <2>4, <3>2 DEF WinnerOK
      <4>4. Fresh(keys[Slot(p)], tx[p].at, 0)' BY Zenon, <4>1, <4>3 DEF Fresh
      <4> QED BY <4>2, <4>3, <4>4 DEF WinnerOK
    <3>3. CASE Races(p) /\ Slot(p) # Slot(q)
      <4>1. keys'[Slot(p)] = keys[Slot(p)] /\ tx'[p] = tx[p] /\ told'[p] = told[p] /\ WinnerOK(p)
        BY Zenon, <1>2, <2>2, <2>4, <3>3
      <4>2. ASSUME keys[Slot(p)] # NoRow PROVE runs'[keys[Slot(p)].of] = runs[keys[Slot(p)].of]
        BY SMTT(30), <1>2, <2>2, <3>3, <4>2, StartsMeetStarts DEF StartInv, RowOK
      <4> QED BY Zenon, <2>2, <4>1, <4>2 DEF WinnerOK, Fresh
    <3> QED BY <3>1, <3>2, <3>3
  <2> QED BY Zenon, <2>3, <2>4 DEF WinnerInv
<1>4. ASSUME NEW q \in Requests, CommitSignal(q) PROVE WinnerInv'
  <2>1. q \in Signals /\ UNCHANGED <<runs, since>> /\ Slot(q) \in Slots
    BY <1>4, Constants DEF CommitSignal, At, StartInv, RequestOK
  <2>2. /\ tx'[q] = Ended /\ told'[q] \in {q, "error", "not_found"}
        /\ \A p \in Requests \ {q} : tx'[p] = tx[p] /\ told'[p] = told[p]
        /\ \A s \in Slots \ {Slot(q)} : keys'[s] = keys[s]
    BY <1>1, <1>4, <2>1 DEF CommitSignal, Answer, Types, NotFound
  <2>3. WinnerOK(q)'
    <3>1. told'[q] # "no_rows" BY <2>2, Constants DEF Outcomes
    <3>2. tx'[q].pc = "over" BY <2>2 DEF Ended
    <3> QED BY <3>1, <3>2 DEF WinnerOK
  <2>4. ASSUME NEW p \in Requests, p # q PROVE WinnerOK(p)'
    <3>1. Races(p) => Slot(p) # Slot(q)
      BY <1>2, <2>1, Constants
    <3>2. Races(p) => keys'[Slot(p)] = keys[Slot(p)]
      BY <1>2, <2>2, <3>1
    <3> QED BY <2>1, <2>2, <2>4, <3>2 DEF WinnerInv, WinnerOK, Fresh
  <2> QED BY <2>3, <2>4 DEF WinnerInv
<1>5. ASSUME NEW p \in Requests, Sweep \/ \E r \in Runs : Purge(r) PROVE WinnerOK(p)'
  <2>1. UNCHANGED <<since, tx, told>>
    BY <1>5 DEF Sweep, Purge
  <2>2. CASE ~Races(p) \/ (keys[Slot(p)] = NoRow /\ keys'[Slot(p)] = NoRow)
    BY <2>1, <2>2 DEF WinnerInv, WinnerOK
  <2>3. CASE Races(p) /\ keys[Slot(p)] # NoRow
    <3> DEFINE row == keys[Slot(p)]
    <3>1. row \in KeyRow /\ row.of \in Runs /\ workflow_id(row) = row.of
      BY Zenon, <1>2, <2>3, StartsMeetStarts
    <3>2. CASE Sweep
      <4>1. runs' = runs /\ (keys'[Slot(p)] = row \/ (keys'[Slot(p)] = NoRow /\ row.expires < now))
        BY Zenon, <1>2, <2>3, <3>2 DEF Sweep, Outdated
      <4>2. tx[p].pc = "reread" => keys'[Slot(p)] = row
        BY SMTT(30), <1>2, <2>3, <3>1, <4>1, WinnerOutlives DEF KeyRow
      <4> QED BY Zenon, <1>2, <2>1, <2>3, <4>1, <4>2 DEF WinnerOK, Fresh
    <3>3. ASSUME NEW r \in Runs, Purge(r) PROVE WinnerOK(p)'
      <4>1. /\ runs[r] \in {"done", "dead_lettered"} /\ since[r] + Retention <= now
            /\ runs' = [runs EXCEPT ![r] = "gone"]
            /\ keys'[Slot(p)] = IF row.of = r THEN NoRow ELSE row
        BY <1>2, <2>3, <3>1, <3>3 DEF Purge, Names, Exists
      <4>2. tx[p].pc = "reread" => row.of # r
        <5> SUFFICES ASSUME tx[p].pc = "reread", row.of = r PROVE FALSE
          OBVIOUS
        <5>1. since[r] + Retention > now BY <1>2, <2>3, <4>1, WinnerOutlives
        <5>2. since[r] \in Nat /\ now \in Nat BY <1>1 DEF Types
        <5> QED BY <4>1, <5>1, <5>2, Times
      <4>3. row.of # r => runs'[row.of] = runs[row.of] BY <1>1, <3>1, <4>1 DEF Types
      <4> QED BY Zenon, <1>2, <2>1, <2>3, <4>1, <4>2, <4>3 DEF WinnerOK, Fresh
    <3> QED BY <1>5, <3>2, <3>3
  <2>4. CASE Races(p) /\ keys[Slot(p)] = NoRow /\ keys'[Slot(p)] # NoRow
    <3>1. FALSE BY Zenon, <1>2, <1>5, <2>4 DEF Sweep, Purge
    <3> QED BY <3>1
  <2> QED BY <2>2, <2>3, <2>4
<1>6. ASSUME NEW r \in Runs, Settle(r), NEW p \in Requests PROVE WinnerOK(p)'
  <2>1. UNCHANGED <<keys, tx, told>> /\ \A u \in Runs : (u # r => runs'[u] = runs[u] /\ since'[u] = since[u])
    BY <1>1, <1>6 DEF Settle, Types
  <2>2. since'[r] = now /\ since[r] \in Nat /\ now \in Nat
    BY <1>1, <1>6 DEF Settle, Types
  <2>3. CASE ~Races(p) \/ keys[Slot(p)] = NoRow
    BY <2>1, <2>3 DEF WinnerInv, WinnerOK
  <2>4. CASE Races(p) /\ keys[Slot(p)] # NoRow
    <3>1. keys[Slot(p)].of \in Runs BY Zenon, <1>2, <2>4, StartsMeetStarts
    <3>2. CASE keys[Slot(p)].of # r BY Zenon, <1>2, <2>1, <2>4, <3>1, <3>2 DEF WinnerOK, Fresh
    <3>3. CASE keys[Slot(p)].of = r
      <4>0. tx[p].at \in Nat /\ tx[p].at <= now BY <1>2, <2>4
      <4>1. since'[r] >= tx[p].at /\ since'[r] + Span >= tx[p].at BY <2>2, <4>0, Times
      <4>2. since'[r] + 0 >= tx[p].at BY SMTT(30), <2>2, <4>1
      <4> QED BY <1>2, <2>1, <2>4, <3>3, <4>1, <4>2 DEF WinnerOK, Fresh
    <3> QED BY Zenon, <3>2, <3>3
  <2> QED BY <2>3, <2>4
<1>7. CASE Tick \/ OpenOrClose \/ UNCHANGED vars
  <2>1. UNCHANGED <<keys, runs, since, tx, told>>
    BY <1>7 DEF Tick, OpenOrClose, vars
  <2> QED BY Zenon, <2>1 DEF WinnerInv, WinnerOK, Fresh
<1> HIDE DEF Races
<1>8. CASE Sweep \/ \E r \in Runs : Purge(r) BY <1>5, <1>8 DEF WinnerInv
<1>9. CASE \E r \in Runs : Settle(r) BY <1>6, <1>9 DEF WinnerInv
<1> QED
  BY <1>3, <1>4, <1>7, <1>8, <1>9, WinnerHandlerStep DEF Next, Step

(* The re-read after a conflict finds the winner, if keys and settled runs *)
(* are kept for longer than three transactions last.                       *)
THEOREM WinnersAreFound == LongKeys => (Spec => []WinnerIsFound)
<1> SUFFICES ASSUME LongKeys PROVE Spec => []WinnerIsFound
  OBVIOUS
<1>1. Init => WinnerInv
  BY DEF Init, WinnerInv, WinnerOK
<1>2. StartInv /\ WinnerInv /\ [Next]_vars => WinnerInv'
  BY WinnerInvNext
<1>3. WinnerInv => WinnerIsFound
  BY DEF WinnerInv, WinnerOK, WinnerIsFound
<1> QED BY StartInvariant, <1>1, <1>2, <1>3, PTL DEF Spec

-----------------------------------------------------------------------------
(* StartOnce's variables as the rows and answers show them.                *)
HolderOf == [s \in StartSlots |-> keys[s].of]
LapsedOf == {s \in StartSlots : Exists(keys[s]) /\ keys[s].expires <= now}
ToldOf == [q \in Starts |-> SeenAs(told[q])]

LEMMA SlotsOfStarts ==
    /\ StartSlots \subseteq Slots /\ Promise!Keys = StartSlots
    /\ \A q \in Starts : q \in Requests /\ Slot(q) \in StartSlots
    /\ \A q \in Signals : q \in Requests /\ Slot(q) \notin StartSlots
    /\ \A q \in Requests : q \in Starts \/ q \in Signals
BY Zenon DEF StartSlots, Slots, Slot, Starts, Signals, Promise!Keys

LEMMA Seen ==
    /\ \A q \in Requests : SeenAs(q) = q /\ q # "none"
    /\ SeenAs("waiting") = "waiting" /\ SeenAs("error") = "error" /\ SeenAs("no_rows") = "error"
    /\ SeenAs("mismatch") = "refused" /\ SeenAs("refused") = "refused"
BY Constants DEF SeenAs, Outcomes

(* A start is answered, and the keys stay as they are.                     *)
LEMMA AnswerKeepsPromise ==
    ASSUME StartInv, NEW q \in Starts, NEW t, told' = [told EXCEPT ![q] = t], UNCHANGED <<now, keys>>,
           told[q] = "waiting",
           \/ SeenAs(t) \in {"refused", "error"}
           \/ /\ keys[Slot(q)] # NoRow
              /\ t = Hit(keys[Slot(q)], q)
    PROVE  Promise!Next
<1>1. HolderOf' = HolderOf /\ LapsedOf' = LapsedOf
  BY DEF HolderOf, LapsedOf
<1>2. ToldOf' = [ToldOf EXCEPT ![q] = SeenAs(t)] /\ ToldOf[q] = "waiting"
  BY Zenon, Seen, SlotsOfStarts DEF ToldOf, StartInv, Types
<1>3. CASE SeenAs(t) = "refused"
  <2>1. Promise!TurnAway(q)
    BY <1>1, <1>2, <1>3 DEF Promise!TurnAway, Promise!Waiting, HolderOf, LapsedOf, ToldOf
  <2> QED BY <2>1 DEF Promise!Next
<1>4. CASE SeenAs(t) = "error"
  <2>1. Promise!Fail(q)
    BY <1>1, <1>2, <1>4 DEF Promise!Fail, Promise!Waiting, HolderOf, LapsedOf, ToldOf
  <2> QED BY <2>1 DEF Promise!Next
<1>5. CASE keys[Slot(q)] # NoRow /\ t = Hit(keys[Slot(q)], q)
  <2> DEFINE h == keys[Slot(q)].of
  <2>1. h \in Requests
    BY <1>5, StartsMeetStarts DEF KeyRow
  <2>2. SeenAs(t) = IF SameAs(q, h) THEN h ELSE "refused"
    BY <1>5, <2>1, Seen DEF Hit, SameRequest, SameDefinition, checkIdempotencyInput, SameAs
  <2>3. HolderOf[Slot(q)] = h /\ h # "none"
    BY <2>1, Seen, SlotsOfStarts DEF HolderOf
  <2> HIDE DEF h
  <2>4. Promise!Repeat(q)
    BY Zenon, <1>1, <1>2, <2>2, <2>3 DEF Promise!Repeat, Promise!Waiting, HolderOf, LapsedOf, ToldOf
  <2> QED BY <2>4 DEF Promise!Next
<1> QED BY <1>3, <1>4, <1>5

(* A run is committed under a key that was free or whose time was over.    *)
LEMMA CommitKeepsPromise ==
    ASSUME StartInv, NEW q \in Requests, CommitRun(q)
    PROVE  Promise!Next
<1>1. /\ q \in Starts /\ Slot(q) \in StartSlots /\ Slot(q) \in Slots /\ told[q] = "waiting" /\ now' = now
      /\ now \in Nat /\ tx[q].at \in Nat /\ tx[q].at <= now /\ now <= tx[q].at + Span
  BY SlotsOfStarts, Constants DEF CommitRun, At, StartInv, RequestOK, InTransaction, Types, Tx
<1>2. PICK t \in {q, "error"} : told' = [told EXCEPT ![q] = t]
  BY ZenonT(30) DEF CommitRun, Answer
<1>3. /\ keys' = [keys EXCEPT ![Slot(q)] = NewRow(q)] /\ NewRow(q).of = q /\ NewRow(q).expires > now
      /\ NewRow(q).expires \in Nat
  BY SMTT(30), <1>1, Times DEF CommitRun, NewRow
<1>4. keys[Slot(q)] = NoRow \/ keys[Slot(q)].expires <= tx[q].at
  BY Zenon DEF CommitRun, At, StartInv, RequestOK, HoldsRow
<1>5. HolderOf' = [HolderOf EXCEPT ![Slot(q)] = q]
  BY Zenon, <1>1, <1>3, SlotsOfStarts DEF HolderOf, StartInv, Types
<1>6. LapsedOf' = LapsedOf \ {Slot(q)}
  <2>1. keys'[Slot(q)] = NewRow(q) /\ \A s \in StartSlots \ {Slot(q)} : keys'[s] = keys[s]
    BY <1>1, <1>3, SlotsOfStarts DEF StartInv, Types
  <2>2. ~(keys'[Slot(q)].expires <= now)
    BY <1>1, <1>3, <2>1
  <2> QED BY <1>1, <2>1, <2>2 DEF LapsedOf
<1>7. HolderOf[Slot(q)] = "none" \/ Slot(q) \in LapsedOf
  <2>1. CASE keys[Slot(q)] = NoRow BY <1>1, <2>1 DEF HolderOf, NoRow
  <2>2. CASE keys[Slot(q)] # NoRow
    <3>1. keys[Slot(q)].expires \in Nat BY <1>1, <2>2 DEF StartInv, Types, KeyRow
    <3> QED BY <1>1, <1>4, <2>2, <3>1 DEF LapsedOf, Exists
  <2> QED BY <2>1, <2>2
<1>8. ToldOf' = [ToldOf EXCEPT ![q] = t] /\ ToldOf[q] = "waiting"
  BY Zenon, <1>1, <1>2, Seen, SlotsOfStarts DEF ToldOf, StartInv, Types
<1>9. Promise!Start(q)
  BY Zenon, <1>1, <1>5, <1>6, <1>7, <1>8 DEF Promise!Start, Promise!Waiting, HolderOf, LapsedOf, ToldOf
<1> QED BY Zenon, <1>1, <1>9 DEF Promise!Next

(* Rows are taken away.                                                    *)
LEMMA RemovalKeepsPromise ==
    ASSUME StartInv, NEW gone \in SUBSET Slots, UNCHANGED <<now, told>>,
           keys' = [s \in Slots |-> IF s \in gone THEN NoRow ELSE keys[s]]
    PROVE  Promise!Next
<1> DEFINE ks == gone \cap StartSlots
<1>1. ks \in SUBSET Promise!Keys
  BY SlotsOfStarts
<1>2. HolderOf' = [k \in Promise!Keys |-> IF k \in ks THEN "none" ELSE HolderOf[k]]
  BY SlotsOfStarts DEF HolderOf, NoRow
<1>3. LapsedOf' = LapsedOf \ ks
  BY SlotsOfStarts DEF LapsedOf, Exists
<1>4. ToldOf' = ToldOf
  BY DEF ToldOf
<1>5. Promise!Free(ks)
  BY <1>2, <1>3, <1>4 DEF Promise!Free, HolderOf, LapsedOf, ToldOf
<1> QED BY <1>1, <1>5 DEF Promise!Next

LEMMA StepKeepsPromise ==
    ASSUME StartInv, [Next]_vars
    PROVE  Promise!Next \/ UNCHANGED Promise!vars
<1>1. ASSUME UNCHANGED now, \A s \in StartSlots : keys'[s] = keys[s], \A q \in Starts : told'[q] = told[q]
      PROVE  UNCHANGED Promise!vars
  <2>1. HolderOf' = HolderOf /\ LapsedOf' = LapsedOf /\ ToldOf' = ToldOf
    BY <1>1 DEF HolderOf, LapsedOf, ToldOf
  <2> QED BY <2>1 DEF Promise!vars, HolderOf, LapsedOf, ToldOf
<1>2. ASSUME NEW q \in Requests, NEW t, Answer(q, t), UNCHANGED <<now, keys>>, tx[q].pc # "over",
             q \in Starts => \/ SeenAs(t) \in {"refused", "error"}
                             \/ keys[Slot(q)] # NoRow /\ t = Hit(keys[Slot(q)], q)
      PROVE  Promise!Next \/ UNCHANGED Promise!vars
  <2>1. told' = [told EXCEPT ![q] = t] /\ told[q] = "waiting"
    BY <1>2 DEF Answer, StartInv, RequestOK
  <2>2. CASE q \in Starts BY Zenon, <1>2, <2>1, <2>2, AnswerKeepsPromise
  <2>3. CASE q \in Signals
    <3>1. \A p \in Starts : p # q /\ told'[p] = told[p]
      BY <2>1, <2>3, SlotsOfStarts DEF Starts, Signals, StartInv, Types
    <3> QED BY <1>1, <1>2, <3>1
  <2> QED BY Zenon, <2>2, <2>3, SlotsOfStarts
<1>3. ASSUME UNCHANGED <<now, keys, told>> PROVE UNCHANGED Promise!vars
  BY Zenon, <1>1, <1>3
<1>4. ASSUME NEW q \in Requests, Handle(q) PROVE Promise!Next \/ UNCHANGED Promise!vars
  BY Zenon, <1>2, <1>3, <1>4, Seen DEF Handle, At
<1>5. ASSUME NEW q \in Requests, Lookup(q) PROVE Promise!Next \/ UNCHANGED Promise!vars
  BY <1>2, <1>3, <1>5 DEF Lookup, At, Live, Exists
<1>6. ASSUME NEW q \in Requests, ClearExpired(q) \/ Insert(q) PROVE UNCHANGED Promise!vars
  BY <1>3, <1>6 DEF ClearExpired, Insert
<1>7. ASSUME NEW q \in Requests, Reread(q) PROVE Promise!Next \/ UNCHANGED Promise!vars
  BY Zenon, <1>2, <1>7, Seen DEF Reread, RereadHit, At, Live, Exists
<1>8. ASSUME NEW q \in Requests, ClaimToken(q) PROVE Promise!Next \/ UNCHANGED Promise!vars
  <2>1. q \notin Starts /\ tx[q].pc # "over"
    BY <1>8, Constants DEF ClaimToken, At, StartInv, RequestOK
  <2> QED BY Zenon, <1>2, <1>3, <1>8, <2>1 DEF ClaimToken
<1>9. ASSUME NEW q \in Requests, CommitSignal(q) PROVE UNCHANGED Promise!vars
  <2>1. q \in Signals /\ UNCHANGED now
    BY <1>9 DEF CommitSignal, At, StartInv, RequestOK
  <2>2. \A s \in StartSlots : keys'[s] = keys[s]
    BY Zenon, <1>9, <2>1, SlotsOfStarts DEF CommitSignal, NotFound, StartInv, Types
  <2>3. \A p \in Starts : told'[p] = told[p]
    BY Zenon, <1>9, <2>1, SlotsOfStarts DEF CommitSignal, Answer, Starts, Signals, StartInv, Types
  <2> QED BY Zenon, <1>1, <2>1, <2>2, <2>3
<1>10. ASSUME NEW q \in Requests, LoseConnection(q) PROVE Promise!Next \/ UNCHANGED Promise!vars
  BY <1>2, <1>10, Seen DEF LoseConnection, Abandon, InTransaction
<1>11. CASE Sweep
  <2> DEFINE gone == {s \in Slots : Outdated(keys[s])}
  <2>1. gone \in SUBSET Slots /\ keys' = [s \in Slots |-> IF s \in gone THEN NoRow ELSE keys[s]]
    BY <1>11 DEF Sweep
  <2> QED BY Zenon, <1>11, <2>1, RemovalKeepsPromise DEF Sweep
<1>12. ASSUME NEW r \in Runs, Purge(r) PROVE Promise!Next
  <2> DEFINE gone == {s \in Slots : Names(keys[s], r)}
  <2>1. gone \in SUBSET Slots /\ keys' = [s \in Slots |-> IF s \in gone THEN NoRow ELSE keys[s]]
    BY <1>12 DEF Purge
  <2> QED BY Zenon, <1>12, <2>1, RemovalKeepsPromise DEF Purge
<1>13. CASE Tick
  <2>1. now \in Nat /\ now' = now + 1 /\ UNCHANGED <<keys, told>> BY <1>13 DEF Tick, StartInv, Types
  <2>2. \A s \in StartSlots : Exists(keys[s]) => keys[s].expires \in Nat
    BY SlotsOfStarts DEF StartInv, Types, Exists, KeyRow
  <2>3. LapsedOf' \in SUBSET Promise!Keys /\ LapsedOf' = LapsedOf \cup LapsedOf'
    BY <2>1, <2>2, SlotsOfStarts DEF LapsedOf
  <2>4. HolderOf' = HolderOf /\ ToldOf' = ToldOf BY <2>1 DEF HolderOf, ToldOf
  <2>5. \E ks \in SUBSET Promise!Keys : Promise!Lapse(ks)
    BY Zenon, <2>3, <2>4 DEF Promise!Lapse, HolderOf, LapsedOf, ToldOf
  <2> QED BY <2>5 DEF Promise!Next
<1>14. CASE OpenOrClose \/ UNCHANGED vars \/ \E r \in Runs : Settle(r)
  BY <1>3, <1>14 DEF OpenOrClose, vars, Settle
<1> QED
  BY <1>4, <1>5, <1>6, <1>7, <1>8, <1>9, <1>10, <1>11, <1>12, <1>13, <1>14, CommitKeepsPromise DEF Next, Step

(* The statements of startNewRun and the sweeps implement what an          *)
(* idempotency key promises a caller.                                      *)
THEOREM PromiseIsKept == Spec => KeepsPromise
<1>1. Init => Promise!Init
  <2> SUFFICES ASSUME Init PROVE Promise!Init
    OBVIOUS
  <2>1. HolderOf = [k \in Promise!Keys |-> "none"] BY SlotsOfStarts DEF Init, HolderOf, NoRow
  <2>2. LapsedOf = {} BY SlotsOfStarts DEF Init, LapsedOf, Exists
  <2>3. ToldOf = [q \in Starts |-> "waiting"] BY SlotsOfStarts, Seen DEF Init, ToldOf
  <2> QED BY <2>1, <2>2, <2>3 DEF Promise!Init, HolderOf, LapsedOf, ToldOf
<1>2. StartInv /\ [Next]_vars => [Promise!Next]_Promise!vars
  BY StepKeepsPromise
<1> QED BY StartInvariant, <1>1, <1>2, PTL DEF Spec, KeepsPromise, Promise!Spec
=============================================================================
