---------------------- MODULE SchedulesAndJobsProofs ----------------------
(***************************************************************************)
(* The two starters of runs that are not clients.                          *)
(*                                                                         *)
(* Schedules, for any workers, clock, limits and faults: one run is        *)
(* started for an instant and the row never moves back, whatever the       *)
(* policies; under overlap "allow" no instant is skipped in silence; under *)
(* "catch_up" only instants past the limit are dropped; and one worker     *)
(* under overlap "skip" starts no run beside a live one.                   *)
(*                                                                         *)
(* JobQueue, for any jobs, pollers and faults: one run is started for a    *)
(* job, and a settled job says what became of its run.                     *)
(***************************************************************************)
EXTENDS Schedules, JobQueue, TLAPS

Run == [instant : Instants, status : Statuses]
Session == [pc : {"idle", "overlap", "policy", "start", "claim"},
            scheduled : Nat, last : Nat, next : Nat, run : Nat]

(* One pass: the instant it is about is over, and it moves the row on.     *)
PassOK(w) ==
    sess[w].pc # "idle" =>
        /\ sess[w].scheduled \in Instants /\ sess[w].scheduled <= now
        /\ sess[w].pc \in {"start", "claim"} => sess[w].next \in Instants /\ sess[w].next > sess[w].scheduled
        /\ sess[w].pc # "claim" => sess[w].run = NoRun
        /\ sess[w].run # NoRun => sess[w].run \in DOMAIN runs /\ runs[sess[w].run].instant = sess[w].scheduled

KeysOK ==
    /\ \A i \in Instants : keys[i] # NoRun => keys[i] \in DOMAIN runs /\ runs[keys[i]].instant = i
    /\ \A r \in DOMAIN runs : keys[runs[r].instant] = r

ScheduleInv ==
    /\ now \in 0..MaxTime
    /\ row \in [there : BOOLEAN, enabled : BOOLEAN, since : Instants, next : Instants, last : Nat]
    /\ runs \in Seq(Run)
    /\ keys \in [Instants -> Nat]
    /\ sess \in [Workers -> Session]
    /\ reported \subseteq Instants
    /\ switches \in Nat
    /\ KeysOK
    /\ \A w \in Workers : PassOK(w)

LEMMA Bounds == MaxTime \in Nat /\ CatchUpLimit \in Nat /\ CatchUpLimit > 0 /\ NoRun = 0 /\ Instants \subseteq Nat
BY ScheduleAssumption DEF ConstantsOK, NoRun, Instants

(* The count of an empty backlog, from the definition of Cardinality.      *)
LEMMA EmptyCount == Cardinality({}) = 0
<1> DEFINE Count(f) == [T \in SUBSET {} |-> IF T = {} THEN 0 ELSE 1 + f[T \ {CHOOSE x : x \in T}]]
           f0 == [T \in SUBSET {} |-> 0]
           CS == CHOOSE f : f = Count(f)
<1>1. f0 = Count(f0)
  OBVIOUS
<1>2. CS = Count(CS)
  <2> HIDE DEF Count, f0
  <2> QED BY Zenon, <1>1
<1>3. Count(CS)[{}] = 0
  OBVIOUS
<1>4. CS[{}] = 0
  <2> HIDE DEF Count, CS
  <2> QED BY Zenon, <1>2, <1>3
<1> QED BY Zenon, <1>4 DEF Cardinality

(* scheduleAdvance moves forward, to an instant within the clock's reach,  *)
(* and past the instants it names only when the limit is exceeded.         *)
LEMMA Advances ==
    ASSUME NEW s \in Instants, s <= now, now \in 0..MaxTime
    PROVE  /\ scheduleAdvance(s).next \in Instants /\ scheduleAdvance(s).next > s
           /\ scheduleAdvance(s).dropped \in Nat
           /\ scheduleAdvance(s).dropped > 0 => Cardinality(Backlog(s)) > CatchUpLimit
           /\ scheduleAdvance(s).dropped = 0 => scheduleAdvance(s).next = s + 1
<1>1. Cardinality({}) = 0
  BY EmptyCount
<1>2. CASE Cardinality(Backlog(s)) > CatchUpLimit
  <2>1. Backlog(s) # {}
    BY <1>1, <1>2, Bounds
  <2>2. now > s
    <3>1. PICK i \in Instants : i > s /\ i < now BY <2>1 DEF Backlog
    <3>2. i \in Nat /\ s \in Nat /\ now \in Nat BY Bounds
    <3> QED BY <3>1, <3>2
  <2> QED BY <1>2, <2>2, Bounds DEF scheduleAdvance, NextInstant, Instants
<1>3. CASE ~(Cardinality(Backlog(s)) > CatchUpLimit)
  BY <1>3, Bounds DEF scheduleAdvance, NextInstant, Instants
<1> QED BY <1>2, <1>3

LEMMA ScheduleInvInit == Init => ScheduleInv
<1> SUFFICES ASSUME Init PROVE ScheduleInv
  OBVIOUS
<1>1. runs = <<>> /\ runs \in Seq(Run) /\ DOMAIN runs = {}
  BY DEF Init
<1>2. sess \in [Workers -> Session] /\ \A w \in Workers : sess[w].pc = "idle"
  BY Bounds DEF Init, Session, Idle, NoRun
<1>3. 1 \in Instants
  BY Bounds DEF Instants
<1> QED BY <1>1, <1>2, <1>3, Bounds DEF Init, ScheduleInv, KeysOK, PassOK, NoRun

(* A step of one worker's pass that starts no run.                         *)
LEMMA PassStep ==
    ASSUME ScheduleInv, NEW w \in Workers, NEW s \in Session, sess' = [sess EXCEPT ![w] = s],
           UNCHANGED <<now, runs, keys, switches>>, reported' \subseteq Instants,
           row' \in [there : BOOLEAN, enabled : BOOLEAN, since : Instants, next : Instants, last : Nat],
           PassOK(w)'
    PROVE  ScheduleInv'
<1>1. ASSUME NEW v \in Workers PROVE PassOK(v)'
  <2>1. CASE v = w BY Zenon, <2>1
  <2>2. CASE v # w
    <3>1. sess'[v] = sess[v] /\ PassOK(v) BY <2>2 DEF ScheduleInv
    <3> QED BY <3>1 DEF PassOK
  <2> QED BY <2>1, <2>2
<1>2. KeysOK'
  BY DEF ScheduleInv, KeysOK
<1>3. sess' \in [Workers -> Session]
  BY DEF ScheduleInv
<1> QED BY <1>1, <1>2, <1>3 DEF ScheduleInv

LEMMA PassEnds ==
    ASSUME ScheduleInv, NEW w \in Workers, sess' = [sess EXCEPT ![w] = Idle],
           UNCHANGED <<now, runs, keys, reported, switches>>,
           row' \in [there : BOOLEAN, enabled : BOOLEAN, since : Instants, next : Instants, last : Nat]
    PROVE  ScheduleInv'
<1>1. Idle \in Session /\ Idle.pc = "idle"
  BY Bounds DEF Idle, Session
<1>2. sess'[w] = Idle
  BY DEF ScheduleInv
<1>3. PassOK(w)'
  BY Zenon, <1>1, <1>2 DEF PassOK
<1> QED BY Zenon, <1>1, <1>3, PassStep DEF ScheduleInv

(* A run is appended under the key of its instant.                         *)
LEMMA StartPreserves ==
    ASSUME ScheduleInv, NEW w \in Workers, StartNewRun(w)
    PROVE  /\ ScheduleInv'
           /\ sess' = [sess EXCEPT ![w] = sess'[w]]
           /\ sess'[w].pc = "claim" /\ sess'[w].scheduled = sess[w].scheduled /\ sess'[w].next = sess[w].next
           /\ sess'[w].last = sess[w].last /\ sess'[w].run # NoRun
           /\ \A r \in DOMAIN runs : r \in DOMAIN runs' /\ runs'[r] = runs[r]
           /\ \A r \in DOMAIN runs' \ DOMAIN runs : runs'[r].instant = sess[w].scheduled /\ keys[sess[w].scheduled] = NoRun
<1> DEFINE i == sess[w].scheduled
           id == IF keys[i] = NoRun THEN Len(runs) + 1 ELSE keys[i]
           s == [sess[w] EXCEPT !.pc = "claim", !.run = id]
           new == [instant |-> i, status |-> "live"]
<1>1. /\ sess[w] \in Session /\ i \in Instants /\ PassOK(w) /\ keys[i] \in Nat /\ sess[w].pc = "start"
      /\ runs \in Seq(Run) /\ keys \in [Instants -> Nat] /\ sess \in [Workers -> Session] /\ i <= now
      /\ sess[w].next \in Instants /\ sess[w].next > i
  BY Zenon DEF ScheduleInv, PassOK, StartNewRun
<1>2. /\ sess' = [sess EXCEPT ![w] = s] /\ keys' = [keys EXCEPT ![i] = id]
      /\ runs' = IF keys[i] = NoRun THEN Append(runs, new) ELSE runs
      /\ UNCHANGED <<now, row, reported, switches>>
  BY Zenon, <1>1 DEF StartNewRun, IdemKey
<1>3. Len(runs) \in Nat /\ id \in Nat /\ new \in Run /\ DOMAIN runs = 1..Len(runs)
  BY <1>1 DEF Run, Statuses
<1>4. /\ s \in Session /\ s.pc = "claim" /\ s.run = id /\ s.scheduled = i /\ s.next = sess[w].next /\ s.last = sess[w].last
  BY Zenon, <1>1, <1>3 DEF Session
<1>5. id # NoRun /\ id \in DOMAIN runs' /\ runs'[id].instant = i
  <2>1. CASE keys[i] = NoRun
    <3>1. runs' = Append(runs, new) /\ id = Len(runs) + 1 BY <1>2, <2>1
    <3>2. id \in DOMAIN runs' /\ runs'[id] = new BY <1>1, <1>3, <3>1
    <3> QED BY <1>3, <3>1, <3>2, Bounds
  <2>2. CASE keys[i] # NoRun
    <3>1. runs' = runs /\ id = keys[i] BY <1>2, <2>2
    <3>2. keys[i] \in DOMAIN runs /\ runs[keys[i]].instant = i BY Zenon, <1>1, <2>2 DEF ScheduleInv, KeysOK
    <3> QED BY Zenon, <2>2, <3>1, <3>2
  <2> QED BY Zenon, <2>1, <2>2
<1>6. \A r \in DOMAIN runs : r \in DOMAIN runs' /\ runs'[r] = runs[r]
  BY <1>1, <1>2, <1>3
<1>7. \A r \in DOMAIN runs' \ DOMAIN runs : r = id /\ runs'[r].instant = i /\ keys[i] = NoRun
  BY <1>1, <1>2, <1>3
<1>8. runs' \in Seq(Run) /\ keys' \in [Instants -> Nat] /\ sess' \in [Workers -> Session] /\ sess'[w] = s
  BY <1>1, <1>2, <1>3, <1>4
<1> HIDE DEF id, s, new
<1>9. KeysOK'
  <2>1. ASSUME NEW k \in Instants, keys'[k] # NoRun PROVE keys'[k] \in DOMAIN runs' /\ runs'[keys'[k]].instant = k
    <3>1. CASE k = i BY <1>1, <1>2, <1>5, <3>1
    <3>2. CASE k # i BY <1>1, <1>2, <1>6, <2>1, <3>2 DEF ScheduleInv, KeysOK
    <3> QED BY <3>1, <3>2
  <2>2. ASSUME NEW r \in DOMAIN runs' PROVE keys'[runs'[r].instant] = r
    <3>1. CASE r \in DOMAIN runs
      <4>1. runs'[r] = runs[r] /\ keys[runs[r].instant] = r /\ runs[r].instant \in Instants
        <5>1. runs[r] \in Run BY <1>1, <1>3, <3>1
        <5> QED BY <1>6, <3>1, <5>1 DEF ScheduleInv, KeysOK, Run
      <4>2. CASE runs[r].instant = i
        <5>1. keys[i] # NoRun BY <1>3, <3>1, <4>1, <4>2, Bounds
        <5> QED BY <1>1, <1>2, <4>1, <4>2, <5>1 DEF id
      <4>3. CASE runs[r].instant # i BY <1>1, <1>2, <4>1, <4>3
      <4> QED BY <4>2, <4>3
    <3>2. CASE r \notin DOMAIN runs
      BY <1>1, <1>2, <1>7, <3>2
    <3> QED BY <3>1, <3>2
  <2> QED BY <2>1, <2>2 DEF KeysOK
<1>10. ASSUME NEW v \in Workers PROVE PassOK(v)'
  <2>1. CASE v = w
    BY Zenon, <1>1, <1>2, <1>4, <1>5, <1>8, <2>1 DEF PassOK
  <2>2. CASE v # w
    <3>1. sess'[v] = sess[v] /\ PassOK(v) BY <1>1, <1>2, <2>2 DEF ScheduleInv
    <3> QED BY <1>2, <1>6, <3>1 DEF PassOK
  <2> QED BY <2>1, <2>2
<1>11. ScheduleInv'
  BY <1>2, <1>8, <1>9, <1>10 DEF ScheduleInv
<1> QED BY Zenon, <1>2, <1>4, <1>5, <1>6, <1>7, <1>8, <1>11

(* The run of a schedule moves on, and keeps its instant.                  *)
LEMMA RunMovesOn ==
    ASSUME ScheduleInv, NEW r \in DOMAIN runs, RunMoves(r)
    PROVE  /\ runs' \in Seq(Run) /\ DOMAIN runs' = DOMAIN runs /\ Len(runs') = Len(runs)
           /\ \A u \in DOMAIN runs : runs'[u].instant = runs[u].instant
           /\ \A u \in DOMAIN runs : runs'[u].status = "live" => runs[u].status = "live"
           /\ UNCHANGED <<now, row, keys, sess, reported, faults, switches>>
<1>1. PICK to \in {"over", "continued", "terminating"} : runs' = [runs EXCEPT ![r].status = to]
  BY Zenon DEF RunMoves
<1>2. runs \in Seq(Run) /\ runs[r] \in Run
  BY DEF ScheduleInv
<1>3. [runs[r] EXCEPT !.status = to] \in Run
  BY <1>2 DEF Run, Statuses
<1>4. runs' = [runs EXCEPT ![r] = [runs[r] EXCEPT !.status = to]]
  BY <1>1
<1>5. runs' \in Seq(Run) /\ DOMAIN runs' = DOMAIN runs /\ Len(runs') = Len(runs)
  BY <1>2, <1>3, <1>4
<1> QED BY <1>1, <1>2, <1>5 DEF RunMoves, Run

LEMMA ScheduleInvNext == ASSUME ScheduleInv, [Next]_vars PROVE ScheduleInv'
<1> DEFINE RowType == [there : BOOLEAN, enabled : BOOLEAN, since : Instants, next : Instants, last : Nat]
<1>1. /\ now \in 0..MaxTime /\ row \in RowType /\ sess \in [Workers -> Session]
      /\ reported \subseteq Instants /\ \A w \in Workers : sess[w] \in Session /\ PassOK(w)
  BY DEF ScheduleInv
<1>2. ASSUME NEW w \in Workers, GetDueSchedules(w) PROVE ScheduleInv'
  <2> DEFINE s == [Idle EXCEPT !.pc = IF OverlapPolicy = "skip" /\ row.last # NoRun THEN "overlap" ELSE "policy",
                               !.scheduled = row.next, !.last = row.last]
  <2>1. /\ s \in Session /\ s.pc \in {"overlap", "policy"} /\ s.scheduled = row.next /\ s.run = NoRun
    BY Zenon, <1>1, Bounds DEF Idle, Session
  <2>2. sess' = [sess EXCEPT ![w] = s] /\ row.next <= now /\ UNCHANGED <<now, row, runs, keys, reported, switches>>
    BY <1>2 DEF GetDueSchedules
  <2> HIDE DEF s
  <2>3. sess'[w] = s BY <1>1, <2>2
  <2>4. PassOK(w)' BY <1>1, <2>1, <2>2, <2>3 DEF PassOK
  <2> QED BY Zenon, <1>1, <2>1, <2>2, <2>4, PassStep
<1>3. ASSUME NEW w \in Workers, NEW pc \in {"policy", "start", "claim"}, NEW n \in Nat, sess[w].pc \in {"overlap", "policy"},
             sess' = [sess EXCEPT ![w] = [sess[w] EXCEPT !.pc = pc, !.next = n]],
             pc # "policy" => n \in Instants /\ n > sess[w].scheduled,
             UNCHANGED <<now, row, runs, keys, switches>>, reported' \subseteq Instants
      PROVE  ScheduleInv'
  <2> DEFINE s == [sess[w] EXCEPT !.pc = pc, !.next = n]
  <2>1. /\ s \in Session /\ s.pc = pc /\ s.next = n /\ s.scheduled = sess[w].scheduled /\ s.run = sess[w].run
    BY Zenon, <1>1 DEF Session
  <2> HIDE DEF s
  <2>2. sess'[w] = s BY <1>1, <1>3 DEF s
  <2>3. PassOK(w)' BY <1>1, <1>3, <2>1, <2>2 DEF PassOK
  <2> QED BY Zenon, <1>1, <1>3, <2>1, <2>3, PassStep DEF s
<1>4. ASSUME NEW w \in Workers, CheckOverlap(w) PROVE ScheduleInv'
  <2> DEFINE n == scheduleAdvance(sess[w].scheduled).next
  <2>1. sess[w].pc = "overlap" /\ sess[w].scheduled \in Instants /\ sess[w].next \in Nat
    BY <1>1, <1>4 DEF CheckOverlap, PassOK, Session
  <2>2. n \in Instants /\ n > sess[w].scheduled /\ n \in Nat
    BY Zenon, <1>1, <2>1, Advances, Bounds DEF PassOK
  <2> HIDE DEF n
  <2>3. CASE runs[sess[w].last].status = "live"
    <3>1. sess' = [sess EXCEPT ![w] = [sess[w] EXCEPT !.pc = "claim", !.next = n]]
      BY Zenon, <1>1, <1>4, <2>3 DEF CheckOverlap, n
    <3>2. reported' \subseteq Instants BY <1>1, <1>4, <2>1, <2>3 DEF CheckOverlap
    <3> QED BY Zenon, <1>3, <1>4, <2>1, <2>2, <3>1, <3>2 DEF CheckOverlap
  <2>4. CASE ~(runs[sess[w].last].status = "live")
    <3>1. sess' = [sess EXCEPT ![w] = [sess[w] EXCEPT !.pc = "policy", !.next = sess[w].next]]
      BY Zenon, <1>1, <1>4, <2>4 DEF CheckOverlap, Session
    <3> QED BY Zenon, <1>1, <1>3, <1>4, <2>1, <2>4, <3>1 DEF CheckOverlap
  <2> QED BY <2>3, <2>4
<1>5. ASSUME NEW w \in Workers, OverlapCheckFails(w) PROVE ScheduleInv'
  <2>1. sess' = [sess EXCEPT ![w] = [sess[w] EXCEPT !.pc = "policy", !.next = sess[w].next]]
    BY Zenon, <1>1, <1>5 DEF OverlapCheckFails, Session
  <2>2. sess[w].next \in Nat BY <1>1 DEF Session
  <2> QED BY Zenon, <1>1, <1>3, <1>5, <2>1, <2>2 DEF OverlapCheckFails
<1>6. ASSUME NEW w \in Workers, ApplyMisfirePolicy(w) PROVE ScheduleInv'
  <2> DEFINE late == MisfirePolicy = "skip" /\ sess[w].scheduled + 1 < now
             n == IF late THEN NextInstant(now) ELSE scheduleAdvance(sess[w].scheduled).next
             pc == IF late THEN "claim" ELSE "start"
  <2>1. sess[w].pc = "policy" /\ sess[w].scheduled \in Instants /\ sess[w].scheduled <= now
    BY <1>1, <1>6 DEF ApplyMisfirePolicy, PassOK
  <2>2. n \in Instants /\ n > sess[w].scheduled /\ n \in Nat
    BY <1>1, <2>1, Advances, Bounds DEF NextInstant, Instants
  <2>3. sess' = [sess EXCEPT ![w] = [sess[w] EXCEPT !.pc = pc, !.next = n]]
    BY Zenon, <1>1, <1>6 DEF ApplyMisfirePolicy
  <2>4. reported' \subseteq Instants
    BY <1>1, <1>6 DEF ApplyMisfirePolicy, Between
  <2>5. pc \in {"start", "claim"} OBVIOUS
  <2> HIDE DEF late, n, pc
  <2> QED BY Zenon, <1>3, <1>6, <2>1, <2>2, <2>3, <2>4, <2>5 DEF ApplyMisfirePolicy
<1>7. ASSUME NEW w \in Workers, StartFails(w) \/ Crash(w) PROVE ScheduleInv'
  BY <1>1, <1>7, PassEnds DEF StartFails, Crash
<1>8. ASSUME NEW w \in Workers, ClaimDueSchedule(w) PROVE ScheduleInv'
  <2>1. sess[w].next \in Instants /\ LastRun(w) \in Nat
    BY <1>1, <1>8 DEF ClaimDueSchedule, PassOK, LastRun, Session
  <2>2. row' \in RowType
    BY Zenon, <1>1, <1>8, <2>1 DEF ClaimDueSchedule
  <2> QED BY Zenon, <1>8, <2>2, PassEnds DEF ClaimDueSchedule
<1>9. CASE (\E b \in BOOLEAN : SetScheduleEnabled(b)) \/ DeleteSchedule \/ CreateSchedule
  <2>1. NextInstant(now) \in Instants /\ NoRun \in Nat
    BY <1>1, Bounds DEF NextInstant, Instants
  <2>2. row' \in RowType
    <3>1. ASSUME NEW b \in BOOLEAN PROVE [row EXCEPT !.enabled = b] \in RowType /\ [row EXCEPT !.there = b] \in RowType
      BY <1>1
    <3>2. CASE \E b \in BOOLEAN : SetScheduleEnabled(b) BY Zenon, <3>1, <3>2 DEF SetScheduleEnabled
    <3>3. CASE DeleteSchedule BY Zenon, <3>1, <3>3 DEF DeleteSchedule
    <3>4. CASE CreateSchedule BY <2>1, <3>4 DEF CreateSchedule
    <3> QED BY <1>9, <3>2, <3>3, <3>4
  <2>3. switches' \in Nat /\ UNCHANGED <<now, runs, keys, sess, reported>>
    BY <1>9 DEF SetScheduleEnabled, DeleteSchedule, CreateSchedule, ScheduleInv
  <2> QED BY <2>2, <2>3 DEF ScheduleInv, KeysOK, PassOK
<1>10. CASE Tick
  <2>1. now' \in 0..MaxTime /\ now' = now + 1 /\ UNCHANGED <<row, runs, keys, sess, reported, switches>>
    BY <1>1, <1>10, Bounds DEF Tick
  <2>2. ASSUME NEW w \in Workers PROVE PassOK(w)'
    <3>1. PassOK(w) /\ sess[w].scheduled \in Nat /\ now \in Nat BY <1>1, Bounds DEF Session
    <3>2. sess[w].scheduled <= now => sess[w].scheduled <= now' BY <2>1, <3>1
    <3> QED BY <2>1, <3>1, <3>2 DEF PassOK
  <2> QED BY <2>1, <2>2 DEF ScheduleInv, KeysOK
<1>11. ASSUME NEW r \in DOMAIN runs, RunMoves(r) PROVE ScheduleInv'
  <2>0. /\ runs' \in Seq(Run) /\ DOMAIN runs' = DOMAIN runs
        /\ \A u \in DOMAIN runs : runs'[u].instant = runs[u].instant
        /\ UNCHANGED <<now, row, keys, sess, reported, switches>>
    BY Zenon, <1>11, RunMovesOn
  <2>1. KeysOK' BY Zenon, <2>0 DEF ScheduleInv, KeysOK
  <2>2. ASSUME NEW w \in Workers PROVE PassOK(w)'
    BY Zenon, <1>1, <2>0 DEF PassOK
  <2> QED BY Zenon, <1>1, <2>0, <2>1, <2>2 DEF ScheduleInv
<1>12. CASE UNCHANGED vars
  BY <1>12 DEF vars, ScheduleInv, KeysOK, PassOK
<1> QED
  BY <1>2, <1>4, <1>5, <1>6, <1>7, <1>8, <1>9, <1>10, <1>11, <1>12, StartPreserves DEF Next, WorkerStep

LEMMA ScheduleInvariant == Spec => []ScheduleInv
<1>1. ScheduleInv /\ [Next]_vars => ScheduleInv'
  BY ScheduleInvNext
<1> QED BY ScheduleInvInit, <1>1, PTL DEF Spec

(* One run is started for an instant, whatever the policies, workers,      *)
(* retries and crashes.                                                    *)
THEOREM InstantFiresOnce == Spec => []OneRunPerInstant
<1>1. ScheduleInv => OneRunPerInstant
  BY DEF ScheduleInv, KeysOK, OneRunPerInstant
<1> QED BY ScheduleInvariant, <1>1, PTL

(* A slow worker's compare-and-swap loses: the row never moves back.       *)
THEOREM RowMovesForward == Spec => NextMovesForward
<1>1. ASSUME ScheduleInv, [Next]_vars, row.there, row'.there PROVE row'.next >= row.next
  <2>1. row.next \in Nat
    BY Zenon, <1>1, Bounds DEF ScheduleInv
  <2>2. ASSUME NEW w \in Workers, ClaimDueSchedule(w) PROVE row'.next >= row.next
    <3>1. CASE StillSeen(w)
      <4>1. row'.next = sess[w].next /\ row.next = sess[w].scheduled
        BY <1>1, <2>2, <3>1 DEF ClaimDueSchedule, StillSeen, ScheduleInv
      <4>2. sess[w].next > sess[w].scheduled /\ sess[w].next \in Nat
        BY <1>1, <2>2, Bounds DEF ClaimDueSchedule, ScheduleInv, PassOK
      <4> QED BY <2>1, <4>1, <4>2
    <3>2. CASE ~StillSeen(w)
      BY <2>1, <2>2, <3>2 DEF ClaimDueSchedule
    <3> QED BY <3>1, <3>2
  <2>3. ASSUME NEW b \in BOOLEAN, SetScheduleEnabled(b) PROVE row'.next >= row.next
    BY <1>1, <2>1, <2>3 DEF SetScheduleEnabled, ScheduleInv
  <2>4. CASE DeleteSchedule
    BY <1>1, <2>4 DEF DeleteSchedule, ScheduleInv
  <2>5. CASE CreateSchedule
    BY <1>1, <2>5 DEF CreateSchedule
  <2>6. CASE row' = row
    BY <2>1, <2>6
  <2> QED
    BY Zenon, <1>1, <2>2, <2>3, <2>4, <2>5, <2>6 DEF Next, WorkerStep, GetDueSchedules, CheckOverlap, ApplyMisfirePolicy,
       StartNewRun, OverlapCheckFails, StartFails, Crash, Tick, RunMoves, vars
<1> QED BY ScheduleInvariant, <1>1, PTL DEF Spec, NextMovesForward

-----------------------------------------------------------------------------
Accounted(i) == (\E r \in DOMAIN runs : runs[r].instant = i) \/ i \in reported

(* What a pass under "allow" has seen to before it moves the row.          *)
SkipInv ==
    /\ \A w \in Workers :
          /\ sess[w].pc # "overlap"
          /\ sess[w].pc = "start" => \A i \in Instants : sess[w].scheduled < i /\ i < sess[w].next => i \in reported
          /\ sess[w].pc = "claim" => \A i \in Instants : sess[w].scheduled <= i /\ i < sess[w].next => Accounted(i)
    /\ row.there => \A i \in Instants : row.since <= i /\ i < row.next => Accounted(i)

(* What was fired or reported stays so.                                    *)
LEMMA AccountedStays ==
    ASSUME ScheduleInv, [Next]_vars, NEW i, Accounted(i)
    PROVE  Accounted(i)' /\ (i \in reported => i \in reported')
<1>1. ASSUME NEW w \in Workers, StartNewRun(w) PROVE Accounted(i)'
  BY <1>1, StartPreserves DEF Accounted, StartNewRun
<1>2. ASSUME NEW r \in DOMAIN runs, RunMoves(r) PROVE Accounted(i)'
  BY <1>2, RunMovesOn DEF Accounted
<1>3. reported \subseteq reported'
  BY Zenon DEF Next, WorkerStep, GetDueSchedules, CheckOverlap, ApplyMisfirePolicy, StartNewRun, ClaimDueSchedule,
     OverlapCheckFails, StartFails, Crash, SetScheduleEnabled, DeleteSchedule, CreateSchedule, Tick, RunMoves, vars
<1>4. CASE runs' = runs
  BY <1>3, <1>4 DEF Accounted
<1>5. (\E w \in Workers : StartNewRun(w)) \/ (\E r \in DOMAIN runs : RunMoves(r)) \/ runs' = runs
  BY Zenon DEF Next, WorkerStep, GetDueSchedules, CheckOverlap, ApplyMisfirePolicy, ClaimDueSchedule,
     OverlapCheckFails, StartFails, Crash, SetScheduleEnabled, DeleteSchedule, CreateSchedule, Tick, vars
<1> QED BY Zenon, <1>1, <1>2, <1>3, <1>4, <1>5

LEMMA SkipInvNext ==
    ASSUME ScheduleInv, SkipInv, [Next]_vars, OverlapPolicy = "allow"
    PROVE  SkipInv'
<1> DEFINE Pass(w) == /\ sess[w].pc # "overlap"
                      /\ sess[w].pc = "start" =>
                           \A i \in Instants : sess[w].scheduled < i /\ i < sess[w].next => i \in reported
                      /\ sess[w].pc = "claim" =>
                           \A i \in Instants : sess[w].scheduled <= i /\ i < sess[w].next => Accounted(i)
           Row == row.there => \A i \in Instants : row.since <= i /\ i < row.next => Accounted(i)
<1>1. /\ now \in 0..MaxTime /\ sess \in [Workers -> Session] /\ Instants \subseteq Nat
      /\ row \in [there : BOOLEAN, enabled : BOOLEAN, since : Instants, next : Instants, last : Nat]
      /\ \A w \in Workers : sess[w] \in Session /\ PassOK(w) /\ Pass(w)
      /\ Row
  BY Bounds DEF ScheduleInv, SkipInv
<1>2. /\ \A i \in Instants : Accounted(i) => Accounted(i)'
      /\ \A i \in Instants : i \in reported => i \in reported' /\ Accounted(i)'
  BY AccountedStays DEF Accounted
<1>3. ASSUME NEW w \in Workers, sess'[w] = sess[w] PROVE Pass(w)'
  BY <1>1, <1>2, <1>3
<1>4. CASE row' = row
  <2>1. Row' BY <1>1, <1>2, <1>4
  <2>2. SUFFICES ASSUME NEW w \in Workers PROVE Pass(w)'
    BY <2>1 DEF SkipInv
  <2>3. CASE sess'[w] = sess[w] \/ sess'[w] = Idle
    BY <1>3, <2>3 DEF Idle
  <2>4. CASE GetDueSchedules(w)
    <3>1. sess'[w].pc = "policy" BY <1>1, <2>4 DEF GetDueSchedules, Idle
    <3> QED BY <3>1
  <2>5. CASE ApplyMisfirePolicy(w)
    <3> DEFINE s == sess[w].scheduled
               late == MisfirePolicy = "skip" /\ s + 1 < now
               adv == scheduleAdvance(s)
               n == IF late THEN NextInstant(now) ELSE adv.next
    <3>1. s \in Instants /\ s <= now /\ s \in Nat
      BY <1>1, <2>5 DEF ApplyMisfirePolicy, PassOK
    <3>2. /\ sess'[w].pc = IF late THEN "claim" ELSE "start"
          /\ sess'[w].next = n /\ sess'[w].scheduled = s
      BY <1>1, <2>5 DEF ApplyMisfirePolicy, Session
    <3>3. /\ late => Between(s - 1, n) \subseteq reported'
          /\ ~late /\ adv.dropped > 0 => Between(s, n) \subseteq reported'
      BY <2>5 DEF ApplyMisfirePolicy
    <3>4. adv.dropped \in Nat /\ (adv.dropped = 0 => adv.next = s + 1)
      BY <1>1, <3>1, Advances
    <3> HIDE DEF s, adv
    <3>5. CASE late
      <4>1. \A i \in Instants : s <= i /\ i < n => i \in reported'
        BY <1>1, <3>1, <3>3, <3>5 DEF Between
      <4> QED BY <3>2, <3>5, <4>1 DEF Accounted
    <3>6. CASE ~late
      <4>1. \A i \in Instants : s < i /\ i < n => i \in reported'
        BY <1>1, <3>1, <3>3, <3>4, <3>6 DEF Between
      <4> QED BY <3>2, <3>6, <4>1
    <3> QED BY <3>5, <3>6
  <2>6. CASE StartNewRun(w)
    <3>1. /\ sess'[w].pc = "claim" /\ sess'[w].scheduled = sess[w].scheduled /\ sess'[w].next = sess[w].next
          /\ sess'[w].run # NoRun /\ ScheduleInv' /\ sess[w].pc = "start"
      BY Zenon, <2>6, StartPreserves DEF StartNewRun
    <3>2. Accounted(sess[w].scheduled)'
      BY Zenon, <3>1 DEF ScheduleInv, PassOK, Accounted
    <3>3. ASSUME NEW i \in Instants, sess[w].scheduled <= i, i < sess[w].next PROVE Accounted(i)'
      <4>1. sess[w].scheduled \in Nat /\ i \in Nat BY <1>1 DEF Session
      <4>2. i = sess[w].scheduled \/ sess[w].scheduled < i BY <3>3, <4>1
      <4> QED BY <1>1, <1>2, <3>1, <3>2, <3>3, <4>2
    <3> QED BY <3>1, <3>3
  <2>7. CASE CheckOverlap(w) \/ OverlapCheckFails(w)
    BY <1>1, <2>7 DEF CheckOverlap, OverlapCheckFails
  <2>8. \/ sess'[w] = sess[w] \/ sess'[w] = Idle
        \/ GetDueSchedules(w) \/ ApplyMisfirePolicy(w) \/ StartNewRun(w) \/ CheckOverlap(w) \/ OverlapCheckFails(w)
    <3>1. \/ \E v \in Workers : \/ GetDueSchedules(v) \/ ApplyMisfirePolicy(v) \/ StartNewRun(v)
                                \/ CheckOverlap(v) \/ OverlapCheckFails(v)
          \/ \E v \in Workers : sess' = [sess EXCEPT ![v] = Idle]
          \/ sess' = sess
      BY Zenon DEF Next, WorkerStep, ClaimDueSchedule, StartFails, Crash, SetScheduleEnabled, DeleteSchedule,
             CreateSchedule, Tick, RunMoves, vars
    <3>2. ASSUME NEW v \in Workers, v # w,
                 \/ GetDueSchedules(v) \/ ApplyMisfirePolicy(v) \/ StartNewRun(v)
                 \/ CheckOverlap(v) \/ OverlapCheckFails(v) \/ sess' = [sess EXCEPT ![v] = Idle]
          PROVE  sess'[w] = sess[w]
      BY <1>1, <3>2 DEF GetDueSchedules, ApplyMisfirePolicy, StartNewRun, CheckOverlap, OverlapCheckFails
    <3>3. sess' = [sess EXCEPT ![w] = Idle] => sess'[w] = Idle
      BY <1>1
    <3> QED BY <3>1, <3>2, <3>3
  <2> QED BY <2>3, <2>4, <2>5, <2>6, <2>7, <2>8
<1>5. ASSUME NEW w \in Workers, ClaimDueSchedule(w), row' # row PROVE SkipInv'
  <2>1. /\ row.there /\ row.next = sess[w].scheduled /\ sess[w].pc = "claim"
        /\ row'.next = sess[w].next /\ row'.since = row.since
    BY <1>1, <1>5 DEF ClaimDueSchedule, StillSeen
  <2>2. ASSUME NEW i \in Instants, row.since <= i, i < sess[w].next PROVE Accounted(i)'
    <3>1. i < row.next \/ sess[w].scheduled <= i
      <4>1. i \in Nat /\ row.next \in Nat BY Zenon, <1>1, Bounds
      <4> QED BY <2>1, <4>1
    <3> QED BY <1>1, <1>2, <2>1, <2>2, <3>1
  <2>3. Row' BY <2>1, <2>2
  <2>4. ASSUME NEW v \in Workers PROVE Pass(v)'
    <3>1. sess'[v] = sess[v] \/ sess'[v] = Idle BY Zenon, <1>1, <1>5 DEF ClaimDueSchedule
    <3> QED BY <1>3, <3>1 DEF Idle
  <2> QED BY <2>3, <2>4 DEF SkipInv
<1>6. CASE (\E b \in BOOLEAN : SetScheduleEnabled(b)) \/ DeleteSchedule \/ CreateSchedule
  <2>1. sess' = sess BY <1>6 DEF SetScheduleEnabled, DeleteSchedule, CreateSchedule
  <2>2. \/ row'.there /\ row.there /\ row'.since = row.since /\ row'.next = row.next
        \/ ~row'.there
        \/ row'.since = row'.next /\ row'.next \in Nat
    BY <1>1, <1>6 DEF SetScheduleEnabled, DeleteSchedule, CreateSchedule, NextInstant
  <2>3. Row' BY <1>1, <1>2, <2>2
  <2> QED BY <1>3, <2>1, <2>3 DEF SkipInv
<1>7. \/ row' = row \/ (\E w \in Workers : ClaimDueSchedule(w))
      \/ (\E b \in BOOLEAN : SetScheduleEnabled(b)) \/ DeleteSchedule \/ CreateSchedule
  BY Zenon DEF Next, WorkerStep, GetDueSchedules, CheckOverlap, ApplyMisfirePolicy,
     StartNewRun, OverlapCheckFails, StartFails, Crash, Tick, RunMoves, vars
<1> HIDE DEF Pass, Row
<1> QED BY <1>4, <1>5, <1>6, <1>7

(* Under overlap "allow" no instant is skipped without a trace, whatever   *)
(* the misfire policy, the crashes and the operators' calls.               *)
THEOREM SkipsLeaveATrace == OverlapPolicy = "allow" => (Spec => []NoSilentSkip)
<1> SUFFICES ASSUME OverlapPolicy = "allow" PROVE Spec => []NoSilentSkip
  OBVIOUS
<1>1. Init => SkipInv
  BY Bounds DEF Init, SkipInv, Idle
<1>2. ScheduleInv /\ SkipInv /\ [Next]_vars => SkipInv'
  BY SkipInvNext
<1>3. ScheduleInv /\ SkipInv => NoSilentSkip
  <2> SUFFICES ASSUME ScheduleInv, SkipInv, row.there, NEW i \in row.since..(row.next - 1)
               PROVE  Accounted(i)
    BY DEF NoSilentSkip, Accounted
  <2>1. i \in Instants /\ row.since <= i /\ i < row.next
    BY Bounds DEF ScheduleInv, Instants
  <2> QED BY <2>1 DEF SkipInv
<1> QED BY ScheduleInvariant, <1>1, <1>2, <1>3, PTL DEF Spec

(* Under "catch_up" and "allow" an instant is given up only when more than *)
(* the limit are waiting.                                                  *)
THEOREM DropsArePastTheLimit ==
    MisfirePolicy = "catch_up" /\ OverlapPolicy = "allow" => (Spec => DropsOnlyPastLimit)
<1> SUFFICES ASSUME MisfirePolicy = "catch_up", OverlapPolicy = "allow" PROVE Spec => DropsOnlyPastLimit
  OBVIOUS
<1>1. Init => SkipInv
  BY Bounds DEF Init, SkipInv, Idle
<1>2. ScheduleInv /\ SkipInv /\ [Next]_vars => SkipInv'
  BY SkipInvNext
<1>3. ASSUME ScheduleInv, SkipInv, [Next]_vars, reported' # reported
      PROVE  \E w \in Workers : Cardinality(Backlog(sess[w].scheduled)) > CatchUpLimit
  <2>1. PICK w \in Workers : ApplyMisfirePolicy(w) \/ CheckOverlap(w)
    BY Zenon, <1>3 DEF Next, WorkerStep, GetDueSchedules, StartNewRun, ClaimDueSchedule, OverlapCheckFails, StartFails,
       Crash, SetScheduleEnabled, DeleteSchedule, CreateSchedule, Tick, RunMoves, vars
  <2>2. ApplyMisfirePolicy(w)
    BY <1>3, <2>1 DEF SkipInv, CheckOverlap
  <2>3. sess[w].scheduled \in Instants /\ sess[w].scheduled <= now /\ now \in 0..MaxTime
    BY <1>3, <2>2 DEF ScheduleInv, PassOK, ApplyMisfirePolicy
  <2>4. scheduleAdvance(sess[w].scheduled).dropped > 0
    BY <1>3, <2>2 DEF ApplyMisfirePolicy
  <2> QED BY <2>3, <2>4, Advances
<1> QED BY ScheduleInvariant, <1>1, <1>2, <1>3, PTL DEF Spec, DropsOnlyPastLimit

-----------------------------------------------------------------------------
LiveRuns == {r \in DOMAIN runs : runs[r].status = "live"}

(* One worker under overlap "skip" and "catch_up", which reads the run and *)
(* whose row no operator touches.                                          *)
OneCarefulWorker ==
    /\ OverlapPolicy = "skip" /\ MisfirePolicy = "catch_up" /\ ~ReadFails /\ MaxSwitches = 0
    /\ \A v, w \in Workers : v = w

(* There is one live run at most.  The row names it, or names its instant: *)
(* the worker died between the start and the compare-and-swap.  Past the   *)
(* check it can only be the run of the instant in hand.                    *)
OverlapInv ==
    /\ \A q, r \in LiveRuns : q = r
    /\ \A r \in LiveRuns : r = row.last \/ runs[r].instant = row.next
    /\ row.last # NoRun => row.last \in DOMAIN runs
    /\ switches = 0
    /\ \A w \in Workers : sess[w].pc # "idle" =>
          /\ sess[w].scheduled = row.next /\ sess[w].last = row.last
          /\ sess[w].pc = "overlap" => row.last # NoRun
          /\ \/ sess[w].pc \in {"policy", "start"}
             \/ sess[w].pc = "claim" /\ sess[w].run # NoRun
             => \A r \in LiveRuns : runs[r].instant = row.next
          /\ sess[w].pc = "claim" /\ sess[w].run = NoRun => \A r \in LiveRuns : r = row.last

LEMMA OverlapInvNext ==
    ASSUME ScheduleInv, OverlapInv, [Next]_vars, OneCarefulWorker
    PROVE  OverlapInv' /\ NoOverlapStep
<1>1. /\ sess \in [Workers -> Session] /\ KeysOK /\ runs \in Seq(Run) /\ DOMAIN runs = 1..Len(runs) /\ Len(runs) \in Nat
      /\ \A w \in Workers : sess[w] \in Session /\ PassOK(w)
      /\ row \in [there : BOOLEAN, enabled : BOOLEAN, since : Instants, next : Instants, last : Nat]
      /\ 0 \notin DOMAIN runs
  BY DEF ScheduleInv
<1>2. ASSUME NEW w \in Workers, sess' = [sess EXCEPT ![w] = Idle], UNCHANGED <<row, runs, switches>>
      PROVE  OverlapInv' /\ NoOverlapStep
  <2>1. \A v \in Workers : sess'[v].pc = "idle"
    BY <1>1, <1>2 DEF OneCarefulWorker, Idle
  <2>2. LiveRuns' = LiveRuns BY <1>2 DEF LiveRuns
  <2> QED BY <1>1, <1>2, <2>1, <2>2 DEF OverlapInv, NoOverlapStep
<1>3. ASSUME NEW w \in Workers, GetDueSchedules(w) PROVE OverlapInv' /\ NoOverlapStep
  <2>1. /\ sess'[w].pc = IF row.last # NoRun THEN "overlap" ELSE "policy"
        /\ sess'[w].scheduled = row.next /\ sess'[w].last = row.last
    BY <1>1, <1>3 DEF GetDueSchedules, Idle, OneCarefulWorker
  <2>2. LiveRuns' = LiveRuns /\ UNCHANGED <<row, runs, switches>> /\ LiveRuns \subseteq DOMAIN runs
    BY <1>3 DEF LiveRuns, GetDueSchedules
  <2>3. \A v \in Workers : v = w BY DEF OneCarefulWorker
  <2>4. row.last = NoRun => \A r \in LiveRuns : runs[r].instant = row.next
    BY <1>1, <2>2, Bounds DEF OverlapInv
  <2> QED BY <1>1, <2>1, <2>2, <2>3, <2>4 DEF OverlapInv, NoOverlapStep
<1>4. ASSUME NEW w \in Workers, CheckOverlap(w) PROVE OverlapInv' /\ NoOverlapStep
  <2>1. sess[w].pc = "overlap" /\ sess[w].last = row.last /\ row.last \in DOMAIN runs /\ sess[w].run = NoRun
    BY <1>1, <1>4 DEF CheckOverlap, OverlapInv, PassOK
  <2>2. LiveRuns' = LiveRuns /\ UNCHANGED <<row, runs, switches>> /\ sess'[w].last = sess[w].last
        /\ sess'[w].scheduled = sess[w].scheduled /\ sess'[w].run = sess[w].run
    BY <1>1, <1>4 DEF LiveRuns, CheckOverlap, Session
  <2>3. \A v \in Workers : v = w BY DEF OneCarefulWorker
  <2>4. CASE row.last \in LiveRuns
    <3>b. runs[sess[w].last].status = "live" BY <2>1, <2>4 DEF LiveRuns
    <3>1. sess'[w].pc = "claim" BY <1>1, <1>4, <3>b DEF CheckOverlap, Session
    <3> QED BY <1>1, <2>1, <2>2, <2>3, <2>4, <3>1 DEF OverlapInv, NoOverlapStep
  <2>5. CASE row.last \notin LiveRuns
    <3>b. runs[sess[w].last].status # "live" BY <2>1, <2>5 DEF LiveRuns
    <3>1. sess'[w].pc = "policy" BY <1>1, <1>4, <3>b DEF CheckOverlap, Session
    <3>2. \A r \in LiveRuns : runs[r].instant = row.next BY <2>5 DEF OverlapInv
    <3> QED BY <1>1, <2>1, <2>2, <2>3, <3>1, <3>2 DEF OverlapInv, NoOverlapStep
  <2> QED BY <2>4, <2>5
<1>5. ASSUME NEW w \in Workers, ApplyMisfirePolicy(w) PROVE OverlapInv' /\ NoOverlapStep
  <2>1. /\ sess[w].pc = "policy" /\ sess'[w].pc = "start" /\ sess'[w].last = sess[w].last
        /\ sess'[w].scheduled = sess[w].scheduled /\ UNCHANGED <<row, runs, switches>>
    BY <1>1, <1>5 DEF ApplyMisfirePolicy, Session, OneCarefulWorker
  <2>2. LiveRuns' = LiveRuns BY Zenon, <2>1 DEF LiveRuns
  <2>3. \A v \in Workers : v = w BY DEF OneCarefulWorker
  <2> QED BY <1>1, <2>1, <2>2, <2>3 DEF OverlapInv, NoOverlapStep
<1>6. ASSUME NEW w \in Workers, StartNewRun(w) PROVE OverlapInv' /\ NoOverlapStep
  <2>1. /\ sess[w].pc = "start" /\ sess'[w].pc = "claim" /\ sess'[w].run # NoRun /\ sess'[w].last = sess[w].last
        /\ sess'[w].scheduled = sess[w].scheduled /\ UNCHANGED <<row, switches>>
        /\ ScheduleInv'
    BY Zenon, <1>6, StartPreserves DEF StartNewRun
  <2>2. sess[w].scheduled = row.next /\ row.next \in Instants /\ \A r \in LiveRuns : runs[r].instant = row.next
    BY <1>1, <2>1 DEF OverlapInv
  <2>3. /\ \A r \in DOMAIN runs : r \in DOMAIN runs' /\ runs'[r] = runs[r]
        /\ \A r \in DOMAIN runs' \ DOMAIN runs : runs'[r].instant = row.next /\ keys[row.next] = NoRun
    BY <1>6, <2>2, StartPreserves
  <2>4. \A r \in LiveRuns' : runs'[r].instant = row.next
    BY <2>2, <2>3 DEF LiveRuns
  <2>5. \A q, r \in LiveRuns' : q = r
    <3>1. \A r \in DOMAIN runs' : keys'[runs'[r].instant] = r BY Zenon, <2>1 DEF ScheduleInv, KeysOK
    <3>2. LiveRuns' \subseteq DOMAIN runs' BY DEF LiveRuns
    <3>3. \A r \in LiveRuns' : keys'[row.next] = r BY Zenon, <2>4, <3>1, <3>2
    <3> QED BY Zenon, <3>3
  <2>6. \A v \in Workers : v = w BY DEF OneCarefulWorker
  <2>7. NoOverlapStep
    <3> SUFFICES ASSUME Len(runs') > Len(runs), NEW r \in LiveRuns PROVE FALSE
      BY DEF NoOverlapStep, LiveRuns
    <3>1. keys[row.next] = r /\ r # NoRun
      BY <1>1, <2>2, Bounds DEF KeysOK, LiveRuns
    <3>2. runs' = runs
      BY <1>6, <2>2, <3>1 DEF StartNewRun, IdemKey
    <3> QED BY <1>1, <3>2
  <2>8. row.last # NoRun => row.last \in DOMAIN runs'
    BY <2>3 DEF OverlapInv
  <2>9. row' = row /\ switches' = 0
    BY <2>1 DEF OverlapInv
  <2> QED BY <2>1, <2>2, <2>4, <2>5, <2>6, <2>7, <2>8, <2>9 DEF OverlapInv
<1>7. ASSUME NEW w \in Workers, ClaimDueSchedule(w) PROVE OverlapInv' /\ NoOverlapStep
  <2>1. sess' = [sess EXCEPT ![w] = Idle] /\ UNCHANGED <<runs, switches>> /\ sess[w].pc = "claim"
    BY <1>7 DEF ClaimDueSchedule
  <2>2. CASE ~StillSeen(w)
    BY Zenon, <1>2, <1>7, <2>1, <2>2 DEF ClaimDueSchedule
  <2>3. CASE StillSeen(w)
    <3>1. row'.last = LastRun(w) /\ LiveRuns' = LiveRuns
      BY <1>1, <1>7, <2>1, <2>3 DEF ClaimDueSchedule, LiveRuns
    <3>2. \A v \in Workers : sess'[v].pc = "idle"
      BY <1>1, <2>1 DEF OneCarefulWorker, Idle
    <3>3. \A r \in LiveRuns : r = row'.last
      <4>1. CASE sess[w].run = NoRun BY <2>1, <3>1, <4>1 DEF OverlapInv, LastRun
      <4>2. CASE sess[w].run # NoRun
        <5>1. \A r \in LiveRuns : runs[r].instant = row.next BY <2>1, <4>2 DEF OverlapInv
        <5>2. sess[w].run \in DOMAIN runs /\ runs[sess[w].run].instant = row.next
          BY <1>1, <2>1, <4>2 DEF PassOK, OverlapInv
        <5> QED BY <1>1, <3>1, <4>2, <5>1, <5>2 DEF KeysOK, LiveRuns, LastRun
      <4> QED BY <4>1, <4>2
    <3>4. row'.last # NoRun => row'.last \in DOMAIN runs
      BY <1>1, <2>1, <3>1 DEF LastRun, PassOK, OverlapInv
    <3> QED BY <1>1, <2>1, <3>1, <3>2, <3>3, <3>4 DEF OverlapInv, NoOverlapStep
  <2> QED BY <2>2, <2>3
<1>8. ASSUME NEW w \in Workers, StartFails(w) \/ Crash(w) PROVE OverlapInv' /\ NoOverlapStep
  BY <1>2, <1>8 DEF StartFails, Crash
<1>9. ASSUME NEW r \in DOMAIN runs, RunMoves(r) PROVE OverlapInv' /\ NoOverlapStep
  <2>1. LiveRuns' \subseteq LiveRuns BY <1>9, RunMovesOn DEF LiveRuns
  <2>2. LiveRuns \subseteq DOMAIN runs BY DEF LiveRuns
  <2>3. \A u \in LiveRuns' : u \in LiveRuns /\ runs'[u].instant = runs[u].instant
    BY <1>9, <2>1, <2>2, RunMovesOn
  <2>4. DOMAIN runs' = DOMAIN runs /\ Len(runs') = Len(runs) /\ UNCHANGED <<row, sess, switches>>
    BY <1>9, RunMovesOn
  <2> QED BY <1>1, <2>3, <2>4 DEF OverlapInv, NoOverlapStep
<1>10. CASE Tick \/ UNCHANGED vars
  <2>1. UNCHANGED <<row, runs, sess, switches>> BY <1>10 DEF Tick, vars
  <2>2. LiveRuns' = LiveRuns BY <2>1 DEF LiveRuns
  <2> QED BY <1>1, <2>1, <2>2 DEF OverlapInv, NoOverlapStep
<1>11. ~SetScheduleEnabled(TRUE) /\ ~SetScheduleEnabled(FALSE) /\ ~DeleteSchedule /\ ~CreateSchedule
  BY DEF OverlapInv, OneCarefulWorker, SetScheduleEnabled, DeleteSchedule, CreateSchedule
<1>12. \A w \in Workers : ~OverlapCheckFails(w)
  BY DEF OverlapCheckFails, OneCarefulWorker
<1> QED
  BY Zenon, <1>3, <1>4, <1>5, <1>6, <1>7, <1>8, <1>9, <1>10, <1>11, <1>12 DEF Next, WorkerStep

(* One worker under overlap "skip" starts no run while an earlier one is   *)
(* ready or running, wherever in its pass it dies or a start fails.        *)
THEOREM RunsDoNotOverlap == OneCarefulWorker => (Spec => [][NoOverlapStep]_vars)
<1> SUFFICES ASSUME OneCarefulWorker PROVE Spec => [][NoOverlapStep]_vars
  OBVIOUS
<1>1. Init => OverlapInv
  BY DEF Init, OverlapInv, LiveRuns, Idle
<1>2. ScheduleInv /\ OverlapInv /\ [Next]_vars => OverlapInv' /\ NoOverlapStep
  BY OverlapInvNext
<1> QED BY ScheduleInvariant, <1>1, <1>2, PTL DEF Spec
-----------------------------------------------------------------------------
(* The job queue, the other plugin that starts runs under a key of its own *)
(* making; nothing below depends on the schedules above.                   *)
RunStatuses == {"none", "inflight", "terminating", "done", "failed", "dead_lettered"}
JobStatuses == {"none", "pending", "running", "dispatched"} \cup Settled
Poller == [pc : {"idle", "next", "start", "started", "failed", "bare"}, todo : SUBSET Jobs, job : Jobs \cup {"none"}]

(* What a poller between two of its statements knows of the job it holds.  *)
PollerOK(w) ==
    /\ poll[w].pc \in {"start", "started", "failed"} => poll[w].job \in Jobs \ Bare
    /\ poll[w].pc = "bare" => poll[w].job \in Bare
    /\ poll[w].pc = "started" => run[poll[w].job] # "none"

(* A run was started exactly when there is one; the notice comes after the *)
(* end of the run; a job that says 'completed' has a run that is done.     *)
JobOK(j) ==
    /\ started[j] = IF run[j] = "none" THEN 0 ELSE 1
    /\ run_id[j] => run[j] # "none"
    /\ notice[j] = "due" => run[j] \in {"done", "failed", "dead_lettered"}
    /\ j \notin Bare /\ status[j] = "completed" => run[j] = "done"
    /\ ~Redrives /\ status[j] = "dead_lettered" => run[j] = "dead_lettered"

JobInv ==
    /\ status \in [Jobs -> JobStatuses]
    /\ run_id \in [Jobs -> BOOLEAN]
    /\ run \in [Jobs -> RunStatuses]
    /\ started \in [Jobs -> Nat]
    /\ notice \in [Jobs -> {"none", "due", "given"}]
    /\ poll \in [Pollers -> Poller]
    /\ \A w \in Pollers : PollerOK(w)
    /\ \A j \in Jobs : JobOK(j)

LEMMA JobInvInit == JobInit => JobInv
<1> SUFFICES ASSUME JobInit PROVE JobInv
  OBVIOUS
<1>1. poll \in [Pollers -> Poller] /\ \A w \in Pollers : PollerOK(w)
  BY DEF JobInit, Poller, IdlePoller, PollerOK
<1> QED BY <1>1 DEF JobInit, JobInv, JobOK, JobStatuses, RunStatuses

(* What a step of a client, an operator, a sweep or a run may make of a    *)
(* job's row, its run and its notice.                                      *)
RowMayBecome(j) ==
    /\ run[j] = "none" <=> run'[j] = "none"
    /\ notice'[j] = "due" => run'[j] \in {"done", "failed", "dead_lettered"}
    /\ j \notin Bare /\ status'[j] = "completed" => run'[j] = "done"
    /\ ~Redrives /\ status'[j] = "dead_lettered" => run'[j] = "dead_lettered"

LEMMA RowsPreserve ==
    ASSUME JobInv, UNCHANGED <<poll, started, run_id>>,
           status' \in [Jobs -> JobStatuses], run' \in [Jobs -> RunStatuses],
           notice' \in [Jobs -> {"none", "due", "given"}],
           \A j \in Jobs : RowMayBecome(j)
    PROVE  JobInv'
<1>1. ASSUME NEW j \in Jobs PROVE JobOK(j)'
  BY DEF JobInv, JobOK, RowMayBecome
<1>2. ASSUME NEW w \in Pollers PROVE PollerOK(w)'
  BY DEF JobInv, PollerOK, RowMayBecome
<1> QED BY <1>1, <1>2 DEF JobInv

(* A step of one poller.                                                   *)
LEMMA PollerPreserves ==
    ASSUME JobInv, NEW w \in Pollers, NEW p \in Poller, poll' = [poll EXCEPT ![w] = p],
           UNCHANGED notice, PollerOK(w)',
           status' \in [Jobs -> JobStatuses], run_id' \in [Jobs -> BOOLEAN],
           run' \in [Jobs -> RunStatuses], started' \in [Jobs -> Nat],
           \A j \in Jobs : run[j] # "none" => run'[j] = run[j],
           \A j \in Jobs : JobOK(j)'
    PROVE  JobInv'
<1>1. ASSUME NEW v \in Pollers PROVE PollerOK(v)'
  <2>1. CASE v = w BY <2>1
  <2>2. CASE v # w
    <3>1. poll'[v] = poll[v] /\ PollerOK(v) BY <2>2 DEF JobInv
    <3> QED BY <3>1 DEF PollerOK
  <2> QED BY <2>1, <2>2
<1> QED BY <1>1 DEF JobInv

LEMMA WriteDownPreserves ==
    ASSUME JobInv, NEW w \in Pollers, NEW what \in {"failed", "dispatched", "completed"}, WriteDown(w, what),
           poll[w].job \in Jobs,
           what = "completed" => poll[w].job \in Bare,
           what = "dispatched" => run[poll[w].job] # "none"
    PROVE  JobInv'
<1> DEFINE p == [poll[w] EXCEPT !.pc = "next", !.job = "none"]
<1>1. p \in Poller /\ p.pc = "next"
  BY Zenon DEF JobInv, Poller
<1>2. poll' = [poll EXCEPT ![w] = p] /\ UNCHANGED <<run, started, notice>>
  BY Zenon DEF WriteDown, JobInv
<1> HIDE DEF p
<1>3. PollerOK(w)'
  BY <1>1, <1>2 DEF PollerOK, JobInv
<1>4. /\ status' \in [Jobs -> JobStatuses] /\ run_id' \in [Jobs -> BOOLEAN]
      /\ \A j \in Jobs : status'[j] = status[j] \/ (j = poll[w].job /\ status'[j] = what)
      /\ \A j \in Jobs : run_id'[j] = run_id[j] \/ (j = poll[w].job /\ what = "dispatched")
  BY Zenon DEF WriteDown, JobInv, JobStatuses, Settled
<1>5. ASSUME NEW j \in Jobs PROVE JobOK(j)'
  BY <1>2, <1>4 DEF JobInv, JobOK
<1> QED BY Zenon, <1>1, <1>2, <1>3, <1>4, <1>5, PollerPreserves DEF JobInv

LEMMA PollerStepPreserves ==
    ASSUME JobInv, NEW w \in Pollers, PollerStep(w) \/ PollerCrash(w)
    PROVE  JobInv'
<1>1. poll[w] \in Poller /\ PollerOK(w) /\ IdlePoller \in Poller
  BY DEF JobInv, Poller, IdlePoller
<1>2. ASSUME NEW p \in Poller, poll' = [poll EXCEPT ![w] = p], UNCHANGED <<status, run_id, run, started, notice>>,
             p.pc \in {"idle", "next"}
      PROVE  JobInv'
  <2>1. PollerOK(w)' BY <1>2 DEF PollerOK, JobInv
  <2>2. \A j \in Jobs : JobOK(j)' BY <1>2 DEF JobInv, JobOK
  <2> QED BY Zenon, <1>2, <2>1, <2>2, PollerPreserves DEF JobInv
<1>3. CASE Poll(w)
  <2> DEFINE p == [pc |-> "next", todo |-> {j \in Jobs : status[j] = "pending"}, job |-> "none"]
  <2>1. p \in Poller /\ p.pc = "next" BY DEF Poller
  <2> QED BY Zenon, <1>2, <1>3, <2>1 DEF Poll
<1>4. CASE EndPoll(w) \/ PollerCrash(w)
  BY Zenon, <1>1, <1>2, <1>4 DEF EndPoll, PollerCrash, IdlePoller
<1>5. ASSUME NEW j \in Jobs, Claim(w, j) PROVE JobInv'
  <2>1. CASE status' = status
    <3> DEFINE p == [poll[w] EXCEPT !.todo = @ \ {j}]
    <3>1. p \in Poller /\ p.pc = "next" BY <1>1, <1>5 DEF Poller, Claim
    <3>2. CASE poll' = [poll EXCEPT ![w] = p]
      BY Zenon, <1>2, <1>5, <2>1, <3>1, <3>2 DEF Claim
    <3>3. CASE poll' # [poll EXCEPT ![w] = p]
      <4>1. Claimable(j) /\ status' = [status EXCEPT ![j] = "running"]
        BY <1>5, <3>3 DEF Claim, JobInv
      <4> QED BY <2>1, <4>1 DEF Claimable, JobInv
    <3> QED BY <3>2, <3>3
  <2>2. CASE status' # status
    <3> DEFINE p == [pc |-> IF j \in Bare THEN "bare" ELSE "start", todo |-> poll[w].todo \ {j}, job |-> j]
    <3>1. p \in Poller /\ p.job = j /\ p.pc = IF j \in Bare THEN "bare" ELSE "start"
      BY <1>1 DEF Poller
    <3>2. /\ poll' = [poll EXCEPT ![w] = p] /\ status' = [status EXCEPT ![j] = "running"]
          /\ UNCHANGED <<run_id, run, started, notice>>
      BY <1>5, <2>2 DEF Claim, JobInv
    <3> HIDE DEF p
    <3>3. PollerOK(w)' BY <3>1, <3>2 DEF PollerOK, JobInv
    <3>4. status' \in [Jobs -> JobStatuses] BY <3>2 DEF JobInv, JobStatuses
    <3>5. ASSUME NEW k \in Jobs PROVE JobOK(k)' BY <3>2 DEF JobInv, JobOK
    <3> QED BY Zenon, <3>1, <3>2, <3>3, <3>4, <3>5, PollerPreserves DEF JobInv
  <2> QED BY <2>1, <2>2
<1>6. CASE StartWorkflow(w)
  <2> DEFINE j == poll[w].job
  <2>1. j \in Jobs /\ UNCHANGED <<status, run_id, notice>> BY <1>1, <1>6 DEF StartWorkflow, PollerOK
  <2>2. PICK answer \in {"ok", "error", "lost"} :
            /\ IF answer = "error" THEN UNCHANGED <<run, started>> ELSE StartRun(j)
            /\ poll' = [poll EXCEPT ![w].pc = IF answer = "ok" THEN "started" ELSE "failed"]
    BY Zenon, <1>6 DEF StartWorkflow
  <2> DEFINE p == [poll[w] EXCEPT !.pc = IF answer = "ok" THEN "started" ELSE "failed"]
  <2>3. p \in Poller /\ p.job = j /\ p.pc \in {"started", "failed"} /\ (p.pc = "started" => answer = "ok")
    BY <1>1 DEF Poller
  <2>4. poll' = [poll EXCEPT ![w] = p] BY <2>2 DEF JobInv
  <2> HIDE DEF p
  <2>5. /\ run' \in [Jobs -> RunStatuses] /\ started' \in [Jobs -> Nat]
        /\ \A k \in Jobs : \/ run'[k] = run[k] /\ started'[k] = started[k]
                           \/ k = j /\ run[k] = "none" /\ run'[k] = "inflight" /\ started'[k] = started[k] + 1
        /\ answer # "error" => run'[j] # "none"
    BY <2>1, <2>2 DEF StartRun, KeyKnown, JobInv, RunStatuses
  <2>6. PollerOK(w)'
    BY Zenon, <1>1, <1>6, <2>2, <2>3, <2>4, <2>5 DEF PollerOK, JobInv, StartWorkflow
  <2>7. ASSUME NEW k \in Jobs PROVE JobOK(k)'
    BY <2>1, <2>5 DEF JobInv, JobOK
  <2> QED BY Zenon, <2>1, <2>3, <2>4, <2>5, <2>6, <2>7, PollerPreserves DEF JobInv
<1>7. CASE MarkFailed(w) \/ MarkDispatched(w) \/ MarkCompleted(w)
  <2>1. Bare \subseteq Jobs BY JobAssumption DEF JobConstantsOK
  <2> QED BY <1>1, <1>7, <2>1, WriteDownPreserves DEF MarkFailed, MarkDispatched, MarkCompleted, PollerOK
<1> QED BY <1>3, <1>4, <1>5, <1>6, <1>7 DEF PollerStep

LEMMA JobInvNext == ASSUME JobInv, [JobNext]_jobVars PROVE JobInv'
<1>1. ASSUME NEW j \in Jobs, Enqueue(j) \/ Cancel(j) PROVE JobInv'
  <2>1. status' \in [Jobs -> JobStatuses] /\ \A k \in Jobs : status'[k] = status[k] \/ status'[k] \in {"pending", "failed"}
    BY <1>1 DEF Enqueue, Cancel, JobInv, JobStatuses, Settled
  <2>2. UNCHANGED <<run_id, run, started, notice, poll>>
    BY Zenon, <1>1 DEF Enqueue, Cancel
  <2>3. ASSUME NEW k \in Jobs PROVE RowMayBecome(k)
    BY <2>1, <2>2 DEF JobInv, JobOK, RowMayBecome
  <2> QED BY Zenon, <2>1, <2>2, <2>3, RowsPreserve DEF JobInv
<1>2. ASSUME NEW j \in Jobs, GrowOld(j) PROVE JobInv'
  <2>1. UNCHANGED <<status, run_id, run, started, notice, poll>>
    BY Zenon, <1>2 DEF GrowOld
  <2>2. ASSUME NEW k \in Jobs PROVE RowMayBecome(k)
    BY <2>1 DEF JobInv, JobOK, RowMayBecome
  <2> QED BY Zenon, <2>1, <2>2, RowsPreserve DEF JobInv
<1>3. CASE runReaper \/ sweepAbandonedJobs
  <2>1. status' \in [Jobs -> JobStatuses] /\ \A k \in Jobs : status'[k] = status[k] \/ status'[k] \in {"pending", "abandoned"}
    BY ZenonT(30), <1>3 DEF runReaper, sweepAbandonedJobs, JobInv, JobStatuses, Settled
  <2>2. UNCHANGED <<run_id, run, started, notice, poll>>
    BY Zenon, <1>3 DEF runReaper, sweepAbandonedJobs
  <2>3. ASSUME NEW k \in Jobs PROVE RowMayBecome(k)
    BY <2>1, <2>2 DEF JobInv, JobOK, RowMayBecome
  <2> QED BY Zenon, <2>1, <2>2, <2>3, RowsPreserve DEF JobInv
<1>4. ASSUME NEW j \in Jobs, BeginDefer(j) PROVE JobInv'
  <2>1. run' \in [Jobs -> RunStatuses] /\ \A k \in Jobs : run'[k] = run[k] \/ (run[k] = "inflight" /\ run'[k] = "terminating")
    BY <1>4 DEF BeginDefer, JobInv, RunStatuses
  <2>2. UNCHANGED <<status, run_id, started, notice, poll>>
    BY Zenon, <1>4 DEF BeginDefer
  <2>3. ASSUME NEW k \in Jobs PROVE RowMayBecome(k)
    BY <2>1, <2>2 DEF JobInv, JobOK, RowMayBecome
  <2> QED BY Zenon, <2>1, <2>2, <2>3, RowsPreserve DEF JobInv
<1>5. ASSUME NEW j \in Jobs, Finalize(j) PROVE JobInv'
  <2>1. /\ run' \in [Jobs -> RunStatuses] /\ notice' \in [Jobs -> {"none", "due", "given"}]
        /\ \A k \in Jobs : \/ run'[k] = run[k] /\ notice'[k] = notice[k]
                           \/ run[k] \in {"inflight", "terminating"} /\ run'[k] \in {"done", "failed", "dead_lettered"}
    BY SMTT(30), <1>5 DEF Finalize, JobInv, RunStatuses
  <2>2. UNCHANGED <<status, run_id, started, poll>>
    BY Zenon, <1>5 DEF Finalize
  <2>3. ASSUME NEW k \in Jobs PROVE RowMayBecome(k)
    BY <2>1, <2>2 DEF JobInv, JobOK, RowMayBecome
  <2> QED BY Zenon, <2>1, <2>2, <2>3, RowsPreserve DEF JobInv
<1>6. ASSUME NEW j \in Jobs, ObserveFinalize(j) PROVE JobInv'
  <2>1. /\ Outcome(run[j]) \in Settled /\ run[j] \in {"done", "failed", "dead_lettered"}
        /\ Outcome(run[j]) = "completed" => run[j] = "done"
        /\ Outcome(run[j]) = "dead_lettered" => run[j] = "dead_lettered"
    BY <1>6 DEF ObserveFinalize, JobInv, JobOK, Outcome, Settled
  <2>2. /\ status' \in [Jobs -> JobStatuses] /\ notice' \in [Jobs -> {"none", "due", "given"}]
        /\ \A k \in Jobs : status'[k] = status[k] \/ (k = j /\ status'[k] = Outcome(run[j]))
        /\ \A k \in Jobs : notice'[k] = notice[k] \/ notice'[k] # "due"
    BY SMTT(30), <1>6, <2>1 DEF ObserveFinalize, JobInv, JobStatuses
  <2>3. UNCHANGED <<run_id, run, started, poll>>
    BY Zenon, <1>6 DEF ObserveFinalize
  <2>4. ASSUME NEW k \in Jobs PROVE RowMayBecome(k)
    BY <2>1, <2>2, <2>3 DEF JobInv, JobOK, RowMayBecome
  <2> QED BY Zenon, <2>2, <2>3, <2>4, RowsPreserve DEF JobInv
<1>7. ASSUME NEW j \in Jobs, Redrive(j) PROVE JobInv'
  <2>1. /\ Redrives /\ run' \in [Jobs -> RunStatuses] /\ notice' \in [Jobs -> {"none", "due", "given"}]
        /\ \A k \in Jobs : \/ run'[k] = run[k] /\ notice'[k] = notice[k]
                           \/ run[k] = "dead_lettered" /\ run'[k] = "inflight" /\ notice'[k] = "none"
    BY <1>7 DEF Redrive, JobInv, RunStatuses
  <2>2. UNCHANGED <<status, run_id, started, poll>>
    BY Zenon, <1>7 DEF Redrive
  <2>3. ASSUME NEW k \in Jobs PROVE RowMayBecome(k)
    BY <2>1, <2>2 DEF JobInv, JobOK, RowMayBecome
  <2> QED BY Zenon, <2>1, <2>2, <2>3, RowsPreserve DEF JobInv
<1>8. CASE UNCHANGED jobVars
  <2>1. UNCHANGED <<status, run_id, run, started, notice, poll>>
    BY Zenon, <1>8 DEF jobVars
  <2>2. ASSUME NEW k \in Jobs PROVE RowMayBecome(k)
    BY <2>1 DEF JobInv, JobOK, RowMayBecome
  <2> QED BY Zenon, <2>1, <2>2, RowsPreserve DEF JobInv
<1> QED BY <1>1, <1>2, <1>3, <1>4, <1>5, <1>6, <1>7, <1>8, PollerStepPreserves DEF JobNext

LEMMA JobInvariant == JobSpec => []JobInv
<1>1. JobInv /\ [JobNext]_jobVars => JobInv'
  BY JobInvNext
<1> QED BY JobInvInit, <1>1, PTL DEF JobSpec

(* However often a job is claimed again, one run is started for it.        *)
THEOREM JobStartsOnce == JobSpec => []OneRunPerJob
<1>1. JobInv => OneRunPerJob
  BY DEF JobInv, JobOK, OneRunPerJob
<1> QED BY JobInvariant, <1>1, PTL

(* Unless operators retry dead-lettered runs, a job that says 'completed'  *)
(* or 'dead_lettered' says what its run came to.                           *)
THEOREM JobSaysTheOutcome == ~Redrives => (JobSpec => []OutcomeIsTheRuns)
<1> SUFFICES ASSUME ~Redrives PROVE JobSpec => []OutcomeIsTheRuns
  OBVIOUS
<1>1. JobInv => OutcomeIsTheRuns
  BY DEF JobInv, JobOK, OutcomeIsTheRuns
<1> QED BY JobInvariant, <1>1, PTL
=============================================================================
