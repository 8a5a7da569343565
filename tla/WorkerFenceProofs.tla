------------------------- MODULE WorkerFenceProofs -------------------------
(***************************************************************************)
(* For any number of generations, reaps and failed heartbeats: the         *)
(* execution that holds the run is neither refused nor cancelled, in       *)
(* whatever order the four goroutines touch the three maps.  If no         *)
(* generation overtakes another in one worker, an execution at work also   *)
(* keeps its entries, and stays refused once it was marked.                *)
(***************************************************************************)
EXTENDS WorkerFence, TLAPS

Lost(g) == g <= row.gen /\ ~Holds(g)

(* Why the holder may work: a generation the database once called lost     *)
(* stays lost, and only such a one is marked or cancelled.                 *)
FenceInv ==
    /\ TypeOK
    /\ inflight <= row.gen
    /\ hb.pc # "idle" => hb.sent \in Generations /\ hb.sent <= row.gen
    /\ hb.pc \in {"wf", "reg", "mark", "cancel"} => Lost(hb.sent)
    /\ hb.pc \in {"mark", "cancel"} => hb.reg = hb.sent
    /\ fencedRuns # 0 => Lost(fencedRuns)
    /\ \A g \in cancelled : Lost(g)

LEMMA FenceInvInit == Init => FenceInv
BY FenceAssumption DEF Init, FenceInv, TypeOK, Idle, Generations, Phases, Lost, Holds

(* The row moves on: no step gives a run back to a generation that lost it. *)
LEMMA LostStaysLost ==
    ASSUME TypeOK, [Next]_vars, NEW g \in Nat, Lost(g)
    PROVE  Lost(g)'
<1> USE FenceAssumption DEF TypeOK, Lost, Holds
<1>1. CASE OtherClaims BY <1>1 DEF OtherClaims
<1>2. CASE OtherReleases BY <1>2 DEF OtherReleases
<1>3. CASE Reap BY <1>3 DEF Reap
<1>4. CASE HeartbeatStep \/ HeartbeatFails
  BY <1>4 DEF HeartbeatStep, HeartbeatFails, HeartbeatWorks, Snapshot, HeartbeatBatchFenced, LoadInflight,
              LoadExecCancel, StoreFencedRun, CancelExecution
<1>5. ASSUME NEW h \in Generations, Claim(h) PROVE Lost(g)' BY <1>5 DEF Claim, Generations
<1>6. ASSUME NEW h \in Generations, Finish(h) PROVE Lost(g)' BY <1>6 DEF Finish
<1>7. ASSUME NEW h \in Generations, Dispatch(h) \/ Register(h) \/ deregisterExecution(h) PROVE Lost(g)'
  BY <1>7 DEF Dispatch, Register, deregisterExecution
<1>8. CASE UNCHANGED vars BY <1>8 DEF vars
<1> QED BY <1>1, <1>2, <1>3, <1>4, <1>5, <1>6, <1>7, <1>8 DEF Next

LEMMA RowMovesOn == ASSUME TypeOK, [Next]_vars PROVE row'.gen >= row.gen
<1> USE FenceAssumption DEF TypeOK
<1>1. CASE OtherClaims \/ OtherReleases \/ Reap BY <1>1 DEF OtherClaims, OtherReleases, Reap
<1>2. CASE HeartbeatStep \/ HeartbeatFails
  BY <1>2 DEF HeartbeatStep, HeartbeatFails, HeartbeatWorks, Snapshot, HeartbeatBatchFenced, LoadInflight,
              LoadExecCancel, StoreFencedRun, CancelExecution
<1>3. ASSUME NEW h \in Generations, Claim(h) \/ Finish(h) PROVE row'.gen >= row.gen
  <2>1. CASE Claim(h) BY <2>1 DEF Claim, Generations
  <2>2. CASE Finish(h) BY <2>2 DEF Finish
  <2> QED BY <1>3, <2>1, <2>2
<1>4. ASSUME NEW h \in Generations, Dispatch(h) \/ Register(h) \/ deregisterExecution(h)
      PROVE  row'.gen >= row.gen
  BY <1>4 DEF Dispatch, Register, deregisterExecution
<1>5. CASE UNCHANGED vars BY <1>5 DEF vars
<1> QED BY <1>1, <1>2, <1>3, <1>4, <1>5 DEF Next

LEMMA TypesNext == ASSUME FenceInv, [Next]_vars PROVE TypeOK'
<1>0. /\ TypeOK
      /\ hb.pc # "idle" => hb.sent \in Generations
      /\ hb.pc \in {"mark", "cancel"} => hb.reg = hb.sent
  BY DEF FenceInv
<1> USE FenceAssumption DEF TypeOK, Generations
<1> DEFINE HB == [pc: {"idle", "ask", "wf", "reg", "mark", "cancel"}, sent: 0..MaxGeneration,
                  wf: 0..MaxGeneration, reg: 0..MaxGeneration]
<1>i. Idle \in HB BY DEF Idle
<1>h. ASSUME hb' \in HB, UNCHANGED <<row, phase, inflight, execCancel, fencedRuns, cancelled, judged, errors, reaps>>
      PROVE  TypeOK'
  BY Zenon, <1>0, <1>h
<1>1. CASE OtherClaims BY SMTT(30), <1>0, <1>1 DEF OtherClaims, maps, fence, counts
<1>2. CASE OtherReleases BY Zenon, <1>0, <1>2 DEF OtherReleases, maps, fence, counts
<1>3. CASE Reap BY SMTT(30), <1>0, <1>3 DEF Reap, maps, fence, counts
<1>4. CASE Snapshot
  <2>1. hb' \in HB BY Zenon, <1>0, <1>4, <1>i DEF Snapshot
  <2> QED BY Zenon, <1>4, <1>h, <2>1 DEF Snapshot, HeartbeatWorks, maps, counts
<1>5. CASE HeartbeatBatchFenced
  <2>1. hb' \in HB BY Zenon, <1>0, <1>5, <1>i DEF HeartbeatBatchFenced
  <2> QED BY Zenon, <1>5, <1>h, <2>1 DEF HeartbeatBatchFenced, HeartbeatWorks, maps, counts
<1>6. CASE HeartbeatFails BY <1>0, <1>6 DEF HeartbeatFails, maps, counts, Idle
<1>7. CASE LoadInflight BY Zenon, <1>0, <1>7 DEF LoadInflight, HeartbeatWorks, maps, counts, Idle
<1>8. CASE LoadExecCancel
  <2>1. [hb EXCEPT !.pc = "mark", !.reg = execCancel] \in HB BY Zenon, <1>0
  <2>2. hb' \in HB BY Zenon, <1>8, <1>i, <2>1 DEF LoadExecCancel
  <2> QED BY Zenon, <1>8, <1>h, <2>2 DEF LoadExecCancel, HeartbeatWorks, maps, counts
<1>9. CASE StoreFencedRun
  <2>1. fencedRuns' \in 0..MaxGeneration /\ judged' \subseteq Generations
    BY Zenon, <1>0, <1>9 DEF StoreFencedRun, Mark
  <2>2. hb' \in HB BY Zenon, <1>0, <1>9 DEF StoreFencedRun
  <2> QED BY Zenon, <1>0, <1>9, <2>1, <2>2 DEF StoreFencedRun, HeartbeatWorks, counts
<1>10. CASE CancelExecution
  <2>1. cancelled' \subseteq Generations /\ hb' = Idle BY Zenon, <1>0, <1>10 DEF CancelExecution
  <2> QED BY Zenon, <1>0, <1>10, <1>i, <2>1 DEF CancelExecution, HeartbeatWorks, maps, counts
<1>11. ASSUME NEW h \in Generations, Claim(h) PROVE TypeOK'
  BY SMTT(30), <1>0, <1>11 DEF Claim, maps, fence, counts, Phases
<1>12. ASSUME NEW h \in Generations, Dispatch(h) \/ Register(h) PROVE TypeOK'
  <2>1. phase' \in [Generations -> Phases] /\ \A g \in Generations : phase'[g] # "none" => phase[g] # "none"
    BY Zenon, <1>0, <1>12 DEF Dispatch, Register, Phases
  <2>2. inflight' \in 0..MaxGeneration /\ execCancel' \in 0..MaxGeneration
    BY <1>0, <1>12 DEF Dispatch, Register
  <2> QED BY ZenonT(30), <1>0, <1>12, <2>1, <2>2 DEF Dispatch, Register, fence, counts
<1>13. ASSUME NEW h \in Generations, Finish(h) PROVE TypeOK'
  <2>1. phase' \in [Generations -> Phases] /\ \A g \in Generations : phase'[g] # "none" => phase[g] # "none"
    BY Zenon, <1>0, <1>13 DEF Finish, Phases
  <2>2. row' \in [holder: {"none", "me", "other"}, gen: 0..MaxGeneration] /\ row'.gen = row.gen
    BY Zenon, <1>0, <1>13 DEF Finish
  <2> QED BY Zenon, <1>0, <1>13, <2>1, <2>2 DEF Finish, maps, fence, counts
<1>14. ASSUME NEW h \in Generations, deregisterExecution(h) PROVE TypeOK'
  <2>1. \A r \in 0..MaxGeneration : CompareAndDelete(r, h) \in 0..MaxGeneration BY DEF CompareAndDelete
  <2>2. inflight' \in 0..MaxGeneration /\ execCancel' \in 0..MaxGeneration /\ fencedRuns' \in 0..MaxGeneration
    <3>1. inflight \in 0..MaxGeneration /\ execCancel \in 0..MaxGeneration /\ fencedRuns \in 0..MaxGeneration
      BY <1>0
    <3> QED BY <1>14, <2>1, <3>1 DEF deregisterExecution
  <2>3. phase' \in [Generations -> Phases] /\ \A g \in Generations : phase'[g] # "none" => phase[g] # "none"
    BY Zenon, <1>0, <1>14 DEF deregisterExecution, Phases
  <2> QED BY Zenon, <1>0, <1>14, <2>2, <2>3 DEF deregisterExecution, fence, counts
<1>15. CASE UNCHANGED vars BY <1>0, <1>15 DEF vars
<1> QED BY Zenon, <1>1, <1>2, <1>3, <1>4, <1>5, <1>6, <1>7, <1>8, <1>9, <1>10, <1>11, <1>12, <1>13, <1>14, <1>15
        DEF Next, HeartbeatStep

LEMMA FenceInvNext == ASSUME FenceInv, [Next]_vars PROVE FenceInv'
<1>t. TypeOK /\ TypeOK' BY TypesNext DEF FenceInv
<1>g. row.gen \in Nat /\ row'.gen \in Nat /\ row'.gen >= row.gen /\ Generations \subseteq Nat
  <2>1. row'.gen >= row.gen BY Zenon, <1>t, RowMovesOn
  <2>2. row.gen \in 0..MaxGeneration /\ row'.gen \in 0..MaxGeneration BY Zenon, <1>t DEF TypeOK
  <2> QED BY <2>1, <2>2, FenceAssumption DEF Generations
<1>l. \A g \in Nat : Lost(g) => Lost(g)' BY <1>t, LostStaysLost
<1>n. /\ inflight \in Nat /\ inflight' \in Nat /\ fencedRuns \in Nat /\ cancelled \subseteq Nat
      /\ hb.sent \in Nat
  BY <1>t, <1>g, FenceAssumption DEF TypeOK
<1>0. /\ inflight <= row.gen
      /\ hb.pc # "idle" => hb.sent \in Generations /\ hb.sent <= row.gen
      /\ hb.pc \in {"wf", "reg", "mark", "cancel"} => Lost(hb.sent)
      /\ hb.pc \in {"mark", "cancel"} => hb.reg = hb.sent
      /\ fencedRuns # 0 => Lost(fencedRuns)
      /\ \A g \in cancelled : Lost(g)
  BY DEF FenceInv
<1>h. hb' = hb => /\ hb'.pc # "idle" => hb'.sent \in Generations /\ hb'.sent <= row'.gen
                  /\ hb'.pc \in {"wf", "reg", "mark", "cancel"} => Lost(hb.sent)'
                  /\ hb'.pc \in {"mark", "cancel"} => hb'.reg = hb'.sent
  <2> SUFFICES ASSUME hb' = hb PROVE /\ hb'.pc # "idle" => hb'.sent \in Generations /\ hb'.sent <= row'.gen
                                     /\ hb'.pc \in {"wf", "reg", "mark", "cancel"} => Lost(hb.sent)'
                                     /\ hb'.pc \in {"mark", "cancel"} => hb'.reg = hb'.sent
    OBVIOUS
  <2>1. PICK s \in Nat : s = hb.sent BY <1>n
  <2>2. hb'.pc \in {"wf", "reg", "mark", "cancel"} => Lost(s)' BY <1>0, <1>l, <2>1
  <2>3. Lost(s)' => Lost(hb.sent)' BY <2>1 DEF Lost, Holds
  <2> QED BY <1>0, <1>g, <1>n, <2>2, <2>3
<1>i. inflight' \in {0, inflight} => inflight' <= row'.gen BY <1>0, <1>g, <1>n
<1>f. fencedRuns' \in {0, fencedRuns} /\ fencedRuns' # 0 => Lost(fencedRuns)'
  <2> SUFFICES ASSUME fencedRuns' \in {0, fencedRuns}, fencedRuns' # 0 PROVE Lost(fencedRuns)'
    OBVIOUS
  <2>1. PICK s \in Nat : s = fencedRuns BY <1>n
  <2>2. Lost(s)' BY <1>0, <1>l, <2>1
  <2> QED BY <2>1, <2>2 DEF Lost, Holds
<1>c. cancelled' = cancelled => \A g \in cancelled' : Lost(g)' BY <1>0, <1>l, <1>n
<1>d. Idle.pc = "idle" BY DEF Idle
<1>1. CASE OtherClaims \/ OtherReleases \/ Reap \/ UNCHANGED vars
  <2>1. UNCHANGED <<inflight, fencedRuns, cancelled, hb>>
    BY <1>1 DEF OtherClaims, OtherReleases, Reap, maps, fence, vars
  <2> QED BY <1>t, <1>h, <1>i, <1>f, <1>c, <2>1 DEF FenceInv
<1>2. ASSUME NEW g \in Generations, Claim(g) \/ Dispatch(g) \/ Register(g) \/ Finish(g) \/ deregisterExecution(g)
      PROVE  FenceInv'
  <2>1. UNCHANGED <<cancelled, hb>> BY <1>2 DEF Claim, Dispatch, Register, Finish, deregisterExecution, fence
  <2>2. fencedRuns' \in {0, fencedRuns}
    BY <1>2 DEF Claim, Dispatch, Register, Finish, deregisterExecution, maps, CompareAndDelete
  <2>3. inflight' <= row'.gen
    <3>1. CASE Dispatch(g)
      <4>1. inflight' = g /\ phase[g] = "claimed" BY <3>1 DEF Dispatch
      <4>2. g <= row.gen BY <1>t, <4>1 DEF TypeOK
      <4> QED BY <1>g, <4>1, <4>2
    <3>2. CASE ~Dispatch(g)
      <4>1. inflight' \in {0, inflight}
        BY <1>2, <3>2 DEF Claim, Register, Finish, deregisterExecution, maps, CompareAndDelete
      <4> QED BY <1>i, <4>1
    <3> QED BY <3>1, <3>2
  <2> QED BY <1>t, <1>h, <1>f, <1>c, <2>1, <2>2, <2>3 DEF FenceInv
<1>3. CASE HeartbeatStep \/ HeartbeatFails
  <2>0. row' = row /\ inflight' = inflight
    BY <1>3 DEF HeartbeatStep, HeartbeatFails, HeartbeatWorks, maps, Snapshot, HeartbeatBatchFenced, LoadInflight,
                LoadExecCancel, StoreFencedRun, CancelExecution
  <2>l. \A g : Lost(g)' <=> Lost(g) BY <2>0 DEF Lost, Holds
  <2>1. CASE Snapshot
    <3>1. hb'.pc = "ask" /\ hb'.sent = inflight /\ inflight # 0 BY <2>1 DEF Snapshot, Idle
    <3>i. inflight \in 0..MaxGeneration BY Zenon, <1>t DEF TypeOK
    <3>2. inflight \in Generations BY <3>i, <3>1, FenceAssumption DEF Generations
    <3> QED BY <1>t, <1>0, <1>i, <1>f, <1>c, <2>0, <2>1, <3>1, <3>2 DEF FenceInv, Snapshot, maps
  <2>2. CASE HeartbeatBatchFenced \/ HeartbeatFails \/ LoadInflight
    <3>1. \/ hb' = Idle
          \/ /\ hb'.pc \in {"wf", "reg"} /\ hb'.sent = hb.sent /\ hb.pc # "idle"
             /\ Lost(hb.sent)
      BY ZenonT(30), <1>t, <1>0, <2>2 DEF HeartbeatBatchFenced, HeartbeatFails, LoadInflight, TypeOK, Lost
    <3>2. fencedRuns' = fencedRuns /\ cancelled' = cancelled
      BY <2>2 DEF HeartbeatBatchFenced, HeartbeatFails, LoadInflight, maps
    <3>3. Lost(hb.sent) /\ hb'.sent = hb.sent => Lost(hb.sent)' BY <2>0 DEF Lost, Holds
    <3> QED BY <1>t, <1>0, <1>i, <1>f, <1>c, <1>d, <2>0, <3>1, <3>2, <3>3 DEF FenceInv
  <2>3. CASE LoadExecCancel
    <3>1. \/ hb' = Idle
          \/ hb'.pc = "mark" /\ hb'.sent = hb.sent /\ hb'.reg = hb.sent /\ hb.pc = "reg"
      BY <1>t, <2>3 DEF LoadExecCancel, SameGeneration, TypeOK
    <3>2. fencedRuns' = fencedRuns /\ cancelled' = cancelled BY <2>3 DEF LoadExecCancel, maps
    <3>3. Lost(hb.sent) /\ hb'.sent = hb.sent => Lost(hb.sent)' BY <2>0 DEF Lost, Holds
    <3> QED BY <1>t, <1>0, <1>i, <1>f, <1>c, <1>d, <2>0, <3>1, <3>2, <3>3 DEF FenceInv
  <2>4. CASE StoreFencedRun
    <3>1. /\ hb.pc = "mark" /\ hb'.pc = "cancel" /\ hb'.sent = hb.sent /\ hb'.reg = hb.reg
          /\ fencedRuns' = hb.sent /\ cancelled' = cancelled
      BY <1>t, <2>4 DEF StoreFencedRun, Mark, TypeOK
    <3>2. Lost(hb.sent)' /\ Lost(fencedRuns)' BY <1>0, <2>0, <3>1 DEF Lost, Holds
    <3> QED BY <1>t, <1>0, <1>i, <1>c, <2>0, <3>1, <3>2 DEF FenceInv
  <2>5. CASE CancelExecution
    <3>1. hb' = Idle /\ cancelled' = cancelled \cup {hb.sent} /\ hb.pc = "cancel" /\ fencedRuns' = fencedRuns
      BY <1>0, <2>5 DEF CancelExecution, maps
    <3>2. \A g \in cancelled' : Lost(g)' BY <1>0, <2>l, <3>1
    <3> QED BY <1>t, <1>d, <1>i, <1>f, <3>1, <3>2, <2>0 DEF FenceInv
  <2> QED BY <1>3, <2>1, <2>2, <2>3, <2>4, <2>5 DEF HeartbeatStep
<1> QED BY <1>1, <1>2, <1>3 DEF Next

(* The execution that holds the run is neither refused a durable call nor   *)
(* cancelled by the verdict on an earlier generation, also when generations *)
(* overtake each other in one worker.                                       *)
THEOREM HolderIsLeftAlone == Spec => []HolderMayWork
<1>1. FenceInv /\ [Next]_vars => FenceInv'
  BY FenceInvNext
<1>2. FenceInv => HolderMayWork
  BY FenceAssumption DEF FenceInv, HolderMayWork, Lost, runIsFenced, Generations, TypeOK
<1> QED
  BY FenceInvInit, <1>1, <1>2, PTL DEF Spec
-----------------------------------------------------------------------------
(* A worker that does not claim a run while it still executes it.          *)

Fresh == {"none", "claimed", "stored"}

(* Why an execution keeps what is its own: at most one generation is on    *)
(* its way or at work, the maps name it, and a verdict under way that got  *)
(* past the maps is about the one that was running when they were read.    *)
WorkInv ==
    /\ FenceInv
    /\ \A g, h \in Generations : /\ phase[g] \in AtWork \cup {"claimed"}
                                 /\ phase[h] \in AtWork \cup {"claimed"}
                                 => g = h
    /\ \A g \in Generations : /\ phase[g] \in AtWork => inflight = g
                              /\ phase[g] = "running" => execCancel = g
    /\ execCancel # 0 => phase[execCancel] \notin Fresh
    /\ hb.pc = "mark" => phase[hb.sent] \notin Fresh /\ hb.wf = hb.sent
    /\ \A g \in judged : phase[g] \notin Fresh
    /\ hb.pc \in {"reg", "mark"} => \A g \in judged : phase[g] = "running" => hb.wf = g
    /\ JudgedStaysFenced

LEMMA WorkInvInit == Init => WorkInv
<1> SUFFICES ASSUME Init PROVE WorkInv
  OBVIOUS
<1>1. FenceInv BY FenceInvInit
<1>2. \A g \in Generations : phase[g] = "none" BY DEF Init
<1>3. execCancel = 0 /\ judged = {} /\ hb.pc = "idle" BY DEF Init, Idle
<1> QED BY <1>1, <1>2, <1>3 DEF WorkInv, AtWork, JudgedStaysFenced

LEMMA WorkInvNext == ASSUME ~Overtakes, WorkInv, [Next]_vars PROVE WorkInv'
<1>f. FenceInv /\ FenceInv' /\ TypeOK /\ TypeOK'
  BY FenceInvNext, TypesNext DEF WorkInv, FenceInv
<1>t. /\ phase \in [Generations -> Phases] /\ phase' \in [Generations -> Phases]
      /\ judged \subseteq Generations /\ execCancel \in {0} \cup Generations
      /\ hb.pc # "idle" => hb.sent \in Generations
  <2>1. /\ phase \in [Generations -> Phases] /\ phase' \in [Generations -> Phases]
        /\ judged \subseteq Generations /\ execCancel \in 0..MaxGeneration
    BY Zenon, <1>f DEF TypeOK
  <2>2. hb.pc # "idle" => hb.sent \in Generations BY Zenon, <1>f DEF FenceInv
  <2>3. 0..MaxGeneration = {0} \cup Generations BY FenceAssumption DEF Generations
  <2> QED BY Zenon, <2>1, <2>2, <2>3
<1>z. 0 \notin Generations BY DEF Generations
<1>1. CASE OtherClaims \/ OtherReleases \/ Reap \/ HeartbeatFails \/ UNCHANGED vars
  <2>1. UNCHANGED <<phase, inflight, execCancel, fencedRuns, judged>> /\ (hb' = hb \/ hb'.pc = "idle")
    BY <1>1 DEF OtherClaims, OtherReleases, Reap, HeartbeatFails, maps, fence, vars, Idle
  <2>2. CASE hb' = hb BY <1>f, <2>1, <2>2 DEF WorkInv, JudgedStaysFenced, runIsFenced
  <2>3. CASE hb'.pc = "idle" BY <1>f, <2>1, <2>3 DEF WorkInv, JudgedStaysFenced, runIsFenced
  <2> QED BY <2>1, <2>2, <2>3
<1>2. CASE Snapshot \/ HeartbeatBatchFenced \/ CancelExecution
  <2>1. hb'.pc \in {"idle", "ask", "wf"}
    <3>1. CASE Snapshot BY <3>1 DEF Snapshot, Idle
    <3>2. CASE HeartbeatBatchFenced BY <1>f, <3>2 DEF HeartbeatBatchFenced, Idle, TypeOK
    <3>3. CASE CancelExecution BY <3>3 DEF CancelExecution, Idle
    <3> QED BY <1>2, <3>1, <3>2, <3>3
  <2>2. UNCHANGED <<phase, inflight, execCancel, fencedRuns, judged>>
    BY <1>2 DEF Snapshot, HeartbeatBatchFenced, CancelExecution, HeartbeatWorks, maps
  <2> QED BY <1>f, <2>1, <2>2 DEF WorkInv, JudgedStaysFenced, runIsFenced
<1>3. CASE LoadInflight
  <2>1. /\ UNCHANGED <<phase, inflight, execCancel, fencedRuns, judged>>
        /\ hb'.pc = "idle" \/ (hb'.pc = "reg" /\ hb'.wf = inflight)
    BY <1>f, <1>3 DEF LoadInflight, HeartbeatWorks, maps, Idle, TypeOK
  <2>2. \A g \in judged : phase[g] = "running" => inflight = g BY <1>t DEF WorkInv, AtWork
  <2> QED BY <1>f, <2>1, <2>2 DEF WorkInv, JudgedStaysFenced, runIsFenced
<1>4. CASE LoadExecCancel
  <2>1. /\ UNCHANGED <<phase, inflight, execCancel, fencedRuns, judged>>
        /\ \/ hb'.pc = "idle"
           \/ /\ hb'.pc = "mark" /\ hb'.wf = hb.wf /\ hb'.sent = hb.sent /\ hb'.wf = hb'.sent
              /\ hb'.sent = execCancel /\ execCancel # 0 /\ hb.pc = "reg"
    BY <1>f, <1>4 DEF LoadExecCancel, HeartbeatWorks, maps, Idle, TypeOK, SameGeneration
  <2>2. CASE hb'.pc = "idle" BY <1>f, <2>1, <2>2 DEF WorkInv, JudgedStaysFenced, runIsFenced
  <2>3. CASE hb'.pc = "mark"
    <3>1. phase[execCancel] \notin Fresh /\ execCancel # 0 BY <2>1, <2>3 DEF WorkInv
    <3> QED BY <1>f, <2>1, <2>3, <3>1 DEF WorkInv, JudgedStaysFenced, runIsFenced
  <2> QED BY <2>1, <2>2, <2>3
<1>5. CASE StoreFencedRun
  <2>1. /\ UNCHANGED <<phase, inflight, execCancel>> /\ hb.pc = "mark" /\ hb'.pc = "cancel"
        /\ fencedRuns' = hb.sent /\ judged' = judged \cup {hb.sent}
    BY <1>f, <1>5 DEF StoreFencedRun, HeartbeatWorks, TypeOK, Mark
  <2>2. phase[hb.sent] \notin Fresh /\ \A g \in judged : phase[g] = "running" => hb.sent = g
    BY <2>1 DEF WorkInv
  <2>3. JudgedStaysFenced' BY <2>1, <2>2 DEF JudgedStaysFenced, runIsFenced
  <2> QED BY <1>f, <2>1, <2>2, <2>3 DEF WorkInv
<1>6. ASSUME NEW g \in Generations, Claim(g) PROVE WorkInv'
  <2>1. /\ UNCHANGED <<inflight, execCancel, fencedRuns, judged, hb>>
        /\ phase' = [phase EXCEPT ![g] = "claimed"]
        /\ \A h \in Generations : phase[h] \notin AtWork /\ phase[h] # "claimed"
    BY <1>6 DEF Claim, maps, fence
  <2>2. phase[g] = "none"
    <3>1. g > row.gen /\ \A h \in Generations : phase[h] # "none" => h <= row.gen
      <4>1. /\ row.gen \in 0..MaxGeneration
            /\ \A h \in Generations : phase[h] # "none" => h <= row.gen
        BY Zenon, <1>f DEF TypeOK
      <4>2. g = row.gen + 1 BY Zenon, <1>6 DEF Claim
      <4> QED BY <4>1, <4>2, FenceAssumption
    <3>2. row.gen \in 0..MaxGeneration BY Zenon, <1>f DEF TypeOK
    <3> QED BY <3>1, <3>2, FenceAssumption DEF Generations
  <2>3. \A h \in Generations : h # g => phase'[h] = phase[h] BY <1>t, <2>1
  <2>4. phase'[g] = "claimed" BY <1>t, <2>1
  <2>5. hb.pc # "idle" => hb'.sent \in Generations BY <1>t, <2>1
  <2> QED BY <1>f, <1>t, <1>z, <2>1, <2>2, <2>3, <2>4, <2>5 DEF WorkInv, JudgedStaysFenced, runIsFenced, AtWork, Fresh
<1>7. ASSUME NEW g \in Generations, Dispatch(g) PROVE WorkInv'
  <2>1. /\ UNCHANGED <<execCancel, fencedRuns, judged, hb>> /\ inflight' = g /\ phase[g] = "claimed"
        /\ phase' = [phase EXCEPT ![g] = "stored"]
    BY <1>7 DEF Dispatch, fence
  <2>2. phase'[g] = "stored" /\ \A h \in Generations : h # g => phase'[h] = phase[h] BY <1>t, <2>1
  <2>3. \A h \in Generations : h # g => phase[h] \notin AtWork \cup {"claimed"} BY <2>1 DEF WorkInv
  <2> QED BY <1>f, <1>t, <1>z, <2>1, <2>2, <2>3 DEF WorkInv, JudgedStaysFenced, runIsFenced, AtWork, Fresh
<1>8. ASSUME NEW g \in Generations, Register(g) PROVE WorkInv'
  <2>1. /\ UNCHANGED <<inflight, fencedRuns, judged, hb>> /\ execCancel' = g /\ phase[g] = "stored"
        /\ phase' = [phase EXCEPT ![g] = "running"]
    BY <1>8 DEF Register, fence
  <2>2. phase'[g] = "running" /\ \A h \in Generations : h # g => phase'[h] = phase[h] BY <1>t, <2>1
  <2>3. \A h \in Generations : h # g => phase[h] \notin AtWork \cup {"claimed"} BY <2>1 DEF WorkInv, AtWork
  <2>4. inflight = g /\ g \notin judged BY <2>1 DEF WorkInv, AtWork, Fresh
  <2> QED BY <1>f, <1>t, <1>z, <2>1, <2>2, <2>3, <2>4 DEF WorkInv, JudgedStaysFenced, runIsFenced, AtWork, Fresh
<1>9. ASSUME NEW g \in Generations, Finish(g) \/ deregisterExecution(g) PROVE WorkInv'
  <2>1. /\ UNCHANGED <<judged, hb>>
        /\ inflight' = inflight \/ inflight' = CompareAndDelete(inflight, g)
        /\ execCancel' = execCancel \/ execCancel' = CompareAndDelete(execCancel, g)
        /\ fencedRuns' = fencedRuns \/ fencedRuns' = CompareAndDelete(fencedRuns, g)
        /\ phase'[g] \in {"ending", "ending2", "ending3", "gone"}
        /\ \A h \in Generations : h # g => phase'[h] = phase[h]
    <3>1. CASE Finish(g) BY <1>t, <3>1 DEF Finish, maps, fence
    <3>2. CASE deregisterExecution(g) BY <1>t, <3>2 DEF deregisterExecution, fence
    <3> QED BY <1>9, <3>1, <3>2
  <2>2. \A h \in Generations : h # g => /\ inflight = h => inflight' = h
                                        /\ execCancel = h => execCancel' = h
                                        /\ fencedRuns = h => fencedRuns' = h
    BY <2>1 DEF CompareAndDelete
  <2>3. execCancel' \in {0, execCancel} BY <2>1 DEF CompareAndDelete
  <2>4. phase'[g] \notin AtWork /\ phase'[g] # "claimed" /\ phase'[g] \notin Fresh BY <2>1 DEF AtWork, Fresh
  <2>5. \A h \in Generations : phase[h] \notin Fresh => phase'[h] \notin Fresh BY <2>1, <2>4
  <2>6. execCancel' # 0 => phase'[execCancel'] \notin Fresh BY <1>t, <2>3, <2>5 DEF WorkInv
  <2>7. hb'.pc = "mark" => phase'[hb'.sent] \notin Fresh /\ hb'.wf = hb'.sent
    BY <1>t, <2>1, <2>5 DEF WorkInv
  <2>8. \A h \in Generations : phase'[h] \in AtWork \cup {"claimed"} => h # g /\ phase[h] = phase'[h] BY <2>1, <2>4
  <2>9. \A h \in Generations : /\ phase'[h] \in AtWork => inflight' = h
                               /\ phase'[h] = "running" => execCancel' = h
    BY <2>2, <2>8 DEF WorkInv, AtWork
  <2>10. JudgedStaysFenced' BY <2>1, <2>2, <2>8 DEF WorkInv, JudgedStaysFenced, runIsFenced, AtWork
  <2>11. hb'.pc \in {"reg", "mark"} => \A h \in judged' : phase'[h] = "running" => hb'.wf = h
    BY <1>t, <2>1, <2>8 DEF WorkInv, AtWork
  <2>12. \A h \in judged' : phase'[h] \notin Fresh BY <1>t, <2>1, <2>5 DEF WorkInv
  <2>13. \A h, k \in Generations : /\ phase'[h] \in AtWork \cup {"claimed"}
                                   /\ phase'[k] \in AtWork \cup {"claimed"}
                                   => h = k
    BY <2>8 DEF WorkInv
  <2> QED BY <1>f, <2>6, <2>7, <2>9, <2>10, <2>11, <2>12, <2>13 DEF WorkInv
<1> QED BY <1>1, <1>2, <1>3, <1>4, <1>5, <1>6, <1>7, <1>8, <1>9 DEF Next, HeartbeatStep

(* In a worker that does not claim a run it still executes, the teardown of *)
(* one execution leaves the entries of the next alone, and an execution at  *)
(* work that its own heartbeat reported lost stays refused until it ends.   *)
THEOREM ExecutionsKeepTheirEntries == ~Overtakes => (Spec => [](LatestKeepsItsEntries /\ JudgedStaysFenced))
<1> SUFFICES ASSUME ~Overtakes PROVE Spec => [](LatestKeepsItsEntries /\ JudgedStaysFenced)
  OBVIOUS
<1>1. WorkInv /\ [Next]_vars => WorkInv'
  BY WorkInvNext
<1>2. WorkInv => LatestKeepsItsEntries /\ JudgedStaysFenced
  BY DEF WorkInv, LatestKeepsItsEntries
<1> QED
  BY WorkInvInit, <1>1, <1>2, PTL DEF Spec
=============================================================================
