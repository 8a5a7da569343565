--------------------------- MODULE RunLeaseProofs ---------------------------
(***************************************************************************)
(* The fence of RunLease, for any sets of runs and workers and any bound;  *)
(* and that the leases implement RunLifecycle, with settled outcomes       *)
(* final, from what one step may do to the status and marker of one row.   *)
(***************************************************************************)
EXTENDS RunLease, TLAPS

(* Every UPDATE but a claim does this to its row: it keeps the row well    *)
(* formed, never lowers the generation, and either leaves nobody holding   *)
(* it or leaves holder, generation and recorded outcome as they were.      *)
KeepsFence(old, new) ==
    /\ RowOK(new)
    /\ new.status # "absent"
    /\ new.generation >= old.generation
    /\ \/ new.assigned_to = NULL
       \/ /\ new.assigned_to = old.assigned_to
          /\ new.generation = old.generation
          /\ new.pending = old.pending

NoClaim == /\ execs' = execs
           /\ lease' \in [Runs -> Row]
           /\ \A r \in Runs : lease'[r] = lease[r] \/ KeepsFence(lease[r], lease'[r])

(* A step that claims nothing and changes rows only as KeepsFence says     *)
(* preserves the invariant, and nobody regains a fence.                    *)
LEMMA NoClaimPreserves ==
    ASSUME IInv, NoClaim
    PROVE  IInv' /\ \A e \in execs : Fence(e)' => Fence(e)
<1>1. \A r \in Runs : RowOK(lease'[r])
  BY DEF IInv, NoClaim, KeepsFence
<1>2. ASSUME NEW e \in execs
      PROVE  /\ e \in Exec /\ e.run \in Runs /\ e.gen \in Nat
             /\ lease[e.run].generation \in Nat /\ lease'[e.run].generation \in Nat
             /\ lease'[e.run] = lease[e.run] \/ KeepsFence(lease[e.run], lease'[e.run])
  BY DEF IInv, TypeOK, Exec, Row, NoClaim
<1>3. ASSUME NEW e \in execs, Fence(e)' PROVE Fence(e) /\ e.pending = lease'[e.run].pending
  <2>1. e.worker # NULL
    BY NullAssumption DEF IInv, TypeOK, Exec
  <2>2. lease'[e.run].assigned_to = e.worker /\ lease'[e.run].generation = e.gen
    BY <1>3 DEF Fence
  <2>. QED BY <1>2, <2>1, <2>2 DEF KeepsFence, Fence, IInv, ClaimOK
<1>4. ASSUME NEW e \in execs PROVE ClaimOK(e)'
  BY <1>2, <1>3 DEF IInv, ClaimOK, KeepsFence
<1>. QED BY <1>1, <1>3, <1>4 DEF IInv, TypeOK, NoClaim

(* The common shape: an UPDATE that leaves nobody holding the row.         *)
LEMMA FreedKeepsFence ==
    ASSUME NEW row \in Row, NEW new \in Row,
           new.assigned_to = NULL,
           new.generation >= row.generation,
           new.status \in {"ready", "terminating"} \cup SettledStatuses,
           new.status = "terminating" <=> new.pending # NULL,
           new.overdue = FALSE \/ new.pending # NULL
    PROVE  KeepsFence(row, new)
BY DEF KeepsFence, RowOK, SettledStatuses

LEMMA GenerationNat == \A row \in Row : row.generation \in Nat /\ row.generation + 1 \in Nat
BY DEF Row

(* The fenced writes of a holder.                                          *)
LEMMA HolderUpdates ==
    ASSUME NEW row \in Row, RowOK(row), row.status = "running", NEW due \in BOOLEAN
    PROVE  /\ KeepsFence(row, [row EXCEPT !.stale = FALSE])
           /\ KeepsFence(row, [row EXCEPT !.owes = TRUE])
           /\ KeepsFence(row, Released(row, due))
           /\ row.pending = NULL =>
                 /\ KeepsFence(row, Suspended(row, due))
                 /\ \A st \in SettledStatuses : KeepsFence(row, completeLeaseRow(row, st))
           /\ row.pending # NULL => KeepsFence(row, PhaseApplied(row))
<1>. row.generation \in Nat /\ row.generation + 1 \in Nat
  BY GenerationNat
<1>0. row.overdue = FALSE \/ row.pending # NULL
  BY DEF Row, RowOK
<1>1. KeepsFence(row, [row EXCEPT !.stale = FALSE])
  <2>1. RowOK([row EXCEPT !.stale = FALSE])
    BY Zenon DEF RowOK, Row
  <2>. QED BY <2>1 DEF KeepsFence, Row
<1>2. KeepsFence(row, [row EXCEPT !.owes = TRUE])
  <2>1. RowOK([row EXCEPT !.owes = TRUE])
    BY Zenon DEF RowOK, Row
  <2>. QED BY <2>1 DEF KeepsFence, Row
<1>3. KeepsFence(row, Released(row, due))
  <2>. DEFINE new == Released(row, due)
  <2>1. new \in Row
    BY Zenon DEF Row, Released, Requeued, Statuses
  <2>2. /\ new.status = Requeued(row) /\ new.assigned_to = NULL
        /\ new.generation = row.generation /\ new.pending = row.pending
        /\ new.overdue = row.overdue
    BY DEF Row, Released
  <2>. HIDE DEF new
  <2>9. new.generation >= row.generation
    BY <2>2
  <2>10. KeepsFence(row, new)
    BY Zenon, <1>0, <2>1, <2>2, <2>9, FreedKeepsFence DEF Requeued
  <2>. QED BY <2>10 DEF new
<1>4. ASSUME row.pending = NULL PROVE KeepsFence(row, Suspended(row, due))
  <2>. DEFINE new == Suspended(row, due)
  <2>1. new \in Row
    BY Zenon DEF Row, Suspended, Statuses
  <2>2. /\ new.status = "ready" /\ new.assigned_to = NULL
        /\ new.generation = row.generation /\ new.pending = NULL
        /\ new.overdue = row.overdue
    BY <1>4 DEF Row, Suspended
  <2>. HIDE DEF new
  <2>9. new.generation >= row.generation
    BY <2>2
  <2>10. KeepsFence(row, new)
    BY Zenon, <1>0, <1>4, <2>1, <2>2, <2>9, FreedKeepsFence
  <2>. QED BY <2>10 DEF new
<1>5. ASSUME row.pending = NULL, NEW st \in SettledStatuses
      PROVE  KeepsFence(row, completeLeaseRow(row, st))
  <2>. DEFINE new == completeLeaseRow(row, st)
  <2>1. new \in Row
    BY Zenon DEF Row, completeLeaseRow, Statuses
  <2>2. /\ new.status = st /\ new.assigned_to = NULL
        /\ new.generation = row.generation /\ new.pending = NULL
        /\ new.overdue = row.overdue
    BY <1>5 DEF Row, completeLeaseRow
  <2>3. st # "terminating"
    BY DEF SettledStatuses
  <2>. HIDE DEF new
  <2>9. new.generation >= row.generation
    BY <2>2
  <2>10. KeepsFence(row, new)
    BY Zenon, <1>0, <1>5, <2>1, <2>2, <2>3, <2>9, FreedKeepsFence
  <2>. QED BY <2>10 DEF new
<1>6. ASSUME row.pending # NULL PROVE KeepsFence(row, PhaseApplied(row))
  <2>. DEFINE new == PhaseApplied(row)
  <2>1. new \in Row
    BY Zenon, <1>6 DEF Row, PhaseApplied, Statuses, SettledStatuses, Outcomes
  <2>2. /\ new.status = row.pending /\ new.assigned_to = NULL
        /\ new.generation = row.generation /\ new.pending = NULL /\ new.overdue = FALSE
    BY DEF Row, PhaseApplied
  <2>3. row.pending \in SettledStatuses /\ row.pending # "terminating"
    BY <1>6 DEF Row, SettledStatuses, Outcomes
  <2>. HIDE DEF new
  <2>9. new.generation >= row.generation
    BY <2>2
  <2>10. KeepsFence(row, new)
    BY Zenon, <1>0, <2>1, <2>2, <2>3, <2>9, FreedKeepsFence
  <2>. QED BY <2>10 DEF new
<1>. QED BY <1>1, <1>2, <1>3, <1>4, <1>5, <1>6

(* The writes of operators, parents and sweeps, which hold no fence.       *)
LEMMA OutsideUpdates ==
    ASSUME NEW row \in Row, RowOK(row), row.status # "absent"
    PROVE  /\ \A o \in Outcomes : /\ KeepsFence(row, Preempted(row, o))
                                  /\ KeepsFence(row, SettleOrMark(row, o))
           /\ KeepsFence(row, Reaped(row)) \/ row.status # "running"
           /\ row.pending # NULL => KeepsFence(row, PhaseExpired(row))
           /\ row.status \in SettledStatuses =>
                 KeepsFence(row, Retried(row)) /\ KeepsFence(row, ReReplayed(row))
<1>. row.generation \in Nat /\ row.generation + 1 \in Nat
  BY GenerationNat
<1>0. row.overdue = FALSE \/ row.pending # NULL
  BY DEF Row, RowOK
<1>1. ASSUME NEW o \in Outcomes PROVE KeepsFence(row, Preempted(row, o))
  <2>. DEFINE new == Preempted(row, o)
  <2>1. new \in Row
    BY Zenon DEF Row, Preempted, Statuses, SettledStatuses, Outcomes
  <2>2. /\ new.status = o /\ new.assigned_to = NULL
        /\ new.generation = row.generation + 1 /\ new.pending = NULL /\ new.overdue = FALSE
    BY DEF Row, Preempted
  <2>3. o \in SettledStatuses /\ o # "terminating"
    BY DEF SettledStatuses, Outcomes
  <2>. HIDE DEF new
  <2>9. new.generation >= row.generation
    BY <2>2
  <2>10. KeepsFence(row, new)
    BY Zenon, <1>0, <2>1, <2>2, <2>3, <2>9, FreedKeepsFence
  <2>. QED BY <2>10 DEF new
<1>2. ASSUME NEW o \in Outcomes PROVE KeepsFence(row, Marked(row, o))
  <2>. DEFINE new == Marked(row, o)
  <2>1. new \in Row
    BY Zenon DEF Row, Marked, Statuses
  <2>2. /\ new.status = "terminating" /\ new.assigned_to = NULL
        /\ new.generation = row.generation + 1 /\ new.pending = o
    BY DEF Row, Marked
  <2>3. o # NULL
    BY NullAssumption
  <2>. HIDE DEF new
  <2>9. new.generation >= row.generation
    BY <2>2
  <2>10. KeepsFence(row, new)
    BY Zenon, <1>0, <2>1, <2>2, <2>3, <2>9, FreedKeepsFence
  <2>. QED BY <2>10 DEF new
<1>3. KeepsFence(row, Reaped(row))
  <2>. DEFINE new == Reaped(row)
  <2>1. new \in Row
    BY Zenon DEF Row, Reaped, Requeued, Statuses
  <2>2. /\ new.status = Requeued(row) /\ new.assigned_to = NULL
        /\ new.generation = row.generation + 1 /\ new.pending = row.pending
        /\ new.overdue = row.overdue
    BY DEF Row, Reaped
  <2>. HIDE DEF new
  <2>9. new.generation >= row.generation
    BY <2>2
  <2>10. KeepsFence(row, new)
    BY Zenon, <1>0, <2>1, <2>2, <2>9, FreedKeepsFence DEF Requeued
  <2>. QED BY <2>10 DEF new
<1>4. ASSUME row.pending # NULL PROVE KeepsFence(row, PhaseExpired(row))
  <2>. DEFINE new == PhaseExpired(row)
  <2>1. new \in Row
    BY Zenon, <1>4 DEF Row, PhaseExpired, PhaseApplied, Statuses, SettledStatuses, Outcomes
  <2>2. /\ new.status = row.pending /\ new.assigned_to = NULL
        /\ new.generation = row.generation + 1 /\ new.pending = NULL /\ new.overdue = FALSE
    BY DEF Row, PhaseExpired, PhaseApplied
  <2>3. row.pending \in SettledStatuses /\ row.pending # "terminating"
    BY <1>4 DEF Row, SettledStatuses, Outcomes
  <2>. HIDE DEF new
  <2>9. new.generation >= row.generation
    BY <2>2
  <2>10. KeepsFence(row, new)
    BY Zenon, <1>0, <2>1, <2>2, <2>3, <2>9, FreedKeepsFence
  <2>. QED BY <2>10 DEF new
<1>5. ASSUME row.status \in SettledStatuses
      PROVE  KeepsFence(row, Retried(row)) /\ KeepsFence(row, ReReplayed(row))
  <2>0. row.pending = NULL /\ row.overdue = FALSE
    BY <1>0, <1>5 DEF RowOK, SettledStatuses
  <2>1. KeepsFence(row, Retried(row))
    <3>. DEFINE new == Retried(row)
    <3>1. new \in Row
      BY Zenon DEF Row, Retried, Statuses
    <3>2. /\ new.status = "ready" /\ new.assigned_to = NULL
          /\ new.generation = row.generation /\ new.pending = NULL /\ new.overdue = FALSE
      BY <2>0 DEF Row, Retried
    <3>. HIDE DEF new
    <3>9. new.generation >= row.generation
      BY <3>2
    <3>10. KeepsFence(row, new)
      BY Zenon, <1>0, <3>1, <3>2, <3>9, FreedKeepsFence
    <3>. QED BY <3>10 DEF new
  <2>2. KeepsFence(row, ReReplayed(row))
    <3>. DEFINE new == ReReplayed(row)
    <3>1. new \in Row
      BY Zenon DEF Row, ReReplayed, Retried, Statuses
    <3>2. /\ new.status = "ready" /\ new.assigned_to = NULL
          /\ new.generation = row.generation + 1 /\ new.pending = NULL /\ new.overdue = FALSE
      BY <2>0 DEF Row, ReReplayed, Retried
    <3>. HIDE DEF new
    <3>9. new.generation >= row.generation
      BY <3>2
    <3>10. KeepsFence(row, new)
      BY Zenon, <1>0, <3>1, <3>2, <3>9, FreedKeepsFence
    <3>. QED BY <3>10 DEF new
  <2>. QED BY <2>1, <2>2
<1>. QED BY <1>1, <1>2, <1>3, <1>4, <1>5 DEF SettleOrMark

(* The environment's moves and compaction touch none of what a fence reads. *)
LEMMA FlagUpdates ==
    ASSUME NEW row \in Row, RowOK(row), row.status # "absent"
    PROVE  /\ KeepsFence(row, [row EXCEPT !.due = TRUE])
           /\ KeepsFence(row, [row EXCEPT !.stale = TRUE])
           /\ KeepsFence(row, [row EXCEPT !.owes = TRUE])
           /\ row.pending # NULL => KeepsFence(row, [row EXCEPT !.overdue = TRUE])
<1>. row.generation \in Nat
  BY GenerationNat
<1>1. KeepsFence(row, [row EXCEPT !.due = TRUE])
  <2>1. RowOK([row EXCEPT !.due = TRUE])
    BY Zenon DEF RowOK, Row
  <2>. QED BY <2>1 DEF KeepsFence, Row
<1>2. KeepsFence(row, [row EXCEPT !.stale = TRUE])
  <2>1. RowOK([row EXCEPT !.stale = TRUE])
    BY Zenon DEF RowOK, Row
  <2>. QED BY <2>1 DEF KeepsFence, Row
<1>3. KeepsFence(row, [row EXCEPT !.owes = TRUE])
  <2>1. RowOK([row EXCEPT !.owes = TRUE])
    BY Zenon DEF RowOK, Row
  <2>. QED BY <2>1 DEF KeepsFence, Row
<1>4. ASSUME row.pending # NULL PROVE KeepsFence(row, [row EXCEPT !.overdue = TRUE])
  <2>1. RowOK([row EXCEPT !.overdue = TRUE])
    BY Zenon, <1>4 DEF RowOK, Row
  <2>. QED BY <2>1 DEF KeepsFence, Row
<1>. QED BY <1>1, <1>2, <1>3, <1>4

(* Changing one row as KeepsFence says is a NoClaim step. *)
LEMMA OneRow ==
    ASSUME IInv, NEW r \in Runs, NEW row, KeepsFence(lease[r], row),
           lease' = [lease EXCEPT ![r] = row], execs' = execs
    PROVE  NoClaim
BY DEF NoClaim, IInv, TypeOK, KeepsFence, RowOK

LEMMA NewRowOK == ASSUME NEW row \in Row, row.generation = 0 PROVE KeepsFence(row, NewRow("ready"))
<1>1. NewRow("ready") \in Row
  BY DEF NewRow, Row, Statuses
<1>. QED BY <1>1 DEF KeepsFence, RowOK, NewRow

LEMMA RowStepNoClaim ==
    ASSUME IInv, NEW r \in Runs, RowStep(r) \/ OperatorStep(r), lease[r].status # "absent"
    PROVE  NoClaim
<1>. /\ lease[r] \in Row /\ RowOK(lease[r]) /\ lease \in [Runs -> Row]
  BY DEF IInv, TypeOK
<1>1. CASE WakeTimePasses(r)
  BY Zenon, <1>1, FlagUpdates, OneRow DEF WakeTimePasses
<1>2. CASE HeartbeatAges(r)
  BY Zenon, <1>2, FlagUpdates, OneRow DEF HeartbeatAges
<1>3. CASE DeadlinePasses(r)
  BY Zenon, <1>3, FlagUpdates, OneRow DEF DeadlinePasses
<1>4. CASE CompactHistory(r)
  BY Zenon, <1>4, FlagUpdates, OneRow DEF CompactHistory
<1>5. CASE CloseByParent(r)
  <2>1. "terminated" \in Outcomes
    BY DEF Outcomes
  <2>. QED BY <1>5, <2>1, OutsideUpdates, OneRow DEF CloseByParent
<1>6. ASSUME NEW o \in {"terminated", "cancelled"}, PreemptivelySettle(r, o) PROVE NoClaim
  <2>1. o \in Outcomes
    BY DEF Outcomes
  <2>. QED BY Zenon, <1>6, <2>1, OutsideUpdates, OneRow DEF PreemptivelySettle
<1>7. ASSUME NEW o \in {"done", "failed"}, AdminForceResolve(r, o) PROVE NoClaim
  <2>1. o \in Outcomes
    BY DEF Outcomes
  <2>. QED BY Zenon, <1>7, <2>1, OutsideUpdates, OneRow DEF AdminForceResolve
<1>8. CASE RetryWorkflow(r)
  <2>1. lease[r].status \in SettledStatuses
    BY <1>8 DEF RetryWorkflow, RetryAllowed, SettledStatuses
  <2>. QED BY Zenon, <1>8, <2>1, OutsideUpdates, OneRow DEF RetryWorkflow
<1>9. CASE AdminReReplay(r)
  <2>1. lease[r].status \in SettledStatuses
    BY <1>9 DEF AdminReReplay, reReplayableStatuses, SettledStatuses
  <2>. QED BY Zenon, <1>9, <2>1, OutsideUpdates, OneRow DEF AdminReReplay
<1>. QED BY <1>1, <1>2, <1>3, <1>4, <1>5, <1>6, <1>7, <1>8, <1>9 DEF RowStep, OperatorStep, StartRun

(* One case per write of an execution; ExecEnds is not a NoClaim step, it  *)
(* shrinks execs.                                                          *)
LEMMA ExecWriteNoClaim ==
    ASSUME IInv, NEW e \in execs, ExecStep(e), ~ExecEnds(e)
    PROVE  NoClaim
<1>. DEFINE row == lease[e.run]
<1>1. e.run \in Runs /\ e.worker \in Workers /\ row \in Row /\ RowOK(row)
  BY DEF IInv, TypeOK, Exec
<1>2. ASSUME Fence(e) PROVE row.status = "running" /\ e.pending = row.pending
  BY <1>1, <1>2, NullAssumption DEF IInv, ClaimOK, Fence, RowOK
<1>3. ASSUME NEW new, Write(e, new), KeepsFence(row, new) PROVE NoClaim
  BY Zenon, <1>1, <1>3, OneRow DEF Write
<1>4. "done" \in SettledStatuses /\ "failed" \in SettledStatuses /\ "dead_lettered" \in SettledStatuses
  BY DEF SettledStatuses
<1>. HIDE DEF row
<1>5. CASE Heartbeat(e)
  BY Zenon, <1>1, <1>2, <1>3, <1>5, HolderUpdates DEF Heartbeat, Write, row
<1>6. CASE RegisterDefer(e)
  BY Zenon, <1>1, <1>2, <1>3, <1>6, HolderUpdates DEF RegisterDefer, Write, row
<1>7. CASE FinalizeDone(e)
  BY Zenon, <1>1, <1>2, <1>3, <1>4, <1>7, HolderUpdates DEF FinalizeDone, Write, row
<1>8. ASSUME NEW due \in BOOLEAN, FinalizeSuspend(e, due) PROVE NoClaim
  BY Zenon, <1>1, <1>2, <1>3, <1>8, HolderUpdates DEF FinalizeSuspend, Write, row
<1>9. ASSUME NEW st \in {"failed", "dead_lettered"}, TerminalFailure(e, st) PROVE NoClaim
  BY Zenon, <1>1, <1>2, <1>3, <1>4, <1>9, HolderUpdates DEF TerminalFailure, Write, row
<1>10. ASSUME NEW due \in BOOLEAN, ReleaseWorkflow(e, due) PROVE NoClaim
  BY Zenon, <1>1, <1>2, <1>3, <1>10, HolderUpdates DEF ReleaseWorkflow, Write, row
<1>11. CASE FinalizeDeferPhase(e)
  BY ZenonT(30), <1>1, <1>2, <1>3, <1>11, HolderUpdates DEF FinalizeDeferPhase, Write, row
<1>12. ASSUME NEW n \in Runs, ContinueAsNew(e, n) PROVE NoClaim
  <2>1. KeepsFence(row, completeLeaseRow(row, "done"))
    BY Zenon, <1>1, <1>2, <1>4, <1>12, HolderUpdates DEF ContinueAsNew
  <2>2. KeepsFence(lease[n], NewRow("ready"))
    BY <1>12, NewRowOK DEF ContinueAsNew, IInv, TypeOK, RowOK
  <2>. QED BY ZenonT(30), <1>1, <1>12, <2>1, <2>2 DEF ContinueAsNew, NoClaim, IInv, TypeOK, KeepsFence, RowOK, row
<1>. QED BY <1>5, <1>6, <1>7, <1>8, <1>9, <1>10, <1>11, <1>12 DEF ExecStep

(* The two sweeps change many rows in one statement. *)
LEMMA SweepNoClaim ==
    ASSUME IInv, ExpireDeferPhases \/ \E X \in SUBSET Runs : ReapStaleInstances(X)
    PROVE  NoClaim
<1>1. \A r \in Runs : lease[r] \in Row /\ RowOK(lease[r])
  BY Zenon DEF IInv, TypeOK
<1>2. ASSUME NEW X \in SUBSET Runs, ReapStaleInstances(X) PROVE NoClaim
  <2>1. \A r \in X : KeepsFence(lease[r], Reaped(lease[r]))
    BY <1>1, <1>2, OutsideUpdates DEF ReapStaleInstances, StaleRuns
  <2>2. \A r \in X : Reaped(lease[r]) \in Row
    BY <2>1 DEF KeepsFence, RowOK
  <2>. QED BY <1>1, <1>2, <2>1, <2>2 DEF ReapStaleInstances, NoClaim
<1>3. CASE ExpireDeferPhases
  <2>1. \A r \in OverdueRuns : KeepsFence(lease[r], PhaseExpired(lease[r]))
    <3>1. \A r \in OverdueRuns : lease[r].status # "absent" /\ lease[r].pending # NULL
      BY Zenon, <1>1 DEF OverdueRuns, RowOK
    <3>. QED BY Zenon, <1>1, <3>1, OutsideUpdates DEF OverdueRuns
  <2>2. \A r \in OverdueRuns : PhaseExpired(lease[r]) \in Row
    BY <2>1 DEF KeepsFence, RowOK
  <2>. QED BY <1>1, <1>3, <2>1, <2>2 DEF ExpireDeferPhases, NoClaim
<1>. QED BY <1>2, <1>3

(* A run that does not exist yet can only be started. *)
LEMMA StartNoClaim ==
    ASSUME IInv, NEW r \in Runs, RowStep(r) \/ OperatorStep(r), lease[r].status = "absent"
    PROVE  NoClaim
<1>1. lease[r] \in Row /\ RowOK(lease[r]) /\ lease[r].pending = NULL /\ lease[r].generation = 0
  BY DEF IInv, TypeOK, RowOK
<1>2. StartRun(r)
  BY <1>1 DEF RowStep, OperatorStep, WakeTimePasses, HeartbeatAges, DeadlinePasses, CloseByParent,
     CompactHistory, PreemptivelySettle, PreemptAllowed, AdminForceResolve, RetryWorkflow,
     RetryAllowed, AdminReReplay, reReplayableStatuses
<1>. QED BY Zenon, <1>1, <1>2, NewRowOK, OneRow DEF StartRun

(* A claim is the one step that gives a run to an execution: it raises the *)
(* generation past every execution there is, so the new one is alone.      *)
LEMMA ClaimPreserves ==
    ASSUME IInv, NEW w \in Workers, NEW r \in Runs, ClaimWorkflow(w, r) \/ ClaimSticky(w, r)
    PROVE  IInv' /\ \A e \in execs : Fence(e)' => Fence(e)
<1>. DEFINE row == lease[r]
            new == Claimed(row, w)
<1>0. PICK c : c = [worker |-> w, run |-> r, pending |-> row.pending, gen |-> new.generation]
  BY Zenon
<1>1. row \in Row /\ RowOK(row) /\ row.generation \in Nat /\ row.generation + 1 \in Nat
  BY GenerationNat DEF IInv, TypeOK
<1>2. row.status = "ready" => row.pending = NULL
  BY <1>1 DEF RowOK
<1>3. row.status \in {"ready", "terminating"} /\ Claim(w, r, row.pending)
  BY <1>2 DEF ClaimWorkflow, ClaimSticky
<1>4. /\ new.status = "running" /\ new.assigned_to = w /\ new.generation = row.generation + 1
      /\ new.pending = row.pending /\ new.overdue = row.overdue
  BY <1>1 DEF Claimed, Row
<1>5. new \in Row
  BY Zenon, <1>1 DEF Claimed, Row, Statuses
<1>6. c \in Exec
  BY <1>0, <1>1, <1>4 DEF Exec, Row
<1>7. lease' = [lease EXCEPT ![r] = new] /\ execs' = execs \cup {c}
  BY <1>0, <1>3 DEF Claim
<1>8. c.run = r /\ c.gen = row.generation + 1 /\ c.pending = row.pending
  BY <1>0, <1>4
<1>. HIDE DEF new
<1>9. RowOK(new)
  <2>1. row.overdue = FALSE \/ row.pending # NULL
    BY <1>1 DEF RowOK, Row
  <2>2. w # NULL
    BY NullAssumption
  <2>. QED BY <1>4, <1>5, <2>1, <2>2 DEF RowOK
<1>10. TypeOK' /\ \A q \in Runs : RowOK(lease'[q])
  BY <1>5, <1>6, <1>7, <1>9 DEF IInv, TypeOK
<1>11. ASSUME NEW e \in execs
       PROVE  /\ e \in Exec /\ e.run \in Runs /\ e.gen \in Nat
              /\ lease[e.run].generation \in Nat /\ e.gen <= lease[e.run].generation
              /\ lease[e.run].status # "absent"
              /\ e.run = r => lease'[e.run] = new /\ e.gen < new.generation
              /\ e.run # r => lease'[e.run] = lease[e.run]
  BY <1>1, <1>4, <1>7, GenerationNat DEF IInv, TypeOK, ClaimOK, Exec
<1>12. ASSUME NEW e \in execs PROVE ClaimOK(e)' /\ (Fence(e)' => Fence(e))
  <2>1. CASE e.run = r
    BY <1>4, <1>5, <1>11, <2>1 DEF ClaimOK, Fence, Row
  <2>2. CASE e.run # r
    BY <1>11, <2>2 DEF IInv, ClaimOK, Fence
  <2>. QED BY <2>1, <2>2
<1>13. ClaimOK(c)'
  BY <1>1, <1>4, <1>7, <1>8 DEF ClaimOK, Fence, IInv, TypeOK
<1>14. \A e, f \in execs' : e.run = f.run /\ e.gen = f.gen => e = f
  <2>1. \A e \in execs : ~(e.run = c.run /\ e.gen = c.gen)
    BY <1>1, <1>4, <1>8, <1>11
  <2>. QED BY <1>7, <2>1 DEF IInv
<1>. QED BY <1>7, <1>10, <1>12, <1>13, <1>14 DEF IInv

LEMMA ExecEndsPreserves ==
    ASSUME IInv, NEW e \in execs, ExecEnds(e)
    PROVE  IInv' /\ \A f \in execs : Fence(f)' => Fence(f)
BY DEF ExecEnds, IInv, TypeOK, ClaimOK, Fence

(* Every step preserves the invariant, and no step gives a fence back. *)
LEMMA StepPreserves ==
    ASSUME IInv, [Next]_vars
    PROVE  IInv' /\ \A e \in execs : Fence(e)' => Fence(e)
<1>1. CASE UNCHANGED vars
  BY <1>1 DEF vars, IInv, TypeOK, ClaimOK, Fence
<1>2. ASSUME NEW r \in Runs, RowStep(r) \/ OperatorStep(r) PROVE NoClaim
  BY <1>2, StartNoClaim, RowStepNoClaim
<1>3. CASE \E X \in SUBSET Runs : ReapStaleInstances(X)
  BY <1>3, SweepNoClaim, NoClaimPreserves
<1>4. CASE ExpireDeferPhases
  BY <1>4, SweepNoClaim, NoClaimPreserves
<1>5. ASSUME NEW e \in execs, ExecStep(e)
      PROVE  IInv' /\ \A f \in execs : Fence(f)' => Fence(f)
  BY <1>5, ExecEndsPreserves, ExecWriteNoClaim, NoClaimPreserves
<1>. QED BY <1>1, <1>2, <1>3, <1>4, <1>5, ClaimPreserves, NoClaimPreserves DEF Next

LEMMA InitIInv == Init => IInv
<1>1. NewRow("absent") \in Row
  BY DEF NewRow, Row, Statuses
<1>2. RowOK(NewRow("absent"))
  BY <1>1 DEF NewRow, RowOK
<1>. QED BY <1>1, <1>2 DEF Init, IInv, TypeOK

THEOREM Invariance == Spec => []IInv
<1>1. IInv /\ [Next]_vars => IInv'
  BY StepPreserves
<1>. QED BY InitIInv, <1>1, PTL DEF Spec

(* Rows and executions stay well formed under every handler. *)
THEOREM TypeCorrectness == Spec => []TypeOK
<1>1. IInv => TypeOK
  BY DEF IInv
<1>. QED BY Invariance, <1>1, PTL

(* The (assigned_to, generation) test of a fenced write admits the owner   *)
(* of the run and nobody else, for any number of workers, reaps and        *)
(* operator verbs.                                                         *)
THEOREM Fencing == Spec => []FenceMeansOwner
<1>1. IInv => FenceMeansOwner
  <2>1. ASSUME IInv, NEW e \in execs, Fence(e)
        PROVE  /\ lease[e.run].status = "running" /\ e.pending = lease[e.run].pending
               /\ \A f \in execs : f.run = e.run /\ Fence(f) => f = e
    <3>1. e.run \in Runs /\ e.worker # NULL
      BY <2>1, NullAssumption DEF IInv, TypeOK, Exec
    <3>2. \A f \in execs : f.run = e.run /\ Fence(f) => f.gen = e.gen
      BY <2>1 DEF Fence
    <3>. QED BY <2>1, <3>1, <3>2 DEF IInv, ClaimOK, RowOK, Fence
  <2>. QED BY <2>1 DEF FenceMeansOwner
<1>. QED BY Invariance, <1>1, PTL

(* No row is left carrying a recorded outcome whose phase cannot run.      *)
THEOREM Markers == Spec => []MarkerMeansPhase
<1>1. IInv => MarkerMeansPhase
  BY Zenon DEF IInv, RowOK, MarkerMeansPhase
<1>. QED BY Invariance, <1>1, PTL

(* A worker that lost its run can never write to it again, however often   *)
(* the run is released, reaped, retried or reclaimed by that same worker.  *)
THEOREM LostFence == Spec => LostFenceStaysLost
<1>1. IInv /\ [Next]_vars => [\A e \in execs : ~Fence(e) => ~(Fence(e)')]_vars
  BY StepPreserves
<1>. QED BY Invariance, <1>1, PTL DEF Spec, LostFenceStaysLost

-----------------------------------------------------------------------------
Moves(old, new) ==
    /\ \/ PhaseOf(new) = PhaseOf(old)
       \/ Lifecycle!Step(PhaseOf(old), PhaseOf(new))
    /\ isSettledStatus(old.status) /\ new.status # old.status =>
          \/ old.status \in reReplayableStatuses /\ new.status = "ready"
          \/ old.status = "dead_lettered" /\ new.status = "terminated"

Open == {"ready", "running", "terminating"}

(* Claims, releases, suspensions, reaps and flags do not move a run. *)
LEMMA SamePhase ==
    ASSUME NEW old, NEW new, RowOK(old), RowOK(new), new.pending = old.pending,
           \/ new.status = old.status
           \/ old.status \in Open /\ new.status \in Open
    PROVE  Moves(old, new)
BY Zenon DEF Moves, PhaseOf, isSettledStatus, SettledStatuses, RowOK, Open

LEMMA Settling ==
    ASSUME NEW old, NEW new, RowOK(old), RowOK(new),
           old.status \in Open, new.status \in SettledStatuses,
           old.pending # NULL => new.status # "dead_lettered"
    PROVE  Moves(old, new)
BY DEF Moves, PhaseOf, isSettledStatus, SettledStatuses, RowOK, Open,
       Lifecycle!Step, Lifecycle!Settles

LEMMA Marking ==
    ASSUME NEW old, NEW new, RowOK(old), RowOK(new), old.status \in Open, new.pending # NULL
    PROVE  Moves(old, new)
BY DEF Moves, PhaseOf, isSettledStatus, SettledStatuses, RowOK, Open,
       Lifecycle!Step, Lifecycle!BeginsClosing

LEMMA Reopening ==
    ASSUME NEW old, NEW new, RowOK(old), RowOK(new),
           old.status \in reReplayableStatuses, new.status = "ready"
    PROVE  Moves(old, new)
BY DEF Moves, PhaseOf, isSettledStatus, SettledStatuses, RowOK, reReplayableStatuses,
       Lifecycle!Step, Lifecycle!Reopens, Lifecycle!At

LEMMA LeavingDeadLetters ==
    ASSUME NEW old, NEW new, RowOK(old), RowOK(new),
           old.status = "dead_lettered", new.status = "terminated"
    PROVE  Moves(old, new)
BY DEF Moves, PhaseOf, isSettledStatus, SettledStatuses, RowOK,
       Lifecycle!Step, Lifecycle!SettledOn

LEMMA Starting ==
    ASSUME NEW old, NEW new, RowOK(old), RowOK(new),
           old.status = "absent", new.status = "ready"
    PROVE  Moves(old, new)
BY DEF Moves, PhaseOf, isSettledStatus, SettledStatuses, RowOK, Lifecycle!Step, Lifecycle!At

(* A decision from outside on a row that is not settled. *)
LEMMA Deciding ==
    ASSUME NEW old \in Row, NEW o \in Outcomes, NEW new, RowOK(old), RowOK(new), old.status \in Open,
           new \in {SettleOrMark(old, o), Preempted(old, o)}
    PROVE  Moves(old, new)
<1>1. o \in SettledStatuses /\ o # "dead_lettered" /\ o # NULL
  BY NullAssumption DEF Outcomes, SettledStatuses
<1>2. CASE new = Marked(old, o)
  <2>1. new.pending = o
    BY <1>2 DEF Marked, Row
  <2>. QED BY <1>1, <2>1, Marking
<1>3. CASE new = Preempted(old, o)
  <2>1. new.status = o
    BY <1>3 DEF Preempted, Row
  <2>. QED BY <1>1, <2>1, Settling
<1>. QED BY <1>2, <1>3 DEF SettleOrMark

(* Only the row of q changes, and it moves. *)
LEMMA OneMoves ==
    ASSUME IInv, IInv', NEW q \in Runs, NEW new, lease' = [lease EXCEPT ![q] = new],
           Moves(lease[q], new)
    PROVE  \A r \in Runs : Moves(lease[r], lease'[r])
BY SamePhase DEF IInv, TypeOK

LEMMA RowStepMoves ==
    ASSUME IInv, IInv', NEW q \in Runs, RowStep(q) \/ OperatorStep(q)
    PROVE  \A r \in Runs : Moves(lease[r], lease'[r])
<1>. DEFINE old == lease[q]
            new == lease'[q]
<1>1. /\ old \in Row /\ RowOK(old) /\ RowOK(new)
      /\ lease \in [Runs -> Row] /\ old.status \in Statuses
  BY DEF IInv, TypeOK, Row
<1>2. ~isSettledStatus(old.status) /\ old.status # "absent" => old.status \in Open
  BY <1>1 DEF Statuses, isSettledStatus, Open
<1>3. "terminated" \in Outcomes /\ "cancelled" \in Outcomes /\ "done" \in Outcomes /\ "failed" \in Outcomes
  BY DEF Outcomes
<1>4. SUFFICES lease' = [lease EXCEPT ![q] = new] /\ Moves(old, new)
  BY OneMoves
<1>5. CASE StartRun(q)
  <2>1. new.status = "ready"
    BY <1>1, <1>5 DEF StartRun, NewRow
  <2>. QED BY <1>1, <1>5, <2>1, Starting DEF StartRun
<1>6. CASE WakeTimePasses(q)
  <2>1. new.status = old.status /\ new.pending = old.pending
    BY <1>1, <1>6 DEF WakeTimePasses, Row
  <2>. QED BY Zenon, <1>1, <1>6, <2>1, SamePhase DEF WakeTimePasses
<1>7. CASE HeartbeatAges(q)
  <2>1. new.status = old.status /\ new.pending = old.pending
    BY <1>1, <1>7 DEF HeartbeatAges, Row
  <2>. QED BY Zenon, <1>1, <1>7, <2>1, SamePhase DEF HeartbeatAges
<1>8. CASE DeadlinePasses(q)
  <2>1. new.status = old.status /\ new.pending = old.pending
    BY <1>1, <1>8 DEF DeadlinePasses, Row
  <2>. QED BY Zenon, <1>1, <1>8, <2>1, SamePhase DEF DeadlinePasses
<1>9. CASE CompactHistory(q)
  <2>1. new.status = old.status /\ new.pending = old.pending
    BY <1>1, <1>9 DEF CompactHistory, Row
  <2>. QED BY Zenon, <1>1, <1>9, <2>1, SamePhase DEF CompactHistory
<1>10. CASE CloseByParent(q)
  <2>1. old.status \in Open
    BY <1>2, <1>10 DEF CloseByParent, Settled
  <2>2. new \in {SettleOrMark(old, "terminated"), Preempted(old, "terminated")}
    BY <1>1, <1>10 DEF CloseByParent
  <2>. QED BY <1>1, <1>3, <1>10, <2>1, <2>2, Deciding DEF CloseByParent
<1>11. ASSUME NEW o \in {"terminated", "cancelled"}, PreemptivelySettle(q, o)
       PROVE  lease' = [lease EXCEPT ![q] = new] /\ Moves(old, new)
  <2>1. new = SettleOrMark(old, o) /\ lease' = [lease EXCEPT ![q] = new]
    BY <1>1, <1>11 DEF PreemptivelySettle
  <2>2. CASE isSettledStatus(old.status)
    <3>1. old.status = "dead_lettered" /\ o = "terminated"
      BY <1>11, <2>2 DEF PreemptivelySettle, PreemptAllowed, Settled
    <3>2. new = Preempted(old, o)
      BY <2>1, <3>1 DEF SettleOrMark, deferPhaseOwed
    <3>3. new.status = "terminated"
      BY <1>1, <3>1, <3>2 DEF Preempted, Row
    <3>. QED BY <1>1, <2>1, <3>1, <3>3, LeavingDeadLetters
  <2>3. CASE ~isSettledStatus(old.status)
    <3>1. old.status \in Open
      BY <1>2, <1>11, <2>3 DEF PreemptivelySettle, PreemptAllowed
    <3>. QED BY <1>1, <1>3, <2>1, <3>1, Deciding
  <2>. QED BY <2>2, <2>3
<1>12. ASSUME NEW o \in {"done", "failed"}, AdminForceResolve(q, o)
       PROVE  lease' = [lease EXCEPT ![q] = new] /\ Moves(old, new)
  <2>1. new = SettleOrMark(old, o) /\ lease' = [lease EXCEPT ![q] = new]
    BY <1>1, <1>12 DEF AdminForceResolve
  <2>2. old.status \in Open
    BY <1>2, <1>12 DEF AdminForceResolve, Settled
  <2>. QED BY <1>1, <1>3, <2>1, <2>2, Deciding
<1>13. CASE RetryWorkflow(q)
  <2>1. new.status = "ready" /\ old.status \in reReplayableStatuses
    BY <1>1, <1>13 DEF RetryWorkflow, RetryAllowed, Retried, Row, reReplayableStatuses
  <2>. QED BY <1>1, <1>13, <2>1, Reopening DEF RetryWorkflow
<1>14. CASE AdminReReplay(q)
  <2>1. new.status = "ready" /\ old.status \in reReplayableStatuses
    BY <1>1, <1>14 DEF AdminReReplay, ReReplayed, Retried, Row
  <2>. QED BY <1>1, <1>14, <2>1, Reopening DEF AdminReReplay
<1>. HIDE DEF old, new
<1>. QED BY <1>5, <1>6, <1>7, <1>8, <1>9, <1>10, <1>11, <1>12, <1>13, <1>14 DEF RowStep, OperatorStep

(* An execution writes under its fence, so its row is 'running', and only  *)
(* an execution that was told of no recorded outcome chooses one.          *)
LEMMA ExecStepMoves ==
    ASSUME IInv, IInv', NEW e \in execs, ExecStep(e)
    PROVE  \A r \in Runs : Moves(lease[r], lease'[r])
<1>. DEFINE q == e.run
            old == lease[q]
            new == lease'[q]
<1>1. /\ q \in Runs /\ e.worker # NULL
      /\ old \in Row /\ RowOK(old) /\ RowOK(new) /\ lease \in [Runs -> Row]
  BY Zenon, NullAssumption DEF IInv, TypeOK, Exec
<1>2. ASSUME Fence(e) PROVE old.status = "running" /\ old.status \in Open /\ e.pending = old.pending
  BY <1>1, <1>2 DEF IInv, ClaimOK, Fence, RowOK, Open
<1>3. CASE ExecEnds(e)
  BY <1>3, SamePhase DEF ExecEnds, IInv
<1>4. ASSUME NEW row, Write(e, row), Moves(old, row) PROVE \A r \in Runs : Moves(lease[r], lease'[r])
  BY Zenon, <1>1, <1>4, OneMoves DEF Write
<1>5. ASSUME NEW row, Write(e, row) PROVE RowOK(row) /\ Fence(e)
  BY <1>1, <1>5 DEF Write
<1>6. CASE Heartbeat(e)
  <2>. DEFINE row == [old EXCEPT !.stale = FALSE]
  <2>1. Write(e, row) /\ row.status = old.status /\ row.pending = old.pending
    BY <1>1, <1>6 DEF Heartbeat, Row
  <2>. HIDE DEF row
  <2>. QED BY <1>1, <1>4, <1>5, <2>1, SamePhase
<1>7. CASE RegisterDefer(e)
  <2>. DEFINE row == [old EXCEPT !.owes = TRUE]
  <2>1. Write(e, row) /\ row.status = old.status /\ row.pending = old.pending
    BY <1>1, <1>7 DEF RegisterDefer, Row
  <2>. HIDE DEF row
  <2>. QED BY <1>1, <1>4, <1>5, <2>1, SamePhase
<1>8. ASSUME NEW st \in SettledStatuses, e.pending = NULL, Write(e, completeLeaseRow(old, st))
      PROVE  \A r \in Runs : Moves(lease[r], lease'[r])
  <2>. DEFINE row == completeLeaseRow(old, st)
  <2>1. Write(e, row) /\ row.status = st
    BY <1>1, <1>8 DEF completeLeaseRow, Row
  <2>. HIDE DEF row
  <2>2. old.status \in Open /\ old.pending = NULL /\ RowOK(row)
    BY <1>2, <1>5, <1>8, <2>1
  <2>. QED BY <1>1, <1>4, <2>1, <2>2, Settling
<1>9. CASE FinalizeDone(e) \/ \E st \in {"failed", "dead_lettered"} : TerminalFailure(e, st)
  BY <1>8, <1>9 DEF FinalizeDone, TerminalFailure, SettledStatuses
<1>10. ASSUME NEW due \in BOOLEAN, FinalizeSuspend(e, due)
       PROVE  \A r \in Runs : Moves(lease[r], lease'[r])
  <2>. DEFINE row == Suspended(old, due)
  <2>1. Write(e, row) /\ row.status = "ready" /\ row.pending = old.pending
    BY <1>1, <1>10 DEF FinalizeSuspend, Suspended, Row
  <2>. HIDE DEF row
  <2>2. row.status \in Open /\ old.status \in Open /\ RowOK(row)
    BY <1>2, <1>5, <2>1 DEF Open
  <2>. QED BY <1>1, <1>4, <2>1, <2>2, SamePhase
<1>11. ASSUME NEW due \in BOOLEAN, ReleaseWorkflow(e, due)
       PROVE  \A r \in Runs : Moves(lease[r], lease'[r])
  <2>. DEFINE row == Released(old, due)
  <2>1. Write(e, row) /\ row.status = Requeued(old) /\ row.pending = old.pending
    BY <1>1, <1>11 DEF ReleaseWorkflow, Released, Row
  <2>. HIDE DEF row
  <2>2. row.status \in Open /\ old.status \in Open /\ RowOK(row)
    BY <1>2, <1>5, <2>1 DEF Open, Requeued
  <2>. QED BY <1>1, <1>4, <2>1, <2>2, SamePhase
<1>12. CASE FinalizeDeferPhase(e)
  <2>. DEFINE row == PhaseApplied(old)
  <2>1. Write(e, row) /\ row.status = old.pending /\ old.pending \in Outcomes
    BY <1>1, <1>12 DEF FinalizeDeferPhase, PhaseApplied, Row
  <2>. HIDE DEF row
  <2>2. /\ row.status \in SettledStatuses /\ row.status # "dead_lettered"
        /\ old.status \in Open /\ RowOK(row)
    BY <1>2, <1>5, <2>1 DEF Outcomes, SettledStatuses
  <2>. QED BY <1>1, <1>4, <2>1, <2>2, Settling
<1>13. ASSUME NEW n \in Runs, ContinueAsNew(e, n)
       PROVE  \A r \in Runs : Moves(lease[r], lease'[r])
  <2>1. new.status = "done" /\ old.status \in Open /\ old.pending = NULL
    BY Zenon, <1>1, <1>2, <1>13 DEF ContinueAsNew, completeLeaseRow, Row
  <2>2. Moves(old, new)
    BY <1>1, <2>1, Settling DEF SettledStatuses
  <2>3. lease'[n].status = "ready" /\ lease[n].status = "absent"
    BY <1>1, <1>13 DEF ContinueAsNew, NewRow
  <2>4. Moves(lease[n], lease'[n])
    BY <2>3, Starting DEF IInv
  <2>5. \A r \in Runs \ {n, q} : lease'[r] = lease[r]
    BY <1>1, <1>13 DEF ContinueAsNew
  <2>. QED BY <2>2, <2>4, <2>5, SamePhase DEF IInv
<1>. QED BY <1>3, <1>6, <1>7, <1>9, <1>10, <1>11, <1>12, <1>13 DEF ExecStep

LEMMA ClaimMoves ==
    ASSUME IInv, IInv', NEW w \in Workers, NEW q \in Runs, ClaimWorkflow(w, q) \/ ClaimSticky(w, q)
    PROVE  \A r \in Runs : Moves(lease[r], lease'[r])
<1>. DEFINE row == Claimed(lease[q], w)
<1>1. lease' = [lease EXCEPT ![q] = row] /\ lease[q] \in Row /\ RowOK(lease[q])
  BY DEF ClaimWorkflow, ClaimSticky, Claim, IInv, TypeOK
<1>2. row.status \in Open /\ row.pending = lease[q].pending /\ lease[q].status \in Open
  BY <1>1 DEF ClaimWorkflow, ClaimSticky, Claimed, Row, Open
<1>. HIDE DEF row
<1>3. RowOK(row)
  BY <1>1 DEF IInv, TypeOK
<1>. QED BY Zenon, <1>1, <1>2, <1>3, SamePhase, OneMoves

LEMMA SweepMoves ==
    ASSUME IInv, IInv', ExpireDeferPhases \/ \E X \in SUBSET Runs : ReapStaleInstances(X)
    PROVE  \A r \in Runs : Moves(lease[r], lease'[r])
<1>. SUFFICES ASSUME NEW r \in Runs PROVE Moves(lease[r], lease'[r])
  OBVIOUS
<1>1. lease[r] \in Row /\ RowOK(lease[r]) /\ RowOK(lease'[r])
  BY DEF IInv, TypeOK
<1>2. CASE lease'[r] = lease[r]
  BY <1>1, <1>2, SamePhase
<1>3. CASE lease'[r] = Reaped(lease[r]) /\ r \in StaleRuns
  <2>1. lease'[r].status = Requeued(lease[r]) /\ lease'[r].pending = lease[r].pending
    BY <1>1, <1>3 DEF Reaped, Row
  <2>2. lease[r].status \in Open /\ lease'[r].status \in Open
    BY <1>3, <2>1 DEF StaleRuns, Open, Requeued
  <2>. QED BY <1>1, <2>1, <2>2, SamePhase
<1>4. CASE lease'[r] = PhaseExpired(lease[r]) /\ r \in OverdueRuns
  <2>1. lease'[r].status = lease[r].pending /\ lease[r].pending \in Outcomes
    BY <1>1, <1>4 DEF PhaseExpired, PhaseApplied, Row, OverdueRuns
  <2>2. /\ lease'[r].status \in SettledStatuses /\ lease'[r].status # "dead_lettered"
        /\ lease[r].status \in Open
    BY Zenon, <1>1, <1>4, <2>1 DEF Outcomes, SettledStatuses, OverdueRuns, RowOK, Open
  <2>. QED BY <1>1, <2>1, <2>2, Settling
<1>. QED BY <1>2, <1>3, <1>4 DEF ExpireDeferPhases, ReapStaleInstances

LEMMA StepMoves ==
    ASSUME IInv, [Next]_vars
    PROVE  \A r \in Runs : Moves(lease[r], lease'[r])
<1>1. IInv'
  BY StepPreserves
<1>2. CASE UNCHANGED vars
  BY <1>2, SamePhase DEF vars, IInv
<1>. QED BY <1>1, <1>2, RowStepMoves, ExecStepMoves, ClaimMoves, SweepMoves DEF Next

(* A settled run keeps its outcome but for the dead-letter queue's verbs   *)
(* and re-replay, for any number of runs, workers and attempts.            *)
THEOREM Finality == Spec => SettledIsFinal
<1>1. IInv /\ [Next]_vars =>
        [\A r \in Runs : Settled(r) /\ lease'[r].status # lease[r].status =>
            \/ lease[r].status \in reReplayableStatuses /\ lease'[r].status = "ready"
            \/ lease[r].status = "dead_lettered" /\ lease'[r].status = "terminated"]_vars
  BY StepMoves DEF Moves, Settled
<1>. QED BY Invariance, <1>1, PTL DEF Spec, SettledIsFinal

(* The rows, claims, fences and sweeps implement the client's life cycle.  *)
THEOREM Refinement == Spec => ImplementsLifecycle
<1>1. Init => Lifecycle!Init
  BY NullAssumption DEF Init, Lifecycle!Init, Lifecycle!At, NewRow, PhaseOf, isSettledStatus, SettledStatuses
<1>2. IInv /\ IInv' /\ [Next]_vars => [Lifecycle!Next]_([r \in Runs |-> PhaseOf(lease[r])])
  <2>. SUFFICES ASSUME IInv, IInv', [Next]_vars PROVE Lifecycle!Next
    BY Zenon
  <2>1. \A r \in Runs : PhaseOf(lease'[r]) \in Lifecycle!Phases
    BY DEF IInv, RowOK, Row, Statuses, SettledStatuses, Outcomes, PhaseOf, isSettledStatus,
       Lifecycle!Phases, Lifecycle!At, Lifecycle!ClosingTowards, Lifecycle!SettledOn, Lifecycle!Recordable
  <2>2. \A r \in Runs : \/ PhaseOf(lease'[r]) = PhaseOf(lease[r])
                        \/ Lifecycle!Step(PhaseOf(lease[r]), PhaseOf(lease'[r]))
    BY StepMoves DEF Moves
  <2>. QED BY <2>1, <2>2 DEF Lifecycle!Next
<1>. QED BY Invariance, <1>1, <1>2, PTL DEF Spec, ImplementsLifecycle, Lifecycle!Spec

-----------------------------------------------------------------------------
(* A recorded outcome is kept or applied.                                  *)
KeepsOutcome(old, new) ==
    old.pending # NULL => \/ new.pending = old.pending
                          \/ new.pending = NULL /\ new.status = old.pending

(* Whoever writes a row but an operator or the parent keeps the outcome:   *)
(* an execution that was told of none holds a row without one.             *)
LEMMA ExecKeepsOutcome ==
    ASSUME IInv, NEW e \in execs, ExecStep(e)
    PROVE  \A r \in Runs : KeepsOutcome(lease[r], lease'[r])
<1>. DEFINE old == lease[e.run]
<1>1. e.run \in Runs /\ old \in Row /\ lease \in [Runs -> Row]
  BY DEF IInv, TypeOK, Exec
<1>2. ASSUME Fence(e) PROVE e.pending = old.pending
  BY <1>2 DEF IInv, ClaimOK
<1>3. ASSUME NEW row, Write(e, row), KeepsOutcome(old, row)
      PROVE  \A r \in Runs : KeepsOutcome(lease[r], lease'[r])
  <2>1. lease' = [lease EXCEPT ![e.run] = row]
    BY <1>3 DEF Write
  <2>2. lease'[e.run] = row /\ \A r \in Runs \ {e.run} : lease'[r] = lease[r]
    BY <1>1, <2>1
  <2>. QED BY Zenon, <1>3, <2>2 DEF KeepsOutcome
<1>4. ASSUME NEW row, Write(e, row), e.pending = NULL PROVE KeepsOutcome(old, row)
  BY <1>2, <1>4 DEF Write, KeepsOutcome
<1>5. KeepsOutcome(old, [old EXCEPT !.stale = FALSE])
  BY <1>1 DEF KeepsOutcome, Row
<1>6. ASSUME NEW due \in BOOLEAN PROVE KeepsOutcome(old, Released(old, due))
  BY <1>1 DEF KeepsOutcome, Released, Row
<1>7. KeepsOutcome(old, PhaseApplied(old))
  BY <1>1 DEF KeepsOutcome, PhaseApplied, Row
<1>8. ASSUME NEW n \in Runs, ContinueAsNew(e, n)
      PROVE  \A r \in Runs : KeepsOutcome(lease[r], lease'[r])
  <2>1. old.pending = NULL
    BY <1>2, <1>8 DEF ContinueAsNew
  <2>2. lease[n].pending = NULL
    BY <1>8 DEF ContinueAsNew, IInv, RowOK
  <2>3. \A r \in Runs \ {n, e.run} : lease'[r] = lease[r]
    BY <1>1, <1>8 DEF ContinueAsNew
  <2>. QED BY Zenon, <2>1, <2>2, <2>3 DEF KeepsOutcome
<1>9. CASE ExecEnds(e)
  BY <1>9 DEF ExecEnds, KeepsOutcome
<1>. QED
  BY Zenon, <1>3, <1>4, <1>5, <1>6, <1>7, <1>8, <1>9 DEF ExecStep, Heartbeat, RegisterDefer, FinalizeDone,
     FinalizeSuspend, TerminalFailure, ReleaseWorkflow, FinalizeDeferPhase

LEMMA StepKeepsOutcome ==
    ASSUME IInv, [Next]_vars, ~\E r \in Runs : OperatorStep(r) \/ CloseByParent(r)
    PROVE  \A r \in Runs : KeepsOutcome(lease[r], lease'[r])
<1>1. /\ lease \in [Runs -> Row]
      /\ \A r \in Runs : lease[r] \in Row /\ RowOK(lease[r])
  BY DEF IInv, TypeOK
<1>2. ASSUME NEW q \in Runs, RowStep(q)
      PROVE  \A r \in Runs : KeepsOutcome(lease[r], lease'[r])
  <2>1. \A r \in Runs \ {q} : lease'[r] = lease[r]
    BY <1>1, <1>2 DEF RowStep, StartRun, WakeTimePasses, HeartbeatAges, DeadlinePasses, CloseByParent, CompactHistory
  <2>2. CASE StartRun(q)
    BY <1>1, <2>1, <2>2 DEF StartRun, RowOK, KeepsOutcome
  <2>3. CASE WakeTimePasses(q) \/ HeartbeatAges(q) \/ DeadlinePasses(q) \/ CompactHistory(q)
    <3>1. lease'[q].pending = lease[q].pending
      BY <1>1, <2>3 DEF WakeTimePasses, HeartbeatAges, DeadlinePasses, CompactHistory, Row
    <3>. QED BY Zenon, <2>1, <3>1 DEF KeepsOutcome
  <2>. QED BY Zenon, <1>2, <2>2, <2>3 DEF RowStep
<1>3. ASSUME NEW w \in Workers, NEW q \in Runs, ClaimWorkflow(w, q) \/ ClaimSticky(w, q)
      PROVE  \A r \in Runs : KeepsOutcome(lease[r], lease'[r])
  <2>1. lease' = [lease EXCEPT ![q] = Claimed(lease[q], w)]
    BY <1>3 DEF ClaimWorkflow, ClaimSticky, Claim
  <2>2. lease'[q].pending = lease[q].pending
    BY <1>1, <2>1 DEF Claimed, Row
  <2>3. \A r \in Runs \ {q} : lease'[r] = lease[r]
    BY <1>1, <2>1
  <2>. QED BY Zenon, <2>2, <2>3 DEF KeepsOutcome
<1>4. ASSUME NEW X \in SUBSET Runs, ReapStaleInstances(X), NEW r \in Runs
      PROVE  KeepsOutcome(lease[r], lease'[r])
  <2>1. lease'[r] = lease[r] \/ lease'[r] = Reaped(lease[r])
    BY <1>4 DEF ReapStaleInstances
  <2>2. Reaped(lease[r]).pending = lease[r].pending
    BY <1>1 DEF Reaped, Row
  <2>. QED BY Zenon, <2>1, <2>2 DEF KeepsOutcome
<1>5. ASSUME ExpireDeferPhases, NEW r \in Runs PROVE KeepsOutcome(lease[r], lease'[r])
  <2>1. lease'[r] = lease[r] \/ lease'[r] = PhaseExpired(lease[r])
    BY <1>5 DEF ExpireDeferPhases
  <2>2. PhaseExpired(lease[r]).pending = NULL /\ PhaseExpired(lease[r]).status = lease[r].pending
    BY <1>1 DEF PhaseExpired, PhaseApplied, Row
  <2>. QED BY Zenon, <2>1, <2>2 DEF KeepsOutcome
<1>6. CASE UNCHANGED vars
  BY <1>6 DEF vars, KeepsOutcome
<1>. QED BY Zenon, <1>2, <1>3, <1>4, <1>5, <1>6, ExecKeepsOutcome DEF Next

(* Once an outcome is recorded only a new decision from outside replaces   *)
(* it: every other step keeps it, or settles the run to it.                *)
THEOREM OutcomeStands == Spec => RecordedOutcomeWins
<1>. DEFINE Wins ==
        (\E r \in Runs : OperatorStep(r) \/ CloseByParent(r)) \/
        \A r \in Runs : LET o == lease[r].pending IN o # NULL =>
            \/ lease'[r].pending = o /\ lease'[r].status \in {"terminating", "running"}
            \/ lease'[r].pending = NULL /\ lease'[r].status = o
<1>1. IInv /\ IInv' /\ [Next]_vars => Wins
  <2>. SUFFICES ASSUME IInv, IInv', [Next]_vars, ~\E r \in Runs : OperatorStep(r) \/ CloseByParent(r),
                       NEW r \in Runs, lease[r].pending # NULL
                PROVE  \/ /\ lease'[r].pending = lease[r].pending
                          /\ lease'[r].status \in {"terminating", "running"}
                       \/ lease'[r].pending = NULL /\ lease'[r].status = lease[r].pending
    OBVIOUS
  <2>1. KeepsOutcome(lease[r], lease'[r])
    BY StepKeepsOutcome
  <2>2. lease'[r].pending # NULL => lease'[r].status \in {"terminating", "running"}
    BY DEF IInv, RowOK
  <2>. QED BY <2>1, <2>2 DEF KeepsOutcome
<1>2. IInv /\ [Next]_vars => IInv'
  BY StepPreserves
<1>. QED BY Invariance, <1>1, <1>2, PTL DEF Spec, RecordedOutcomeWins
=============================================================================
