---------------------------- MODULE WorkerFence ----------------------------
(***************************************************************************)
(* How one worker stops the executions that have lost their run.  Four     *)
(* pieces of the process meet without a lock: the dispatcher that claims   *)
(* and stores, the execution's goroutine that registers and deregisters,   *)
(* the heartbeat loop that asks the database and applies its verdict, and  *)
(* the durable call that asks runIsFenced.  They share three maps keyed by *)
(* run id; this module has one run, so each map is one register that holds *)
(* a generation, or 0 for no entry.                                        *)
(*                                                                         *)
(* An execution is named by its generation.  The row moves as in RunLease: *)
(* a claim and a reap raise the generation, a suspend gives the row back   *)
(* at the generation it has.                                               *)
(***************************************************************************)
EXTENDS Naturals

CONSTANTS
    MaxGeneration,  \* bound: no claim or reap once the row is here
    MaxErrors,      \* bound on heartbeats the database does not answer
    MaxReaps,       \* bound on reaps
    Overtakes       \* this worker may claim the run while an execution of an
                    \* earlier generation is still at work in it

ASSUME FenceAssumption == /\ MaxGeneration \in Nat /\ MaxErrors \in Nat /\ MaxReaps \in Nat
                          /\ Overtakes \in BOOLEAN

VARIABLES
    row,         \* workflow_leases: who holds the run, at which generation
    phase,       \* by generation: how far this worker's execution of it is
    inflight,    \* w.inflight[id]: the instance, by its generation
    execCancel,  \* w.execCancel[id]: the registration, by its generation
    fencedRuns,  \* w.fencedRuns[id]
    cancelled,   \* generations whose context the fence has cancelled
    hb,          \* the heartbeat loop: its next step, what it sent and loaded
    judged,      \* history: generations this worker has marked as fenced
    errors, reaps

vars == <<row, phase, inflight, execCancel, fencedRuns, cancelled, hb, judged, errors, reaps>>

Generations == 1..MaxGeneration
Phases == {"none", "claimed", "stored", "running",
           "ending", "ending2", "ending3", "gone"}
AtWork == {"stored", "running"}

Holds(g) == row.holder = "me" /\ row.gen = g

\* freshCall refuses a new durable call when this is true
runIsFenced(g) == fencedRuns = g
-----------------------------------------------------------------------------
Idle == [pc |-> "idle", sent |-> 0, wf |-> 0, reg |-> 0]

Init == /\ row = [holder |-> "none", gen |-> 0]
        /\ phase = [g \in Generations |-> "none"]
        /\ inflight = 0 /\ execCancel = 0 /\ fencedRuns = 0
        /\ cancelled = {} /\ judged = {}
        /\ hb = Idle
        /\ errors = 0 /\ reaps = 0

maps == <<inflight, execCancel, fencedRuns>>
fence == <<cancelled, hb, judged>>
counts == <<errors, reaps>>

(* The dispatcher: one batch at a time, the claim committed before the map *)
(* holds anything of it.                                                   *)
Claim(g) ==
    /\ row.holder = "none" /\ g = row.gen + 1
    /\ \A h \in Generations : phase[h] # "claimed"
    /\ Overtakes \/ \A h \in Generations : phase[h] \notin AtWork
    /\ row' = [holder |-> "me", gen |-> g]
    /\ phase' = [phase EXCEPT ![g] = "claimed"]
    /\ UNCHANGED <<maps, fence, counts>>

Dispatch(g) ==
    /\ phase[g] = "claimed"
    /\ phase' = [phase EXCEPT ![g] = "stored"]
    /\ inflight' = g
    /\ UNCHANGED <<row, execCancel, fencedRuns, fence, counts>>

(* executeWorkflow: its goroutine registers first; it ends with the row    *)
(* given back if its write still finds its fence, and with an error if not. *)
Register(g) ==
    /\ phase[g] = "stored"
    /\ phase' = [phase EXCEPT ![g] = "running"]
    /\ execCancel' = g
    /\ UNCHANGED <<row, inflight, fencedRuns, fence, counts>>

Finish(g) ==
    /\ phase[g] = "running"
    /\ phase' = [phase EXCEPT ![g] = "ending"]
    /\ row' = IF Holds(g) THEN [row EXCEPT !.holder = "none"] ELSE row
    /\ UNCHANGED <<maps, fence, counts>>

(* deregisterExecution: one CompareAndDelete after the other. *)
CompareAndDelete(register, g) == IF register = g THEN 0 ELSE register

deregisterExecution(g) ==
    /\ \/ /\ phase[g] = "ending"
          /\ phase' = [phase EXCEPT ![g] = "ending2"]
          /\ inflight' = CompareAndDelete(inflight, g)
          /\ UNCHANGED <<execCancel, fencedRuns>>
       \/ /\ phase[g] = "ending2"
          /\ phase' = [phase EXCEPT ![g] = "ending3"]
          /\ fencedRuns' = CompareAndDelete(fencedRuns, g)
          /\ UNCHANGED <<inflight, execCancel>>
       \/ /\ phase[g] = "ending3"
          /\ phase' = [phase EXCEPT ![g] = "gone"]
          /\ execCancel' = CompareAndDelete(execCancel, g)
          /\ UNCHANGED <<inflight, fencedRuns>>
    /\ UNCHANGED <<row, fence, counts>>
-----------------------------------------------------------------------------
(* The other workers: one claims the run, one gives it back, and the       *)
(* reaper of one takes it from this worker.                                *)
OtherClaims ==
    /\ row.holder = "none" /\ row.gen < MaxGeneration
    /\ row' = [holder |-> "other", gen |-> row.gen + 1]
    /\ UNCHANGED <<phase, maps, fence, counts>>

OtherReleases ==
    /\ row.holder = "other"
    /\ row' = [row EXCEPT !.holder = "none"]
    /\ UNCHANGED <<phase, maps, fence, counts>>

Reap ==
    /\ row.holder = "me" /\ row.gen < MaxGeneration /\ reaps < MaxReaps
    /\ row' = [holder |-> "none", gen |-> row.gen + 1]
    /\ reaps' = reaps + 1
    /\ UNCHANGED <<phase, maps, fence, errors>>
-----------------------------------------------------------------------------
(* heartbeatAndFenceInFlight, one map access or one call at a time. *)
HeartbeatWorks == <<row, phase, counts>>

Snapshot ==
    /\ hb.pc = "idle" /\ inflight # 0
    /\ hb' = [Idle EXCEPT !.pc = "ask", !.sent = inflight]
    /\ UNCHANGED <<HeartbeatWorks, maps, cancelled, judged>>

HeartbeatBatchFenced ==
    /\ hb.pc = "ask"
    /\ hb' = IF Holds(hb.sent) THEN Idle ELSE [hb EXCEPT !.pc = "wf"]
    /\ UNCHANGED <<HeartbeatWorks, maps, cancelled, judged>>

HeartbeatFails ==
    /\ hb.pc = "ask" /\ errors < MaxErrors
    /\ hb' = Idle
    /\ errors' = errors + 1
    /\ UNCHANGED <<row, phase, maps, cancelled, judged, reaps>>

LoadInflight ==
    /\ hb.pc = "wf"
    /\ hb' = IF inflight = 0 THEN Idle
             ELSE [hb EXCEPT !.pc = "reg", !.wf = inflight]
    /\ UNCHANGED <<HeartbeatWorks, maps, cancelled, judged>>

\* both entries are the ones the database judged
SameWithoutGeneration(h) == TRUE
SameGeneration(h) == h.wf = h.sent /\ h.reg = h.sent

LoadExecCancel ==
    /\ hb.pc = "reg"
    /\ LET loaded == [hb EXCEPT !.pc = "mark", !.reg = execCancel] IN
       hb' = IF execCancel = 0 \/ ~SameGeneration(loaded) THEN Idle ELSE loaded
    /\ UNCHANGED <<HeartbeatWorks, maps, cancelled, judged>>

Mark(g) == g

StoreFencedRun ==
    /\ hb.pc = "mark"
    /\ fencedRuns' = Mark(hb.sent)
    /\ judged' = judged \cup {hb.sent}
    /\ hb' = [hb EXCEPT !.pc = "cancel"]
    /\ UNCHANGED <<HeartbeatWorks, inflight, execCancel, cancelled>>

CancelExecution ==
    /\ hb.pc = "cancel"
    /\ cancelled' = cancelled \cup {hb.reg}
    /\ hb' = Idle
    /\ UNCHANGED <<HeartbeatWorks, maps, judged>>

HeartbeatStep == \/ Snapshot \/ HeartbeatBatchFenced \/ LoadInflight \/ LoadExecCancel
                 \/ StoreFencedRun \/ CancelExecution
-----------------------------------------------------------------------------
Next ==
    \/ OtherClaims \/ OtherReleases \/ Reap
    \/ HeartbeatStep \/ HeartbeatFails
    \/ \E g \in Generations :
          Claim(g) \/ Dispatch(g) \/ Register(g) \/ Finish(g) \/ deregisterExecution(g)

Spec == Init /\ [][Next]_vars

(* The heartbeat loop ticks for ever and the steps of the dispatcher and   *)
(* of a goroutine's start and end do not wait for anything.  Nothing makes *)
(* a guest return, another worker claim, or a claim happen.                *)
FairSpec == /\ Spec
            /\ WF_vars(HeartbeatStep)
            /\ \A g \in Generations : /\ WF_vars(Dispatch(g))
                                      /\ WF_vars(Register(g))
                                      /\ WF_vars(deregisterExecution(g))
-----------------------------------------------------------------------------
(* Every register has its type, and each phase is reached only by a        *)
(* generation the row has reached.                                         *)
TypeOK ==
    /\ row \in [holder: {"none", "me", "other"}, gen: 0..MaxGeneration]
    /\ phase \in [Generations -> Phases]
    /\ {inflight, execCancel, fencedRuns} \subseteq 0..MaxGeneration
    /\ cancelled \subseteq Generations /\ judged \subseteq Generations
    /\ hb \in [pc: {"idle", "ask", "wf", "reg", "mark", "cancel"}, sent: 0..MaxGeneration,
               wf: 0..MaxGeneration, reg: 0..MaxGeneration]
    /\ errors \in 0..MaxErrors /\ reaps \in 0..MaxReaps
    /\ \A g \in Generations : phase[g] # "none" => g <= row.gen

(* The execution that holds the run is never refused a durable call nor    *)
(* cancelled by the verdict on an earlier generation (setup.go:4633).      *)
HolderMayWork ==
    \A g \in Generations : Holds(g) => ~runIsFenced(g) /\ g \notin cancelled

(* The teardown of an execution leaves the entries of its successor alone: *)
(* the latest execution at work finds itself in inflight and, once it has  *)
(* registered, in execCancel (setup.go:3463).                              *)
LatestKeepsItsEntries ==
    \A g \in Generations :
        /\ phase[g] \in AtWork
        /\ \A h \in Generations : h > g => phase[h] \notin AtWork
        => /\ inflight = g
           /\ phase[g] = "running" => execCancel = g

(* runIsFenced answers whether this generation's own heartbeat reported it *)
(* lost: an execution at work that was marked stays refused.               *)
JudgedStaysFenced ==
    \A g \in Generations : phase[g] = "running" /\ g \in judged => runIsFenced(g)

(* An execution that lost its run is refused its durable calls in the end, *)
(* unless it ends by itself: there comes a time when none is left          *)
(* (heartbeatAndFenceInFlight).                                            *)
Unstopped(g) == phase[g] = "running" /\ ~Holds(g) /\ ~runIsFenced(g)
LostIsStopped ==
    LET Left == \E g \in Generations : Unstopped(g) IN Left ~> ~Left
=============================================================================
