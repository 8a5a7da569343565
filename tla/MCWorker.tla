------------------------------ MODULE MCWorker ------------------------------
(***************************************************************************)
(* How one worker keeps, loses and gives up its runs, on small instances   *)
(* of which a behaviour takes one:                                         *)
(*   fence    WorkerFence (its own variables, the configuration's          *)
(*            constants);                                                  *)
(*   lapse    HeartbeatClock with a run of the own tenant and one of       *)
(*            another, every call may fail or come late;                   *)
(*   silence  HeartbeatClock whose other tenant does not answer;           *)
(*   stall    StallGuard with two holders, stalls of both kinds shorter    *)
(*            than the window, one death;                                  *)
(*   deaths   StallGuard with two holders, a long fleet stall, two deaths; *)
(*   veto     HolderVeto with two runs;                                    *)
(*   stop     WorkerStop with two runs of two calls;                       *)
(*   cap      WorkerStop with two runs for one slot;                       *)
(*   second   WorkerStop with one run and a second dispatch loop;          *)
(*   exit     WorkerStop with a sticky and another run, claim errors and   *)
(*            the watchdog;                                                *)
(*   parted   WorkerStop with one run and partitions.                      *)
(***************************************************************************)
EXTENDS WorkerFence

CONSTANT NULL

VARIABLES scenario,
          state, heartbeat_at, claimedAfter, lastHeartbeatOK, groupHeartbeatOK, beat, vouched,
          age, tick,
          dead, stall, length, stalls, ping, trouble, contact, since, wronged,
          gen, holds, sweep, broken, unanswered, failures, deaths,
          rows, claims, disp, running, ex, step, fenced, w

clockVars == <<state, heartbeat_at, claimedAfter, lastHeartbeatOK, groupHeartbeatOK, beat, vouched>>
agesVars == <<age, tick>>
stallVars == <<dead, stall, length, stalls, ping, trouble, contact, since, wronged>>
vetoVars == <<gen, holds, sweep, broken, unanswered, failures, deaths>>
stopVars == <<rows, claims, disp, running, ex, step, fenced, w>>
allVars == <<scenario, vars, clockVars, agesVars, stallVars, vetoVars, stopVars>>
-----------------------------------------------------------------------------
Own == "own"
Tenants == <<"t1">>
Deadline == 1
Lapse == INSTANCE HeartbeatClock WITH
    Runs <- {"a", "c"}, TenantOf <- [a |-> "own", c |-> "t1"], Window <- 2, Interval <- 1,
    ClaimDelay <- 1, Stays <- {}, OwnFails <- TRUE, Overruns <- TRUE, hb <- beat
Silence == INSTANCE HeartbeatClock WITH
    Runs <- {"a", "c"}, TenantOf <- [a |-> "own", c |-> "t1"], Window <- 5, Interval <- 1,
    ClaimDelay <- 1, Stays <- {"a"}, OwnFails <- FALSE, Overruns <- FALSE, hb <- beat

Heartbeat == 1
Slack == 1
ReclaimAfter == 6
ReaperInterval == 2
Tail == 1
Stalled == INSTANCE StallGuard WITH
    Holders <- {"h1", "h2", "h3"}, Kinds <- {"fleet", "database"},
    MaxStall <- 7, MaxStalls <- 1, MaxDeaths <- 1, MaxAge <- 11
Deaths == INSTANCE StallGuard WITH
    Holders <- {"h1", "h2"}, Kinds <- {"fleet"},
    MaxStall <- 11, MaxStalls <- 2, MaxDeaths <- 2, MaxAge <- 17

Veto == INSTANCE HolderVeto WITH
    Runs <- {"a", "b"}, Window <- 2, Budget <- 1, Limit <- 0,
    MaxGeneration <- 2, MaxUnanswered <- 1, MaxFailures <- 1, MaxDeaths <- 1

Sticky == {}
Cap == 2
Loops == {1}
MaxAttempts == 2
MaxClaims == 1
Partitions == FALSE
ClaimErrors == FALSE
Poison == FALSE
Stop == INSTANCE WorkerStop WITH
    Runs <- {1, 2}, Program <- [r \in {1, 2} |-> <<"plain", "plain">>], MaxClaims <- 2,
    row <- rows, inflight <- running
Capped == INSTANCE WorkerStop WITH
    Runs <- {1, 2}, Program <- [r \in {1, 2} |-> <<"plain">>], Cap <- 1, MaxClaims <- 2,
    row <- rows, inflight <- running
Second == INSTANCE WorkerStop WITH
    Runs <- {1}, Program <- <<<<"plain", "plain">>>>, MaxClaims <- 2, Loops <- {1, 2},
    row <- rows, inflight <- running
Exit == INSTANCE WorkerStop WITH
    Runs <- {1, 2}, Program <- [r \in {1, 2} |-> IF r = 1 THEN <<"intent">> ELSE <<"retry">>],
    Sticky <- {1}, ClaimErrors <- TRUE, Poison <- TRUE,
    row <- rows, inflight <- running
Parted == INSTANCE WorkerStop WITH
    Runs <- {1}, Program <- <<<<"intent", "retry">>>>, MaxClaims <- 2, Partitions <- TRUE,
    row <- rows, inflight <- running

ASSUME /\ Lapse!ConstantsOK /\ Silence!ConstantsOK /\ Stalled!ConstantsOK /\ Deaths!ConstantsOK
       /\ Veto!ConstantsOK /\ Stop!ConstantsOK /\ Capped!ConstantsOK /\ Second!ConstantsOK /\ Exit!ConstantsOK
       /\ Parted!ConstantsOK
-----------------------------------------------------------------------------
NoClock == /\ state = NULL /\ heartbeat_at = NULL /\ claimedAfter = NULL
           /\ lastHeartbeatOK = NULL /\ groupHeartbeatOK = NULL /\ beat = NULL
           /\ vouched = NULL
NoAges == /\ age = NULL /\ tick = NULL
NoStall == /\ dead = NULL /\ stall = NULL /\ length = NULL /\ stalls = NULL
           /\ ping = NULL /\ trouble = NULL /\ contact = NULL /\ since = NULL
           /\ wronged = NULL
NoVeto == /\ gen = NULL /\ holds = NULL /\ sweep = NULL /\ broken = NULL
          /\ unanswered = NULL /\ failures = NULL /\ deaths = NULL
NoStop == /\ rows = NULL /\ claims = NULL /\ disp = NULL /\ running = NULL /\ ex = NULL
          /\ step = NULL /\ fenced = NULL /\ w = NULL

MCInit ==
    /\ Init
    /\ \/ scenario = "fence" /\ NoClock /\ NoAges /\ NoStall /\ NoVeto /\ NoStop
       \/ scenario = "lapse" /\ Lapse!Init /\ NoAges /\ NoStall /\ NoVeto /\ NoStop
       \/ scenario = "silence" /\ Silence!Init /\ NoAges /\ NoStall /\ NoVeto /\ NoStop
       \/ scenario = "stall" /\ Stalled!Init /\ NoClock /\ NoVeto /\ NoStop
       \/ scenario = "deaths" /\ Deaths!Init /\ NoClock /\ NoVeto /\ NoStop
       \/ scenario = "veto" /\ Veto!Init /\ NoClock /\ NoStall /\ NoStop
       \/ scenario = "stop" /\ Stop!Init /\ NoClock /\ NoAges /\ NoStall /\ NoVeto
       \/ scenario = "cap" /\ Capped!Init /\ NoClock /\ NoAges /\ NoStall /\ NoVeto
       \/ scenario = "second" /\ Second!Init /\ NoClock /\ NoAges /\ NoStall /\ NoVeto
       \/ scenario = "exit" /\ Exit!Init /\ NoClock /\ NoAges /\ NoStall /\ NoVeto
       \/ scenario = "parted" /\ Parted!Init /\ NoClock /\ NoAges /\ NoStall /\ NoVeto

NotClock == UNCHANGED <<vars, agesVars, stallVars, vetoVars, stopVars>>
NotStall == UNCHANGED <<vars, clockVars, vetoVars, stopVars>>
NotVeto == UNCHANGED <<vars, clockVars, stallVars, stopVars>>
NotStop == UNCHANGED <<vars, clockVars, agesVars, stallVars, vetoVars>>

MCNext ==
    /\ \/ /\ scenario = "fence" /\ Next
          /\ UNCHANGED <<clockVars, agesVars, stallVars, vetoVars, stopVars>>
       \/ scenario = "lapse" /\ Lapse!Next /\ NotClock
       \/ scenario = "silence" /\ Silence!Next /\ NotClock
       \/ scenario = "stall" /\ Stalled!Next /\ NotStall
       \/ scenario = "deaths" /\ Deaths!Next /\ NotStall
       \/ scenario = "veto" /\ Veto!Next /\ NotVeto
       \/ scenario = "stop" /\ Stop!Next /\ NotStop
       \/ scenario = "cap" /\ Capped!Next /\ NotStop
       \/ scenario = "second" /\ Second!Next /\ NotStop
       \/ scenario = "exit" /\ Exit!Next /\ NotStop
       \/ scenario = "parted" /\ Parted!Next /\ NotStop
    /\ UNCHANGED scenario

InFence(act) == /\ scenario = "fence" /\ act
                /\ UNCHANGED <<scenario, clockVars, agesVars, stallVars, vetoVars, stopVars>>
InExit(act) == scenario = "exit" /\ act /\ UNCHANGED scenario /\ NotStop
InParted(act) == scenario = "parted" /\ act /\ UNCHANGED scenario /\ NotStop

(* The fairness of WorkerFence, and of WorkerStop for exit and parted.     *)
MCSpec ==
    /\ MCInit /\ [][MCNext]_allVars
    /\ WF_allVars(InFence(HeartbeatStep))
    /\ \A g \in Generations : /\ WF_allVars(InFence(Dispatch(g)))
                              /\ WF_allVars(InFence(Register(g)))
                              /\ WF_allVars(InFence(deregisterExecution(g)))
    /\ WF_allVars(InExit(Exit!Dispatch)) /\ WF_allVars(InExit(Exit!gracefulShutdown))
    /\ WF_allVars(InExit(Exit!Exit))
    /\ \A r \in {1, 2} : WF_allVars(InExit(Exit!Execute(r))) /\ WF_allVars(InExit(Exit!Reap(r)))
    /\ WF_allVars(InParted(Parted!Dispatch)) /\ WF_allVars(InParted(Parted!gracefulShutdown))
    /\ WF_allVars(InParted(Parted!Exit))
    /\ WF_allVars(InParted(Parted!Execute(1))) /\ WF_allVars(InParted(Parted!Reap(1)))
-----------------------------------------------------------------------------
(* A run that has been in an answered beat starts no durable call once     *)
(* another worker may have taken it, whatever is answered late, times out  *)
(* or dies afterwards (heartbeatPresumedLostFor).                          *)
VouchedRunIsRefusedInTime ==
    scenario = "lapse" => Lapse!TypeOK /\ Lapse!VouchedRunIsRefusedInTime

(* The own tenant's runs are not refused on another tenant's silence       *)
(* (heartbeatAndFenceInFlight).                                            *)
OwnBeatCounts == scenario = "silence" => Silence!OwnBeatCounts

(* No stall of these lengths costs a worker that is alive its run, neither *)
(* during the stall nor in the tail of its recovery (evaluate).            *)
NoLiveRunReaped == scenario = "stall" => Stalled!TypeOK /\ Stalled!NoLiveRunReaped

(* A dead worker's run is reclaimed: its row is never older than two       *)
(* windows and two ticks of the reaper, and with nobody stalled, one of    *)
(* each.                                                                   *)
DeadRunIsReclaimed ==
    scenario = "deaths" => Deaths!DeadRunIsReclaimed /\ Deaths!DeathAloneIsNotAStall

(* A run that was stale when the tick began, and that its holder still has *)
(* and would say so, is not reclaimed within two windows (staleRowsToAsk). *)
HeldRowWaits == scenario = "veto" => Veto!TypeOK /\ Veto!HeldRowWaits

(* No holder delays the reclaim of its run by more than one window.        *)
VetoIsBounded == scenario = "veto" => Veto!VetoIsBounded

(* A run that was cut off is never settled by what its guest made of being *)
(* cut off (hard stop, writeTerminalFailure).                              *)
CutOffIsNeverAnOutcome == [][scenario = "stop" => Stop!CutOffIsNeverAnOutcomeStep]_allVars

(* When the grace ends and another worker takes a run back, no durable     *)
(* call of that run is still under way on the worker that is stopping.     *)
CallsDoNotOverlap ==
    /\ scenario = "stop" => Stop!TypeOK /\ Stop!CallsDoNotOverlap
    /\ scenario = "second" => Second!TypeOK /\ Second!CallsDoNotOverlap

(* A worker that was stopped leaves no row claimed.                        *)
ExitLeavesNothing == /\ scenario = "stop" => Stop!ExitLeavesNothing
                     /\ scenario = "second" => Second!ExitLeavesNothing

(* The executions and the runs in the dispatcher's hand never exceed       *)
(* --concurrency.                                                          *)
CapRespected == scenario = "cap" => Capped!CapRespected

(* A worker that was signalled or cancelled exits.                         *)
Exits == LET Leaving == scenario \in {"exit", "parted"} /\ (w.stop # "no" \/ w.cancelled) /\ ~w.exited
         IN  Leaving ~> ~Leaving

(* Every row this worker holds is settled, given back or taken back, also  *)
(* when the claim that took it was dropped.                                *)
ClaimsSettle == LET Held == scenario \in {"exit", "parted"} /\ \E r \in DOMAIN rows : rows[r] = "mine"
                IN  Held ~> ~Held

(* A lease is honoured by both sides: a holder stops before it can be      *)
(* replaced, a live one is not replaced, and a dead one is in time.        *)
LeasesAreHonoured == /\ VouchedRunIsRefusedInTime /\ OwnBeatCounts
                     /\ NoLiveRunReaped /\ DeadRunIsReclaimed
                     /\ HeldRowWaits /\ VetoIsBounded

(* A worker that stops keeps the runs it cut off from being settled, ends  *)
(* their calls in time and leaves no row behind; it never runs more than   *)
(* its slots allow.                                                        *)
StopIsClean == /\ [](CallsDoNotOverlap /\ ExitLeavesNothing /\ CapRespected)
               /\ CutOffIsNeverAnOutcome

(* An execution that lost its run is stopped, a worker that is told to     *)
(* stop exits, and what it had claimed is settled or taken back.           *)
WorkersStop == LostIsStopped /\ Exits /\ ClaimsSettle
=============================================================================
