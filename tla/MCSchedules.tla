---------------------------- MODULE MCSchedules -----------------------------
(***************************************************************************)
(* Schedules and CronTime on small instances, of which a behaviour takes   *)
(* one.  Schedules:                                                        *)
(*   passes    two workers under catch_up and allow, with operator calls   *)
(*             (the module's own variables and the configuration's         *)
(*             constants);                                                 *)
(*   skips     two workers under skip and skip;                            *)
(*   overlap   one worker under catch_up and skip;                         *)
(*   settling  two workers under catch_up and allow, without operators.    *)
(* CronTime, on days of four hours of two minutes, months of three days    *)
(* and weeks of two:                                                       *)
(*   promised  transitions inside a day, time.Date on one side;            *)
(*   walls     all transitions, time.Date on the other.                    *)
(* All but the first have variables of their own.                          *)
(***************************************************************************)
EXTENDS Schedules

VARIABLES scenario, tnow, trow, truns, tkeys, tsess, treported, tfaults, tswitches,
          expr, zone, at

otherVars == <<tnow, trow, truns, tkeys, tsess, treported, tfaults, tswitches>>
cronVars == <<expr, zone, at>>
allVars == <<scenario, vars, otherVars, cronVars>>
-----------------------------------------------------------------------------
Skips == INSTANCE Schedules WITH
    MisfirePolicy <- "skip", OverlapPolicy <- "skip", CatchUpLimit <- 4,
    MaxSwitches <- 0, ReadFails <- TRUE,
    now <- tnow, row <- trow, runs <- truns, keys <- tkeys, sess <- tsess,
    reported <- treported, faults <- tfaults, switches <- tswitches
Overlap == INSTANCE Schedules WITH
    Workers <- {"w1"}, OverlapPolicy <- "skip", MaxTime <- 5, MaxRuns <- 5,
    MaxFaults <- 2, MaxSwitches <- 0, Continues <- TRUE, Defers <- TRUE,
    now <- tnow, row <- trow, runs <- truns, keys <- tkeys, sess <- tsess,
    reported <- treported, faults <- tfaults, switches <- tswitches
Settling == INSTANCE Schedules WITH
    MaxRuns <- 4, MaxSwitches <- 0,
    now <- tnow, row <- trow, runs <- truns, keys <- tkeys, sess <- tsess,
    reported <- treported, faults <- tfaults, switches <- tswitches

HoursPerDay == 4
MinutesPerHour == 2
DaysPerMonth == 3
DaysPerWeek == 2
MaxDays == 7
Horizon == 40

Star == <<[any |-> TRUE, lo |-> 0, hi |-> 0, step |-> 1]>>
SteppedStar == <<[any |-> TRUE, lo |-> 0, hi |-> 0, step |-> 2]>>
From(a, b) == <<[any |-> FALSE, lo |-> a, hi |-> b, step |-> 1]>>

Hours == {From(0, 0), From(1, 1), From(1, 2), Star, SteppedStar, From(0, 0) \o From(3, 3)}
Minutes == {From(0, 0), From(1, 1), Star}

\* Every day, the first of the month, the first day of the week (under both of
\* its names), either, and an inverted range, which does not parse.
Days == {<<Star, Star>>, <<From(1, 1), Star>>, <<Star, From(0, 0)>>, <<Star, From(2, 2)>>,
         <<From(1, 1), From(0, 0)>>, <<From(3, 1), Star>>}
Exprs == {[hour |-> h, minute |-> m, dom |-> d[1], dow |-> d[2]] :
             h \in Hours, m \in Minutes, d \in Days}

\* No transition; a skipped hour, from one wall hour to the next of the same
\* day, or half an hour; a repeated hour, once across midnight, or half an hour.
InnerZones == {<<0, 0>>, <<17, 1>>, <<18, 2>>, <<19, 2>>,
               <<20, -2>>, <<21, -1>>, <<22, -2>>, <<24, -2>>}
\* The hour after midnight is skipped.
MidnightZones == {<<24, 2>>}

Promised == INSTANCE CronTime WITH
    Zones <- InnerZones, DateTakesFirst <- TRUE, DateGoesBack <- TRUE
Walls == INSTANCE CronTime WITH
    Zones <- InnerZones \cup MidnightZones, DateTakesFirst <- FALSE, DateGoesBack <- FALSE

ASSUME /\ Skips!ConstantsOK /\ Overlap!ConstantsOK /\ Settling!ConstantsOK
       /\ Promised!ConstantsOK /\ Walls!ConstantsOK
-----------------------------------------------------------------------------
NoOther == /\ tnow = 0 /\ trow = 0 /\ truns = 0 /\ tkeys = 0 /\ tsess = 0
           /\ treported = 0 /\ tfaults = 0 /\ tswitches = 0
NoCron == expr = 0 /\ zone = 0 /\ at = 0

MCInit == /\ Init
          /\ \/ scenario = "passes" /\ NoOther /\ NoCron
             \/ scenario = "skips" /\ Skips!Init /\ NoCron
             \/ scenario = "overlap" /\ Overlap!Init /\ NoCron
             \/ scenario = "settling" /\ Settling!Init /\ NoCron
             \/ scenario = "promised" /\ Promised!Init /\ NoOther
             \/ scenario = "walls" /\ Walls!Init /\ NoOther

MCNext == /\ \/ scenario = "passes" /\ Next /\ UNCHANGED <<otherVars, cronVars>>
             \/ scenario = "skips" /\ Skips!Next /\ UNCHANGED <<vars, cronVars>>
             \/ scenario = "overlap" /\ Overlap!Next /\ UNCHANGED <<vars, cronVars>>
             \/ scenario = "settling" /\ Settling!Next /\ UNCHANGED <<vars, cronVars>>
             \/ scenario = "promised" /\ Promised!Next /\ UNCHANGED <<vars, otherVars>>
             \/ scenario = "walls" /\ Walls!Next /\ UNCHANGED <<vars, otherVars>>
          /\ UNCHANGED scenario

InSettling(step) == scenario = "settling" /\ step /\ UNCHANGED <<scenario, vars, cronVars>>

(* The loop of every worker ticks and the clock runs, as in FairSpec. *)
MCSpec == /\ MCInit /\ [][MCNext]_allVars
          /\ WF_allVars(InSettling(Settling!Tick))
          /\ \A w \in {"w1", "w2"} : WF_allVars(InSettling(Settling!WorkerStep(w)))
-----------------------------------------------------------------------------
(* Under the two skip policies, too, the row moves past an instant only    *)
(* when a run was started for it or the log names it.                      *)
SkipsAreReported == scenario = "skips" => Skips!TypeOK /\ Skips!NoSilentSkip

(* Under overlap "skip" one worker starts no run while an earlier run of   *)
(* the schedule is ready or running, through crashes and failed starts.    *)
NoOverlap == [][scenario = "overlap" => Overlap!NoOverlapStep]_allVars

(* Every instant that comes round is fired or named in the log in the end, *)
(* whatever worker dies or loses the race in between.                      *)
EveryInstantSettles ==
    LET Behind == /\ scenario = "settling"
                  /\ \E i \in 1..tnow : /\ i \notin treported
                                        /\ \A r \in DOMAIN truns : truns[r].instant # i
    IN  Behind ~> ~Behind

(* Each firing of NextCronTimeIn is the least promised instant after the   *)
(* last one, across a change of the clocks too.                            *)
FiresAsPromised == [][scenario = "promised" => Promised!FiresAsPromisedStep]_allVars

(* A wall time fires at most once, whichever answer time.Date gives around *)
(* a transition (cronInstant).                                             *)
WallMovesForward == [][scenario = "walls" => Walls!WallMovesForwardStep]_allVars

(* Every instant ends as the schedule's policies say: fired, unless an     *)
(* earlier run is still going, or dropped past the limit and named in the  *)
(* log; and it does end.                                                   *)
PoliciesHold == /\ []SkipsAreReported /\ DropsOnlyPastLimit /\ NoOverlap
                /\ EveryInstantSettles

(* Cron firings are the promised instants, and no wall time fires twice.   *)
CronFires == FiresAsPromised /\ WallMovesForward
=============================================================================
