----------------------------- MODULE StallGuard -----------------------------
(***************************************************************************)
(* What keeps one worker's reaper from taking the runs of workers that are *)
(* alive while a stall silences their heartbeats: reapingIsSafe, which     *)
(* asks for the reaper's own clean contact with the database, and the      *)
(* suppression episode, which defers the sweep while no running row at all *)
(* has a recent heartbeat.  Each holder has one run.                       *)
(*                                                                         *)
(* Time is discrete.  A holder beats when its last beat is Heartbeat old,  *)
(* the reaper ticks every ReaperInterval and pings every Heartbeat.  A     *)
(* "fleet" stall silences the holders and leaves the reaper's contact      *)
(* alone; a "database" stall silences everyone.                            *)
(***************************************************************************)
EXTENDS Naturals, FiniteSets

CONSTANTS
    NULL,
    Holders,
    Heartbeat,       \* --heartbeat
    Deadline,        \* dbCallDeadline
    Slack,           \* missedBeatSlack
    ReclaimAfter,    \* reclaimAfter()
    ReaperInterval,  \* max(heartbeat, 10s)
    Tail,            \* how long after a stall the last holder's beat may land
    Kinds,           \* kinds of stall
    MaxStall,        \* bound on the length of a stall
    MaxStalls,       \* bound on their number
    MaxDeaths,       \* bound on the holders that die
    MaxAge           \* ages stop here, past every bound a property names

(* What the constants may be. *)
ConstantsOK ==
    /\ {Heartbeat, Deadline, Slack, ReclaimAfter, ReaperInterval, Tail,
        MaxStall, MaxStalls, MaxDeaths, MaxAge} \subseteq Nat
    /\ Kinds \subseteq {"fleet", "database"}

VARIABLES
    age,      \* of each holder's heartbeat_at; NULL once its run was reaped
    dead,     \* holders that have died
    stall,    \* the kind of the stall, or "none"
    length,   \* how long it has lasted, or how long ago the last one ended
    stalls,   \* how many there have been
    tick,     \* time since the reaper's last tick
    ping,     \* time since the reaper's worker last pinged
    trouble,  \* age of lastDBTrouble
    contact,  \* age of lastDBContactOK
    since,    \* age of the episode, NULL with none open
    wronged   \* history: holders alive when their run was reaped

vars == <<age, dead, stall, length, stalls, tick, ping, trouble, contact, since, wronged>>

Running == {w \in Holders : age[w] # NULL}
Alive == Running \ dead

missedBeatThreshold == Heartbeat + Deadline + Slack

Older(a) == IF a = NULL \/ a = MaxAge THEN a ELSE a + 1
-----------------------------------------------------------------------------
Init == /\ age \in [Holders -> 0..(Heartbeat - 1)]
        /\ dead = {} /\ wronged = {}
        /\ stall = "none" /\ length = Tail /\ stalls = 0
        /\ tick \in 0..(ReaperInterval - 1) /\ ping \in 0..(Heartbeat - 1)
        /\ trouble = MaxAge /\ contact = ping
        /\ since = NULL

reaper == <<tick, ping, trouble, contact, since, wronged>>

\* a holder that is alive has beaten in time, or the end of a stall has not
\* reached it yet
InTime(w) == \/ stall # "none" \/ age[w] < Heartbeat
             \/ stalls > 0 /\ length < Tail

Tick ==
    /\ \A w \in Alive : InTime(w)
    /\ tick < ReaperInterval /\ ping < Heartbeat
    /\ stall # "none" => length < MaxStall
    /\ age' = [w \in Holders |-> Older(age[w])]
    /\ length' = Older(length)
    /\ tick' = tick + 1 /\ ping' = ping + 1
    /\ trouble' = Older(trouble) /\ contact' = Older(contact) /\ since' = Older(since)
    /\ UNCHANGED <<dead, stall, stalls, wronged>>

Beat(w) ==
    /\ w \in Alive /\ stall = "none" /\ age[w] >= Heartbeat
    /\ age' = [age EXCEPT ![w] = 0]
    /\ UNCHANGED <<dead, stall, length, stalls, reaper>>

Die(w) ==
    /\ w \in Alive /\ Cardinality(dead) < MaxDeaths
    /\ dead' = dead \cup {w}
    /\ UNCHANGED <<age, stall, length, stalls, reaper>>

StallBegins(k) ==
    /\ stall = "none" /\ stalls < MaxStalls /\ (stalls > 0 => length >= Tail)
    /\ \A w \in Alive : age[w] < Heartbeat
    /\ stall' = k /\ length' = 0 /\ stalls' = stalls + 1
    /\ UNCHANGED <<age, dead, reaper>>

StallEnds ==
    /\ stall # "none" /\ length > 0
    /\ stall' = "none" /\ length' = 0
    /\ UNCHANGED <<age, dead, stalls, reaper>>
-----------------------------------------------------------------------------
\* pingOwnStore, on the heartbeat of the reaper's worker, which is idle
Ping ==
    /\ ping = Heartbeat
    /\ ping' = 0
    /\ IF stall = "database" THEN trouble' = 0 /\ UNCHANGED contact
                             ELSE contact' = 0 /\ UNCHANGED trouble
    /\ UNCHANGED <<age, dead, stall, length, stalls, tick, since, wronged>>

reapingIsSafe == /\ contact <= 2 * (Heartbeat + Deadline)
                 /\ trouble >= ReclaimAfter

\* StaleSetShape
Stale == {w \in Running : age[w] > ReclaimAfter}
NoRecentHeartbeat == Running # {} /\ \A w \in Running : age[w] > missedBeatThreshold

suspectedDBStall == NoRecentHeartbeat /\ Cardinality(Running) > 1

\* evaluate: what the tick makes of the episode, and whether it reclaims
evaluateUnsticky ==
    IF ~suspectedDBStall THEN [since |-> NULL, suppress |-> FALSE]
    ELSE IF since = NULL THEN [since |-> 0, suppress |-> TRUE]
    ELSE [since |-> since, suppress |-> since < ReclaimAfter]
evaluate ==
    IF ~suspectedDBStall /\ Stale = {} THEN [since |-> NULL, suppress |-> FALSE]
    ELSE IF ~suspectedDBStall /\ since = NULL THEN [since |-> NULL, suppress |-> FALSE]
    ELSE IF since = NULL THEN [since |-> 0, suppress |-> TRUE]
    ELSE [since |-> since, suppress |-> since < ReclaimAfter]

ReapSkipped ==
    /\ tick = ReaperInterval /\ ~reapingIsSafe
    /\ tick' = 0
    /\ UNCHANGED <<age, dead, stall, length, stalls, ping, trouble, contact, since, wronged>>

\* the probe or the sweep fails: trouble of the reaper's own
ReapFails ==
    /\ tick = ReaperInterval /\ reapingIsSafe /\ stall = "database"
    /\ tick' = 0 /\ trouble' = 0
    /\ UNCHANGED <<age, dead, stall, length, stalls, ping, contact, since, wronged>>

reapOnce ==
    /\ tick = ReaperInterval /\ reapingIsSafe /\ stall # "database"
    /\ tick' = 0 /\ contact' = 0
    /\ LET decision == evaluate
           swept == IF decision.suppress THEN {} ELSE Stale
       IN /\ since' = decision.since
          /\ age' = [w \in Holders |-> IF w \in swept THEN NULL ELSE age[w]]
          /\ wronged' = wronged \cup (swept \ dead)
    /\ UNCHANGED <<dead, stall, length, stalls, ping, trouble>>
-----------------------------------------------------------------------------
Next ==
    \/ Tick \/ Ping \/ ReapSkipped \/ ReapFails \/ reapOnce \/ StallEnds
    \/ \E w \in Holders : Beat(w) \/ Die(w)
    \/ \E k \in Kinds : StallBegins(k)

Spec == Init /\ [][Next]_vars
-----------------------------------------------------------------------------
(* Every clock is an age; and while nothing stalls, an idle worker's       *)
(* contact with the database is as recent as its last ping.                *)
TypeOK ==
    /\ age \in [Holders -> 0..MaxAge \cup {NULL}]
    /\ dead \subseteq Holders /\ wronged \subseteq Holders \ dead
    /\ stall \in Kinds \cup {"none"} /\ stalls \in 0..MaxStalls
    /\ tick \in 0..ReaperInterval /\ ping \in 0..Heartbeat
    /\ {length, trouble, contact} \subseteq 0..MaxAge
    /\ since \in 0..MaxAge \cup {NULL}
    /\ stalls = 0 => contact <= ping

(* No stall of the lengths a configuration allows costs a worker that is   *)
(* alive its run, neither during the stall nor in the tail of its recovery *)
(* (setup.go:5391).                                                        *)
NoLiveRunReaped == wronged = {}

(* A dead worker's run is reclaimed: its row is never older than two       *)
(* windows and two ticks of the reaper, one for the tick that opens the    *)
(* episode and one for the tick that finds it expired.                     *)
DeadRunIsReclaimed ==
    \A w \in Running : age[w] <= 2 * ReclaimAfter + 2 * ReaperInterval

(* A worker that dies in a healthy fleet loses its run within one window   *)
(* and one tick: one dead worker is not taken for a stall.                 *)
DeathAloneIsNotAStall ==
    \A w \in Running : stalls = 0 /\ Cardinality(Alive) > 0
                       => age[w] <= ReclaimAfter + ReaperInterval
=============================================================================
