----------------------------- MODULE HolderVeto -----------------------------
(***************************************************************************)
(* The reaper's question to the holder of a stale run, and the veto of the *)
(* holder that still has it: the sweep of one worker, call by call, while  *)
(* heartbeats land late, holders die, runs end and are claimed again.      *)
(*                                                                         *)
(* Time is discrete; a row is the age of its heartbeat_at, NULL when it is *)
(* not running.  A holder whose path to the database is degraded is one    *)
(* that does not beat; whether it beats is left open throughout.           *)
(***************************************************************************)
EXTENDS Naturals, Sequences, FiniteSets, FiniteSetsExt, SequencesExt

CONSTANTS
    NULL,
    Runs,
    Window,          \* reclaimAfter
    ReaperInterval,
    Budget,          \* dbCallDeadline: the most the ask phase takes
    Limit,           \* maxReclaimPerTick; 0 for no limit
    MaxGeneration,   \* bound on claims
    MaxUnanswered,   \* bound on questions that get no answer
    MaxFailures,     \* bound on sweeps ended by a failed database call
    MaxDeaths        \* bound on holders that die

(* What the constants may be. *)
ConstantsOK ==
    {Window, ReaperInterval, Budget, Limit, MaxGeneration,
     MaxUnanswered, MaxFailures, MaxDeaths} \subseteq Nat

VARIABLES
    age,        \* of heartbeat_at, or NULL
    gen,        \* generation of the row
    holds,      \* generation in the holder's inflight; 0 once it is gone
    tick,       \* time since the reaper's last tick began
    sweep,      \* the tick in progress
    broken,     \* history: rows reclaimed within two windows that a live holder
                \* had, although they were stale when the tick began
    unanswered, failures, deaths

vars == <<age, gen, holds, tick, sweep, broken, unanswered, failures, deaths>>
counts == <<unanswered, failures, deaths>>

MaxAge == 2 * Window + 2 * ReaperInterval + Budget + 1
Older(a) == IF a = NULL \/ a = MaxAge THEN a ELSE a + 1

Running == {r \in Runs : age[r] # NULL}
Stale(timeout) == {r \in Running : age[r] > timeout}
Key(r) == <<r, gen[r]>>

\* ORDER BY heartbeat_at LIMIT n; rows of the same instant come in either order
Oldest(rows, n) ==
    IF n = 0 \/ Cardinality(rows) <= n THEN {rows}
    ELSE {s \in SUBSET rows : /\ Cardinality(s) = n
                              /\ \A x \in s, y \in rows \ s : age[x] >= age[y]}
-----------------------------------------------------------------------------
NoSweep == [pc |-> "none", listed |-> {}, ask |-> {}, held |-> {}, stale |-> {}, silent |-> {}, took |-> 0]

Init == /\ age = [r \in Runs |-> 0]
        /\ gen = [r \in Runs |-> 1]
        /\ holds = [r \in Runs |-> 1]
        /\ tick = 0 /\ sweep = NoSweep
        /\ broken = {} /\ unanswered = 0 /\ failures = 0 /\ deaths = 0

Tick ==
    /\ IF sweep.pc = "none" THEN tick < ReaperInterval ELSE sweep.took < Budget
    /\ age' = [r \in Runs |-> Older(age[r])]
    /\ tick' = tick + 1
    /\ sweep' = [sweep EXCEPT !.took = IF sweep.pc = "none" THEN 0 ELSE @ + 1]
    /\ UNCHANGED <<gen, holds, broken, counts>>

Beat(r) ==
    /\ r \in Running /\ holds[r] = gen[r] /\ age[r] > 0
    /\ age' = [age EXCEPT ![r] = 0]
    /\ UNCHANGED <<gen, holds, tick, sweep, broken, counts>>

Die(r) ==
    /\ holds[r] # 0 /\ deaths < MaxDeaths
    /\ holds' = [holds EXCEPT ![r] = 0]
    /\ deaths' = deaths + 1
    /\ UNCHANGED <<age, gen, tick, sweep, broken, unanswered, failures>>

\* a run that was reaped, or given back, is claimed by another worker
Reclaim(r) ==
    /\ r \notin Running /\ gen[r] < MaxGeneration
    /\ gen' = [gen EXCEPT ![r] = @ + 1]
    /\ age' = [age EXCEPT ![r] = 0]
    /\ holds' = [holds EXCEPT ![r] = gen[r] + 1]
    /\ UNCHANGED <<tick, sweep, broken, counts>>

Suspend(r) ==
    /\ r \in Running /\ holds[r] = gen[r]
    /\ age' = [age EXCEPT ![r] = NULL]
    /\ holds' = [holds EXCEPT ![r] = 0]
    /\ UNCHANGED <<gen, tick, sweep, broken, counts>>
-----------------------------------------------------------------------------
(* staleRowsToAsk: two reads, the second of rows two windows old. *)
ListNormal ==
    /\ sweep.pc = "none" /\ tick >= ReaperInterval
    /\ tick' = 0
    /\ \E rows \in Oldest(Stale(Window), Limit) :
          sweep' = [NoSweep EXCEPT !.pc = IF rows = {} THEN "reap" ELSE "doubled",
                                   !.listed = {Key(r) : r \in rows},
                                   !.stale = {Key(r) : r \in Stale(Window)}]
    /\ UNCHANGED <<age, gen, holds, broken, counts>>

NotPast(listed, past) == listed \ past

ListDoubled ==
    /\ sweep.pc = "doubled"
    /\ \E rows \in Oldest(Stale(2 * Window), Limit) :
          sweep' = [sweep EXCEPT !.pc = "ask",
                                 !.ask = NotPast(sweep.listed, {Key(r) : r \in rows})]
    /\ UNCHANGED <<age, gen, holds, tick, broken, counts>>

(* handleInternalHolds answers from inflight alone, for the generation it  *)
(* is asked about.  An error, a timeout, a worker that has died or has no  *)
(* address is no veto.                                                     *)
handleInternalHolds(k) == holds[k[1]] = k[2]

Asked(k, held, silent) ==
    sweep' = [sweep EXCEPT !.ask = @ \ {k}, !.held = @ \cup held, !.silent = @ \cup silent]

askHolder(k) ==
    /\ sweep.pc = "ask" /\ k \in sweep.ask
    /\ Asked(k, IF handleInternalHolds(k) THEN {k} ELSE {}, {})
    /\ UNCHANGED <<age, gen, holds, tick, broken, counts>>

NoAnswer(k) ==
    /\ sweep.pc = "ask" /\ k \in sweep.ask /\ unanswered < MaxUnanswered
    /\ unanswered' = unanswered + 1
    /\ Asked(k, {}, {k})
    /\ UNCHANGED <<age, gen, holds, tick, broken, failures, deaths>>

AskEnds ==
    /\ sweep.pc = "ask" /\ sweep.ask = {}
    /\ sweep' = [sweep EXCEPT !.pc = "reap"]
    /\ UNCHANGED <<age, gen, holds, tick, broken, counts>>

\* exclude matches on run and generation
Except(rows, held) == {r \in rows : Key(r) \notin held}

Reset(g) == 0
Raised(g) == g + 1

ReapStaleInstancesExcept ==
    /\ sweep.pc = "reap"
    /\ \E rows \in Oldest(Except(Stale(Window), sweep.held), Limit) :
          /\ age' = [r \in Runs |-> IF r \in rows THEN NULL ELSE age[r]]
          /\ gen' = [r \in Runs |-> IF r \in rows THEN Raised(gen[r]) ELSE gen[r]]
          /\ broken' = broken \cup {r \in rows : /\ age[r] <= 2 * Window
                                                 /\ holds[r] = gen[r]
                                                 /\ Key(r) \in sweep.stale \ sweep.silent}
    /\ sweep' = NoSweep
    /\ UNCHANGED <<holds, tick, counts>>

(* A listing or a reclaim that fails ends the sweep of this tick: nothing  *)
(* is reclaimed unasked.                                                   *)
reapUnitFails ==
    /\ failures < MaxFailures
    /\ sweep.pc \in {"doubled", "reap"} \/ (sweep.pc = "none" /\ tick >= ReaperInterval)
    /\ failures' = failures + 1
    /\ tick' = IF sweep.pc = "none" THEN 0 ELSE tick
    /\ sweep' = NoSweep
    /\ UNCHANGED <<age, gen, holds, broken, unanswered, deaths>>
-----------------------------------------------------------------------------
Next ==
    \/ Tick \/ ListNormal \/ ListDoubled \/ AskEnds \/ ReapStaleInstancesExcept \/ reapUnitFails
    \/ \E r \in Runs : Beat(r) \/ Die(r) \/ Reclaim(r) \/ Suspend(r)
    \/ \E k \in sweep.ask : askHolder(k) \/ NoAnswer(k)

Spec == Init /\ [][Next]_vars
-----------------------------------------------------------------------------
(* Every field has its type; the sweep asks only about what it listed.     *)
TypeOK ==
    /\ age \in [Runs -> 0..MaxAge \cup {NULL}]
    /\ gen \in [Runs -> 1..(MaxGeneration + 1)]
    /\ \A r \in Runs : holds[r] <= gen[r]
    /\ sweep.pc \in {"none", "doubled", "ask", "reap"}
    /\ sweep.ask \cup sweep.held \cup sweep.silent \subseteq sweep.listed
    /\ sweep.listed \subseteq sweep.stale
    /\ broken \subseteq Runs

(* A run that was stale when the tick began, and that its holder still has *)
(* and would say so, is not reclaimed within two windows (setup.go:5675).  *)
HeldRowWaits == broken = {}

(* No holder delays the reclaim of its run by more than one window: while  *)
(* no sweep has failed, a row is never older than two windows and the time *)
(* to the end of the next sweep (setup.go:5715).                           *)
VetoIsBounded ==
    failures = 0 => \A r \in Running : age[r] <= 2 * Window + ReaperInterval + Budget
=============================================================================
