------------------------------ MODULE Schedules ------------------------------
(***************************************************************************)
(* The schedule loop of the workers (scheduleLoop, cmd/cleat-worker/       *)
(* setup.go) over one row of workflow_schedules.  A firing of the cron     *)
(* expression is due at every instant 1, 2, 3, ...; CronTime says how the  *)
(* instants come out of an expression.  A worker reads the row, decides    *)
(* from the two policies, starts a run under a key made of the instant and *)
(* moves the row by compare-and-swap; each of these is a transaction of    *)
(* its own, and another worker, an operator, the clock, the run itself or  *)
(* a crash may come between any two.                                       *)
(***************************************************************************)
EXTENDS Integers, Sequences, FiniteSets

CONSTANTS
    Workers,
    MisfirePolicy,      \* "catch_up" or "skip"
    OverlapPolicy,      \* "allow" or "skip"
    CatchUpLimit,       \* workflow_schedules.catch_up_limit
    MaxTime,            \* bound: the clock stops there
    MaxRuns,            \* bound: the runs started
    MaxFaults,          \* bound: crashes and failed store calls
    MaxSwitches,        \* bound: enable, disable, delete and create calls
    ReadFails,          \* whether the overlap check may fail to read the run
    Continues,          \* whether a run may continue as new
    Defers              \* whether a terminated run has deferred work to do

\* What the constants may be.
ConstantsOK ==
    /\ MisfirePolicy \in {"catch_up", "skip"}
    /\ OverlapPolicy \in {"allow", "skip"}
    /\ CatchUpLimit \in Nat \ {0}
    /\ {MaxTime, MaxRuns, MaxFaults, MaxSwitches} \subseteq Nat
    /\ {ReadFails, Continues, Defers} \subseteq BOOLEAN
ASSUME ScheduleAssumption == ConstantsOK

VARIABLES
    now,        \* the clock
    row,        \* the row: next_run_at, last_run_id, disabled_at; since: its first instant
    runs,       \* the runs, in the order they were started
    keys,       \* idempotency_keys: the run each instant's key names
    sess,       \* each worker's pass over the row
    reported,   \* ghost: the instants the log names as not fired
    faults, switches

vars == <<now, row, runs, keys, sess, reported, faults, switches>>

Instants == 1..(MaxTime + 1)
NoRun == 0

Idle == [pc |-> "idle", scheduled |-> 0, last |-> NoRun, next |-> 0, run |-> NoRun]

\* A run is ready or running ("live"), running its deferred work after a
\* terminate, completed with a successor that goes on, or over.
Statuses == {"live", "terminating", "continued", "over"}

NextInstant(t) == t + 1

TypeOK ==
    /\ now \in 0..MaxTime
    /\ row \in [there : BOOLEAN, enabled : BOOLEAN, since : Instants, next : Instants,
                last : 0..Len(runs)]
    /\ runs \in Seq([instant : Instants, status : Statuses])
    /\ keys \in [Instants -> 0..Len(runs)]
    /\ sess \in [Workers -> [pc : {"idle", "overlap", "policy", "start", "claim"},
                             scheduled : Instants \cup {0}, last : 0..Len(runs),
                             next : Instants \cup {0}, run : 0..Len(runs)]]
    /\ reported \subseteq Instants
    /\ faults \in 0..MaxFaults /\ switches \in 0..MaxSwitches

Init ==
    /\ now = 0
    /\ row = [there |-> TRUE, enabled |-> TRUE, since |-> 1, next |-> 1, last |-> NoRun]
    /\ runs = <<>>
    /\ keys = [i \in Instants |-> NoRun]
    /\ sess = [w \in Workers |-> Idle]
    /\ reported = {}
    /\ faults = 0 /\ switches = 0

-----------------------------------------------------------------------------
\* The instants after `scheduled` that have gone by.
Backlog(scheduled) == {i \in Instants : i > scheduled /\ i < now}

\* scheduleAdvance: one interval; past the limit, the next future instant.  The
\* second field is the count the log line carries.
scheduleAdvance(scheduled) ==
    IF Cardinality(Backlog(scheduled)) > CatchUpLimit
    THEN [next |-> NextInstant(now), dropped |-> CatchUpLimit + 1]
    ELSE [next |-> NextInstant(scheduled), dropped |-> 0]

Between(a, b) == {i \in Instants : a < i /\ i < b}

\* GetDueSchedules: the row as it stands, its lock released with the read.
GetDueSchedules(w) ==
    /\ sess[w].pc = "idle"
    /\ row.there /\ row.enabled /\ row.next <= now
    /\ sess' = [sess EXCEPT ![w] =
                    [Idle EXCEPT !.pc = IF OverlapPolicy = "skip" /\ row.last # NoRun
                                        THEN "overlap" ELSE "policy",
                                 !.scheduled = row.next, !.last = row.last]]
    /\ UNCHANGED <<now, row, runs, keys, reported, faults, switches>>

\* The overlap check reads the run named by the row the worker read.  A run in
\* flight drops the instant; the count scheduleAdvance returns is discarded.
CheckOverlap(w) ==
    LET s == sess[w]
        busy == runs[s.last].status = "live"
    IN  /\ s.pc = "overlap"
        /\ IF busy
           THEN /\ sess' = [sess EXCEPT ![w].pc = "claim",
                                        ![w].next = scheduleAdvance(s.scheduled).next]
                /\ reported' = reported \cup {s.scheduled}
           ELSE /\ sess' = [sess EXCEPT ![w].pc = "policy"]
                /\ UNCHANGED reported
        /\ UNCHANGED <<now, row, runs, keys, faults, switches>>

\* The overlap check cannot read the run and the worker fires anyway.
OverlapCheckFails(w) ==
    /\ sess[w].pc = "overlap"
    /\ ReadFails /\ faults < MaxFaults
    /\ faults' = faults + 1
    /\ sess' = [sess EXCEPT ![w].pc = "policy"]
    /\ UNCHANGED <<now, row, runs, keys, reported, switches>>

\* The misfire policy, then scheduleAdvance: an instant more than a minute old
\* is not delivered under "skip".
ApplyMisfirePolicy(w) ==
    LET s == sess[w]
        late == MisfirePolicy = "skip" /\ s.scheduled + 1 < now
        advance == scheduleAdvance(s.scheduled)
        next == IF late THEN NextInstant(now) ELSE advance.next
    IN  /\ s.pc = "policy"
        /\ sess' = [sess EXCEPT ![w].pc = IF late THEN "claim" ELSE "start", ![w].next = next]
        /\ reported' = reported \cup (CASE late -> Between(s.scheduled - 1, next)
                                      [] ~late /\ advance.dropped > 0 -> Between(s.scheduled, next)
                                      [] OTHER -> {})
        /\ UNCHANGED <<now, row, runs, keys, faults, switches>>

\* The instant the idempotency key names, and the clock in its place.
IdemKeyOfClock(w) == now
IdemKey(w) == sess[w].scheduled

\* StartNewRun under the key: the run the key names already, or a new one.
StartNewRun(w) ==
    LET k == IdemKey(w)
        fresh == keys[k] = NoRun
        id == IF fresh THEN Len(runs) + 1 ELSE keys[k]
    IN  /\ sess[w].pc = "start"
        /\ fresh => Len(runs) < MaxRuns
        /\ runs' = IF fresh
                   THEN Append(runs, [instant |-> sess[w].scheduled, status |-> "live"])
                   ELSE runs
        /\ keys' = [keys EXCEPT ![k] = id]
        /\ sess' = [sess EXCEPT ![w].pc = "claim", ![w].run = id]
        /\ UNCHANGED <<now, row, reported, faults, switches>>

\* The start fails and the row is advanced all the same.
StartFailsAndAdvances(w) ==
    /\ sess[w].pc = "start"
    /\ faults < MaxFaults
    /\ faults' = faults + 1
    /\ sess' = [sess EXCEPT ![w].pc = "claim"]
    /\ UNCHANGED <<now, row, runs, keys, reported, switches>>

\* The start fails: the row stays due.
StartFails(w) ==
    /\ sess[w].pc = "start"
    /\ faults < MaxFaults
    /\ faults' = faults + 1
    /\ sess' = [sess EXCEPT ![w] = Idle]
    /\ UNCHANGED <<now, row, runs, keys, reported, switches>>

\* What ClaimDueSchedule compares, and the comparison left out.
StillThereAtAll(w) == row.there
StillSeen(w) == row.there /\ row.next = sess[w].scheduled

\* The last_run_id the claim writes, and the same with "" written through.
LastRunAsPassed(w) == sess[w].run
LastRun(w) == IF sess[w].run = NoRun THEN row.last ELSE sess[w].run

\* ClaimDueSchedule: moves a row that still shows the instant the worker saw,
\* and records the run it fired, if it fired one.
ClaimDueSchedule(w) ==
    LET s == sess[w]
    IN  /\ s.pc = "claim"
        /\ row' = IF StillSeen(w)
                  THEN [row EXCEPT !.next = s.next, !.last = LastRun(w)]
                  ELSE row
        /\ sess' = [sess EXCEPT ![w] = Idle]
        /\ UNCHANGED <<now, runs, keys, reported, faults, switches>>

\* The worker dies, or the compare-and-swap fails: the pass is over.
Crash(w) ==
    /\ sess[w].pc # "idle"
    /\ faults < MaxFaults
    /\ faults' = faults + 1
    /\ sess' = [sess EXCEPT ![w] = Idle]
    /\ UNCHANGED <<now, row, runs, keys, reported, switches>>

-----------------------------------------------------------------------------
\* SetScheduleEnabled; the instants missed while disabled stay owed.
SetScheduleEnabled(b) ==
    /\ row.there /\ row.enabled # b
    /\ switches < MaxSwitches
    /\ switches' = switches + 1
    /\ row' = [row EXCEPT !.enabled = b]
    /\ UNCHANGED <<now, runs, keys, sess, reported, faults>>

DeleteSchedule ==
    /\ row.there
    /\ switches < MaxSwitches
    /\ switches' = switches + 1
    /\ row' = [row EXCEPT !.there = FALSE]
    /\ UNCHANGED <<now, runs, keys, sess, reported, faults>>

\* CreateSchedule under the deleted row's name: enabled, due at the next future
\* instant, and with no run to its name.
CreateSchedule ==
    /\ ~row.there
    /\ switches < MaxSwitches
    /\ switches' = switches + 1
    /\ row' = [there |-> TRUE, enabled |-> TRUE, since |-> NextInstant(now),
               next |-> NextInstant(now), last |-> NoRun]
    /\ UNCHANGED <<now, runs, keys, sess, reported, faults>>

Tick ==
    /\ now < MaxTime
    /\ now' = now + 1
    /\ UNCHANGED <<row, runs, keys, sess, reported, faults, switches>>

\* The run goes on in a successor, is terminated with deferred work, or ends.
RunMoves(r) ==
    /\ \E to \in {"over"} \cup (IF Continues /\ runs[r].status = "live" THEN {"continued"} ELSE {})
                           \cup (IF Defers /\ runs[r].status = "live" THEN {"terminating"} ELSE {}) :
          /\ runs[r].status # "over"
          /\ runs' = [runs EXCEPT ![r].status = to]
    /\ UNCHANGED <<now, row, keys, sess, reported, faults, switches>>

WorkerStep(w) ==
    \/ GetDueSchedules(w)
    \/ CheckOverlap(w)
    \/ ApplyMisfirePolicy(w)
    \/ StartNewRun(w)
    \/ ClaimDueSchedule(w)

Next ==
    \/ \E w \in Workers : WorkerStep(w) \/ OverlapCheckFails(w) \/ StartFails(w) \/ Crash(w)
    \/ \E b \in BOOLEAN : SetScheduleEnabled(b)
    \/ DeleteSchedule
    \/ CreateSchedule
    \/ Tick
    \/ \E r \in DOMAIN runs : RunMoves(r)

Spec == Init /\ [][Next]_vars

\* The loop of every worker ticks for as long as the worker lives, and the
\* clock runs.
FairSpec == Spec /\ WF_vars(Tick) /\ \A w \in Workers : WF_vars(WorkerStep(w))

-----------------------------------------------------------------------------
\* An instant is fired once: whatever the workers, retries and crashes, one run
\* is started for it, because the key is made of the instant.
OneRunPerInstant ==
    \A i, j \in DOMAIN runs : runs[i].instant = runs[j].instant => i = j

\* No instant is skipped without a trace: the row moves past an instant only
\* when a run was started for it or the log names it.
NoSilentSkip ==
    row.there => \A i \in row.since..(row.next - 1) :
                    \/ \E r \in DOMAIN runs : runs[r].instant = i
                    \/ i \in reported

\* The row never moves back to an instant it has left: a slow worker's
\* compare-and-swap loses.
NextMovesForward == [][row.there /\ row'.there => row'.next >= row.next]_vars

\* Under "catch_up" a worker gives up an instant only when more instants than
\* the limit are waiting behind the one it holds.
DropsOnlyPastLimit ==
    [][reported' # reported =>
          \E w \in Workers : Cardinality(Backlog(sess[w].scheduled)) > CatchUpLimit]_vars

\* Under "skip" no run is started while an earlier run of the schedule is ready
\* or running.
NoOverlapStep == Len(runs') > Len(runs) => \A r \in DOMAIN runs : runs[r].status # "live"

=============================================================================
