------------------------------ MODULE CronTime ------------------------------
(***************************************************************************)
(* The search for the next firing of a cron expression (NextCronTimeIn,    *)
(* engine/cron.go), on a calendar scaled down to HoursPerDay hours of      *)
(* MinutesPerHour minutes and to months and weeks of a few days.  An       *)
(* instant is a number of minutes; a zone's wall clock runs Shift minutes  *)
(* ahead of it from the instant Turn on, so a positive Shift is a spring   *)
(* transition, which skips wall times, and a negative one an autumn        *)
(* transition, which repeats some.  A wall time is counted in minutes too. *)
(*                                                                         *)
(* time.Date is outside the repository.  Its documentation promises, for a *)
(* wall time that occurs twice or not at all, an answer that is right in   *)
(* one of the two offsets around the transition and does not say in which: *)
(* the two Date constants make that choice.                                *)
(***************************************************************************)
EXTENDS Integers, Sequences, FiniteSets, FiniteSetsExt

CONSTANTS
    HoursPerDay, MinutesPerHour,    \* the scaled clock
    DaysPerMonth, DaysPerWeek,      \* the scaled calendar
    MaxDays,                        \* the days the search walks
    Horizon,                        \* bound: the last instant fired from
    Exprs,                          \* the expressions, as four fields of terms
    Zones,                          \* the transitions, as <<Turn, Shift>>
    DateTakesFirst,                 \* time.Date on a wall time that occurs twice
    DateGoesBack                    \* time.Date on a wall time that does not occur

\* What the constants may be.
ConstantsOK ==
    /\ {HoursPerDay, MinutesPerHour, DaysPerMonth, DaysPerWeek, MaxDays} \subseteq Nat \ {0}
    /\ Horizon \in Nat
    /\ {DateTakesFirst, DateGoesBack} \subseteq BOOLEAN

VARIABLES
    expr,       \* the schedule's expression
    zone,       \* the schedule's zone
    at          \* the instant of the last firing

vars == <<expr, zone, at>>

DayLength == HoursPerDay * MinutesPerHour

Turn == zone[1]
Shift == zone[2]

WallOf(u) == IF u < Turn THEN u ELSE u + Shift

DayOf(u) == WallOf(u) \div DayLength
HourOf(u) == (WallOf(u) % DayLength) \div MinutesPerHour
MinuteOf(u) == WallOf(u) % MinutesPerHour

\* The wall time of hour h and minute m on civil day d.
WallTime(d, h, m) == d * DayLength + h * MinutesPerHour + m

\* The instants at which the clock on the wall shows w: w itself under the
\* offset before the transition, w - Shift under the one after it.
Occurrences(w) == {u \in {w, w - Shift} : WallOf(u) = w}

-----------------------------------------------------------------------------
\* time.Date.
Date(w) ==
    IF Occurrences(w) # {}
    THEN IF DateTakesFirst THEN Min(Occurrences(w)) ELSE Max(Occurrences(w))
    ELSE IF DateGoesBack THEN w - Shift ELSE w

\* parseCronField: a term is a star or a range (a single value is a range of
\* one), with a step.  The field is marked as a star when its text begins with
\* one, whatever the step.
parseCronField(terms, min, max) ==
    LET lo(t) == IF t.any THEN min ELSE t.lo
        hi(t) == IF t.any THEN max ELSE t.hi
    IN  [ok |-> \A i \in DOMAIN terms :
                    LET t == terms[i]
                    IN  t.step >= 1 /\ lo(t) <= hi(t) /\ lo(t) >= min /\ hi(t) <= max,
         star |-> terms[1].any,
         vals |-> UNION {{v \in lo(terms[i])..hi(terms[i]) :
                            (v - lo(terms[i])) % terms[i].step = 0} : i \in DOMAIN terms}]

\* parseCronExpr: the last day of the week has two names, as Sunday is 0 and 7.
parseCronExpr(e) ==
    LET minute == parseCronField(e.minute, 0, MinutesPerHour - 1)
        hour == parseCronField(e.hour, 0, HoursPerDay - 1)
        dom == parseCronField(e.dom, 1, DaysPerMonth)
        dow == parseCronField(e.dow, 0, DaysPerWeek)
    IN  [ok |-> minute.ok /\ hour.ok /\ dom.ok /\ dow.ok,
         minute |-> minute.vals, hour |-> hour.vals, dom |-> dom.vals, domStar |-> dom.star,
         dow |-> {v % DaysPerWeek : v \in dow.vals}, dowStar |-> dow.star]

domOK(e, d) == (d % DaysPerMonth) + 1 \in e.dom
dowOK(e, d) == d % DaysPerWeek \in e.dow

\* dayMatches: a restricted day of month and a restricted day of week are
\* alternatives; a star in one leaves the other to decide.
dayMatches(e, d) ==
    CASE e.domStar /\ e.dowStar -> TRUE
      [] e.domStar /\ ~e.dowStar -> dowOK(e, d)
      [] ~e.domStar /\ e.dowStar -> domOK(e, d)
      [] OTHER -> domOK(e, d) \/ dowOK(e, d)

\* cronInstant without the walk forward.
cronInstantUnwalked(d, h, m) == Date(WallTime(d, h, m))

\* cronInstant: a wall time that does not occur is walked forward from where
\* time.Date landed, for as long as the walk stays on the day asked for.
cronInstant(d, h, m) ==
    LET t == Date(WallTime(d, h, m))
        reached == {u \in t..(t + DayLength) :
                        /\ \A p \in t..u : DayOf(p) = d
                        /\ \/ HourOf(u) > h
                           \/ HourOf(u) = h /\ MinuteOf(u) >= m}
    IN  IF WallOf(t) = WallTime(d, h, m) \/ reached = {} THEN t ELSE Min(reached)

\* The candidates of one day, in the order of the two nested loops.
Candidates(e, d, from) ==
    {<<h, m>> \in e.hour \X e.minute : cronInstant(d, h, m) > from}

Earliest(hms) ==
    CHOOSE c \in hms : \A o \in hms : c[1] < o[1] \/ (c[1] = o[1] /\ c[2] <= o[2])

\* NextCronTimeIn: the first candidate after from, walking civil days and, in
\* a day, hours and minutes in order; a day later when the text does not parse
\* or no day has a candidate.
NextCronTimeIn(text, from) ==
    LET e == parseCronExpr(text)
        days == {d \in DayOf(from)..(DayOf(from) + MaxDays - 1) :
                    dayMatches(e, d) /\ Candidates(e, d, from) # {}}
        c == Earliest(Candidates(e, Min(days), from))
    IN  IF ~e.ok \/ days = {} THEN from + DayLength
        ELSE cronInstant(Min(days), c[1], c[2])

-----------------------------------------------------------------------------
Init ==
    /\ expr \in Exprs
    /\ zone \in Zones
    /\ at \in 0..(DayLength - 1)

\* The schedule fires and is advanced from the instant it fired for.
Fire ==
    /\ at < Horizon
    /\ at' = NextCronTimeIn(expr, at)
    /\ UNCHANGED <<expr, zone>>

Next == Fire

Spec == Init /\ [][Next]_vars

-----------------------------------------------------------------------------
\* What cronInstant's comment promises for one wall time: the first of the
\* instants that show it, and the transition when none does.
Promised(d, h, m) ==
    LET w == WallTime(d, h, m)
    IN  IF Occurrences(w) # {} THEN Min(Occurrences(w)) ELSE Turn

\* The days an expression names: the days of its day-of-month field when the
\* day of week is open, those of its day-of-week field when the day of month is,
\* and those of either when both are restricted.
Named(e, d) ==
    CASE e.domStar \/ e.dowStar -> domOK(e, d) /\ dowOK(e, d)
      [] OTHER -> domOK(e, d) \/ dowOK(e, d)

\* Whether a star field admits every value, so that star and open mean the same.
PlainStars(e) ==
    /\ e.domStar => e.dom = 1..DaysPerMonth
    /\ e.dowStar => e.dow = 0..(DaysPerWeek - 1)

\* The instants an expression owes after one of its firings.
Owed(e, from) ==
    {u \in {Promised(d, hm[1], hm[2]) :
                d \in {x \in (DayOf(from) - 1)..(DayOf(from) + MaxDays - 1) : Named(e, x)},
                hm \in e.hour \X e.minute} : u > from}

\* Each firing of NextCronTimeIn is the least promised instant after the last
\* one: every matching wall time of every matching day fires exactly once,
\* at the first instant that shows it or, when the spring transition skips it,
\* at the transition; none is lost, doubled or delivered out of order across a
\* change of the clocks, and the two day fields are alternatives only when both
\* are restricted.
FiresAsPromisedStep ==
    LET e == parseCronExpr(expr)
    IN  e.ok /\ PlainStars(e) /\ Owed(e, at) # {} => at' = Min(Owed(e, at))

\* Each wall time fires at most once, whichever answer time.Date gives around a
\* transition: from firing to firing both the instant and the clock on the wall
\* move forward, so a repeated hour does not run a nightly job twice.
WallMovesForwardStep == at' > at /\ WallOf(at') > WallOf(at)

=============================================================================
