--------------------------- MODULE HeartbeatClock ---------------------------
(***************************************************************************)
(* When a worker must stop starting durable calls because another worker   *)
(* may by now have reclaimed its runs (heartbeatPresumedLostFor), against  *)
(* what the database says: the run's heartbeat_at.  A tick of the heartbeat *)
(* loop takes a snapshot of inflight, calls each tenant's store in turn,   *)
(* each call bounded by a deadline, and stamps its clocks after the last.  *)
(*                                                                         *)
(* Time is discrete and every instant is kept as its age.  Ages stop at    *)
(* Window + 1, past which nothing tells them apart.                        *)
(***************************************************************************)
EXTENDS Naturals, Sequences, FiniteSets, FiniteSetsExt, TLC

CONSTANTS
    NULL,
    Own, Tenants,   \* the worker's own tenant; the others, in the loop's order
    Runs, TenantOf, \* the runs and the tenant of each
    Window,         \* reclaimAfter
    Interval,       \* the heartbeat ticker
    Deadline,       \* dbCallDeadline: a later answer is not trusted
    Overruns,       \* the driver ignores a cancelled context (lib/pq, go-mssqldb)
    ClaimDelay,     \* bound on the time from a claim's commit to inflight.Store
    Stays,          \* runs in flight from the start that do not end
    OwnFails        \* the own tenant's store may leave a call unanswered

(* What the constants may be. *)
ConstantsOK ==
    /\ {Window, Interval, Deadline, ClaimDelay} \subseteq Nat
    /\ Stays \subseteq Runs /\ {OwnFails, Overruns} \subseteq BOOLEAN
    /\ \A r \in Runs : TenantOf[r] = Own \/ \E i \in DOMAIN Tenants : Tenants[i] = TenantOf[r]

VARIABLES
    state,             \* "ready", "claimed" in the database, "inflight", "gone"
    heartbeat_at,      \* age of the run's column
    claimedAfter,      \* age of the dispatch iteration that claimed it
    lastHeartbeatOK,   \* age of the worker-wide clock
    groupHeartbeatOK,  \* the same by tenant, NULL for no entry
    hb,                \* the heartbeat loop
    vouched            \* history: runs in flight that were in an answered beat

vars == <<state, heartbeat_at, claimedAfter, lastHeartbeatOK, groupHeartbeatOK, hb, vouched>>
runs == <<state, heartbeat_at, claimedAfter>>
clocks == <<lastHeartbeatOK, groupHeartbeatOK>>

Others == {Tenants[i] : i \in DOMAIN Tenants}
Groups == {Own} \cup Others
Ages == 0..(Window + 1)
Older(a) == IF a = NULL THEN NULL ELSE IF a > Window THEN a ELSE a + 1

Held == {r \in Runs : state[r] \in {"claimed", "inflight"}}
InFlight == {r \in Runs : state[r] = "inflight"}
In(rs, g) == {r \in rs : TenantOf[r] = g}
-----------------------------------------------------------------------------
heartbeatPresumedLost == lastHeartbeatOK > Window

heartbeatPresumedLostFor(g) ==
    IF g # Own /\ groupHeartbeatOK[g] # NULL
    THEN groupHeartbeatOK[g] > Window
    ELSE heartbeatPresumedLost

\* heartbeat_at < now() - window: the reaper of another worker may take the run
Reclaimable(r) == heartbeat_at[r] > Window
-----------------------------------------------------------------------------
Waiting == [pc |-> "wait", wait |-> 0, runs |-> {}, todo |-> <<>>, start |-> 0, done |-> FALSE,
            answered |-> [g \in Groups |-> NULL]]

Init == /\ state = [r \in Runs |-> IF r \in Stays THEN "inflight" ELSE "ready"]
        /\ heartbeat_at = [r \in Runs |-> 0]
        /\ claimedAfter = [r \in Runs |-> 0]
        /\ lastHeartbeatOK = 0
        /\ groupHeartbeatOK = [g \in Others |-> NULL]
        /\ hb = Waiting
        /\ vouched = {}

\* probeBoundedCall cancels the call's context at its deadline; a driver that
\* ignores the context returns when the database does
CallReturns == hb.pc \in {"call", "ping"} => hb.start < Deadline \/ Overruns

(* The clock moves on unless the ticker, the end of the call or the        *)
(* claim's answer is due first.                                            *)
Tick ==
    /\ hb.pc = "wait" => hb.wait < Interval
    /\ CallReturns
    /\ hb.pc \notin {"next", "stamp"}
    /\ \A r \in Runs : state[r] = "claimed" => heartbeat_at[r] < ClaimDelay
    /\ heartbeat_at' = [r \in Runs |-> IF r \in Held THEN Older(heartbeat_at[r]) ELSE 0]
    /\ claimedAfter' = [r \in Runs |-> IF r \in Held \cup hb.runs THEN Older(claimedAfter[r]) ELSE 0]
    /\ lastHeartbeatOK' = Older(lastHeartbeatOK)
    /\ groupHeartbeatOK' = [g \in Others |-> Older(groupHeartbeatOK[g])]
    /\ hb' = [hb EXCEPT !.wait = IF hb.pc = "wait" THEN @ + 1 ELSE @,
                        !.start = IF hb.pc \in {"call", "ping"} THEN Older(@) ELSE @,
                        !.answered = [g \in Groups |-> Older(@[g])]]
    /\ UNCHANGED <<state, vouched>>

Claim(r) ==
    /\ state[r] = "ready"
    /\ state' = [state EXCEPT ![r] = "claimed"]
    /\ heartbeat_at' = [heartbeat_at EXCEPT ![r] = 0]
    /\ \E poll \in 0..ClaimDelay : claimedAfter' = [claimedAfter EXCEPT ![r] = poll]
    /\ UNCHANGED <<clocks, hb, vouched>>

Dispatch(r) ==
    /\ state[r] = "claimed"
    /\ state' = [state EXCEPT ![r] = "inflight"]
    /\ UNCHANGED <<heartbeat_at, claimedAfter, clocks, hb, vouched>>

End(r) ==
    /\ state[r] = "inflight" /\ r \notin Stays
    /\ state' = [state EXCEPT ![r] = "gone"]
    /\ heartbeat_at' = [heartbeat_at EXCEPT ![r] = 0]
    /\ vouched' = vouched \ {r}
    /\ UNCHANGED <<claimedAfter, clocks, hb>>
-----------------------------------------------------------------------------
(* heartbeatAndFenceInFlight.  A group without runs has no call; with no   *)
(* run at all, or none of the own tenant, the own store is pinged.         *)
heartbeatGroupOrder(rs) ==
    SelectSeq(<<Own>> \o Tenants, LAMBDA g : In(rs, g) # {})

Snapshot ==
    /\ hb.pc = "wait"
    /\ hb' = [Waiting EXCEPT !.pc = IF InFlight = {} THEN "ping" ELSE "next",
                             !.runs = InFlight, !.todo = heartbeatGroupOrder(InFlight)]
    /\ UNCHANGED <<runs, clocks, vouched>>

NextGroup ==
    /\ hb.pc = "next"
    /\ hb' = IF hb.todo # <<>> THEN [hb EXCEPT !.pc = "call", !.start = 0, !.done = FALSE]
             ELSE IF In(hb.runs, Own) = {} THEN [hb EXCEPT !.pc = "ping", !.start = 0]
             ELSE [hb EXCEPT !.pc = "stamp"]
    /\ UNCHANGED <<runs, clocks, vouched>>

\* the UPDATE of the call's transaction, some time before its answer arrives
HeartbeatBatchFenced ==
    /\ hb.pc = "call" /\ ~hb.done
    /\ hb' = [hb EXCEPT !.done = TRUE]
    /\ heartbeat_at' = [r \in Runs |-> IF r \in In(hb.runs, Head(hb.todo)) \cap Held THEN 0
                                       ELSE heartbeat_at[r]]
    /\ UNCHANGED <<state, claimedAfter, clocks, vouched>>

\* answeredAt[group] is the instant the call began
answeredAt(h) == h.start

Answer ==
    /\ hb.pc = "call" /\ hb.done /\ hb.start <= Deadline
    /\ LET g == Head(hb.todo) IN
       /\ hb' = [hb EXCEPT !.pc = "next", !.todo = Tail(@), !.answered[g] = answeredAt(hb)]
       /\ vouched' = vouched \cup (In(hb.runs, g) \cap InFlight)
    /\ UNCHANGED <<runs, clocks>>

\* an error, or no answer within the deadline, whether or not it committed
NoAnswer ==
    /\ hb.pc = "call" /\ (OwnFails \/ Head(hb.todo) # Own)
    /\ hb' = [hb EXCEPT !.pc = "next", !.todo = Tail(@)]
    /\ UNCHANGED <<runs, clocks, vouched>>

\* the earliest claim among the group's runs: where the clock of a group that
\* was never answered starts
groupSince(g) == Max({claimedAfter[r] : r \in In(hb.runs, g)})

StampGroup(g) ==
    IF In(hb.runs, g) = {} THEN NULL
    ELSE IF hb.answered[g] # NULL THEN hb.answered[g]
    ELSE IF groupHeartbeatOK[g] # NULL THEN groupHeartbeatOK[g]
    ELSE groupSince(g)

\* the own group's answer counts, whatever became of the others
OwnStamp == IF hb.answered[Own] # NULL THEN hb.answered[Own] ELSE lastHeartbeatOK

Stamp ==
    /\ hb.pc = "stamp"
    /\ hb' = Waiting
    /\ lastHeartbeatOK' = OwnStamp
    /\ groupHeartbeatOK' = [g \in Others |-> StampGroup(g)]
    /\ UNCHANGED <<runs, vouched>>

(* pingOwnStore.  With nothing in flight the clock is stamped with the     *)
(* time of the answer and the tick is over: the clocks of the groups stay. *)
(* With runs of other tenants only, it is stamped with the ping's start.   *)
PingAnswers ==
    /\ hb.pc = "ping" /\ hb.start <= Deadline
    /\ lastHeartbeatOK' = IF hb.runs = {} THEN 0 ELSE hb.start
    /\ hb' = Waiting
    /\ groupHeartbeatOK' = IF hb.runs = {} THEN groupHeartbeatOK
                           ELSE [g \in Others |-> StampGroup(g)]
    /\ UNCHANGED <<runs, vouched>>

PingFails ==
    /\ hb.pc = "ping"
    /\ hb' = Waiting
    /\ groupHeartbeatOK' = IF hb.runs = {} THEN groupHeartbeatOK
                           ELSE [g \in Others |-> StampGroup(g)]
    /\ UNCHANGED <<runs, lastHeartbeatOK, vouched>>
-----------------------------------------------------------------------------
Next ==
    \/ Tick \/ Snapshot \/ NextGroup \/ HeartbeatBatchFenced \/ Answer \/ NoAnswer
    \/ Stamp \/ PingAnswers \/ PingFails
    \/ \E r \in Runs : Claim(r) \/ Dispatch(r) \/ End(r)

Spec == Init /\ [][Next]_vars
-----------------------------------------------------------------------------
(* Every clock is an age or, for a group, no entry; and the instant noted  *)
(* for a claim is at or before the claim (setup.go:2444).                  *)
TypeOK ==
    /\ state \in [Runs -> {"ready", "claimed", "inflight", "gone"}]
    /\ heartbeat_at \in [Runs -> Ages] /\ claimedAfter \in [Runs -> Ages]
    /\ lastHeartbeatOK \in Ages
    /\ groupHeartbeatOK \in [Others -> Ages \cup {NULL}]
    /\ vouched \subseteq Runs
    /\ hb.pc \in {"wait", "next", "call", "ping", "stamp"} /\ hb.start \in Ages
    /\ \A r \in Held : claimedAfter[r] >= heartbeat_at[r]

(* A run that has been in an answered beat starts no durable call once     *)
(* another worker may have taken it, whatever is answered late, times out  *)
(* or dies afterwards (setup.go:4495).                                     *)
VouchedRunIsRefusedInTime ==
    \A r \in vouched : Reclaimable(r) => heartbeatPresumedLostFor(TenantOf[r])

(* The own tenant's runs are not refused on another tenant's silence: once *)
(* their own beat is answered they are not presumed lost, however the      *)
(* calls for the tenants after them go (setup.go:4551).                    *)
OwnBeatCounts == hb.answered[Own] # NULL => ~heartbeatPresumedLost
=============================================================================
