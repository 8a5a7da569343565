------------------------------ MODULE StartOnce ------------------------------
(***************************************************************************)
(* What an idempotency key promises a caller of the start operation,       *)
(* whatever statements carry it out: until its time is over or the run is  *)
(* swept, a key stays with the run that took it; a request that presents a *)
(* held key is told of that run, or refused because it asks for something  *)
(* else; and only a request that finds the key free, or its time over,     *)
(* starts a run.  IdempotentStart is shown to implement it.                *)
(***************************************************************************)
CONSTANTS Requests, KeyOf, Same(_, _), None

VARIABLES
    holder,     \* key -> the request whose run holds it, or None
    lapsed,     \* the held keys whose time is over
    told        \* request -> "waiting", "error", "refused", or the run it was told of

vars == <<holder, lapsed, told>>

Keys == {KeyOf[q] : q \in Requests}

Init ==
    /\ holder = [k \in Keys |-> None]
    /\ lapsed = {}
    /\ told = [q \in Requests |-> "waiting"]

Waiting(q) == told[q] = "waiting"

(* The key is free or its time is over: the request's own run takes it,    *)
(* whether or not the caller hears of it.                                  *)
Start(q) ==
    /\ Waiting(q)
    /\ holder[KeyOf[q]] = None \/ KeyOf[q] \in lapsed
    /\ holder' = [holder EXCEPT ![KeyOf[q]] = q]
    /\ lapsed' = lapsed \ {KeyOf[q]}
    /\ \E t \in {q, "error"} : told' = [told EXCEPT ![q] = t]

(* The key is held: the caller is told of the holder, or refused.          *)
Repeat(q) ==
    /\ Waiting(q)
    /\ holder[KeyOf[q]] # None
    /\ told' = [told EXCEPT ![q] = IF Same(q, holder[KeyOf[q]]) THEN holder[KeyOf[q]] ELSE "refused"]
    /\ UNCHANGED <<holder, lapsed>>

Fail(q) ==
    /\ Waiting(q)
    /\ told' = [told EXCEPT ![q] = "error"]
    /\ UNCHANGED <<holder, lapsed>>

(* Requests may be turned away before they reach the key.                  *)
TurnAway(q) ==
    /\ Waiting(q)
    /\ told' = [told EXCEPT ![q] = "refused"]
    /\ UNCHANGED <<holder, lapsed>>

Lapse(ks) ==
    /\ lapsed' = lapsed \cup ks
    /\ UNCHANGED <<holder, told>>

(* The cleanup and the retention sweep take keys away.                     *)
Free(ks) ==
    /\ holder' = [k \in Keys |-> IF k \in ks THEN None ELSE holder[k]]
    /\ lapsed' = lapsed \ ks
    /\ UNCHANGED told

Next ==
    \/ \E q \in Requests : Start(q) \/ Repeat(q) \/ Fail(q) \/ TurnAway(q)
    \/ \E ks \in SUBSET Keys : Lapse(ks) \/ Free(ks)

Spec == Init /\ [][Next]_vars
=============================================================================
