------------------------------ MODULE MCStarts ------------------------------
(***************************************************************************)
(* IdempotentStart on a small instance, of whose requests a behaviour      *)
(* sends some:                                                             *)
(*   starts    two identical starts and one with another input, under one  *)
(*             key;                                                        *)
(*   signals   two equal signals under one key;                            *)
(*   redriven  the reprocessing of a dead-lettered run and a start that    *)
(*             asks for the same, under one key;                           *)
(*   answers   the three starts, with the clock all but stopped.           *)
(* The other requests never arrive.                                        *)
(***************************************************************************)
EXTENDS IdempotentStart

VARIABLE scenario

allVars == <<scenario, vars>>

Of(op, def, input, target) ==
    [op |-> op, key |-> "k", def |-> def, input |-> input, target |-> target]
SmallRequests ==
    [q1 |-> Of("start", "f", 1, "none"), q2 |-> Of("start", "f", 1, "none"), q3 |-> Of("start", "f", 2, "none"),
     s1 |-> Of("signal", "s", 1, "w"), s2 |-> Of("signal", "s", 1, "w"),
     r1 |-> Of("reprocess", "f", 1, "d")]
TwoBefore == [w |-> "live", d |-> "dead_lettered"]

SentIn == [starts |-> {"q1", "q2", "q3"}, signals |-> {"s1", "s2"}, redriven |-> {"r1", "q1"},
           answers |-> {"q1", "q2", "q3"}]
BeforeIn == [starts |-> {}, signals |-> {"w"}, redriven |-> {"d"}, answers |-> {}]
LastTick == [starts |-> MaxTime, signals |-> MaxTime, redriven |-> MaxTime, answers |-> 1]

MCInit == Init /\ scenario \in DOMAIN SentIn

MCNext == /\ \/ \E q \in SentIn[scenario] : Step(q) \/ LoseConnection(q)
             \/ \E r \in SentIn[scenario] \cup BeforeIn[scenario] : Settle(r) \/ Purge(r)
             \/ Sweep \/ OpenOrClose
             \/ now < LastTick[scenario] /\ Tick
          /\ UNCHANGED scenario

InAnswers(step) == scenario = "answers" /\ step /\ UNCHANGED scenario

(* A handler goes on with its request. *)
MCSpec == /\ MCInit /\ [][MCNext]_allVars
          /\ \A q \in SentIn["answers"] : WF_allVars(InAnswers(Step(q)))
-----------------------------------------------------------------------------
(* Every request is answered: no two wait for each other's rows.           *)
EveryRequestAnswered ==
    LET Waits == scenario = "answers" /\ \E q \in SentIn["answers"] : told[q] = "waiting"
    IN  Waits ~> ~Waits
=============================================================================
