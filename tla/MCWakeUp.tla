------------------------------ MODULE MCWakeUp ------------------------------
(* An instance of WakeUp whose guest waits for everything once. *)
EXTENDS WakeUp

Everything == <<"signal", "promise", "sleep", "child">>

(* A wait ends: what arrived is seen, through releases, backoffs, crashes   *)
(* and reaps, and an await with a deadline ends without any arrival.        *)
WaitsEnd == ArrivalIsSeen /\ AwaitEnds
=============================================================================
