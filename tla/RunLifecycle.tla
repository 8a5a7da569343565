---------------------------- MODULE RunLifecycle ----------------------------
(***************************************************************************)
(* What a run promises to everyone who is not a worker: how far it is, and *)
(* the outcome it is closing towards or has settled on.  No workers,       *)
(* generations or clocks: RunLease implements this.                        *)
(***************************************************************************)
CONSTANTS Runs

VARIABLE phase

Recordable == {"done", "failed", "terminated", "cancelled"}

At(p) == [at |-> p, outcome |-> "none"]
ClosingTowards(o) == [at |-> "closing", outcome |-> o]
SettledOn(o) == [at |-> "settled", outcome |-> o]

Phases == {At("absent"), At("open")} \cup {ClosingTowards(o) : o \in Recordable}
          \cup {SettledOn(o) : o \in Recordable \cup {"dead_lettered"}}

Init == phase = [r \in Runs |-> At("absent")]

\* an outcome is recorded, or a later decision replaces the recorded one
BeginsClosing(p, q) == p.at \in {"open", "closing"} /\ q.at = "closing"

\* a closing run never ends in the dead-letter queue
Settles(p, q) == /\ p.at \in {"open", "closing"} /\ q.at = "settled"
                 /\ p.at = "closing" => q.outcome # "dead_lettered"

Reopens(p, q) == /\ p.at = "settled" /\ q = At("open")
                 /\ p.outcome \in {"failed", "terminated", "dead_lettered"}

Step(p, q) == \/ p = At("absent") /\ q = At("open")
              \/ BeginsClosing(p, q)
              \/ Settles(p, q)
              \/ Reopens(p, q)
              \/ p = SettledOn("dead_lettered") /\ q = SettledOn("terminated")

\* one sweep may move several runs at once
Next == /\ phase' \in [Runs -> Phases]
        /\ \A r \in Runs : phase'[r] = phase[r] \/ Step(phase[r], phase'[r])

Spec == Init /\ [][Next]_phase
=============================================================================
