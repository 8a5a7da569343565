----------------------------- MODULE MCRunLease -----------------------------
(***************************************************************************)
(* RunLease on two small instances, of which a behaviour takes one:        *)
(*   single  the configuration's one run, two workers, five generations;   *)
(*   chain   two runs and one worker, so that a run continues as new and   *)
(*           sweeps take several rows at once.                             *)
(***************************************************************************)
EXTENDS RunLease

VARIABLES scenario, rows, sessions

allVars == <<scenario, lease, execs, rows, sessions>>

Chain == INSTANCE RunLease WITH
    Runs <- {"a", "b"}, Workers <- {"w"}, MaxGeneration <- 2, lease <- rows, execs <- sessions

MCInit == /\ Init
          /\ \/ scenario = "single" /\ rows = NULL /\ sessions = NULL
             \/ scenario = "chain" /\ Chain!Init

MCNext == \/ scenario = "single" /\ Next /\ UNCHANGED <<scenario, rows, sessions>>
          \/ scenario = "chain" /\ Chain!Next /\ UNCHANGED <<scenario, vars>>

MCSpec == MCInit /\ [][MCNext]_allVars /\ Ticks
-----------------------------------------------------------------------------
(* Two runs whose rows one transaction writes together (ContinueAsNew,     *)
(* ReapStaleInstances): the invariant that the proofs carry holds, and     *)
(* every step moves each run as the life cycle promises.                   *)
ChainImplementsLifecycle ==
    /\ [](scenario = "chain" => Chain!IInv)
    /\ [][scenario = "chain" => Chain!Lifecycle!Next]_<<rows>>

(* No run hangs: a holder that dies is replaced, and a recorded outcome is *)
(* applied, even when every worker that claims the cleanup hangs while it  *)
(* heartbeats (ReapStaleInstances, ExpireDeferPhases).                     *)
NothingHangs == DeadHolderReplaced /\ RecordedOutcomeApplied
=============================================================================
