----------------------------- MODULE MCHistory ------------------------------
(***************************************************************************)
(* EventFlush on three small instances, of which a behaviour takes one:    *)
(*   direct  two workers hand one run to and fro, every event is written   *)
(*           by its own fenced INSERT (the module's own variables and the  *)
(*           configuration's constants);                                   *)
(*   zombie  one worker claims the run again while its old executions      *)
(*           still share its flusher;                                      *)
(*   batch   two runs of one worker fill and time out each other's batch.  *)
(* The last two write in batches and have variables of their own.          *)
(* BatchSpec is a fourth instance, on which two workers write in batches.  *)
(***************************************************************************)
EXTENDS EventFlush

VARIABLES scenario, blease, bhistory, bexecs, bqueue, barmed, bfired, bflights

batchVars == <<blease, bhistory, bexecs, bqueue, barmed, bfired, bflights>>
allVars == <<scenario, vars, batchVars>>

Zombie == INSTANCE EventFlush WITH
    Workers <- {"w1"}, MaxSteps <- 2, BatchEnabled <- TRUE,
    lease <- blease, event_history <- bhistory, execs <- bexecs, queue <- bqueue,
    armed <- barmed, fired <- bfired, flights <- bflights
Batch == INSTANCE EventFlush WITH
    Runs <- {"r1", "r2"}, Workers <- {"w1"}, MaxGeneration <- 2, MaxSteps <- 2,
    BatchEnabled <- TRUE,
    lease <- blease, event_history <- bhistory, execs <- bexecs, queue <- bqueue,
    armed <- barmed, fired <- bfired, flights <- bflights
Gap == INSTANCE EventFlush WITH
    MaxGeneration <- 3, MaxSteps <- 2, BatchEnabled <- TRUE,
    lease <- blease, event_history <- bhistory, execs <- bexecs, queue <- bqueue,
    armed <- barmed, fired <- bfired, flights <- bflights

ASSUME Zombie!ConstantsOK /\ Batch!ConstantsOK /\ Gap!ConstantsOK

NoBatch == /\ blease = NULL /\ bhistory = NULL /\ bexecs = NULL /\ bqueue = NULL
           /\ barmed = NULL /\ bfired = NULL /\ bflights = {}

MCInit == /\ Init
          /\ \/ scenario = "direct" /\ NoBatch
             \/ scenario = "zombie" /\ Zombie!Init
             \/ scenario = "batch" /\ Batch!Init

MCNext == /\ \/ scenario = "direct" /\ Next /\ UNCHANGED batchVars
             \/ scenario = "zombie" /\ Zombie!Next /\ UNCHANGED vars
             \/ scenario = "batch" /\ Batch!Next /\ UNCHANGED vars
          /\ UNCHANGED scenario

InBatch(step) == scenario = "batch" /\ step /\ UNCHANGED <<scenario, vars>>

(* EventFlush's Fairness, of the third instance *)
MCSpec == /\ MCInit /\ [][MCNext]_allVars
          /\ WF_allVars(InBatch(Batch!TimerFires("w1")))
          /\ WF_allVars(InBatch(Batch!onTimer("w1")))
          /\ WF_allVars(InBatch(\E f \in bflights : Batch!partitionFencedBatch(f)))
          /\ WF_allVars(InBatch(\E f \in bflights : Batch!InsertBatch(f)))

BatchSpec == /\ Init /\ scenario = "gap" /\ Gap!Init
             /\ [][Gap!Next /\ UNCHANGED <<scenario, vars>>]_allVars
-----------------------------------------------------------------------------
(* In batch mode too a session never takes the record of one step for      *)
(* another's (validateReplayStepDensity), and the table and the flushers   *)
(* are well formed.                                                        *)
BatchKeepsSteps == scenario = "zombie" => Zombie!TypeOK /\ Zombie!ReplayKeepsSteps

(* An event the flusher answered with nil has a row while its run is held, *)
(* whatever errors, lost fences and clashes the other entries of its batch *)
(* met (flushAndNotify).                                                   *)
AnsweredInBatch == /\ scenario = "zombie" => Zombie!AnsweredMeansStored
                   /\ scenario = "batch" => Batch!AnsweredMeansStored

(* recordEvent's blocking receive returns: every entry leaves in a full    *)
(* batch or when the timer fires, and is answered.  (The two runs are      *)
(* interchangeable.)                                                       *)
EveryEntryIsAnswered ==
    LET Waits == scenario = "batch" /\ \E e \in bexecs : e.run = "r1" /\ e.at = "waiting"
    IN  Waits ~> ~Waits

(* The flusher keeps its word: every entry is answered, and the answer is  *)
(* true of the table.                                                      *)
BatchIsAnswered == [](BatchKeepsSteps /\ AnsweredInBatch) /\ EveryEntryIsAnswered

(* What db.go says of the call sites that check the fence first and write  *)
(* second, partitionFencedBatch among them: the write is as good as        *)
(* fenced.                                                                 *)
BatchNeedsFence == [][scenario = "gap" => Gap!WriteNeedsFenceStep]_allVars
=============================================================================
