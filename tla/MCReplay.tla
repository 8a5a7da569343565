------------------------------ MODULE MCReplay ------------------------------
(***************************************************************************)
(* What a replay reads: CallIntent and AwaitReplay on small instances, of  *)
(* which a behaviour takes one.                                            *)
(* CallIntent:                                                             *)
(*   faults    writes fail or lose their answer, a resolver and two        *)
(*             operators decide pending calls (the module's own variables  *)
(*             and the configuration's constants);                         *)
(*   calls     three calls, workers crash and zombies go on;               *)
(*   keys      the operations may be repeated under their key;             *)
(*   sweeps    operators re-replay while the retention sweep deletes.      *)
(* AwaitReplay:                                                            *)
(*   receives  signals, with and without a timeout, and a poll;            *)
(*   zombies   the same with executions that lost their claim;             *)
(*   gathers   any, all and one of two children;                           *)
(*   sleeps    updates dispatched around a sleep and an await;             *)
(*   promises  a promise after updates.                                    *)
(* All but faults have variables of their own.                             *)
(* LostSpec is one more instance of receives, with zombies and a timeout.  *)
(***************************************************************************)
EXTENDS CallIntent

VARIABLES scenario,
          cguest, clease, chistory, cswept, cexecs, crequests, capplied, crefused, cadmin,
          now, signals, sent, promise, updates, children, effects, told

callVars == <<cguest, cswept, crequests, capplied, crefused, cadmin>>
awaitVars == <<now, signals, sent, promise, updates, children, effects, told>>
otherVars == <<clease, chistory, cexecs, callVars, awaitVars>>
allVars == <<scenario, vars, otherVars>>
-----------------------------------------------------------------------------
ThreeCalls == INSTANCE CallIntent WITH
    MaxGeneration <- 4, MaxCalls <- 3, MaxSteps <- 3, CatchChoices <- {FALSE},
    Resolver <- FALSE, Operator <- FALSE, OperatorsRace <- FALSE, WritesFail <- FALSE,
    guest <- cguest, lease <- clease, event_history <- chistory, swept <- cswept,
    execs <- cexecs, requests <- crequests, applied <- capplied, refused <- crefused,
    admin <- cadmin
Keys == INSTANCE CallIntent WITH
    MaxGeneration <- 3, MaxCalls <- 3, MaxSteps <- 3, KeyReplay <- TRUE,
    Resolver <- FALSE, Operator <- FALSE, OperatorsRace <- FALSE,
    guest <- cguest, lease <- clease, event_history <- chistory, swept <- cswept,
    execs <- cexecs, requests <- crequests, applied <- capplied, refused <- crefused,
    admin <- cadmin
Sweeps == INSTANCE CallIntent WITH
    MaxGeneration <- 5, MaxCalls <- 2, MaxSteps <- 4, CatchChoices <- {FALSE},
    Resolver <- FALSE, OperatorsRace <- FALSE, Retention <- TRUE, WritesFail <- FALSE,
    guest <- cguest, lease <- clease, event_history <- chistory, swept <- cswept,
    execs <- cexecs, requests <- crequests, applied <- capplied, refused <- crefused,
    admin <- cadmin

Timeout == 2
MaxSettles == 0
MaxChain == 1
Children == {}
ReadsFail == FALSE
Crashes == TRUE
Zombies == FALSE
TwoReceives == <<"signals", "call", "signals", "call", "signals_0ms", "poll_signal">>

Receives == INSTANCE AwaitReplay WITH
    Program <- TwoReceives, MaxTime <- 3, MaxSegments <- 4, MaxSignals <- 2, MaxUpdates <- 0,
    lease <- clease, event_history <- chistory, execs <- cexecs
Reaped == INSTANCE AwaitReplay WITH
    Program <- TwoReceives, MaxTime <- 3, MaxSegments <- 2, MaxSignals <- 2, MaxUpdates <- 0,
    Zombies <- TRUE,
    lease <- clease, event_history <- chistory, execs <- cexecs
Gathers == INSTANCE AwaitReplay WITH
    Program <- <<"any", "all", "child", "call", "poll_child">>, Children <- {1, 2},
    MaxTime <- 1, MaxSegments <- 4, MaxSignals <- 0, MaxUpdates <- 0, MaxChain <- 2, ReadsFail <- TRUE,
    lease <- clease, event_history <- chistory, execs <- cexecs
Sleeps == INSTANCE AwaitReplay WITH
    Program <- <<"updates", "sleep", "call", "updates", "signals", "call">>,
    MaxTime <- 4, MaxSegments <- 3, MaxSignals <- 1, MaxUpdates <- 2,
    lease <- clease, event_history <- chistory, execs <- cexecs
Promises == INSTANCE AwaitReplay WITH
    Program <- <<"updates", "call", "promise">>,
    MaxTime <- 4, MaxSegments <- 4, MaxSignals <- 0, MaxUpdates <- 1, MaxSettles <- 1,
    lease <- clease, event_history <- chistory, execs <- cexecs
LostSignal == INSTANCE AwaitReplay WITH
    Program <- TwoReceives, MaxTime <- 4, MaxSegments <- 4, MaxSignals <- 1, MaxUpdates <- 0,
    Crashes <- FALSE, Zombies <- TRUE,
    lease <- clease, event_history <- chistory, execs <- cexecs

ASSUME /\ ThreeCalls!ConstantsOK /\ Keys!ConstantsOK /\ Sweeps!ConstantsOK
       /\ Receives!ConstantsOK /\ Reaped!ConstantsOK /\ Gathers!ConstantsOK
       /\ Sleeps!ConstantsOK /\ Promises!ConstantsOK /\ LostSignal!ConstantsOK
-----------------------------------------------------------------------------
NoAwaits == /\ now = NULL /\ signals = NULL /\ sent = NULL /\ promise = NULL
            /\ updates = NULL /\ children = NULL /\ effects = NULL /\ told = NULL
NoCalls == /\ cguest = NULL /\ cswept = NULL /\ crequests = NULL
           /\ capplied = NULL /\ crefused = NULL /\ cadmin = NULL
NoOthers == clease = NULL /\ chistory = NULL /\ cexecs = NULL /\ NoCalls /\ NoAwaits
Idle == Init /\ guest = [ops |-> [c \in Calls |-> "plain"], catches |-> FALSE]

MCInit == \/ scenario = "faults" /\ Init /\ NoOthers
          \/ /\ Idle /\ NoAwaits
             /\ \/ scenario = "calls" /\ ThreeCalls!Init
                \/ scenario = "keys" /\ Keys!Init
                \/ scenario = "sweeps" /\ Sweeps!Init
          \/ /\ Idle /\ NoCalls
             /\ \/ scenario = "receives" /\ Receives!Init
                \/ scenario = "zombies" /\ Reaped!Init
                \/ scenario = "gathers" /\ Gathers!Init
                \/ scenario = "sleeps" /\ Sleeps!Init
                \/ scenario = "promises" /\ Promises!Init

MCNext == /\ \/ scenario = "faults" /\ Next /\ UNCHANGED otherVars
             \/ /\ \/ scenario = "calls" /\ ThreeCalls!Next
                   \/ scenario = "keys" /\ Keys!Next
                   \/ scenario = "sweeps" /\ Sweeps!Next
                /\ UNCHANGED <<vars, awaitVars>>
             \/ /\ \/ scenario = "receives" /\ Receives!Next
                   \/ scenario = "zombies" /\ Reaped!Next
                   \/ scenario = "gathers" /\ Gathers!Next
                   \/ scenario = "sleeps" /\ Sleeps!Next
                   \/ scenario = "promises" /\ Promises!Next
                /\ UNCHANGED <<vars, callVars>>
          /\ UNCHANGED scenario

MCSpec == MCInit /\ [][MCNext]_allVars

LostSpec == /\ scenario = "lost" /\ Idle /\ LostSignal!Init /\ NoCalls
            /\ [][LostSignal!Next /\ UNCHANGED <<scenario, vars, callVars>>]_allVars
-----------------------------------------------------------------------------
(* EffectsAreRecorded of CallIntent's other instances.  After a sweep the  *)
(* rows are gone, the effects are not.                                     *)
OthersAreRecorded == /\ scenario = "calls" => ThreeCalls!EffectsAreRecorded
                     /\ scenario = "keys" => Keys!EffectsAreRecorded
                     /\ scenario = "sweeps" => Sweeps!EffectsAreRecorded

(* CompleteCallIntent, ResolveCallIntent and ResolveStep race for a        *)
(* pending row: the first outcome recorded is kept as long as the row is.  *)
OutcomeKept == [][OutcomeKeptStep]_allVars

(* VerifyWorkflowEvents never reports a history that only this code wrote: *)
(* with one worker at a time, and after sweeps and re-replays.             *)
ChainsVerify == /\ scenario = "calls" => ThreeCalls!ChainVerifies
                /\ scenario = "sweeps" => Sweeps!ChainVerifies

(* advanceReplayStep pairs the guest's calls with the records by position: *)
(* the record the owner's guest consumes is the one its call made.         *)
CallsFindTheirRecords == scenario = "calls" => ThreeCalls!ReplayFindsOwnCall

(* The rows and sessions of AwaitReplay are well formed. *)
WaitTypes == /\ scenario = "receives" => Receives!TypeOK
             /\ scenario = "zombies" => Reaped!TypeOK
             /\ scenario = "gathers" => Gathers!TypeOK
             /\ scenario = "sleeps" => Sleeps!TypeOK
             /\ scenario = "promises" => Promises!TypeOK

(* Once an event is stored past a host call, every later execution is told *)
(* there what the one that stored it was told, for awaits that record      *)
(* their answer, awaits that record it one step later, and awaits that     *)
(* record nothing.                                                         *)
AnswersAgree == /\ scenario = "receives" => Receives!AnswersAgree
                /\ scenario = "zombies" => Reaped!AnswersAgree
                /\ scenario = "gathers" => Gathers!AnswersAgree
                /\ scenario = "sleeps" => Sleeps!AnswersAgree
                /\ scenario = "promises" => Promises!AnswersAgree

(* consumeDelivered after recordEvent: a delivery leaves the queue only    *)
(* when the event that says it was received is stored, if no execution     *)
(* outlives its claim.                                                     *)
SignalKept == scenario = "receives" => Receives!SignalNotLost

(* PollSignal takes the oldest delivery: the run receives them in order, a *)
(* repeated one directly after itself, whatever died or was reaped between.*)
SignalsInOrder == /\ scenario = "receives" => Receives!SignalsInOrder
                  /\ scenario = "zombies" => Reaped!SignalsInOrder

(* A timeout is measured from the await that is in the history: a session  *)
(* reports as many as it has awaits whose recorded deadline has passed.    *)
TimeoutsAreDue == /\ scenario = "receives" => Receives!TimeoutsAreDue
                  /\ scenario = "promises" => Promises!TimeoutsAreDue

(* The records of calls can be replayed: their chain verifies, each is     *)
(* found by the call that made it, none changes once it has an outcome,    *)
(* and under every kind of fault the effects are as recorded.              *)
CallsReplay == [](ChainsVerify /\ CallsFindTheirRecords /\ OthersAreRecorded) /\ OutcomeKept

(* Waits can be replayed: an answer stands, no signal is lost or passes    *)
(* another, and no timeout is early.                                       *)
WaitsReplay == WaitTypes /\ AnswersAgree /\ SignalKept /\ SignalsInOrder /\ TimeoutsAreDue

(* What the comment of DurableAwaitSignals says of the order of its two    *)
(* writes: a signal is consumed only once its receipt is recorded.         *)
SignalNotLost == scenario = "lost" => LostSignal!SignalNotLost
=============================================================================
