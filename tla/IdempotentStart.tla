-------------------------- MODULE IdempotentStart ---------------------------
(***************************************************************************)
(* Starting, reprocessing and signalling under an Idempotency-Key, with    *)
(* the statements of each transaction taken apart.  startNewRun looks the  *)
(* key up, clears it if its time is over, inserts it unless it conflicts,  *)
(* and writes the run in the same transaction; on a conflict it gives up   *)
(* the transaction and reads the winner in another.  A transaction's now() *)
(* is the time it began; a statement that meets another transaction's      *)
(* uncommitted row waits for it.  DeliverSignalIdempotent inserts the      *)
(* token first, and has neither lookup nor clearing.  Beside them work the *)
(* hourly cleanup of expired keys, the retention sweep, which deletes keys *)
(* with their run, and the operator who drains a worker, suspends a tenant *)
(* or deprecates a version.                                                *)
(*                                                                         *)
(* A request is named after the run (or signal) it would create.  The      *)
(* tenant, the hash and the row's columns other than workflow_id, def_name,*)
(* input_digest and expires_at are left out.                               *)
(***************************************************************************)
EXTENDS Naturals, FiniteSets, TLC

CONSTANTS
    Requests,   \* HTTP requests, each sent once
    Req,        \* request -> [op, key, def, input, target]
    Old,        \* runs of before: run -> its status
    TTL,        \* idempotencyKeyTTL
    Retention,  \* how long a settled run is kept
    Span,       \* the longest a transaction lasts
    MaxTime,    \* bound: clock
    MaxFaults   \* bound: lost connections and lost answers

Runs == Requests \cup DOMAIN Old
Outcomes == {"waiting", "refused", "mismatch", "error", "no_rows", "not_found"}

(* What the constants may be: a key outlives two transactions, and so does *)
(* a settled run; what is reprocessed or signalled has a name, and the     *)
(* name of a new run (a fresh UUID) is not that of an old one.             *)
ConstantsOK ==
    /\ {TTL, Retention, Span, MaxTime, MaxFaults} \subseteq Nat
    /\ TTL > 2 * Span /\ Retention > 2 * Span
    /\ \A q \in Requests : /\ Req[q].op \in {"start", "reprocess", "signal"}
                           /\ Req[q].op # "start" => Req[q].target \in Runs
    /\ Requests \cap (DOMAIN Old \cup Outcomes \cup {"none"}) = {}
    /\ \A r \in DOMAIN Old : Old[r] \in {"live", "dead_lettered", "done"}
ASSUME StartAssumption == ConstantsOK

VARIABLES
    now,
    keys,       \* slot -> committed row of idempotency_keys, or NoRow
    runs,       \* run -> "none", "live", "dead_lettered", "done", "gone"
    since,      \* run -> when it settled
    signals,    \* the signals committed
    closed,     \* the start handler turns requests away
    tx,         \* request -> [pc, at, cleared]: its handler and transaction
    told,       \* request -> what the caller was told
    until,      \* history: request -> the end of its key's time, once it has created something
    faults

vars == <<now, keys, runs, since, signals, closed, tx, told, until, faults>>

NoRow == [of |-> "none"]

(* The operation is folded into the hash: a start and a signal under one   *)
(* key do not meet.                                                        *)
Slot(q) == <<IF Req[q].op = "signal" THEN "signal" ELSE "start", Req[q].key>>
Slots == {Slot(q) : q \in Requests}

Init ==
    /\ now = 0
    /\ keys = [s \in Slots |-> NoRow]
    /\ runs = [r \in Runs |-> IF r \in DOMAIN Old THEN Old[r] ELSE "none"]
    /\ since = [r \in Runs |-> 0]
    /\ signals = {}
    /\ closed = FALSE
    /\ tx = [q \in Requests |-> [pc |-> "arrived", at |-> 0, cleared |-> FALSE]]
    /\ told = [q \in Requests |-> "waiting"]
    /\ until = [q \in Requests |-> 0]
    /\ faults = 0

-----------------------------------------------------------------------------
At(q, pc) == tx[q].pc = pc
InTransaction(q) == tx[q].pc \in {"lookup", "clear", "insert", "write", "reread", "token", "deliver"}
Ended == [pc |-> "over", at |-> 0, cleared |-> FALSE]

Answer(q, what) ==
    /\ told' = [told EXCEPT ![q] = what]
    /\ tx' = [tx EXCEPT ![q] = Ended]

Goto(q, pc) == tx' = [tx EXCEPT ![q].pc = pc]

(* Rows other transactions have written and not committed.                 *)
Locked(s, q) == \E p \in Requests \ {q} : Slot(p) = s /\ (tx[p].pc \in {"write", "deliver"} \/ tx[p].cleared)

(* The row as the request's own transaction sees it.                       *)
Row(q) == IF tx[q].cleared THEN NoRow ELSE keys[Slot(q)]
Exists(row) == row # NoRow

(* The handlers' checks before they come to the key: a start is turned     *)
(* away by a draining worker, for a suspended tenant or a deprecated       *)
(* version; so is the reprocessing of a run that is not (or no longer)     *)
(* dead-lettered, and a signal to a run that is not there.                 *)
Refuses(q) ==
    CASE Req[q].op = "start" -> closed
      [] Req[q].op = "reprocess" -> runs[Req[q].target] # "dead_lettered"
      [] OTHER -> runs[Req[q].target] \in {"none", "gone"}

Handle(q) ==
    /\ At(q, "arrived")
    /\ IF Refuses(q)
       THEN Answer(q, "refused")
       ELSE /\ tx' = [tx EXCEPT ![q] = [pc |-> IF Req[q].op = "signal" THEN "token" ELSE "lookup", at |-> now, cleared |-> FALSE]]
            /\ UNCHANGED told
    /\ UNCHANGED <<now, keys, runs, since, signals, closed, faults, until>>

(* A hit must be for the same definition and the same input.               *)
checkIdempotencyInput(row, q) == Req[row.of].input = Req[q].input
SameDefinition(row, q) == Req[row.of].def = Req[q].def
SameDefinitionOnly(row, q) == SameDefinition(row, q)
SameRequest(row, q) == SameDefinition(row, q) /\ checkIdempotencyInput(row, q)
Hit(row, q) == IF SameRequest(row, q) THEN row.of ELSE "mismatch"

Live(row, at) == Exists(row) /\ row.expires > at

(* The lookup: a live row answers the request.                             *)
Lookup(q) ==
    /\ At(q, "lookup")
    /\ IF Live(keys[Slot(q)], tx[q].at)
       THEN Answer(q, Hit(keys[Slot(q)], q))
       ELSE Goto(q, "clear") /\ UNCHANGED told
    /\ UNCHANGED <<now, keys, runs, since, signals, closed, faults, until>>

(* What the DELETE matches: the key's row, if its time is over.            *)
ClearsAny(row, at) == Exists(row)
Clears(row, at) == Exists(row) /\ row.expires <= at

ClearExpired(q) ==
    /\ At(q, "clear")
    /\ ~Locked(Slot(q), q)
    /\ tx' = [tx EXCEPT ![q].pc = "insert", ![q].cleared = Clears(keys[Slot(q)], tx[q].at)]
    /\ UNCHANGED <<now, keys, runs, since, signals, closed, told, faults, until>>

(* INSERT ... ON CONFLICT DO NOTHING.  A conflict gives the transaction up *)
(* and opens the one of the re-read.                                       *)
Insert(q) ==
    /\ At(q, "insert")
    /\ ~Locked(Slot(q), q)
    /\ IF Exists(Row(q))
       THEN tx' = [tx EXCEPT ![q] = [pc |-> "reread", at |-> now, cleared |-> FALSE]]
       ELSE Goto(q, "write")
    /\ UNCHANGED <<now, keys, runs, since, signals, closed, told, faults, until>>

(* The re-read of the winner, by the same rules as the lookup.             *)
RereadHit(row, q) == Hit(row, q)

Reread(q) ==
    /\ At(q, "reread")
    /\ Answer(q, IF Live(keys[Slot(q)], tx[q].at) THEN RereadHit(keys[Slot(q)], q) ELSE "no_rows")
    /\ UNCHANGED <<now, keys, runs, since, signals, closed, faults, until>>

(* The row this transaction inserted: its time runs from the transaction's *)
(* beginning.                                                              *)
NewRow(q) == [of |-> q, expires |-> tx[q].at + TTL]

(* The run's rows, and the commit.  The answer may be lost after it.       *)
CommitRun(q) ==
    /\ At(q, "write")
    /\ keys' = [keys EXCEPT ![Slot(q)] = NewRow(q)]
    /\ runs' = [runs EXCEPT ![q] = "live"]
    /\ until' = [until EXCEPT ![q] = tx[q].at + TTL]
    /\ \E lost \in BOOLEAN :
          /\ faults' = IF lost THEN faults + 1 ELSE faults
          /\ faults' <= MaxFaults
          /\ Answer(q, IF lost THEN "error" ELSE q)
    /\ UNCHANGED <<now, since, signals, closed>>

(* The token of a signal: the insert decides, and whatever row is there    *)
(* absorbs the signal.                                                     *)
ClaimToken(q) ==
    /\ At(q, "token")
    /\ ~Locked(Slot(q), q)
    /\ IF Exists(keys[Slot(q)])
       THEN Answer(q, keys[Slot(q)].of)
       ELSE Goto(q, "deliver") /\ UNCHANGED told
    /\ UNCHANGED <<now, keys, runs, since, signals, closed, faults, until>>

(* deliverSignalTx: the run may have been swept since it was looked at; an *)
(* error leaves no token behind.                                           *)
NotFound(q) == UNCHANGED keys

CommitSignal(q) ==
    /\ At(q, "deliver")
    /\ IF runs[Req[q].target] = "gone"
       THEN /\ Answer(q, "not_found")
            /\ NotFound(q)
            /\ UNCHANGED <<signals, until, faults>>
       ELSE /\ keys' = [keys EXCEPT ![Slot(q)] = NewRow(q)]
            /\ signals' = signals \cup {q}
            /\ until' = [until EXCEPT ![q] = tx[q].at + TTL]
            /\ \E lost \in BOOLEAN :
                  /\ faults' = IF lost THEN faults + 1 ELSE faults
                  /\ faults' <= MaxFaults
                  /\ Answer(q, IF lost THEN "error" ELSE q)
    /\ UNCHANGED <<now, runs, since, closed>>

AbandonWithoutRollback(q) ==
    /\ told' = [told EXCEPT ![q] = "error"]
    /\ tx' = [tx EXCEPT ![q] = [Ended EXCEPT !.cleared = TRUE]]
Abandon(q) == Answer(q, "error")

(* The connection is lost inside a transaction: it is rolled back.         *)
LoseConnection(q) ==
    /\ InTransaction(q)
    /\ faults < MaxFaults
    /\ faults' = faults + 1
    /\ Abandon(q)
    /\ UNCHANGED <<now, keys, runs, since, signals, closed, until>>

-----------------------------------------------------------------------------
(* A run settles; a dead-lettered one may be terminated by an operator.    *)
Settle(r) ==
    /\ \/ runs[r] = "live" /\ \E st \in {"done", "dead_lettered"} : runs' = [runs EXCEPT ![r] = st]
       \/ runs[r] = "dead_lettered" /\ runs' = [runs EXCEPT ![r] = "done"]
    /\ since' = [since EXCEPT ![r] = now]
    /\ UNCHANGED <<now, keys, signals, closed, tx, told, faults, until>>

Outdated(row) == Exists(row) /\ row.expires < now

(* sweepExpiredIdempotencyKeys.                                            *)
Sweep ==
    /\ \A s \in Slots : \A q \in Requests : ~Locked(s, q)
    /\ \E s \in Slots : Outdated(keys[s])
    /\ keys' = [s \in Slots |-> IF Outdated(keys[s]) THEN NoRow ELSE keys[s]]
    /\ UNCHANGED <<now, runs, since, signals, closed, tx, told, faults, until>>

(* The run a key row names: the run that was started, or the one that was  *)
(* signalled.                                                              *)
workflow_id(row) == IF Req[row.of].op = "signal" THEN Req[row.of].target ELSE row.of
NamesNone(row, r) == FALSE
Names(row, r) == Exists(row) /\ workflow_id(row) = r

(* deleteCompletedWorkflowsBatch and deleteDeadLetteredWorkflowsBatch: the *)
(* run and the keys that name it go together.                              *)
Purge(r) ==
    /\ runs[r] \in {"done", "dead_lettered"}
    /\ since[r] + Retention <= now
    /\ \A s \in Slots, q \in Requests : Names(keys[s], r) => ~Locked(s, q)
    /\ runs' = [runs EXCEPT ![r] = "gone"]
    /\ keys' = [s \in Slots |-> IF Names(keys[s], r) THEN NoRow ELSE keys[s]]
    /\ UNCHANGED <<now, since, signals, closed, tx, told, faults, until>>

(* The worker begins or ends to drain, the tenant is suspended or resumed, *)
(* the version is deprecated or restored.                                  *)
OpenOrClose ==
    /\ closed' = ~closed
    /\ UNCHANGED <<now, keys, runs, since, signals, tx, told, faults, until>>

(* Time passes.  A transaction lasts at most Span, and keys and settled    *)
(* runs are kept for more than two transactions.                           *)
Tick ==
    /\ now < MaxTime
    /\ \A q \in Requests : InTransaction(q) => now < tx[q].at + Span
    /\ now' = now + 1
    /\ UNCHANGED <<keys, runs, since, signals, closed, tx, told, faults, until>>

Step(q) ==
    \/ Handle(q) \/ Lookup(q) \/ ClearExpired(q) \/ Insert(q) \/ Reread(q)
    \/ CommitRun(q) \/ ClaimToken(q) \/ CommitSignal(q)

Next ==
    \/ \E q \in Requests : Step(q) \/ LoseConnection(q)
    \/ \E r \in Runs : Settle(r) \/ Purge(r)
    \/ Sweep \/ OpenOrClose \/ Tick

Spec == Init /\ [][Next]_vars

Fairness == \A q \in Requests : WF_vars(Step(q))
FairSpec == Spec /\ Fairness

-----------------------------------------------------------------------------
(* Every variable has its type; a transaction that holds a row holds it    *)
(* alone.                                                                  *)
TypeOK ==
    /\ now \in 0..MaxTime
    /\ \A s \in Slots : keys[s] = NoRow \/ (keys[s].of \in Requests /\ keys[s].expires \in 0..MaxTime + TTL)
    /\ runs \in [Runs -> {"none", "live", "dead_lettered", "done", "gone"}]
    /\ signals \subseteq Requests
    /\ \A q \in Requests : told[q] \in Requests \cup Outcomes
    /\ \A q \in Requests : tx[q].pc \in {"write", "deliver"} => ~Locked(Slot(q), q)

Starts == {q \in Requests : Req[q].op # "signal"}
Signals == Requests \ Starts

SameAs(q, p) == Req[p].def = Req[q].def /\ Req[p].input = Req[q].input

(* What a request created is there, and its key's time is not over.        *)
Current(q) ==
    /\ until[q] > now
    /\ runs[IF q \in Signals THEN Req[q].target ELSE q] # "gone"

(* Under one key at most one run is started, and at most one signal is     *)
(* delivered, while the key's time lasts: whatever the interleaving of the *)
(* requests' statements with each other, with the cleanup of expired keys  *)
(* and with the sweep (engine/store_lifecycle.go:1754-1758).               *)
OncePerKey == \A p, q \in Requests : p # q /\ Slot(p) = Slot(q) => ~(Current(p) /\ Current(q))

(* A start that is told of a run is told of one that asked for the same    *)
(* definition with the same input, also when it lost a race                *)
(* (engine/store_lifecycle.go:1811-1814).                                  *)
ToldOfTheSame == \A q \in Starts : told[q] \in Requests => Slot(told[q]) = Slot(q) /\ SameAs(q, told[q])

(* The re-read after a conflict finds the winner                           *)
(* (engine/store_lifecycle.go:1787-1790).                                  *)
WinnerIsFound == \A q \in Requests : told[q] # "no_rows"

(* A key row never claims what is not there: its run has rows, its signal  *)
(* was delivered, and the run it names has not been swept                  *)
(* (engine/signal_idempotency.go:25-28, engine/db.go:2362-2369).           *)
KeyTellsTheTruth ==
    \A s \in Slots : Exists(keys[s]) =>
        /\ keys[s].of \in Signals => keys[s].of \in signals
        /\ runs[workflow_id(keys[s])] \notin {"none", "gone"}

(* What a key and an answer say is so: of the run, of the signal, and of   *)
(* what the winner asked for (engine/signal_idempotency.go:25-28,          *)
(* engine/store_lifecycle.go:1811-1814).                                   *)
KeysAreHonest == KeyTellsTheTruth /\ ToldOfTheSame

(* The statements implement the promise of StartOnce for starts and        *)
(* reprocessing.                                                           *)
SeenAs(t) == IF t \in {"mismatch"} THEN "refused" ELSE IF t = "no_rows" THEN "error" ELSE t
StartSlots == {Slot(q) : q \in Starts}
Promise == INSTANCE StartOnce WITH
    Requests <- Starts,
    KeyOf <- [q \in Starts |-> Slot(q)],
    Same <- SameAs,
    None <- "none",
    holder <- [s \in StartSlots |-> keys[s].of],
    lapsed <- {s \in StartSlots : Exists(keys[s]) /\ keys[s].expires <= now},
    told <- [q \in Starts |-> SeenAs(told[q])]
KeepsPromise == Promise!Spec
=============================================================================
