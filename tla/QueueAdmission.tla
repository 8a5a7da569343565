--------------------------- MODULE QueueAdmission ---------------------------
(***************************************************************************)
(* Admission of runs under concurrency keys: the claim transaction of      *)
(* PostgresStore (candidate selection, queue-row locks, acquisition,       *)
(* update), the sticky claim, the release that follows a settled run, the  *)
(* reaper and the switching of queues.                                     *)
(*                                                                         *)
(* A run may carry a key.  A key that names a live row of the queues table *)
(* is a semaphore whose slots are queue_holders rows; any other key is a   *)
(* mutex whose holder is the key's concurrency_keys row.  The claim runs   *)
(* at READ COMMITTED: every statement sees what is committed when it       *)
(* starts, plus what its own transaction wrote.                            *)
(***************************************************************************)
EXTENDS Integers, Sequences, FiniteSets, SequencesExt, FiniteSetsExt

CONSTANTS
    Runs,         \* runs, numbered in the order of their creation
    Workers,
    Keys,         \* numbered in the order of their names
    Queues,       \* the keys that are registered as queues
    Key,          \* the key of each run, NoKey for none
    Limit,        \* concurrency_limit of each queue
    WorkerCap,    \* worker_concurrency of each queue, 0 for none
    RateLimit,    \* rate_limit of each queue, 0 for none
    Batch,        \* how many runs one claim asks for
    StickyRuns,   \* runs somebody may pin to a worker
    Outlived,     \* runs that may still be live when their row's expires_at has passed
    Verdicts,     \* what a clean-up statement after a settle may answer
    LateRelease,  \* whether a run may be retried before its clean-up has run
    MaxToggles,   \* bound: how often an operator switches queues
    MaxReturns,   \* bound: how often a running run goes back to the table
    MaxRetries,   \* bound: how often an operator retries a settled run
    NoKey, NoRun, NoWorker

(* What the constants may be. *)
ConstantsOK ==
    /\ Runs \subseteq Nat /\ IsFiniteSet(Runs)
    /\ Keys \subseteq Nat /\ Queues \subseteq Keys
    /\ Key \in [Runs -> Keys \cup {NoKey}]
    /\ Limit \in [Queues -> Nat \ {0}]
    /\ WorkerCap \in [Queues -> Nat] /\ RateLimit \in [Queues -> Nat]
    /\ Batch \in Nat \ {0}
    /\ NoKey \notin Keys /\ NoRun \notin Runs /\ NoWorker \notin Workers

VARIABLES
    status,     \* of each run: ready (and due), parked (ready, not due), running, settled
    owner,      \* workflow_leases.assigned_to
    keys,       \* concurrency_keys: the run holding each key
    holder,     \* queue_holders: the worker_id of each run's slot, NoWorker for no row
    tokens,     \* queue_rate_tokens: unexpired rows of each queue
    disabled,   \* the queues with disabled_at set
    sticky,     \* workflow_leases.sticky_worker_id
    tx,         \* the claim transaction each worker has open
    releasing,  \* settled runs whose clean-up has not run yet
    toggles, returns, retries,
    admitted    \* ghost: live runs that some claim has admitted

vars == <<status, owner, keys, holder, tokens, disabled, sticky, tx, releasing,
          toggles, returns, retries, admitted>>
tables == <<keys, holder, tokens>>
bounds == <<toggles, returns, retries>>

-----------------------------------------------------------------------------
(* What the statements of a claim read. *)

Live(r) == status[r] # "settled"

Registered(r) == Key[r] \in Queues \ disabled

\* The runs whose rows a claim holds FOR UPDATE.
RowLocked == UNION {ToSet(tx[w].cands) : w \in Workers}

Idle == [phase |-> "idle", cands |-> <<>>, reg |-> {}, want |-> {}, locks |-> {},
         i |-> 1, inserted |-> {}, moved |-> {}, won |-> {}]

\* What transaction w sees of the two holder tables.
SlotOf(w, r) ==
    IF r \in (tx[w].inserted \cap tx[w].reg) \cup tx[w].moved THEN w ELSE holder[r]

KeyHolder(w, k) ==
    LET own == {r \in tx[w].inserted \ tx[w].reg : Key[r] = k}
    IN  IF own # {} THEN CHOOSE r \in own : TRUE ELSE keys[k]

OtherSlots(w, r) ==
    {s \in Runs \ {r} : Key[s] = Key[r] /\ Live(s) /\ SlotOf(w, s) # NoWorker}

TokensSeen(w, q) ==
    tokens[q] + Cardinality({r \in tx[w].inserted \cap tx[w].reg : Key[r] = q})

\* The key predicate of a bare key: no row of another live run.
BareFree(r) ==
    \/ Key[r] = NoKey
    \/ keys[Key[r]] \in {r, NoRun}
    \/ ~Live(keys[Key[r]])

\* The predicate of a registered queue: a free slot, and a free token whether or
\* not the run already has its slot.
QueueFree(r) ==
    LET q == Key[r]
        taken == {s \in Runs \ {r} : Key[s] = q /\ Live(s) /\ holder[s] # NoWorker}
    IN  /\ Cardinality(taken) < Limit[q]
        /\ RateLimit[q] = 0 \/ tokens[q] < RateLimit[q]

\* CountRunnableWorkflows counts these; the claim selects from them.
Candidate(r) ==
    /\ status[r] = "ready"
    /\ IF Registered(r) THEN QueueFree(r) ELSE BareFree(r)

\* ORDER BY created_at LIMIT Batch, without the rows others have locked.
Selected(eligible) ==
    LET order == SetToSortSeq(eligible \ RowLocked, LAMBDA a, b : a < b)
    IN  SubSeq(order, 1, Min({Batch, Len(order)}))

-----------------------------------------------------------------------------
(* The claim transaction. *)

\* Statement 1: read the candidates and lock their rows, skipping locked ones.
Select(w) ==
    LET cands == Selected({r \in Runs : Candidate(r)})
        reg == {r \in ToSet(cands) : Registered(r)}
    IN  /\ tx[w].phase = "idle" /\ cands # <<>>
        /\ tx' = [tx EXCEPT ![w] = [Idle EXCEPT !.phase = "lock", !.cands = cands,
                                                !.reg = reg, !.want = {Key[r] : r \in reg}]]
        /\ UNCHANGED <<status, owner, tables, disabled, sticky, releasing, bounds, admitted>>

\* Statement 2: ORDER BY name FOR UPDATE, row after row.
NextLock(w) == Min(tx[w].want)

LockFree(w, q) == \A v \in Workers \ {w} : q \notin tx[v].locks

LockQueue(w) ==
    LET q == NextLock(w)
    IN  /\ tx[w].phase = "lock" /\ tx[w].want # {}
        /\ LockFree(w, q)
        /\ tx' = [tx EXCEPT ![w].want = @ \ {q},
                            ![w].locks = IF q \in disabled THEN @ ELSE @ \cup {q}]
        /\ UNCHANGED <<status, owner, tables, disabled, sticky, releasing, bounds, admitted>>

Locked(w) ==
    /\ tx[w].phase = "lock" /\ tx[w].want = {}
    /\ tx' = [tx EXCEPT ![w].phase = "acquire"]
    /\ UNCHANGED <<status, owner, tables, disabled, sticky, releasing, bounds, admitted>>

Current(w) == tx[w].cands[tx[w].i]

\* The candidate at hand is won or refused, and the loop goes on.
Decide(w, win, ins, mov) ==
    /\ tx' = [tx EXCEPT ![w].phase = "acquire", ![w].i = @ + 1,
                        ![w].won = IF win THEN @ \cup {Current(w)} ELSE @,
                        ![w].inserted = @ \cup ins, ![w].moved = @ \cup mov]
    /\ UNCHANGED <<status, owner, tables, disabled, sticky, releasing, bounds, admitted>>

\* An INSERT waits for another open transaction that inserted the same key.
WaitsForKey(w, v) ==
    /\ tx[w].phase = "acquire" /\ tx[w].i <= Len(tx[w].cands)
    /\ Current(w) \notin tx[w].reg /\ Key[Current(w)] # NoKey
    /\ v # w /\ \E r \in tx[v].inserted \ tx[v].reg : Key[r] = Key[Current(w)]

\* INSERT ... ON CONFLICT DO NOTHING of a bare key.
AcquireBare(w) ==
    LET r == Current(w)
    IN  /\ r \notin tx[w].reg
        /\ \A v \in Workers : ~WaitsForKey(w, v)
        /\ \/ Key[r] = NoKey /\ Decide(w, TRUE, {}, {})
           \/ /\ Key[r] # NoKey /\ KeyHolder(w, Key[r]) = NoRun
              /\ Decide(w, TRUE, {r}, {})
           \/ /\ Key[r] # NoKey /\ KeyHolder(w, Key[r]) # NoRun
              /\ tx' = [tx EXCEPT ![w].phase = "conflict"]
              /\ UNCHANGED <<status, owner, tables, disabled, sticky, releasing, bounds, admitted>>

\* After a conflict a second statement reads whose row it is.
ReadHolder(w) ==
    /\ tx[w].phase = "conflict"
    /\ Decide(w, KeyHolder(w, Key[Current(w)]) = Current(w), {}, {})

AtCapacity(w, r) == Cardinality(OtherSlots(w, r)) >= Limit[Key[r]]

AtWorkerCap(w, r) ==
    /\ WorkerCap[Key[r]] # 0
    /\ Cardinality({s \in OtherSlots(w, r) : SlotOf(w, s) = w}) >= WorkerCap[Key[r]]

\* Mutant: the transaction's own tokens are not counted.
RateLimitedByCommitted(w, r) ==
    /\ RateLimit[Key[r]] # 0
    /\ SlotOf(w, r) = NoWorker
    /\ tokens[Key[r]] >= RateLimit[Key[r]]

RateLimited(w, r) ==
    /\ RateLimit[Key[r]] # 0
    /\ SlotOf(w, r) = NoWorker
    /\ TokensSeen(w, Key[r]) >= RateLimit[Key[r]]

\* The semaphore, decided under the queue's row lock.
AcquireSlot(w) ==
    LET r == Current(w)
        mine == SlotOf(w, r) = w
        refused == \/ Key[r] \notin tx[w].locks
                   \/ ~mine /\ (AtCapacity(w, r) \/ AtWorkerCap(w, r) \/ RateLimited(w, r))
        takes == ~refused /\ ~mine
    IN  /\ r \in tx[w].reg
        /\ Decide(w, ~refused,
                  IF takes /\ SlotOf(w, r) = NoWorker THEN {r} ELSE {},
                  IF takes /\ SlotOf(w, r) # NoWorker THEN {r} ELSE {})

Acquire(w) ==
    /\ tx[w].phase = "acquire" /\ tx[w].i <= Len(tx[w].cands)
    /\ AcquireBare(w) \/ AcquireSlot(w)

Decided(w) == tx[w].phase = "acquire" /\ tx[w].i > Len(tx[w].cands)

\* The winners become running and the transaction commits; with no winner it
\* rolls back.
Commit(w) ==
    LET won == tx[w].won
        bare == tx[w].inserted \ tx[w].reg
        slots == (tx[w].inserted \cap tx[w].reg) \cup tx[w].moved
    IN  /\ Decided(w)
        /\ status' = [r \in Runs |-> IF r \in won THEN "running" ELSE status[r]]
        /\ owner' = [r \in Runs |-> IF r \in won THEN w ELSE owner[r]]
        /\ keys' = [k \in Keys |-> IF \E r \in bare : Key[r] = k THEN KeyHolder(w, k) ELSE keys[k]]
        /\ holder' = [r \in Runs |-> IF r \in slots THEN w ELSE holder[r]]
        /\ tokens' = [q \in Queues |-> IF RateLimit[q] = 0 THEN 0 ELSE TokensSeen(w, q)]
        /\ admitted' = admitted \cup won
        /\ tx' = [tx EXCEPT ![w] = Idle]
        /\ UNCHANGED <<disabled, sticky, releasing, bounds>>

\* PostgreSQL ends a cycle of waiting INSERTs by failing one of them.
AbortDeadlock(w) ==
    /\ \E v \in Workers : WaitsForKey(w, v) /\ WaitsForKey(v, w)
    /\ tx' = [tx EXCEPT ![w] = Idle]
    /\ UNCHANGED <<status, owner, tables, disabled, sticky, releasing, bounds, admitted>>

\* The sticky claim is one statement: it reads concurrency_keys, takes no key and
\* does not look at the queues.
ClaimStickyWorkflows(w) ==
    LET won == ToSet(Selected({r \in Runs : status[r] = "ready" /\ sticky[r] = w /\ BareFree(r)}))
    IN  /\ tx[w].phase = "idle" /\ won # {}
        /\ status' = [r \in Runs |-> IF r \in won THEN "running" ELSE status[r]]
        /\ owner' = [r \in Runs |-> IF r \in won THEN w ELSE owner[r]]
        /\ admitted' = admitted \cup won
        /\ UNCHANGED <<tables, disabled, sticky, tx, releasing, bounds>>

-----------------------------------------------------------------------------
(* The life of a run outside the claim. *)

UpdateStickyWorker(r, w) ==
    /\ r \in StickyRuns \ RowLocked /\ Live(r) /\ sticky[r] = NoWorker
    /\ sticky' = [sticky EXCEPT ![r] = w]
    /\ UNCHANGED <<status, owner, tables, disabled, tx, releasing, bounds, admitted>>

\* A running run suspends (parked), or its lease is taken from it (ready).  It
\* keeps its key or its slot.
ReturnRun(r, to) ==
    /\ status[r] = "running" /\ returns < MaxReturns
    /\ status' = [status EXCEPT ![r] = to]
    /\ owner' = [owner EXCEPT ![r] = NoWorker]
    /\ returns' = returns + 1
    /\ UNCHANGED <<tables, disabled, sticky, tx, releasing, toggles, retries, admitted>>

Wake(r) ==
    /\ status[r] = "parked"
    /\ status' = [status EXCEPT ![r] = "ready"]
    /\ UNCHANGED <<owner, tables, disabled, sticky, tx, releasing, bounds, admitted>>

\* The commit that ends a run; the clean-up follows it as a step of its own.
SettleFrom(r, states) ==
    /\ status[r] \in states /\ r \notin RowLocked
    /\ status' = [status EXCEPT ![r] = "settled"]
    /\ owner' = [owner EXCEPT ![r] = NoWorker]
    /\ releasing' = releasing \cup {r}
    /\ admitted' = admitted \ {r}
    /\ UNCHANGED <<tables, disabled, sticky, tx, bounds>>

Settle(r) == SettleFrom(r, {"running"})

Terminate(r) == SettleFrom(r, {"ready", "parked"})

\* Both halves of releaseWorkflowResources are tried; either may fail.
ReleaseWorkflowResources(r) ==
    /\ r \in releasing /\ r \notin RowLocked
    /\ releasing' = releasing \ {r}
    /\ \E cleared, released \in Verdicts :
          /\ sticky' = IF cleared THEN [sticky EXCEPT ![r] = NoWorker] ELSE sticky
          /\ keys' = IF released THEN [k \in Keys |-> IF keys[k] = r THEN NoRun ELSE keys[k]]
                                 ELSE keys
          /\ holder' = IF released THEN [holder EXCEPT ![r] = NoWorker] ELSE holder
    /\ UNCHANGED <<status, owner, tokens, disabled, tx, bounds, admitted>>

\* A row goes when its run is settled, or when its expires_at has passed.
Reapable(r) == ~Live(r) \/ r \in Outlived

ReapExpiredConcurrencyKeys ==
    /\ keys' = [k \in Keys |-> IF keys[k] # NoRun /\ Reapable(keys[k]) THEN NoRun ELSE keys[k]]
    /\ holder' = [r \in Runs |-> IF Reapable(r) THEN NoWorker ELSE holder[r]]
    /\ <<keys', holder'>> # <<keys, holder>>
    /\ UNCHANGED <<status, owner, tokens, disabled, sticky, tx, releasing, bounds, admitted>>

\* A token's expires_at passes, and nothing counts it any more.
TokenExpires(q) ==
    /\ tokens[q] > 0
    /\ tokens' = [tokens EXCEPT ![q] = @ - 1]
    /\ UNCHANGED <<status, owner, keys, holder, disabled, sticky, tx, releasing, bounds, admitted>>

RetryWorkflow(r) ==
    /\ status[r] = "settled" /\ retries < MaxRetries
    /\ LateRelease \/ r \notin releasing
    /\ status' = [status EXCEPT ![r] = "ready"]
    /\ retries' = retries + 1
    /\ UNCHANGED <<owner, tables, disabled, sticky, tx, releasing, toggles, returns, admitted>>

\* DisableQueue and EnableQueue wait for the claims that hold the queue's row.
SwitchQueue(q) ==
    /\ toggles < MaxToggles
    /\ \A w \in Workers : q \notin tx[w].locks
    /\ disabled' = IF q \in disabled THEN disabled \ {q} ELSE disabled \cup {q}
    /\ toggles' = toggles + 1
    /\ UNCHANGED <<status, owner, tables, sticky, tx, releasing, returns, retries, admitted>>

-----------------------------------------------------------------------------
Init ==
    /\ status = [r \in Runs |-> "ready"]
    /\ owner = [r \in Runs |-> NoWorker]
    /\ keys = [k \in Keys |-> NoRun]
    /\ holder = [r \in Runs |-> NoWorker]
    /\ tokens = [q \in Queues |-> 0]
    /\ disabled = {}
    /\ sticky = [r \in Runs |-> NoWorker]
    /\ tx = [w \in Workers |-> Idle]
    /\ releasing = {} /\ admitted = {}
    /\ toggles = 0 /\ returns = 0 /\ retries = 0

ClaimStep(w) ==
    Select(w) \/ LockQueue(w) \/ Locked(w) \/ Acquire(w) \/ ReadHolder(w) \/ Commit(w)

Next ==
    \/ \E w \in Workers : ClaimStep(w) \/ AbortDeadlock(w) \/ ClaimStickyWorkflows(w)
    \/ \E r \in Runs, w \in Workers : UpdateStickyWorker(r, w)
    \/ \E r \in Runs, to \in {"ready", "parked"} : ReturnRun(r, to)
    \/ \E r \in Runs : Wake(r) \/ Settle(r) \/ Terminate(r)
                       \/ ReleaseWorkflowResources(r) \/ RetryWorkflow(r)
    \/ ReapExpiredConcurrencyKeys
    \/ \E q \in Queues : TokenExpires(q) \/ SwitchQueue(q)

Spec == Init /\ [][Next]_vars

\* Workers poll and finish the claims they began, an INSERT that waits goes on when
\* the transaction it waits for ends, PostgreSQL ends a deadlock, running runs end,
\* parked runs come due, tokens age and the reaper ticks.
FairSpec ==
    /\ Spec
    /\ \A w \in Workers : WF_vars(ClaimStep(w)) /\ SF_vars(Acquire(w)) /\ WF_vars(AbortDeadlock(w))
    /\ \A r \in Runs : WF_vars(Settle(r)) /\ WF_vars(Wake(r))
    /\ \A q \in Queues : WF_vars(TokenExpires(q))
    /\ WF_vars(ReapExpiredConcurrencyKeys)

-----------------------------------------------------------------------------
(* Properties. *)

AdmittedUnder(k) == {r \in admitted : Key[r] = k}

TypeOK ==
    /\ status \in [Runs -> {"ready", "parked", "running", "settled"}]
    /\ owner \in [Runs -> Workers \cup {NoWorker}]
    /\ keys \in [Keys -> Runs \cup {NoRun}]
    /\ holder \in [Runs -> Workers \cup {NoWorker}]
    /\ tokens \in [Queues -> Nat]
    /\ disabled \subseteq Queues /\ releasing \subseteq Runs
    /\ sticky \in [Runs -> Workers \cup {NoWorker}]
    /\ \A r \in Runs : (status[r] = "running") <=> (owner[r] # NoWorker)
    /\ \A v, w \in Workers : v # w => ToSet(tx[v].cands) \cap ToSet(tx[w].cands) = {}

\* Of the runs with one unregistered key at most one has been admitted and is
\* not settled, whatever claims, suspensions, lost leases, failed clean-ups and
\* reaps happen in between.
KeyExclusive == \A k \in Keys \ Queues : Cardinality(AdmittedUnder(k)) <= 1

\* A registered queue never has more admitted runs that are not settled than its
\* concurrency_limit, though two claims may select the last slot together.
QueueBounded == \A q \in Queues : Cardinality(AdmittedUnder(q)) <= Limit[q]

\* Switching a queue off and on admits at most one run more than its limit: the
\* one that took the name as a bare key.
SwitchedQueueBounded == \A q \in Queues : Cardinality(AdmittedUnder(q)) <= Limit[q] + 1

\* A slot or key is held for as long as its run is not settled: every admitted
\* run with a key has its row in one of the two tables.
HeldWhileLive ==
    \A r \in admitted : Key[r] # NoKey => keys[Key[r]] = r \/ holder[r] # NoWorker

\* No worker runs more of a queue's runs at once than worker_concurrency allows,
\* also after a run woke and moved from one worker to another.
WorkerBounded ==
    \A q \in Queues, w \in Workers :
        WorkerCap[q] # 0 =>
            Cardinality({r \in Runs : Key[r] = q /\ owner[r] = w}) <= WorkerCap[q]

\* Within one rate period a queue admits at most rate_limit runs.
RateBounded == \A q \in Queues : RateLimit[q] # 0 => tokens[q] <= RateLimit[q]

\* Two claims never wait for each other's queue rows.
NoQueueDeadlock ==
    \A v, w \in Workers :
        ~ /\ v # w
          /\ tx[v].phase = "lock" /\ tx[v].want # {} /\ NextLock(v) \in tx[w].locks
          /\ tx[w].phase = "lock" /\ tx[w].want # {} /\ NextLock(w) \in tx[v].locks

\* A due run is claimed in the end, also when the clean-up of the run that held
\* its key failed.
RunIsAdmitted == \A r \in Runs : status[r] = "ready" ~> status[r] \in {"running", "settled"}

\* Every claim that has begun ends, also when two claims insert the same keys in
\* opposite orders.
ClaimEnds == \A w \in Workers : tx[w].phase # "idle" ~> tx[w].phase = "idle"

=============================================================================
