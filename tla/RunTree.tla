------------------------------ MODULE RunTree -------------------------------
(***************************************************************************)
(* Parents and children.  A run starts children with a parent close policy *)
(* (childWorkflowWithVersion, StartChildWorkflowAtomic), may continue as   *)
(* new, and settles; every settling commit is followed, outside its        *)
(* transaction, by a job that frees the run's concurrency keys and applies *)
(* the policy to its children (releaseWorkflowResources,                   *)
(* enforceParentClosePolicyAt, cascadeIntoClosedChildren).                 *)
(*                                                                         *)
(* The lease protocol itself is RunLease's: here a row is held or not, a   *)
(* segment's fence is the generation it was claimed at, "failed" stands    *)
(* for dead_lettered too and "terminated" for cancelled too.  Keys are one *)
(* bit per run: it holds what it acquired, or it was released.  Every      *)
(* UPDATE of the job is a READ COMMITTED statement: it collects the rows   *)
(* its snapshot sees, and rechecks only those rows' own columns when it    *)
(* reaches them.                                                           *)
(***************************************************************************)
EXTENDS Naturals, FiniteSets, Sequences

CONSTANTS
    Runs, Root, NULL,
    Endings,           \* how guests end: "done", "failed" (dead-lettered included)
    Policies,          \* the close policies children are started with
    MaxGeneration,     \* bound: claims and marks of one run
    MaxChildren,       \* bound: child_workflow events of one run
    Locks,             \* guests acquire concurrency keys
    Defers,            \* guests register defers
    Continues,         \* guests continue as new
    Operator,          \* operators terminate runs
    Reopens,           \* operators re-replay settled runs
    StaleSegments,     \* a segment may act after its run was taken from it
    WritesFail,        \* a best-effort statement of the job may fail
    Crashes            \* a worker may die with its segments and jobs

VARIABLES
    runs,              \* workflow_leases + workflow_instances
    history,           \* history[r][i]: run_id of r's i-th child_workflow event
    keys,              \* the runs that hold their concurrency keys
    segs,              \* segments being executed
    jobs               \* post-commit jobs: stacks of enforceParentClosePolicyAt frames

vars == <<runs, history, keys, segs, jobs>>

(* What the constants may be. *)
ConstantsOK == /\ Root \in Runs /\ NULL \notin Runs
               /\ MaxGeneration \in Nat /\ MaxChildren \in Nat

SettledStatuses == {"done", "failed", "terminated"}
Statuses == {"absent", "ready", "running", "terminating"} \cup SettledStatuses

Row == [status: Statuses, gen: 0..MaxGeneration, held: BOOLEAN,
        parent: Runs \cup {NULL}, policy: Policies \cup {NULL}, from: Runs \cup {NULL},
        pending: BOOLEAN, owes: BOOLEAN, cancel: BOOLEAN]

NewRow(st, parent, policy, from) ==
    [status |-> st, gen |-> 0, held |-> FALSE, parent |-> parent, policy |-> policy,
     from |-> from, pending |-> FALSE, owes |-> FALSE, cancel |-> FALSE]

Steps == 1..MaxChildren
NoEvents == [i \in Steps |-> NULL]
Seg == [run: Runs, gen: 0..MaxGeneration, known: [Steps -> Runs \cup {NULL}], closing: BOOLEAN]

At == {"release", "list", "terminate", "mark", "cancel", "free", "cascade"}
NoSnap == [taken |-> FALSE, rows |-> {}, defers |-> {}]
Frame == [run: Runs, at: At, listed: SUBSET Runs,
          snap: [taken: BOOLEAN, rows: SUBSET Runs, defers: SUBSET Runs]]
NewFrame(r, at) == [run |-> r, at |-> at, listed |-> {}, snap |-> NoSnap]

Settled(r) == runs[r].status \in SettledStatuses
Open(r) == runs[r].status \in {"ready", "running", "terminating"}
deferPhaseOwed(row) == row.status \in {"ready", "running"} /\ row.owes
Fence(s) == runs[s.run].held /\ runs[s.run].gen = s.gen
Acts(s) == ~s.closing /\ (Fence(s) \/ StaleSegments)
CanBump(r) == runs[r].gen < MaxGeneration

\* the job a settling commit of run r leaves to its process
PostCommit(r) == <<NewFrame(r, "release")>>

Init ==
    /\ runs = [r \in Runs |-> IF r = Root THEN NewRow("ready", NULL, NULL, NULL)
                                          ELSE NewRow("absent", NULL, NULL, NULL)]
    /\ history = [r \in Runs |-> NoEvents]
    /\ keys = {} /\ segs = {} /\ jobs = {}
-----------------------------------------------------------------------------
(* Segments.                                                               *)

\* ClaimWorkflow, and the load of the history the segment replays
Claim(r) ==
    /\ runs[r].status \in {"ready", "terminating"} /\ CanBump(r)
    /\ runs' = [runs EXCEPT ![r].status = "running", ![r].held = TRUE, ![r].gen = @ + 1]
    /\ segs' = segs \cup {[run |-> r, gen |-> runs[r].gen + 1, known |-> history[r],
                           closing |-> runs[r].pending]}
    /\ UNCHANGED <<history, keys, jobs>>

NextStep(s) == Cardinality({i \in Steps : s.known[i] # NULL}) + 1

WithChildEvent(r, i, c) == [history EXCEPT ![r][i] = IF @ = NULL THEN c ELSE @]

(***************************************************************************)
(* A fresh cleat_child_workflow past the frontier: the child's rows are    *)
(* inserted, and the parent's event unless that step already has one       *)
(* (ON CONFLICT DO NOTHING).  No fence is checked.                         *)
(***************************************************************************)
StartChild(s, c, p) ==
    LET i == NextStep(s) IN
    /\ Acts(s) /\ i \in Steps /\ runs[c].status = "absent"
    /\ runs' = [runs EXCEPT ![c] = NewRow("ready", s.run, p, NULL)]
    /\ history' = WithChildEvent(s.run, i, c)
    /\ segs' = (segs \ {s}) \cup {[s EXCEPT !.known[i] = c]}
    /\ UNCHANGED <<keys, jobs>>

\* cleat_acquire_lock: an unfenced insert into concurrency_keys
AcquireConcurrencyKey(s) ==
    /\ Locks /\ Acts(s) /\ s.run \notin keys
    /\ keys' = keys \cup {s.run}
    /\ UNCHANGED <<runs, history, segs, jobs>>

\* a defer event reaches event_history under the segment's fence
RegisterDefer(s) ==
    /\ Defers /\ ~s.closing /\ Fence(s) /\ ~runs[s.run].owes
    /\ runs' = [runs EXCEPT ![s.run].owes = TRUE]
    /\ UNCHANGED <<history, keys, segs, jobs>>

Suspend(s) ==
    /\ ~s.closing /\ Fence(s)
    /\ runs' = [runs EXCEPT ![s.run].status = "ready", ![s.run].held = FALSE]
    /\ segs' = segs \ {s}
    /\ UNCHANGED <<history, keys, jobs>>

\* CompleteWorkflow, FailWorkflow, FinalizeWorkflowSegment("done")
Finish(s, st) ==
    /\ ~s.closing /\ Fence(s)
    /\ runs' = [runs EXCEPT ![s.run].status = st, ![s.run].held = FALSE]
    /\ segs' = segs \ {s}
    /\ jobs' = jobs \cup {PostCommit(s.run)}
    /\ UNCHANGED <<history, keys>>

\* a continuation is still its parent's child
Successor(r) == NewRow("ready", runs[r].parent, runs[r].policy, r)

ContinueAsNew(s, n) ==
    /\ Continues /\ ~s.closing /\ Fence(s) /\ runs[n].status = "absent"
    /\ runs' = [runs EXCEPT ![n] = Successor(s.run),
                            ![s.run].status = "done", ![s.run].held = FALSE]
    /\ segs' = segs \ {s}
    /\ jobs' = jobs \cup {PostCommit(s.run)}
    /\ UNCHANGED <<history, keys>>

FinalizeDeferPhase(s) ==
    /\ s.closing /\ Fence(s) /\ runs[s.run].pending
    /\ runs' = [runs EXCEPT ![s.run].status = "terminated", ![s.run].held = FALSE,
                            ![s.run].pending = FALSE]
    /\ segs' = segs \ {s}
    /\ jobs' = jobs \cup {PostCommit(s.run)}
    /\ UNCHANGED <<history, keys>>

\* the segment ends without a write: its fence was lost, or its worker died
SegmentEnds(s) ==
    /\ ~Fence(s) \/ Crashes
    /\ segs' = segs \ {s}
    /\ UNCHANGED <<runs, history, keys, jobs>>

\* ReapStaleInstances on one run whose holder stopped heartbeating
Reap(r) ==
    /\ runs[r].status = "running"
    /\ StaleSegments \/ ~\E s \in segs : s.run = r /\ Fence(s)
    /\ runs' = [runs EXCEPT ![r].status = IF runs[r].pending THEN "terminating" ELSE "ready",
                            ![r].held = FALSE]
    /\ UNCHANGED <<history, keys, segs, jobs>>

ExpireUnclaimed(r) ==
    /\ runs[r].pending /\ ~runs[r].held
    /\ runs' = [runs EXCEPT ![r].status = "terminated", ![r].pending = FALSE]
    /\ jobs' = jobs \cup {PostCommit(r)}
    /\ UNCHANGED <<history, keys, segs>>
ExpireDeferPhases(r) ==
    /\ runs[r].pending
    /\ runs' = [runs EXCEPT ![r].status = "terminated", ![r].held = FALSE, ![r].pending = FALSE]
    /\ jobs' = jobs \cup {PostCommit(r)}
    /\ UNCHANGED <<history, keys, segs>>
-----------------------------------------------------------------------------
(* Operators.                                                              *)

Terminated(row) == [row EXCEPT !.status = "terminated", !.held = FALSE, !.pending = FALSE]
Marked(row) == [row EXCEPT !.status = "terminating", !.held = FALSE, !.pending = TRUE]

\* TerminateWorkflow: only the settling arm is followed by the job
PreemptivelySettle(r) ==
    /\ Operator /\ Open(r)
    /\ runs' = [runs EXCEPT ![r] = IF deferPhaseOwed(@) THEN Marked(@) ELSE Terminated(@)]
    /\ jobs' = IF deferPhaseOwed(runs[r]) THEN jobs ELSE jobs \cup {PostCommit(r)}
    /\ UNCHANGED <<history, keys, segs>>

AdminReReplay(r) ==
    /\ Reopens /\ runs[r].status \in {"failed", "terminated"}
    /\ runs' = [runs EXCEPT ![r].status = "ready", ![r].held = FALSE]
    /\ UNCHANGED <<history, keys, segs, jobs>>
-----------------------------------------------------------------------------
(* The post-commit job: releaseWorkflowResources, then                     *)
(* enforceParentClosePolicyAt, one database round trip at a time.          *)

Top(j) == j[Len(j)]
WithTop(j, f) == [j EXCEPT ![Len(j)] = f]
Becomes(j, f) == jobs' = (jobs \ {j}) \cup {WithTop(j, f)}
Moves(f, at) == [f EXCEPT !.at = at, !.snap = NoSnap]

ReleaseOwn(j) ==
    LET f == Top(j) IN
    /\ f.at = "release"
    /\ keys' \in {keys \ {f.run}} \cup (IF WritesFail THEN {keys} ELSE {})
    /\ Becomes(j, Moves(f, "list"))
    /\ UNCHANGED <<runs, history, segs>>

Children(p, policy) == {c \in Runs : runs[c].parent = p /\ runs[c].policy = policy /\ Open(c)}

\* the rows each of the three statements matches
Matches(p, at) ==
    CASE at = "terminate" -> {c \in Children(p, "TERMINATE") : ~deferPhaseOwed(runs[c])}
      [] at = "mark"      -> {c \in Children(p, "TERMINATE") : deferPhaseOwed(runs[c])}
      [] at = "cancel"    -> Children(p, "REQUEST_CANCEL")

Listed(p) == Matches(p, "terminate")

childrenClosedByTerminate(j) ==
    LET f == Top(j) IN
    /\ f.at = "list"
    /\ \/ Becomes(j, [Moves(f, "terminate") EXCEPT !.listed = Listed(f.run)])
       \/ WritesFail /\ Becomes(j, Moves(f, "terminate"))
    /\ UNCHANGED <<runs, history, keys, segs>>

StatementAt == {"terminate", "mark", "cancel"}
After(at) == CASE at = "terminate" -> "mark" [] at = "mark" -> "cancel" [] at = "cancel" -> "free"

\* a statement that matches no row is over with its snapshot
Snapshot(j) ==
    LET f == Top(j)
        rows == Matches(f.run, f.at) IN
    /\ f.at \in StatementAt /\ ~f.snap.taken
    /\ Becomes(j, IF rows = {} THEN Moves(f, After(f.at))
                  ELSE [f EXCEPT !.snap = [taken |-> TRUE, rows |-> rows,
                                           defers |-> {c \in rows : runs[c].owes}]])
    /\ UNCHANGED <<runs, history, keys, segs>>

\* the recheck of a row reached: its own columns are current, the EXISTS over
\* event_history is the snapshot's
Rechecked(f) ==
    LET Owed(c) == runs[c].status \in {"ready", "running"} /\ c \in f.snap.defers IN
    {c \in f.snap.rows : /\ Open(c)
                         /\ f.at = "terminate" => ~Owed(c)
                         /\ f.at = "mark" => Owed(c)}

Written(row, at) ==
    CASE at = "terminate" -> Terminated(row)
      [] at = "mark"      -> Marked(row)
      [] at = "cancel"    -> [row EXCEPT !.cancel = TRUE]

Apply(j) ==
    LET f == Top(j) IN
    /\ f.at \in StatementAt /\ f.snap.taken
    /\ runs' = [c \in Runs |-> IF c \in Rechecked(f) THEN Written(runs[c], f.at) ELSE runs[c]]
    /\ Becomes(j, Moves(f, After(f.at)))
    /\ UNCHANGED <<history, keys, segs>>

\* what a failed statement leaves of the list
ListedAfterFailure(f) == IF f.at = "terminate" THEN {} ELSE f.listed

StatementFails(j) ==
    LET f == Top(j) IN
    /\ WritesFail /\ f.at \in StatementAt
    /\ Becomes(j, [Moves(f, After(f.at)) EXCEPT !.listed = ListedAfterFailure(f)])
    /\ UNCHANGED <<runs, history, keys, segs>>

releaseTerminatedChildren(j) ==
    LET f == Top(j) IN
    /\ f.at = "free"
    /\ keys' = keys \ f.listed
    /\ Becomes(j, Moves(f, "cascade"))
    /\ UNCHANGED <<runs, history, segs>>

maxParentCloseDepth == 64

\* no cascade: the closing stops at the children
StopsAtChildren(j) == {}
Cascading(j) == IF Len(j) - 1 >= maxParentCloseDepth THEN {} ELSE Top(j).listed

Returned(j) == IF Len(j) = 1 THEN {} ELSE {SubSeq(j, 1, Len(j) - 1)}

\* the next listed child's own frame, or the return of this one
cascadeIntoClosedChildren(j) ==
    LET f == Top(j) IN
    /\ f.at = "cascade"
    /\ \/ \E c \in Cascading(j) :
            jobs' = (jobs \ {j}) \cup
                    {Append(WithTop(j, [f EXCEPT !.listed = @ \ {c}]), NewFrame(c, "list"))}
       \/ /\ Cascading(j) = {}
          /\ jobs' = (jobs \ {j}) \cup Returned(j)
    /\ UNCHANGED <<runs, history, keys, segs>>

\* the process dies with the job unfinished; nothing resumes it
JobLost(j) ==
    /\ Crashes
    /\ jobs' = jobs \ {j}
    /\ UNCHANGED <<runs, history, keys, segs>>
-----------------------------------------------------------------------------
JobStep(j) ==
    \/ ReleaseOwn(j)
    \/ childrenClosedByTerminate(j)
    \/ Snapshot(j)
    \/ Apply(j)
    \/ StatementFails(j)
    \/ releaseTerminatedChildren(j)
    \/ cascadeIntoClosedChildren(j)

SegStep(s) ==
    \/ \E c \in Runs, p \in Policies : StartChild(s, c, p)
    \/ AcquireConcurrencyKey(s)
    \/ RegisterDefer(s)
    \/ Suspend(s)
    \/ \E st \in Endings : Finish(s, st)
    \/ \E n \in Runs : ContinueAsNew(s, n)
    \/ FinalizeDeferPhase(s)
    \/ SegmentEnds(s)

RunStep(r) ==
    \/ Claim(r)
    \/ Reap(r)
    \/ ExpireDeferPhases(r)
    \/ PreemptivelySettle(r)
    \/ AdminReReplay(r)

Next ==
    \/ \E r \in Runs : RunStep(r)
    \/ \E s \in segs : SegStep(s)
    \/ \E j \in jobs : JobStep(j) \/ JobLost(j)

Spec == Init /\ [][Next]_vars

\* a process that settled a run carries its job on, and the deadline sweep runs
SomeJob == \E j \in jobs : JobStep(j)
SomeExpiry == \E r \in Runs : ExpireDeferPhases(r)
FairSpec == Spec /\ WF_vars(SomeJob) /\ WF_vars(SomeExpiry)
-----------------------------------------------------------------------------
TypeOK ==
    /\ runs \in [Runs -> Row]
    /\ history \in [Runs -> [Steps -> Runs \cup {NULL}]]
    /\ keys \subseteq Runs
    /\ segs \subseteq Seg
    /\ \A j \in jobs : j # <<>> /\ \A i \in 1..Len(j) : j[i] \in Frame

(***************************************************************************)
(* Once the post-commit jobs are done, no TERMINATE child of a settled run *)
(* is still at work: it is settled, or closing through its defer phase.    *)
(* Reaches through the cascade to the children of the children it closed.  *)
(***************************************************************************)
ClosedParentLeavesNoOrphan ==
    jobs = {} => \A c \in Runs :
        /\ runs[c].parent # NULL /\ Settled(runs[c].parent)
        /\ runs[c].policy = "TERMINATE" /\ Open(c)
        => runs[c].pending

(***************************************************************************)
(* ... and every REQUEST_CANCEL child of a settled run that is still at    *)
(* work has been told.                                                     *)
(***************************************************************************)
CancelReachesChildren ==
    jobs = {} => \A c \in Runs :
        /\ runs[c].parent # NULL /\ Settled(runs[c].parent)
        /\ runs[c].policy = "REQUEST_CANCEL" /\ Open(c)
        => runs[c].cancel

(***************************************************************************)
(* A run's concurrency keys are taken from it only once it has settled: a  *)
(* run that is still to run its defers keeps what those defers release.    *)
(***************************************************************************)
KeysHeldUntilSettledStep ==
    \A r \in keys : r \notin keys' => Settled(r)

(***************************************************************************)
(* A child row and its parent's child_workflow event exist together: no    *)
(* child was started that the parent's history does not name.              *)
(***************************************************************************)
ChildIsRecorded ==
    \A c \in Runs : runs[c].parent # NULL /\ runs[c].from = NULL
        => \E i \in Steps : history[runs[c].parent][i] = c

(***************************************************************************)
(* Only a live parent's children are closed with it: a child is terminated *)
(* by the job only under a parent that is settled at that moment.          *)
(***************************************************************************)
OnlyClosedParentsCloseChildrenStep ==
       \A j \in jobs : \A c \in Runs :
         (Apply(j) /\ runs[c] # runs'[c]) => Settled(Top(j).run)

(***************************************************************************)
(* A TERMINATE child of a settled run settles, however deep the tree and   *)
(* whichever of the two arms closes it.                                    *)
(***************************************************************************)
Doomed(c) == /\ runs[c].status # "absent" /\ runs[c].parent # NULL
             /\ runs[c].policy = "TERMINATE" /\ Settled(runs[c].parent)
ClosedTreeSettles == \A c \in Runs : Doomed(c) ~> Settled(c)
=============================================================================
