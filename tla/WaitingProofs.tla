--------------------------- MODULE WaitingProofs ----------------------------
(***************************************************************************)
(* How runs wait.  For every plan of the guest, every timeout and any      *)
(* number of signals, updates, promises, releases and crashes: no wake-up  *)
(* is lost, no update request is left behind, and no run spins (WakeUp).   *)
(* For any number of events and of runs that await them: an event is taken *)
(* once, by a run that reports it (EventAwait).                            *)
(***************************************************************************)
EXTENDS WakeUp, EventAwait, TLAPS

(* EventAwait.                                                             *)

Stored(e) == e \in Range(log)
Unpublished == {"arrive", "refused", "store", "failed"}

(* An event is stored once its publisher has got that far, and only then.  *)
EventOK(e) ==
    /\ Stored(e) <=> status[e] # "absent"
    /\ Stored(e) <=> pub[e].pc \notin Unpublished
    /\ e \in processed => Stored(e)
    /\ commits[e] <= 1
    /\ commits[e] > 0 => e \in processed

(* A claim whose transaction is open has locked an event that nobody has   *)
(* taken; one that was committed has taken it.                             *)
CallOK(s) ==
    /\ calls[s].pc \in {"held", "bury"} => calls[s].ev \in Events /\ Stored(calls[s].ev)
    /\ calls[s].pc = "held" => calls[s].ev \notin processed
    /\ calls[s].pc = "clear" => calls[s].ev \in Events
    /\ calls[s].pc \in {"clear", "return"} /\ calls[s].ev \in Events => calls[s].ev \in processed

(* An execution that has taken an event and not yet reported it.           *)
Carries(s, e) == calls[s].pc \in {"clear", "return"} /\ calls[s].ev = e
Has(w, e) == e \in Range(got[w]) \/ Carries(<<w, "own">>, e) \/ Carries(<<w, "old">>, e)

RunOK(w) ==
    /\ \A e \in Range(got[w]) : e \in processed
    /\ calls[<<w, "own">>].pc # "ended" => Len(got[w]) < Wants[w]
    /\ MaxTakeovers = 0 => calls[<<w, "old">>].pc = "absent"

OneHolder == \A s, t \in Sessions :
    calls[s].pc = "held" /\ calls[t].pc = "held" /\ calls[s].ev = calls[t].ev => s = t
OneRun == \A e \in Events : \A v, w \in Workflows : Has(v, e) /\ Has(w, e) => v = w

AwaitInv ==
    /\ AwaitTypeOK
    /\ \A e \in Events : EventOK(e)
    /\ \A s \in Sessions : CallOK(s)
    /\ \A w \in Workflows : RunOK(w)
    /\ OneHolder /\ OneRun
    /\ MaxTakeovers = 0 => ConsumedIsReported
-----------------------------------------------------------------------------
(* A sequence takes one more element. *)
LEMMA AppendRange ==
    ASSUME NEW q \in Seq(Events), NEW e \in Events
    PROVE  /\ Range(Append(q, e)) = Range(q) \cup {e}
           /\ DOMAIN q \subseteq DOMAIN Append(q, e)
           /\ IsInjective(q) /\ e \notin Range(q) => IsInjective(Append(q, e))
  <1>1. DOMAIN Append(q, e) = DOMAIN q \cup {Len(q) + 1} /\ Append(q, e)[Len(q) + 1] = e
    OBVIOUS
  <1>2. \A i \in DOMAIN q : Append(q, e)[i] = q[i] /\ i # Len(q) + 1
    OBVIOUS
  <1>3. Range(Append(q, e)) = Range(q) \cup {e}
    BY Zenon, <1>1, <1>2 DEF Range
  <1>4. ASSUME IsInjective(q), e \notin Range(q) PROVE IsInjective(Append(q, e))
    BY Zenon, <1>1, <1>2, <1>4 DEF IsInjective, Range
  <1>5. QED BY <1>1, <1>3, <1>4

LEMMA AwaitConstants ==
    /\ None \notin Events /\ "error" \notin Events
    /\ Wants \in [Workflows -> Nat \ {0}] /\ Hooks \subseteq Events
    /\ MaxFaults \in Nat /\ MaxTakeovers \in Nat
  <1>1. "none" \notin Events /\ "error" \notin Events
    BY AwaitAssumption DEF ConstantsOK
  <1>2. QED BY Zenon, <1>1, AwaitAssumption DEF ConstantsOK, None

LEMMA AwaitInvInit == AwaitInit => AwaitInv
  <1> SUFFICES ASSUME AwaitInit PROVE AwaitInv
    OBVIOUS
  <1>1. /\ log = <<>> /\ status = [e \in Events |-> "absent"] /\ processed = {} /\ awaiters = {}
        /\ signals = [w \in Workflows |-> 0] /\ got = [w \in Workflows |-> <<>>]
        /\ commits = [e \in Events |-> 0] /\ deleted = FALSE /\ faults = 0 /\ takeovers = 0
    BY Zenon DEF AwaitInit
  <1>2. Range(log) = {} /\ IsInjective(log) /\ log \in Seq(Events) /\ DOMAIN log = {}
    BY <1>1 DEF Range, IsInjective
  <1>3. pub \in [Events -> Publisher] /\ \A e \in Events : pub[e].pc \in Unpublished
    BY DEF AwaitInit, Publisher, PubStates, Unpublished
  <1>4. /\ calls \in [Sessions -> Call]
        /\ \A s \in Sessions : calls[s].pc = IF s[2] = "own" THEN "try" ELSE "absent"
    BY <1>2 DEF AwaitInit, Fresh, Absent, Call, CallStates
  <1>5. AwaitTypeOK
    <2>1. status \in [Events -> RowStatuses]
      BY <1>1 DEF RowStatuses
    <2>2. /\ signals \in [Workflows -> Nat] /\ commits \in [Events -> Nat]
          /\ got \in [Workflows -> Seq(Events)]
      BY <1>1
    <2>6. ASSUME NEW w \in Workflows PROVE Len(got[w]) <= Wants[w]
      <3>1. Wants[w] \in Nat \ {0}
        BY Zenon, AwaitConstants
      <3>2. Len(got[w]) = 0
        BY <1>1
      <3>3. QED BY <3>1, <3>2
    <2>3. faults \in 0..MaxFaults /\ takeovers \in 0..MaxTakeovers /\ deleted \in BOOLEAN
      <3>1. MaxFaults \in Nat /\ MaxTakeovers \in Nat
        BY Zenon, AwaitConstants
      <3>2. faults \in 0..MaxFaults /\ takeovers \in 0..MaxTakeovers
        BY <1>1, <3>1
      <3>3. QED BY Zenon, <1>1, <3>2
    <2>4. processed \subseteq Range(log) /\ awaiters \subseteq Workflows
      BY <1>1
    <2>5. QED BY Zenon, <1>2, <1>3, <1>4, <2>1, <2>2, <2>3, <2>4, <2>6 DEF AwaitTypeOK
  <1>6. ASSUME NEW e \in Events PROVE EventOK(e)
    BY <1>1, <1>2, <1>3 DEF EventOK, Stored
  <1>7. ASSUME NEW s \in Sessions PROVE CallOK(s) /\ calls[s].pc \notin {"held", "clear", "return"}
    BY <1>4 DEF CallOK
  <1>8. ASSUME NEW w \in Workflows PROVE RunOK(w)
    <2>1. <<w, "own">> \in Sessions /\ <<w, "old">> \in Sessions
      BY DEF Sessions
    <2>2. Range(got[w]) = {} /\ Len(got[w]) = 0
      BY <1>1 DEF Range
    <2>3. QED BY <1>4, <2>1, <2>2, AwaitConstants DEF RunOK
  <1>9. OneHolder
    BY <1>7 DEF OneHolder
  <1>10. OneRun
    <2>1. ASSUME NEW w \in Workflows, NEW e \in Events PROVE ~Has(w, e)
      <3>1. <<w, "own">> \in Sessions /\ <<w, "old">> \in Sessions
        BY DEF Sessions
      <3>2. Range(got[w]) = {}
        BY <1>1 DEF Range
      <3>3. QED BY <1>7, <3>1, <3>2 DEF Has, Carries
    <2>2. QED BY Zenon, <2>1 DEF OneRun
  <1>11. ConsumedIsReported
    BY <1>1 DEF ConsumedIsReported
  <1>12. QED BY Zenon, <1>5, <1>6, <1>7, <1>8, <1>9, <1>10, <1>11 DEF AwaitInv
-----------------------------------------------------------------------------
(* The steps of publishers, and of an operator who retries an event: they  *)
(* store events and change registrations and signals.                      *)
LEMMA RowsMove ==
    ASSUME AwaitInv,
           log' \in Seq(Events), IsInjective(log)', Range(log) \subseteq Range(log)', DOMAIN log \subseteq DOMAIN log',
           status' \in [Events -> RowStatuses], pub' \in [Events -> Publisher],
           awaiters' \subseteq Workflows, signals' \in [Workflows -> Nat], faults' \in 0..MaxFaults,
           UNCHANGED <<processed, calls, got, commits, deleted, takeovers>>,
           \A e \in Events : /\ Stored(e)' <=> status'[e] # "absent"
                             /\ Stored(e)' <=> pub'[e].pc \notin Unpublished
    PROVE  AwaitInv'
  <1>1. AwaitTypeOK'
    <2>1. calls \in [Sessions -> Call'] /\ processed \subseteq Range(log)'
      <3>1. Call \subseteq Call'
        BY DEF Call
      <3>2. QED BY <3>1 DEF AwaitInv, AwaitTypeOK
    <2>2. QED BY Zenon, <2>1 DEF AwaitInv, AwaitTypeOK
  <1>2. ASSUME NEW e \in Events PROVE EventOK(e)'
    BY Zenon DEF AwaitInv, EventOK, Stored
  <1>3. ASSUME NEW s \in Sessions PROVE CallOK(s)'
    BY Zenon DEF AwaitInv, CallOK, Stored
  <1>4. ASSUME NEW w \in Workflows PROVE RunOK(w)'
    BY Zenon DEF AwaitInv, RunOK
  <1>5. OneHolder' /\ OneRun'
    BY Zenon DEF AwaitInv, OneHolder, OneRun, Has, Carries
  <1>6. MaxTakeovers = 0 => ConsumedIsReported'
    BY Zenon DEF AwaitInv, ConsumedIsReported
  <1>7. QED BY Zenon, <1>1, <1>2, <1>3, <1>4, <1>5, <1>6 DEF AwaitInv

(* OneRun and ConsumedIsReported are about what is recorded and what is    *)
(* carried.                                                                *)
LEMMA SameCarriers ==
    ASSUME AwaitInv, UNCHANGED <<got, commits>>,
           \A e \in Events, t \in Sessions : Carries(t, e)' <=> Carries(t, e)
    PROVE  OneRun' /\ (MaxTakeovers = 0 => ConsumedIsReported')
  <1>1. ASSUME NEW w \in Workflows PROVE <<w, "own">> \in Sessions /\ <<w, "old">> \in Sessions
    BY DEF Sessions
  <1>2. OneRun'
    BY Zenon, <1>1 DEF AwaitInv, OneRun, Has
  <1>3. ASSUME MaxTakeovers = 0 PROVE ConsumedIsReported'
    <2>1. SUFFICES ASSUME NEW e \in Events, commits[e] > 0
                   PROVE  \E w \in Workflows : e \in Range(got[w]) \/ Carries(<<w, "own">>, e)'
      BY Zenon DEF ConsumedIsReported, Carries
    <2>2. PICK w \in Workflows : e \in Range(got[w]) \/ Carries(<<w, "own">>, e)
      BY Zenon, <1>3, <2>1 DEF AwaitInv, ConsumedIsReported, Carries
    <2>3. QED BY Zenon, <1>1, <2>2
  <1>4. QED BY <1>2, <1>3

(* A step of a call that takes nothing and gives nothing up: its execution *)
(* has no event of its own before it, and none after it.  It may have put  *)
(* aside an event that no open claim has locked.                           *)
LEMMA CallMoves ==
    ASSUME AwaitInv, NEW s \in Sessions, NEW x \in Call, calls' = [calls EXCEPT ![s] = x],
           x.pc \notin {"held", "bury", "clear"}, x.pc = "return" => x.ev \notin Events,
           s[2] = "own" => /\ \A e \in Events : ~Carries(s, e)
                           /\ calls[s].pc # "ended" \/ x.pc = "ended",
           MaxTakeovers = 0 /\ s[2] = "old" => x.pc = "absent",
           awaiters' \subseteq Workflows, signals' \in [Workflows -> Nat], faults' \in 0..MaxFaults,
           processed \subseteq processed', processed' \subseteq Range(log),
           \A t \in Sessions : calls[t].pc = "held" => calls[t].ev \notin processed' \ processed,
           status' \in [Events -> RowStatuses],
           \A e \in Events : status'[e] = "absent" <=> status[e] = "absent",
           UNCHANGED <<log, pub, got, commits, deleted, takeovers>>
    PROVE  AwaitInv'
  <1>0. /\ calls \in [Sessions -> Call] /\ calls'[s] = x
        /\ \A t \in Sessions : t # s => calls'[t] = calls[t]
    BY DEF AwaitInv, AwaitTypeOK
  <1>1. AwaitTypeOK'
    <2>1. Call' = Call
      BY DEF Call
    <2>2. calls' \in [Sessions -> Call']
      BY <1>0, <2>1
    <2>3. QED BY Zenon, <2>2 DEF AwaitInv, AwaitTypeOK
  <1>2. ASSUME NEW e \in Events PROVE EventOK(e)'
    BY Zenon DEF AwaitInv, EventOK, Stored
  <1>3. ASSUME NEW t \in Sessions PROVE CallOK(t)'
    <2>1. calls[t].pc = "held" => calls[t].ev \notin processed'
      BY Zenon DEF AwaitInv, CallOK
    <2>2. CASE t = s
      BY <1>0, <2>2 DEF CallOK
    <2>3. CASE t # s
      BY <1>0, <2>1, <2>3 DEF AwaitInv, CallOK, Stored
    <2>4. QED BY <2>2, <2>3
  <1>4. ASSUME NEW w \in Workflows PROVE RunOK(w)'
    <2>1. <<w, "own">> \in Sessions /\ <<w, "old">> \in Sessions
      BY DEF Sessions
    <2>2. s = <<w, "own">> => s[2] = "own"
      OBVIOUS
    <2>3. s = <<w, "old">> => s[2] = "old"
      OBVIOUS
    <2>4. \A e \in Range(got[w])' : e \in processed'
      BY Zenon DEF AwaitInv, RunOK
    <2>5. QED BY Zenon, <1>0, <2>1, <2>2, <2>3, <2>4 DEF AwaitInv, RunOK
  <1>5. OneHolder'
    BY Zenon, <1>0 DEF AwaitInv, OneHolder
  <1>6. ASSUME NEW e \in Events, NEW t \in Sessions, Carries(t, e)' PROVE Carries(t, e)
    BY Zenon, <1>0, <1>6 DEF Carries
  <1>7. OneRun'
    <2>1. ASSUME NEW w \in Workflows, NEW e \in Events, Has(w, e)' PROVE Has(w, e)
      <3>1. <<w, "own">> \in Sessions /\ <<w, "old">> \in Sessions
        BY DEF Sessions
      <3>2. QED BY Zenon, <1>6, <2>1, <3>1 DEF Has
    <2>2. QED BY Zenon, <2>1 DEF AwaitInv, OneRun
  <1>8. ASSUME MaxTakeovers = 0 PROVE ConsumedIsReported'
    <2>1. SUFFICES ASSUME NEW e \in Events, commits[e] > 0
                   PROVE  \E w \in Workflows : e \in Range(got[w]) \/ Carries(<<w, "own">>, e)'
      BY Zenon DEF ConsumedIsReported, Carries
    <2>2. PICK w \in Workflows : e \in Range(got[w]) \/ Carries(<<w, "own">>, e)
      BY Zenon, <1>8, <2>1 DEF AwaitInv, ConsumedIsReported, Carries
    <2>3. <<w, "own">> \in Sessions /\ (s = <<w, "own">> => s[2] = "own")
      BY DEF Sessions
    <2>4. QED BY Zenon, <1>0, <2>2, <2>3 DEF Carries
  <1>9. QED BY Zenon, <1>1, <1>2, <1>3, <1>4, <1>5, <1>7, <1>8 DEF AwaitInv

(* What a statement's fault leaves of the bound. *)
LEMMA FaultType ==
    ASSUME AwaitInv, NEW kind, NEW fails \in BOOLEAN, Fault(kind, fails)
    PROVE  faults' \in 0..MaxFaults
  <1>1. faults \in Nat /\ MaxFaults \in Nat
    BY AwaitConstants DEF AwaitInv, AwaitTypeOK
  <1>2. faults' \in Nat /\ faults' <= MaxFaults
    BY <1>1 DEF Fault
  <1>3. QED BY <1>1, <1>2

LEMMA PublisherKeeps ==
    ASSUME AwaitInv, NEW e \in Events,
           PublisherStep(e) \/ PublisherDies(e) \/ PublishAgain(e) \/ RetryEvent(e)
    PROVE  AwaitInv'
  <1> DEFINE p == pub[e]
  <1>0. /\ pub \in [Events -> Publisher] /\ pub[e] \in Publisher /\ faults \in 0..MaxFaults
        /\ log \in Seq(Events) /\ IsInjective(log) /\ status \in [Events -> RowStatuses]
        /\ awaiters \subseteq Workflows /\ signals \in [Workflows -> Nat]
        /\ \A f \in Events : EventOK(f)
    BY Zenon DEF AwaitInv, AwaitTypeOK
  (* A publisher past the store changes registrations and signals only. *)
  <1>1. ASSUME NEW q \in Publisher, pub' = [pub EXCEPT ![e] = q],
               p.pc \in Unpublished <=> q.pc \in Unpublished,
               awaiters' \subseteq Workflows, signals' \in [Workflows -> Nat], faults' \in 0..MaxFaults,
               UNCHANGED <<log, status, processed, calls, got, commits, deleted, takeovers>>
        PROVE  AwaitInv'
    <2>1. pub' \in [Events -> Publisher] /\ \A f \in Events : pub'[f].pc \in Unpublished <=> pub[f].pc \in Unpublished
      BY <1>0, <1>1
    <2>2. ASSUME NEW f \in Events
          PROVE  /\ Stored(f)' <=> status'[f] # "absent"
                 /\ Stored(f)' <=> pub'[f].pc \notin Unpublished
      BY Zenon, <1>0, <1>1, <2>1 DEF EventOK, Stored
    <2>3. QED BY Zenon, <1>0, <1>1, <2>1, <2>2, RowsMove
  <1>2. CASE Ingest(e)
    <2> DEFINE q == [p EXCEPT !.pc = IF deleted THEN "refused" ELSE "store"]
    <2>1. q \in Publisher /\ q.pc \in Unpublished /\ p.pc \in Unpublished
      BY Zenon, <1>0, <1>2 DEF Ingest, Publisher, PubStates, Unpublished
    <2>2. pub' = [pub EXCEPT ![e] = q]
      BY <1>0, <1>2 DEF Ingest
    <2> HIDE DEF q
    <2>3. QED BY Zenon, <1>0, <1>1, <1>2, <2>1, <2>2 DEF Ingest
  <1>3. CASE Store(e)
    <2>1. PICK fails \in BOOLEAN :
            /\ Fault("statement", fails)
            /\ pub' = [pub EXCEPT ![e].pc = IF fails THEN "failed" ELSE "scan"]
            /\ log' = IF fails THEN log ELSE Append(log, e)
            /\ status' = IF fails THEN status ELSE [status EXCEPT ![e] = "pending"]
      BY Zenon, <1>3 DEF Store
    <2> DEFINE q == [p EXCEPT !.pc = IF fails THEN "failed" ELSE "scan"]
    <2>2. faults' \in 0..MaxFaults
      BY Zenon, <2>1, FaultType
    <2>3. /\ q \in Publisher /\ p.pc \in Unpublished /\ (q.pc \in Unpublished <=> fails)
          /\ pub' = [pub EXCEPT ![e] = q]
      BY Zenon, <1>0, <1>3, <2>1 DEF Store, Publisher, PubStates, Unpublished
    <2> HIDE DEF q
    <2>4. UNCHANGED <<processed, awaiters, signals, calls, got, commits, deleted, takeovers>>
      BY Zenon, <1>3 DEF Store
    <2>5. CASE fails
      BY Zenon, <1>0, <1>1, <2>1, <2>2, <2>3, <2>4, <2>5
    <2>6. CASE ~fails
      <3>1. log' = Append(log, e) /\ status' = [status EXCEPT ![e] = "pending"]
        BY Zenon, <2>1, <2>6
      <3>2. e \notin Range(log)
        BY Zenon, <1>0, <2>3 DEF EventOK, Stored
      <3>3. /\ Range(log)' = Range(log) \cup {e} /\ DOMAIN log \subseteq DOMAIN log' /\ IsInjective(log)'
            /\ log' \in Seq(Events)
        BY <1>0, <3>1, <3>2, AppendRange
      <3>4. /\ status' \in [Events -> RowStatuses] /\ pub' \in [Events -> Publisher]
            /\ status'[e] = "pending" /\ pub'[e] = q
            /\ \A f \in Events : f # e => status'[f] = status[f] /\ pub'[f] = pub[f]
        BY <1>0, <2>3, <3>1 DEF RowStatuses
      <3>5. ASSUME NEW f \in Events
            PROVE  /\ Stored(f)' <=> status'[f] # "absent"
                   /\ Stored(f)' <=> pub'[f].pc \notin Unpublished
        BY <1>0, <2>3, <2>6, <3>3, <3>4 DEF EventOK, Stored
      <3>6. QED BY Zenon, <1>0, <2>2, <2>4, <3>3, <3>4, <3>5, RowsMove
    <2>7. QED BY <2>5, <2>6
  <1>4. ASSUME NEW todo \in SUBSET Workflows
        PROVE  Sent(todo) \in Publisher /\ Sent(todo).pc \notin Unpublished
    BY DEF Sent, Publisher, PubStates, Unpublished, None
  <1>5. CASE FindAwaiters(e)
    <2>1. PICK fails \in BOOLEAN :
            /\ Fault("statement", fails)
            /\ pub' = [pub EXCEPT ![e] = Sent(IF fails THEN {} ELSE {w \in awaiters : WaitKey[w] = EventKey[e]})]
      BY Zenon, <1>5 DEF FindAwaiters
    <2>2. PICK todo \in SUBSET Workflows : pub' = [pub EXCEPT ![e] = Sent(todo)]
      BY Zenon, <1>0, <2>1
    <2>3. p.pc \notin Unpublished
      BY <1>5 DEF FindAwaiters, Unpublished
    <2>4. QED BY Zenon, <1>0, <1>1, <1>4, <1>5, <2>1, <2>2, <2>3, FaultType DEF FindAwaiters
  <1>6. CASE Signal(e)
    <2>1. PICK w \in p.todo, fails \in BOOLEAN :
            /\ Fault("statement", fails)
            /\ pub' = [pub EXCEPT ![e] = IF fails THEN Sent(pub[e].todo \ {w})
                                                  ELSE [@ EXCEPT !.pc = "unregister", !.cur = w]]
            /\ signals' = IF fails \/ calls[<<w, "own">>].pc = "ended" THEN signals
                          ELSE [signals EXCEPT ![w] = @ + 1]
      BY Zenon, <1>6 DEF Signal
    <2>2. p.pc \notin Unpublished /\ p.todo \subseteq Workflows /\ w \in Workflows
      BY <1>0, <1>6 DEF Signal, Unpublished, Publisher
    <2>3. signals' \in [Workflows -> Nat]
      BY <1>0, <2>1, <2>2
    <2>4. PICK q \in Publisher : q.pc \notin Unpublished /\ pub' = [pub EXCEPT ![e] = q]
      <3> DEFINE r == [p EXCEPT !.pc = "unregister", !.cur = w]
      <3>1. r \in Publisher /\ r.pc \notin Unpublished
        BY Zenon, <1>0, <2>2 DEF Publisher, PubStates, Unpublished
      <3>2. p.todo \ {w} \in SUBSET Workflows
        BY <2>2
      <3>3. CASE fails
        BY Zenon, <1>4, <2>1, <3>2, <3>3
      <3>4. CASE ~fails
        <4>1. pub' = [pub EXCEPT ![e] = r]
          BY <1>0, <2>1, <3>4
        <4>2. QED BY Zenon, <3>1, <4>1
      <3>5. QED BY <3>3, <3>4
    <2>5. UNCHANGED <<log, status, processed, awaiters, calls, got, commits, deleted, takeovers>>
      BY Zenon, <1>6 DEF Signal
    <2>6. faults' \in 0..MaxFaults
      BY Zenon, <2>1, FaultType
    <2>7. QED BY Zenon, <1>0, <1>1, <2>2, <2>3, <2>4, <2>5, <2>6
  <1>7. CASE UnregisterSignalled(e)
    <2>1. PICK fails \in BOOLEAN :
            /\ Fault("statement", fails)
            /\ awaiters' = IF fails THEN awaiters ELSE awaiters \ {pub[e].cur}
      BY Zenon, <1>7 DEF UnregisterSignalled
    <2>2. awaiters' \subseteq Workflows
      BY <1>0, <2>1
    <2>3. p.pc \notin Unpublished /\ p.todo \ {p.cur} \in SUBSET Workflows
      BY <1>0, <1>7 DEF UnregisterSignalled, Unpublished, Publisher
    <2>4. QED BY Zenon, <1>0, <1>1, <1>4, <1>7, <2>1, <2>2, <2>3, FaultType DEF UnregisterSignalled
  <1>8. CASE PublisherDies(e)
    <2> DEFINE q == [pc |-> "dead", todo |-> {}, cur |-> None]
    <2>1. q \in Publisher /\ q.pc \notin Unpublished /\ p.pc \notin Unpublished
      BY <1>8 DEF PublisherDies, Publisher, PubStates, Unpublished
    <2>2. pub' = [pub EXCEPT ![e] = q]
      BY Zenon, <1>8 DEF PublisherDies
    <2> HIDE DEF q
    <2>3. QED BY Zenon, <1>0, <1>1, <1>8, <2>1, <2>2, FaultType DEF PublisherDies
  <1>9. CASE PublishAgain(e)
    <2> DEFINE q == [p EXCEPT !.pc = "done"]
    <2>1. /\ q \in Publisher /\ q.pc \notin Unpublished /\ p.pc \notin Unpublished
          /\ pub' = [pub EXCEPT ![e] = q]
      BY Zenon, <1>0, <1>9 DEF PublishAgain, Publisher, PubStates, Unpublished
    <2> HIDE DEF q
    <2>2. QED BY Zenon, <1>0, <1>1, <1>9, <2>1 DEF PublishAgain
  <1>10. CASE RetryEvent(e)
    <2> DEFINE q == [p EXCEPT !.pc = "scan"]
    <2>1. /\ q \in Publisher /\ q.pc \notin Unpublished /\ p.pc \notin Unpublished
          /\ pub' = [pub EXCEPT ![e] = q] /\ status' = [status EXCEPT ![e] = "pending"]
      BY Zenon, <1>0, <1>10 DEF RetryEvent, Publisher, PubStates, Unpublished
    <2> HIDE DEF q
    <2>2. /\ status' \in [Events -> RowStatuses] /\ pub' \in [Events -> Publisher]
          /\ status'[e] = "pending" /\ pub'[e] = q
          /\ \A f \in Events : f # e => status'[f] = status[f] /\ pub'[f] = pub[f]
      BY <1>0, <2>1 DEF RowStatuses
    <2>3. UNCHANGED <<log, processed, awaiters, signals, calls, got, commits, deleted, faults, takeovers>>
      BY Zenon, <1>10 DEF RetryEvent
    <2>4. ASSUME NEW f \in Events
          PROVE  /\ Stored(f)' <=> status'[f] # "absent"
                 /\ Stored(f)' <=> pub'[f].pc \notin Unpublished
      BY <1>0, <2>1, <2>2, <2>3 DEF EventOK, Stored
    <2>5. QED BY Zenon, <1>0, <2>2, <2>3, <2>4, RowsMove
  <1>11. QED BY Zenon, <1>2, <1>3, <1>5, <1>6, <1>7, <1>8, <1>9, <1>10 DEF PublisherStep
-----------------------------------------------------------------------------
(* The claim's own steps. *)

(* An event that is not taken and not locked is locked by one execution.   *)
LEMMA HoldKeeps ==
    ASSUME AwaitInv, NEW s \in Sessions, calls[s].pc \in {"try", "pick"},
           NEW i \in DOMAIN log, log[i] \notin processed, ~Locked(log[i]),
           calls' = [calls EXCEPT ![s] = Hold(@, log[i])], faults' \in 0..MaxFaults,
           UNCHANGED <<log, status, processed, awaiters, signals, pub, got, commits, deleted, takeovers>>,
           MaxTakeovers = 0 => s[2] = "own"
    PROVE  AwaitInv'
  <1> DEFINE x == Hold(calls[s], log[i])
  <1>0. log[i] \in Events /\ log[i] \in Range(log) /\ calls[s] \in Call /\ calls \in [Sessions -> Call]
    BY DEF AwaitInv, AwaitTypeOK, Range
  <1>1. x \in Call /\ x.pc = "held" /\ x.ev = log[i]
    BY Zenon, <1>0 DEF Hold, Call, CallStates
  <1>2. calls' = [calls EXCEPT ![s] = x]
    BY <1>0
  <1> HIDE DEF x
  <1>3. calls'[s] = x /\ \A t \in Sessions : t # s => calls'[t] = calls[t]
    BY <1>0, <1>2
  <1>4. AwaitTypeOK'
    <2>1. Call' = Call
      BY DEF Call
    <2>2. calls' \in [Sessions -> Call']
      BY <1>0, <1>1, <1>2, <2>1
    <2>3. QED BY Zenon, <2>2 DEF AwaitInv, AwaitTypeOK
  <1>5. ASSUME NEW e \in Events PROVE EventOK(e)'
    BY Zenon DEF AwaitInv, EventOK, Stored
  <1>6. ASSUME NEW t \in Sessions PROVE CallOK(t)'
    BY Zenon, <1>0, <1>1, <1>3 DEF AwaitInv, CallOK, Stored
  <1>7. ASSUME NEW w \in Workflows PROVE RunOK(w)'
    <2>1. <<w, "own">> \in Sessions /\ <<w, "old">> \in Sessions /\ (s = <<w, "old">> => s[2] # "own")
      BY DEF Sessions
    <2>2. calls[s].pc # "ended" /\ x.pc # "ended"
      BY <1>1
    <2>3. QED BY Zenon, <1>3, <2>1, <2>2 DEF AwaitInv, RunOK
  <1>8. OneHolder'
    <2>1. ASSUME NEW t \in Sessions, calls[t].pc = "held" PROVE calls[t].ev # log[i]
      BY Zenon, <2>1 DEF Locked
    <2>2. SUFFICES ASSUME NEW t \in Sessions, NEW u \in Sessions,
                          calls'[t].pc = "held", calls'[u].pc = "held", calls'[t].ev = calls'[u].ev
                   PROVE  t = u
      BY Zenon DEF OneHolder
    <2>3. CASE t = s \/ u = s
      BY Zenon, <1>1, <1>3, <2>1, <2>2, <2>3
    <2>4. CASE t # s /\ u # s
      BY Zenon, <1>3, <2>2, <2>4 DEF AwaitInv, OneHolder
    <2>5. QED BY <2>3, <2>4
  <1>9. ASSUME NEW e, NEW t \in Sessions PROVE Carries(t, e)' <=> Carries(t, e)
    BY Zenon, <1>1, <1>3 DEF Carries
  <1>10. QED BY Zenon, <1>4, <1>5, <1>6, <1>7, <1>8, <1>9, SameCarriers DEF AwaitInv

(* The commit takes the event: nobody else has it, or is about to.         *)
LEMMA CommitKeeps ==
    ASSUME AwaitInv, NEW s \in Sessions, calls[s].pc = "held",
           calls' = [calls EXCEPT ![s] = [@ EXCEPT !.pc = "clear"]],
           status' = [status EXCEPT ![calls[s].ev] = "consumed"],
           processed' = processed \cup {calls[s].ev},
           commits' = [commits EXCEPT ![calls[s].ev] = @ + 1], faults' \in 0..MaxFaults,
           UNCHANGED <<log, awaiters, signals, pub, got, deleted, takeovers>>
    PROVE  AwaitInv'
  <1> DEFINE x == [calls[s] EXCEPT !.pc = "clear"]
             o == calls[s].ev
  <1>0. /\ calls[s] \in Call /\ calls \in [Sessions -> Call]
        /\ o \in Events /\ o \notin processed /\ o \in Range(log)
        /\ status \in [Events -> RowStatuses] /\ commits \in [Events -> Nat] /\ EventOK(o)
    BY Zenon DEF AwaitInv, AwaitTypeOK, CallOK, Stored
  <1>1. x \in Call /\ x.pc = "clear" /\ x.ev = o
    BY <1>0 DEF Call, CallStates
  <1>2. calls' = [calls EXCEPT ![s] = x]
    BY <1>0
  <1> HIDE DEF x
  <1>3. calls'[s] = x /\ \A t \in Sessions : t # s => calls'[t] = calls[t]
    BY <1>0, <1>2
  <1>4. commits[o] = 0
    BY <1>0 DEF EventOK
  <1>5. /\ commits' \in [Events -> Nat] /\ commits'[o] = 1 /\ status' \in [Events -> RowStatuses]
        /\ status'[o] = "consumed"
        /\ \A e \in Events : e # o => commits'[e] = commits[e] /\ status'[e] = status[e]
    BY <1>0, <1>4 DEF RowStatuses
  <1>6. AwaitTypeOK'
    <2>1. Call' = Call
      BY DEF Call
    <2>2. calls' \in [Sessions -> Call']
      BY <1>0, <1>1, <1>2, <2>1
    <2>3. processed' \subseteq Range(log)'
      BY <1>0 DEF AwaitInv, AwaitTypeOK
    <2>4. QED BY Zenon, <1>5, <2>2, <2>3 DEF AwaitInv, AwaitTypeOK
  <1>7. ASSUME NEW e \in Events PROVE EventOK(e)'
    <2>1. CASE e = o
      <3>1. commits'[e] <= 1 /\ e \in processed' /\ status'[e] # "absent"
        BY <1>5, <2>1
      <3>2. QED BY Zenon, <1>0, <2>1, <3>1 DEF EventOK, Stored
    <2>2. CASE e # o
      BY Zenon, <1>5, <2>2 DEF AwaitInv, EventOK, Stored
    <2>3. QED BY <2>1, <2>2
  <1>8. ASSUME NEW t \in Sessions PROVE CallOK(t)'
    <2>1. CASE t = s
      <3>1. calls'[t].pc = "clear" /\ calls'[t].ev = o /\ o \in processed'
        BY <1>1, <1>3, <2>1
      <3>2. QED BY <1>0, <3>1 DEF CallOK
    <2>2. CASE t # s
      <3>1. calls[t].pc = "held" => calls[t].ev # o
        BY Zenon, <2>2 DEF AwaitInv, OneHolder
      <3>2. QED BY <1>3, <2>2, <3>1 DEF AwaitInv, CallOK, Stored
    <2>3. QED BY <2>1, <2>2
  <1>9. ASSUME NEW w \in Workflows PROVE RunOK(w)'
    <2>1. <<w, "own">> \in Sessions /\ <<w, "old">> \in Sessions
      BY DEF Sessions
    <2>2. calls[s].pc # "ended" /\ x.pc # "ended" /\ calls[s].pc # "absent"
      BY <1>1
    <2>3. QED BY Zenon, <1>3, <2>1, <2>2 DEF AwaitInv, RunOK
  <1>10. OneHolder'
    BY Zenon, <1>1, <1>3 DEF AwaitInv, OneHolder
  <1>11. ASSUME NEW w \in Workflows PROVE ~Has(w, o)
    <2>1. <<w, "own">> \in Sessions /\ <<w, "old">> \in Sessions
      BY DEF Sessions
    <2>2. QED BY Zenon, <1>0, <2>1 DEF AwaitInv, RunOK, CallOK, Has, Carries
  <1>12. ASSUME NEW t \in Sessions, NEW e \in Events, Carries(t, e)'
         PROVE  Carries(t, e) \/ (t = s /\ e = o)
    BY Zenon, <1>1, <1>3, <1>12 DEF Carries
  <1>13. OneRun'
    <2>1. SUFFICES ASSUME NEW e \in Events, NEW v \in Workflows, NEW w \in Workflows, Has(v, e)', Has(w, e)'
                   PROVE  v = w
      BY Zenon DEF OneRun
    <2>2. ASSUME NEW u \in Workflows, Has(u, e)' PROVE Has(u, e) \/ (u = s[1] /\ e = o)
      <3>1. /\ <<u, "own">> \in Sessions /\ <<u, "old">> \in Sessions
            /\ s = <<u, "own">> => u = s[1]
            /\ s = <<u, "old">> => u = s[1]
        BY DEF Sessions
      <3>2. QED BY Zenon, <1>12, <2>2, <3>1 DEF Has
    <2>3. QED BY Zenon, <1>11, <2>1, <2>2 DEF AwaitInv, OneRun
  <1>14. ASSUME MaxTakeovers = 0 PROVE ConsumedIsReported'
    <2>1. SUFFICES ASSUME NEW e \in Events, commits'[e] > 0
                   PROVE  \E w \in Workflows : e \in Range(got[w]) \/ Carries(<<w, "own">>, e)'
      BY Zenon DEF ConsumedIsReported, Carries
    <2>2. CASE e = o
      <3>1. PICK w \in Workflows : s = <<w, "own">> \/ s = <<w, "old">>
        BY DEF Sessions
      <3>2. s = <<w, "own">>
        BY Zenon, <1>14, <3>1 DEF AwaitInv, RunOK
      <3>3. QED BY Zenon, <1>1, <1>3, <2>2, <3>2 DEF Carries
    <2>3. CASE e # o
      <3>1. PICK w \in Workflows : e \in Range(got[w]) \/ Carries(<<w, "own">>, e)
        BY Zenon, <1>5, <1>14, <2>1, <2>3 DEF AwaitInv, ConsumedIsReported, Carries
      <3>2. <<w, "own">> \in Sessions
        BY DEF Sessions
      <3>3. QED BY Zenon, <1>3, <2>3, <3>1, <3>2 DEF Carries
    <2>4. QED BY <2>2, <2>3
  <1>15. QED BY Zenon, <1>6, <1>7, <1>8, <1>9, <1>10, <1>13, <1>14 DEF AwaitInv

(* A claim of an event nobody can decode is rolled back, and a claim that  *)
(* was committed goes on to its answer.                                    *)
LEMMA TurnKeeps ==
    ASSUME AwaitInv, NEW s \in Sessions, NEW to,
           \/ calls[s].pc = "held" /\ to = "bury"
           \/ calls[s].pc = "clear" /\ to = "return",
           calls' = [calls EXCEPT ![s].pc = to],
           awaiters' \subseteq Workflows, faults' \in 0..MaxFaults,
           UNCHANGED <<log, status, processed, signals, pub, got, commits, deleted, takeovers>>
    PROVE  AwaitInv'
  <1> DEFINE x == [calls[s] EXCEPT !.pc = to]
  <1>0. calls[s] \in Call /\ calls \in [Sessions -> Call] /\ CallOK(s)
    BY Zenon DEF AwaitInv, AwaitTypeOK
  <1>1. x \in Call /\ x.pc = to /\ x.ev = calls[s].ev
    BY <1>0 DEF Call, CallStates
  <1>2. calls' = [calls EXCEPT ![s] = x]
    BY <1>0
  <1> HIDE DEF x
  <1>3. calls'[s] = x /\ \A t \in Sessions : t # s => calls'[t] = calls[t]
    BY <1>0, <1>2
  <1>4. AwaitTypeOK'
    <2>1. Call' = Call
      BY DEF Call
    <2>2. calls' \in [Sessions -> Call']
      BY <1>0, <1>1, <1>2, <2>1
    <2>3. QED BY Zenon, <2>2 DEF AwaitInv, AwaitTypeOK
  <1>5. ASSUME NEW e \in Events PROVE EventOK(e)'
    BY Zenon DEF AwaitInv, EventOK, Stored
  <1>6. ASSUME NEW t \in Sessions PROVE CallOK(t)'
    <2>1. CASE t = s
      BY <1>0, <1>1, <1>3, <2>1 DEF CallOK, Stored
    <2>2. CASE t # s
      <3>1. CallOK(t) /\ calls'[t] = calls[t]
        BY Zenon, <1>3, <2>2 DEF AwaitInv
      <3>2. QED BY <3>1 DEF CallOK, Stored
    <2>3. QED BY <2>1, <2>2
  <1>7. ASSUME NEW w \in Workflows PROVE RunOK(w)'
    <2>1. <<w, "own">> \in Sessions /\ <<w, "old">> \in Sessions
      BY DEF Sessions
    <2>2. calls[s].pc # "ended" /\ x.pc # "ended" /\ calls[s].pc # "absent"
      BY <1>1
    <2>3. QED BY Zenon, <1>3, <2>1, <2>2 DEF AwaitInv, RunOK
  <1>8. OneHolder'
    <2>1. x.pc # "held"
      BY <1>1
    <2>2. QED BY Zenon, <1>3, <2>1 DEF AwaitInv, OneHolder
  <1>9. ASSUME NEW e \in Events, NEW t \in Sessions PROVE Carries(t, e)' <=> Carries(t, e)
    <2>1. CASE t = s
      BY <1>1, <1>3, <2>1 DEF Carries
    <2>2. CASE t # s
      BY Zenon, <1>3, <2>2 DEF Carries
    <2>3. QED BY <2>1, <2>2
  <1>10. QED BY Zenon, <1>4, <1>5, <1>6, <1>7, <1>8, <1>9, SameCarriers DEF AwaitInv

(* Where nobody is taken over, an execution that is under way is its run's *)
(* own.                                                                    *)
LEMMA OwnCall ==
    ASSUME AwaitInv, NEW s \in Sessions, calls[s].pc # "absent"
    PROVE  MaxTakeovers = 0 => s[2] = "own"
  <1>1. s[1] \in Workflows /\ s[2] \in {"own", "old"} /\ s = <<s[1], s[2]>>
    BY DEF Sessions
  <1>2. MaxTakeovers = 0 => calls[<<s[1], "old">>].pc = "absent"
    BY Zenon, <1>1 DEF AwaitInv, RunOK
  <1>3. QED BY Zenon, <1>1, <1>2

(* A call that is looking, and that finds nothing, fails or goes on.       *)
LEMMA LookMoves ==
    ASSUME AwaitInv, NEW s \in Sessions, calls[s].pc \in {"try", "pick", "held", "register", "wait"},
           NEW x \in Call, calls' = [calls EXCEPT ![s] = x],
           x.pc \notin {"held", "bury", "clear"}, x.pc = "return" => x.ev \notin Events,
           awaiters' \subseteq Workflows, signals' \in [Workflows -> Nat], faults' \in 0..MaxFaults,
           UNCHANGED <<log, status, processed, pub, got, commits, deleted, takeovers>>
    PROVE  AwaitInv'
  <1>1. calls[s].pc # "absent" /\ calls[s].pc # "ended" /\ calls[s].pc \notin {"clear", "return"}
    OBVIOUS
  <1>2. \A e \in Events : ~Carries(s, e)
    BY Zenon, <1>1 DEF Carries
  <1>3. ~(MaxTakeovers = 0 /\ s[2] = "old")
    BY <1>1, OwnCall
  <1>4. status' \in [Events -> RowStatuses] /\ processed' \subseteq Range(log)
    BY Zenon DEF AwaitInv, AwaitTypeOK
  <1>5. QED BY Zenon, <1>1, <1>2, <1>3, <1>4, CallMoves

LEMMA Answers ==
    ASSUME NEW x \in Call
    PROVE  /\ Missed(x) \in Call /\ Missed(x).pc \in {"register", "return"} /\ Missed(x).ev \notin Events
           /\ Failed(x) \in Call /\ Failed(x).pc = "return" /\ Failed(x).ev \notin Events
  <1>1. None \notin Events /\ "error" \notin Events
    BY Zenon, AwaitConstants
  <1>2. Missed(x) \in Call /\ Missed(x).pc \in {"register", "return"} /\ Missed(x).ev = None
    BY Zenon DEF Missed, Call, CallStates
  <1>3. Failed(x) \in Call /\ Failed(x).pc = "return" /\ Failed(x).ev = "error"
    BY Zenon DEF Failed, Call, CallStates
  <1>4. QED BY Zenon, <1>1, <1>2, <1>3

(* An event nobody can decode is put aside, if no other claim has it.      *)
LEMMA DeadLetterKeeps ==
    ASSUME AwaitInv, NEW s \in Sessions, DeadLetterPoison(s)
    PROVE  AwaitInv'
  <1> DEFINE o == calls[s].ev
             x == Missed(calls[s])
  <1>0. /\ calls[s] \in Call /\ calls[s].pc = "bury" /\ o \in Events /\ o \in Range(log) /\ ~Locked(o)
        /\ status \in [Events -> RowStatuses] /\ processed \subseteq Range(log) /\ EventOK(o)
        /\ awaiters \subseteq Workflows /\ signals \in [Workflows -> Nat]
    BY Zenon DEF AwaitInv, AwaitTypeOK, CallOK, Stored, DeadLetterPoison
  <1>1. PICK fails \in BOOLEAN :
          /\ Fault("statement", fails)
          /\ processed' = IF fails THEN processed ELSE processed \cup {o}
          /\ status' = IF fails THEN status ELSE [status EXCEPT ![o] = "dead_letter"]
    BY Zenon DEF DeadLetterPoison
  <1>2. faults' \in 0..MaxFaults
    BY Zenon, <1>1, FaultType
  <1>3. x \in Call /\ x.pc \in {"register", "return"} /\ x.ev \notin Events
    BY Zenon, <1>0, Answers
  <1>4. calls' = [calls EXCEPT ![s] = x]
    BY DEF DeadLetterPoison
  <1> HIDE DEF x
  <1>5. UNCHANGED <<log, awaiters, signals, pub, got, commits, deleted, takeovers>>
    BY Zenon DEF DeadLetterPoison
  <1>6. /\ processed \subseteq processed' /\ processed' \subseteq Range(log)
        /\ processed' \ processed \subseteq {o}
    BY <1>0, <1>1
  <1>7. ASSUME NEW t \in Sessions, calls[t].pc = "held" PROVE calls[t].ev \notin processed' \ processed
    BY Zenon, <1>0, <1>6, <1>7 DEF Locked
  <1>8. /\ status' \in [Events -> RowStatuses]
        /\ \A e \in Events : status'[e] = "absent" <=> status[e] = "absent"
    <2>1. status[o] # "absent"
      BY Zenon, <1>0 DEF EventOK, Stored
    <2>2. QED BY <1>0, <1>1, <2>1 DEF RowStatuses
  <1>9. ~(MaxTakeovers = 0 /\ s[2] = "old")
    BY <1>0, OwnCall
  <1>10. /\ \A e \in Events : ~Carries(s, e)
         /\ calls[s].pc # "ended" /\ x.pc \notin {"held", "bury", "clear"}
    BY <1>0, <1>3 DEF Carries
  <1>11. QED BY Zenon, <1>0, <1>2, <1>3, <1>4, <1>5, <1>6, <1>7, <1>8, <1>9, <1>10, CallMoves

(* Deleting the source puts its events aside, none of them locked.         *)
LEMMA DeleteKeeps ==
    ASSUME AwaitInv, DeleteSource
    PROVE  AwaitInv'
  <1>1. /\ \A e \in Hooks : ~Locked(e)
        /\ deleted' = TRUE /\ processed' = processed \cup Cancelled
        /\ status' = [e \in Events |-> IF e \in Cancelled THEN "cancelled" ELSE status[e]]
        /\ UNCHANGED <<log, awaiters, signals, pub, calls, got, commits, faults, takeovers>>
    BY Zenon DEF DeleteSource
  <1>2. Hooks \subseteq Events
    BY Zenon, AwaitConstants
  <1>3. \A e \in Cancelled : e \in Hooks /\ e \in Events /\ status[e] # "absent" /\ Stored(e)
    BY Zenon, <1>2 DEF Cancelled, AwaitInv, EventOK
  <1>4. /\ status' \in [Events -> RowStatuses]
        /\ \A e \in Events : status'[e] = "absent" <=> status[e] = "absent"
    BY <1>1, <1>3 DEF RowStatuses, AwaitInv, AwaitTypeOK
  <1>5. processed' \subseteq Range(log) /\ processed \subseteq processed'
    BY <1>1, <1>3 DEF Stored, AwaitInv, AwaitTypeOK
  <1>6. AwaitTypeOK'
    <2>1. Call' = Call /\ deleted' \in BOOLEAN
      BY Zenon, <1>1 DEF Call
    <2>2. QED BY Zenon, <1>1, <1>4, <1>5, <2>1 DEF AwaitInv, AwaitTypeOK
  <1>7. ASSUME NEW e \in Events PROVE EventOK(e)'
    BY Zenon, <1>1, <1>4, <1>5 DEF AwaitInv, EventOK, Stored
  <1>8. ASSUME NEW t \in Sessions PROVE CallOK(t)'
    <2>1. calls[t].pc = "held" => calls[t].ev \notin processed'
      BY Zenon, <1>1, <1>3 DEF AwaitInv, CallOK, Locked
    <2>2. QED BY Zenon, <1>1, <1>5, <2>1 DEF AwaitInv, CallOK, Stored
  <1>9. ASSUME NEW w \in Workflows PROVE RunOK(w)'
    BY Zenon, <1>1, <1>5 DEF AwaitInv, RunOK
  <1>10. OneHolder' /\ OneRun'
    BY Zenon, <1>1 DEF AwaitInv, OneHolder, OneRun, Has, Carries
  <1>11. MaxTakeovers = 0 => ConsumedIsReported'
    BY Zenon, <1>1 DEF AwaitInv, ConsumedIsReported
  <1>12. QED BY Zenon, <1>6, <1>7, <1>8, <1>9, <1>10, <1>11 DEF AwaitInv

LEMMA CallKeeps ==
    ASSUME AwaitInv, NEW s \in Sessions, CallStep(s)
    PROVE  AwaitInv'
  <1>0. /\ calls[s] \in Call /\ calls \in [Sessions -> Call] /\ faults \in 0..MaxFaults
        /\ awaiters \subseteq Workflows /\ signals \in [Workflows -> Nat] /\ s[1] \in Workflows
    <2>1. s[1] \in Workflows
      BY DEF Sessions
    <2>2. QED BY Zenon, <2>1 DEF AwaitInv, AwaitTypeOK
  <1>1. /\ Missed(calls[s]) \in Call /\ Missed(calls[s]).pc \notin {"held", "bury", "clear"}
        /\ Missed(calls[s]).ev \notin Events
        /\ Failed(calls[s]) \in Call /\ Failed(calls[s]).pc \notin {"held", "bury", "clear"}
        /\ Failed(calls[s]).ev \notin Events
    BY <1>0, Answers
  <1>2. ASSUME calls[s].pc # "absent" PROVE MaxTakeovers = 0 => s[2] = "own"
    BY Zenon, <1>2, OwnCall
  <1>3. CASE ClaimLocking(s)
    <2>1. calls[s].pc \in {"try", "pick", "held", "register", "wait"} /\ calls[s].pc # "absent" /\ calls[s].pc \in {"try", "pick"}
      BY <1>3 DEF ClaimLocking
    <2>2. UNCHANGED <<log, status, processed, awaiters, signals, pub, got, commits, deleted, takeovers>>
      BY Zenon, <1>3 DEF ClaimLocking
    <2>3. faults' \in 0..MaxFaults
      <3>1. PICK fails \in BOOLEAN : Fault("statement", fails)
        BY Zenon, <1>3 DEF ClaimLocking
      <3>2. QED BY Zenon, <3>1, FaultType
    <2>4. CASE calls' = [calls EXCEPT ![s] = Failed(calls[s])]
      BY Zenon, <1>0, <1>1, <2>1, <2>2, <2>3, <2>4, LookMoves
    <2>5. CASE calls' = [calls EXCEPT ![s] = Missed(calls[s])]
      BY Zenon, <1>0, <1>1, <2>1, <2>2, <2>3, <2>5, LookMoves
    <2>6. CASE \E i \in DOMAIN log : Oldest(i, Candidates(s[1])) /\ calls' = [calls EXCEPT ![s] = Hold(calls[s], log[i])]
      <3>1. PICK i \in DOMAIN log : Oldest(i, Candidates(s[1])) /\ calls' = [calls EXCEPT ![s] = Hold(calls[s], log[i])]
        BY Zenon, <2>6
      <3>2. log[i] \notin processed /\ ~Locked(log[i])
        BY Zenon, <3>1 DEF Oldest, Candidates, Claimable
      <3>3. QED BY Zenon, <1>2, <2>1, <2>2, <2>3, <3>1, <3>2, HoldKeeps
    <2>7. QED BY Zenon, <1>3, <2>4, <2>5, <2>6 DEF ClaimLocking
  <1>4. CASE ReadCandidates(s)
    <2>1. PICK fails \in BOOLEAN :
            /\ Fault("statement", fails)
            /\ calls' = [calls EXCEPT ![s] =
                   IF fails THEN Failed(@) ELSE [@ EXCEPT !.pc = "pick", !.cand = Candidates(s[1])]]
      BY Zenon, <1>4 DEF ReadCandidates
    <2> DEFINE y == [calls[s] EXCEPT !.pc = "pick", !.cand = Candidates(s[1])]
    <2>2. y \in Call /\ y.pc = "pick"
      BY Zenon, <1>0 DEF Candidates, Call, CallStates
    <2>3. calls' = [calls EXCEPT ![s] = IF fails THEN Failed(calls[s]) ELSE y]
      BY <1>0, <2>1
    <2> HIDE DEF y
    <2>4. PICK x \in Call : /\ calls' = [calls EXCEPT ![s] = x] /\ x.pc \notin {"held", "bury", "clear"}
                            /\ x.pc = "return" => x.ev \notin Events
      BY Zenon, <1>1, <2>2, <2>3
    <2>5. UNCHANGED <<log, status, processed, awaiters, signals, pub, got, commits, deleted, takeovers>>
      BY Zenon, <1>4 DEF ReadCandidates
    <2>6. calls[s].pc \in {"try", "pick", "held", "register", "wait"}
      BY <1>4 DEF ReadCandidates
    <2>7. QED BY Zenon, <1>0, <2>1, <2>4, <2>5, <2>6, FaultType, LookMoves
  <1>5. CASE ClaimCandidate(s)
    <2>1. calls[s].pc \in {"try", "pick", "held", "register", "wait"} /\ calls[s].pc # "absent" /\ calls[s].pc = "pick"
      BY <1>5 DEF ClaimCandidate
    <2>2. UNCHANGED <<log, status, processed, awaiters, signals, pub, got, commits, deleted, faults, takeovers>>
      BY Zenon, <1>5 DEF ClaimCandidate
    <2>3. CASE calls' = [calls EXCEPT ![s] = Missed(calls[s])]
      BY Zenon, <1>0, <1>1, <2>1, <2>2, <2>3, LookMoves
    <2>4. ASSUME NEW i \in DOMAIN log,
                 calls' = [calls EXCEPT ![s] = IF PointClaimable(log[i]) THEN Hold(@, log[i])
                                               ELSE Skip(@, i)]
          PROVE  AwaitInv'
      <3>1. CASE PointClaimable(log[i])
        <4>1. log[i] \notin processed /\ ~Locked(log[i]) /\ calls' = [calls EXCEPT ![s] = Hold(@, log[i])]
          BY Zenon, <2>4, <3>1 DEF PointClaimable
        <4>2. QED BY Zenon, <1>0, <1>2, <2>1, <2>2, <4>1, HoldKeeps
      <3>2. CASE ~PointClaimable(log[i])
        <4> DEFINE y == Skip(calls[s], i)
        <4>1. y \in Call /\ y.pc = "pick"
          BY <1>0, <2>1 DEF Skip, Call, CallStates
        <4>2. calls' = [calls EXCEPT ![s] = y]
          BY Zenon, <2>4, <3>2
        <4> HIDE DEF y
        <4>3. y.pc \notin {"held", "bury", "clear"} /\ y.pc # "return"
          BY <4>1
        <4>4. QED BY Zenon, <1>0, <2>1, <2>2, <4>1, <4>2, <4>3, LookMoves
      <3>3. QED BY <3>1, <3>2
    <2>5. QED BY Zenon, <1>5, <2>3, <2>4 DEF ClaimCandidate
  <1>6. CASE CommitClaim(s)
    <2>1. PICK fails \in BOOLEAN :
         /\ Fault("commit", fails)
         /\ calls' = [calls EXCEPT ![s] = IF fails THEN Failed(@) ELSE [@ EXCEPT !.pc = "clear"]]
         /\ IF fails THEN UNCHANGED <<status, processed, commits>>
            ELSE /\ status' = [status EXCEPT ![calls[s].ev] = "consumed"]
                 /\ processed' = processed \cup {calls[s].ev}
                 /\ commits' = [commits EXCEPT ![calls[s].ev] = @ + 1]
      BY Zenon, <1>6 DEF CommitClaim
    <2>2. UNCHANGED <<log, awaiters, signals, pub, got, deleted, takeovers>> /\ calls[s].pc = "held"
      BY Zenon, <1>6 DEF CommitClaim
    <2>3. calls[s].pc \in {"try", "pick", "held", "register", "wait"}
      BY <2>2
    <2>4. faults' \in 0..MaxFaults
      BY Zenon, <2>1, FaultType
    <2>5. CASE fails
      BY Zenon, <1>0, <1>1, <2>1, <2>2, <2>3, <2>4, <2>5, LookMoves
    <2>6. CASE ~fails
      BY Zenon, <2>1, <2>2, <2>4, <2>6, CommitKeeps
    <2>7. QED BY <2>5, <2>6
  <1>7. CASE RollBackPoison(s)
    BY Zenon, <1>0, <1>7, TurnKeeps DEF RollBackPoison
  <1>8. CASE DeadLetterPoison(s)
    BY Zenon, <1>8, DeadLetterKeeps
  <1>9. CASE Register(s)
    <2>1. PICK fails \in BOOLEAN :
            /\ Fault("statement", fails)
            /\ awaiters' = IF fails THEN awaiters ELSE awaiters \union {s[1]}
            /\ calls' = [calls EXCEPT ![s] = IF fails THEN Failed(@) ELSE Again(@)]
      BY Zenon, <1>9 DEF Register
    <2>2. Again(calls[s]) \in Call /\ Again(calls[s]).pc = "try"
      BY Zenon, <1>0 DEF Again, Call, CallStates
    <2>3. PICK x \in Call : /\ calls' = [calls EXCEPT ![s] = x] /\ x.pc \notin {"held", "bury", "clear"}
                            /\ x.pc = "return" => x.ev \notin Events
      BY Zenon, <1>1, <2>1, <2>2
    <2>4. awaiters' \subseteq Workflows
      BY <1>0, <2>1
    <2>5. UNCHANGED <<log, status, processed, signals, pub, got, commits, deleted, takeovers>>
      BY Zenon, <1>9 DEF Register
    <2>6. calls[s].pc \in {"try", "pick", "held", "register", "wait"}
      BY <1>9 DEF Register
    <2>7. QED BY Zenon, <1>0, <2>1, <2>3, <2>4, <2>5, <2>6, FaultType, LookMoves
  <1>10. CASE Unregister(s)
    <2>1. PICK fails \in BOOLEAN :
            /\ Fault("statement", fails)
            /\ awaiters' = IF fails THEN awaiters ELSE awaiters \ {s[1]}
      BY Zenon, <1>10 DEF Unregister
    <2>2. awaiters' \subseteq Workflows
      BY <1>0, <2>1
    <2>3. QED BY Zenon, <1>10, <2>1, <2>2, FaultType, TurnKeeps DEF Unregister
  <1>11. QED BY Zenon, <1>3, <1>4, <1>5, <1>6, <1>7, <1>8, <1>9, <1>10 DEF CallStep

(* The answer goes into the history: an event that was carried is recorded *)
(* by the run that carried it.                                             *)
LEMMA RecordKeeps ==
    ASSUME AwaitInv, NEW w \in Workflows, Record(w)
    PROVE  AwaitInv'
  <1> DEFINE s == <<w, "own">>
             e == calls[s].ev
             x == IF e = None THEN [Fresh EXCEPT !.pc = "wait"]
                  ELSE IF e \in Events /\ Len(got[w]) + 1 < Wants[w] THEN Fresh
                  ELSE [Fresh EXCEPT !.pc = "ended"]
  <1>0. /\ calls[s].pc = "return"
        /\ got' = IF e \in Events THEN [got EXCEPT ![w] = Append(@, e)] ELSE got
        /\ calls' = [calls EXCEPT ![s] = x]
        /\ UNCHANGED <<log, status, processed, awaiters, signals, pub, commits, deleted, faults, takeovers>>
    BY Zenon DEF Record
  <1>1. s \in Sessions /\ s[2] = "own"
    BY DEF Sessions
  <1>2. None \notin Events /\ Wants[w] \in Nat
    BY AwaitConstants
  <1>3. /\ calls \in [Sessions -> Call] /\ calls[s] \in Call /\ CallOK(s) /\ RunOK(w)
        /\ awaiters \subseteq Workflows /\ signals \in [Workflows -> Nat] /\ faults \in 0..MaxFaults
        /\ status \in [Events -> RowStatuses] /\ processed \subseteq Range(log)
        /\ got \in [Workflows -> Seq(Events)]
    BY Zenon, <1>1 DEF AwaitInv, AwaitTypeOK
  <1>4. /\ x \in Call /\ x.pc \in {"wait", "try", "ended"}
        /\ e \in Events /\ x.pc # "ended" => Len(got[w]) + 1 < Wants[w]
    BY <1>2 DEF Fresh, Call, CallStates, None
  <1>5. Len(got[w]) < Wants[w]
    BY <1>0, <1>3 DEF RunOK
  <1> HIDE DEF x
  <1>6. x.pc \notin {"held", "bury", "clear", "return"}
    BY <1>4
  <1>7. CASE e \notin Events
    <2>1. \A f \in Events : ~Carries(s, f)
      BY Zenon, <1>7 DEF Carries
    <2>2. calls[s].pc # "ended" /\ s[2] # "old" /\ got' = got
      BY <1>0, <1>1, <1>7
    <2> HIDE DEF s, e
    <2>3. QED BY Zenon, <1>0, <1>1, <1>3, <1>4, <1>6, <2>1, <2>2, CallMoves
  <1>8. CASE e \in Events
    <2>1. Range(Append(got[w], e)) = Range(got[w]) \cup {e} /\ Append(got[w], e) \in Seq(Events)
          /\ Len(Append(got[w], e)) = Len(got[w]) + 1
      BY <1>3, <1>8, AppendRange
    <2>2. /\ got' \in [Workflows -> Seq(Events)] /\ got'[w] = Append(got[w], e)
          /\ \A v \in Workflows : v # w => got'[v] = got[v]
      BY <1>0, <1>3, <1>8, <2>1
    <2>3. calls'[s] = x /\ \A t \in Sessions : t # s => calls'[t] = calls[t]
      BY <1>0, <1>1, <1>3
    <2>4. e \in processed
      BY <1>0, <1>3, <1>8 DEF CallOK
    <2> HIDE DEF e
    <2>5. AwaitTypeOK'
      <3>1. Call' = Call
        BY <1>0 DEF Call
      <3>2. calls' \in [Sessions -> Call']
        BY Zenon, <1>0, <1>3, <1>4, <3>1
      <3>3. ASSUME NEW v \in Workflows PROVE Len(got'[v]) <= Wants[v]
        <4>1. CASE v = w
          <5>1. Len(got[w]) \in Nat
            BY <1>3
          <5>2. QED BY <1>2, <1>5, <2>1, <2>2, <4>1, <5>1
        <4>2. CASE v # w
          BY Zenon, <2>2, <4>2 DEF AwaitInv, AwaitTypeOK
        <4>3. QED BY <4>1, <4>2
      <3>4. QED BY Zenon, <1>0, <2>2, <3>2, <3>3 DEF AwaitInv, AwaitTypeOK
    <2>6. ASSUME NEW f \in Events PROVE EventOK(f)'
      BY Zenon, <1>0 DEF AwaitInv, EventOK, Stored
    <2>7. ASSUME NEW t \in Sessions PROVE CallOK(t)'
      <3>1. CASE t = s
        BY <1>6, <2>3, <3>1 DEF CallOK
      <3>2. CASE t # s
        <4>1. CallOK(t) /\ calls'[t] = calls[t] /\ processed' = processed /\ log' = log
          BY Zenon, <1>0, <2>3, <3>2 DEF AwaitInv
        <4>2. QED BY <4>1 DEF CallOK, Stored
      <3>3. QED BY <3>1, <3>2
    <2>8. ASSUME NEW v \in Workflows PROVE RunOK(v)'
      <3>1. <<v, "own">> \in Sessions /\ <<v, "old">> \in Sessions /\ <<v, "old">> # s
            /\ (v # w => <<v, "own">> # s)
        BY DEF Sessions
      <3>2. CASE v = w
        <4>1. \A f \in Range(got[v])' : f \in processed'
          BY <1>0, <1>3, <2>1, <2>2, <2>4, <3>2 DEF RunOK
        <4>2. calls'[<<v, "own">>].pc # "ended" => Len(got'[v]) < Wants[v]
          BY Zenon, <1>4, <1>8, <2>1, <2>2, <2>3, <3>2
        <4>3. QED BY Zenon, <2>3, <3>1, <4>1, <4>2 DEF AwaitInv, RunOK
      <3>3. CASE v # w
        BY Zenon, <1>0, <2>2, <2>3, <3>1, <3>3 DEF AwaitInv, RunOK
      <3>4. QED BY <3>2, <3>3
    <2>9. OneHolder'
      BY Zenon, <1>6, <2>3 DEF AwaitInv, OneHolder
    <2>10. ASSUME NEW f \in Events, NEW v \in Workflows PROVE Has(v, f)' => Has(v, f)
      <3>1. <<v, "own">> \in Sessions /\ <<v, "old">> \in Sessions /\ <<v, "old">> # s
            /\ (v # w => <<v, "own">> # s)
        BY DEF Sessions
      <3>2. Carries(<<v, "old">>, f)' => Carries(<<v, "old">>, f)
        BY Zenon, <2>3, <3>1 DEF Carries
      <3>3. CASE v = w
        <4>1. ~Carries(<<v, "own">>, f)'
          BY Zenon, <1>6, <2>3, <3>3 DEF Carries
        <4>2. f = e => Carries(<<v, "own">>, f)
          BY <1>0, <3>3 DEF Carries, e
        <4>3. QED BY Zenon, <2>1, <2>2, <3>2, <3>3, <4>1, <4>2 DEF Has
      <3>4. CASE v # w
        BY Zenon, <2>2, <2>3, <3>1, <3>2, <3>4 DEF Has, Carries
      <3>5. QED BY <3>3, <3>4
    <2>11. OneRun'
      BY Zenon, <2>10 DEF AwaitInv, OneRun
    <2>12. ASSUME MaxTakeovers = 0 PROVE ConsumedIsReported'
      <3>1. SUFFICES ASSUME NEW f \in Events, commits[f] > 0
                     PROVE  \E v \in Workflows : f \in Range(got[v])' \/ Carries(<<v, "own">>, f)'
        BY Zenon, <1>0 DEF ConsumedIsReported, Carries
      <3>2. PICK v \in Workflows : f \in Range(got[v]) \/ Carries(<<v, "own">>, f)
        BY Zenon, <2>12, <3>1 DEF AwaitInv, ConsumedIsReported, Carries
      <3>3. <<v, "own">> \in Sessions /\ (v # w => <<v, "own">> # s)
        BY DEF Sessions
      <3>4. CASE v = w
        <4>1. Carries(<<v, "own">>, f) => f = e
          BY <3>4 DEF Carries, e
        <4>2. QED BY Zenon, <2>1, <2>2, <3>2, <3>4, <4>1
      <3>5. CASE v # w
        BY Zenon, <2>2, <2>3, <3>2, <3>3, <3>5 DEF Carries
      <3>6. QED BY <3>4, <3>5
    <2>13. QED BY Zenon, <2>5, <2>6, <2>7, <2>8, <2>9, <2>11, <2>12 DEF AwaitInv
  <1>9. QED BY <1>7, <1>8

(* The execution that lost the lease keeps its claim and what it carries;  *)
(* the run's own call starts with nothing.                                 *)
LEMMA TakeOverKeeps ==
    ASSUME AwaitInv, NEW w \in Workflows, TakeOver(w)
    PROVE  AwaitInv'
  <1> DEFINE s == <<w, "own">>
             o == <<w, "old">>
  <1>0. /\ takeovers < MaxTakeovers /\ takeovers' = takeovers + 1
        /\ calls[s].pc \notin {"wait", "ended"} /\ calls[o].pc = "absent"
        /\ calls' = [calls EXCEPT ![o] = calls[s], ![s] = Fresh]
        /\ UNCHANGED <<log, status, processed, awaiters, signals, pub, got, commits, deleted, faults>>
    BY Zenon DEF TakeOver
  <1>1. s \in Sessions /\ o \in Sessions /\ s # o
    BY DEF Sessions
  <1>2. calls \in [Sessions -> Call] /\ takeovers \in 0..MaxTakeovers
    BY Zenon DEF AwaitInv, AwaitTypeOK
  <1>3. Fresh \in Call /\ Fresh.pc = "try"
    BY DEF Fresh, Call, CallStates, None
  <1>4. takeovers' \in 0..MaxTakeovers /\ MaxTakeovers # 0
    <2>1. MaxTakeovers \in Nat
      BY Zenon, AwaitConstants
    <2>2. QED BY <1>0, <1>2, <2>1
  <1> HIDE DEF s, o
  <1>5. /\ calls'[s] = Fresh /\ calls'[o] = calls[s]
        /\ \A t \in Sessions : t # s /\ t # o => calls'[t] = calls[t]
    BY <1>0, <1>1, <1>2
  <1>6. calls' \in [Sessions -> Call]
    BY <1>0, <1>1, <1>2, <1>3
  <1>7. Fresh.pc \notin {"held", "bury", "clear", "return", "ended"} /\ calls[s].pc # "ended"
    BY <1>0, <1>3
  <1>8. AwaitTypeOK'
    <2>1. Call' = Call
      BY <1>0 DEF Call
    <2>2. QED BY Zenon, <1>0, <1>4, <1>6, <2>1 DEF AwaitInv, AwaitTypeOK
  <1>9. ASSUME NEW e \in Events PROVE EventOK(e)'
    BY Zenon, <1>0 DEF AwaitInv, EventOK, Stored
  <1>10. ASSUME NEW t \in Sessions PROVE CallOK(t)'
    <2>1. CASE t = s
      BY <1>5, <1>7, <2>1 DEF CallOK
    <2>2. CASE t # s
      <3>1. PICK u \in Sessions : calls'[t] = calls[u]
        BY Zenon, <1>1, <1>5, <2>2
      <3>2. CallOK(u) /\ processed' = processed /\ log' = log
        BY Zenon, <1>0 DEF AwaitInv
      <3>3. QED BY <3>1, <3>2 DEF CallOK, Stored
    <2>3. QED BY <2>1, <2>2
  <1>11. ASSUME NEW v \in Workflows PROVE RunOK(v)'
    <2>1. <<v, "own">> \in Sessions /\ <<v, "own">> # o /\ (<<v, "own">> = s => v = w)
      BY DEF Sessions, s, o
    <2>2. calls'[<<v, "own">>].pc # "ended" => calls[<<v, "own">>].pc # "ended"
      BY Zenon, <1>5, <1>7, <2>1
    <2>3. QED BY Zenon, <1>0, <1>4, <2>2 DEF AwaitInv, RunOK
  <1>12. OneHolder'
    <2>1. SUFFICES ASSUME NEW t \in Sessions, NEW u \in Sessions, calls'[t].pc = "held",
                          calls'[u].pc = "held", calls'[t].ev = calls'[u].ev
                   PROVE  t = u
      BY Zenon DEF OneHolder
    <2>2. t # s /\ u # s
      BY Zenon, <1>5, <1>7, <2>1
    <2>3. \A p, q \in Sessions : calls[p].pc = "held" /\ calls[q].pc = "held" /\ calls[p].ev = calls[q].ev => p = q
      BY Zenon DEF AwaitInv, OneHolder
    <2>4. CASE t # o /\ u # o
      BY Zenon, <1>5, <2>1, <2>2, <2>3, <2>4
    <2>5. CASE t = o /\ u # o
      BY Zenon, <1>1, <1>5, <2>1, <2>2, <2>3, <2>5
    <2>6. CASE t # o /\ u = o
      BY Zenon, <1>1, <1>5, <2>1, <2>2, <2>3, <2>6
    <2>7. QED BY <2>4, <2>5, <2>6
  <1>13. ASSUME NEW v \in Workflows, NEW e \in Events, Has(v, e)' PROVE Has(v, e)
    <2>1. /\ <<v, "own">> \in Sessions /\ <<v, "old">> \in Sessions
          /\ <<v, "own">> # o /\ <<v, "old">> # s
          /\ (<<v, "old">> = o => <<v, "own">> = s)
      BY DEF Sessions, s, o
    <2>2. Carries(<<v, "own">>, e)' => Carries(<<v, "own">>, e)
      BY Zenon, <1>5, <1>7, <2>1 DEF Carries
    <2>3. Carries(<<v, "old">>, e)' => Carries(<<v, "old">>, e) \/ Carries(<<v, "own">>, e)
      BY Zenon, <1>5, <2>1 DEF Carries
    <2>4. QED BY Zenon, <1>0, <1>13, <2>2, <2>3 DEF Has
  <1>14. OneRun'
    BY Zenon, <1>13 DEF AwaitInv, OneRun
  <1>15. QED BY Zenon, <1>4, <1>8, <1>9, <1>10, <1>11, <1>12, <1>14 DEF AwaitInv

LEMMA RunKeeps ==
    ASSUME AwaitInv, NEW w \in Workflows, Wake(w) \/ Recheck(w) \/ Expire(w) \/ OldEnds(w)
    PROVE  AwaitInv'
  <1>0. /\ calls \in [Sessions -> Call] /\ faults \in 0..MaxFaults
        /\ awaiters \subseteq Workflows /\ signals \in [Workflows -> Nat]
        /\ status \in [Events -> RowStatuses] /\ processed \subseteq Range(log)
    BY Zenon DEF AwaitInv, AwaitTypeOK
  <1>1. <<w, "own">> \in Sessions /\ <<w, "old">> \in Sessions
    BY DEF Sessions
  <1>2. Fresh \in Call /\ Fresh.pc \notin {"held", "bury", "clear", "return"}
    BY DEF Fresh, Call, CallStates, None
  <1>3. CASE Wake(w)
    <2>1. calls[<<w, "own">>].pc \in {"try", "pick", "held", "register", "wait"}
      BY <1>3 DEF Wake
    <2>2. signals' \in [Workflows -> Nat]
      BY <1>0, <1>3 DEF Wake
    <2>3. QED BY Zenon, <1>0, <1>1, <1>2, <1>3, <2>1, <2>2, LookMoves DEF Wake
  <1>4. CASE Recheck(w)
    <2>1. calls[<<w, "own">>].pc \in {"try", "pick", "held", "register", "wait"}
      BY <1>4 DEF Recheck
    <2>2. QED BY Zenon, <1>0, <1>1, <1>2, <1>4, <2>1, LookMoves DEF Recheck
  <1>5. CASE Expire(w)
    <2> DEFINE x == [calls[<<w, "own">>] EXCEPT !.pc = "ended"]
    <2>1. calls[<<w, "own">>].pc \in {"try", "pick", "held", "register", "wait"}
      BY <1>5 DEF Expire
    <2>2. calls[<<w, "own">>] \in Call
      BY <1>0, <1>1
    <2>3. x \in Call /\ x.pc = "ended"
      BY <2>2 DEF Call, CallStates
    <2>4. calls' = [calls EXCEPT ![<<w, "own">>] = x]
      BY <1>5 DEF Expire
    <2> HIDE DEF x
    <2>5. x.pc \notin {"held", "bury", "clear", "return"}
      BY <2>3
    <2>6. UNCHANGED <<log, status, processed, awaiters, signals, pub, got, commits, deleted, faults, takeovers>>
      BY Zenon, <1>5 DEF Expire
    <2>7. QED BY Zenon, <1>0, <1>1, <2>1, <2>3, <2>4, <2>5, <2>6, LookMoves
  <1>6. CASE OldEnds(w)
    <2> DEFINE s == <<w, "old">>
    <2>1. s \in Sessions /\ s[2] # "own"
      BY <1>1
    <2>2. Absent \in Call /\ Absent.pc = "absent" /\ Absent.pc \notin {"held", "bury", "clear", "return"}
      BY DEF Absent, Call, CallStates, None
    <2>3. /\ calls' = [calls EXCEPT ![s] = Absent]
          /\ UNCHANGED <<log, status, processed, awaiters, signals, pub, got, commits, deleted, faults, takeovers>>
      BY Zenon, <1>6 DEF OldEnds
    <2> HIDE DEF s
    <2>4. QED BY Zenon, <1>0, <2>1, <2>2, <2>3, CallMoves
  <1>7. QED BY <1>3, <1>4, <1>5, <1>6

LEMMA AwaitInvStep == AwaitInv /\ [AwaitNext]_awaitVars => AwaitInv'
  <1> SUFFICES ASSUME AwaitInv, [AwaitNext]_awaitVars PROVE AwaitInv'
    OBVIOUS
  <1>1. CASE AwaitNext
    BY Zenon, <1>1, PublisherKeeps, DeleteKeeps, CallKeeps, RecordKeeps, TakeOverKeeps, RunKeeps DEF AwaitNext
  <1>2. CASE UNCHANGED awaitVars
    <2>1. UNCHANGED <<log, status, processed, awaiters, signals, pub, calls, got, commits, deleted, faults, takeovers>>
      BY Zenon, <1>2 DEF awaitVars
    <2>2. /\ log \in Seq(Events) /\ IsInjective(log) /\ status \in [Events -> RowStatuses]
          /\ pub \in [Events -> Publisher] /\ awaiters \subseteq Workflows
          /\ signals \in [Workflows -> Nat] /\ faults \in 0..MaxFaults
      BY Zenon DEF AwaitInv, AwaitTypeOK
    <2>3. ASSUME NEW e \in Events
          PROVE  /\ Stored(e)' <=> status'[e] # "absent"
                 /\ Stored(e)' <=> pub'[e].pc \notin Unpublished
      BY Zenon, <2>1 DEF AwaitInv, EventOK, Stored
    <2>4. IsInjective(log)' /\ Range(log)' = Range(log)
      BY Zenon, <2>1, <2>2
    <2>5. QED BY Zenon, <2>1, <2>2, <2>3, <2>4, RowsMove
  <1>3. QED BY <1>1, <1>2

(* However many executions of however many runs look for it, an event is   *)
(* claimed once and recorded by one run at most; and unless runs are taken *)
(* over while they claim, an event that was consumed is recorded or on its *)
(* way to the history (tryClaim, ClaimOrRegisterAwaiter and WaitForEvent,  *)
(* under every dialect's claim, with publishers that fail or die,          *)
(* dead-lettered and retried events and the deletion of the source).       *)
THEOREM EventsTakenOnce == AwaitSpec => []EventsAreTakenOnce
  <1>1. AwaitInv => EventsAreTakenOnce
    <2> SUFFICES ASSUME AwaitInv PROVE EventsAreTakenOnce
      OBVIOUS
    <2>1. OneTaker
      BY Zenon DEF AwaitInv, EventOK, OneRun, Has, OneTaker
    <2>2. QED BY Zenon, <2>1 DEF AwaitInv, EventsAreTakenOnce
  <1>2. QED BY AwaitInvInit, AwaitInvStep, <1>1, PTL DEF AwaitSpec

-----------------------------------------------------------------------------
(* WakeUp.                                                                 *)

Types ==
    /\ lease \in [status: {"ready", "running", "done"}, wake: Nat, returned: BOOLEAN]
    /\ seq \in [Counter -> Nat]
    /\ at_claim \in [Counter -> Nat]
    /\ inbox \in [signals: Int, updates: Int, promise: {"pending", "resolved", "rejected"},
                  child: {"running"} \cup ChildOutcomes]
    /\ guest \in [stage: Nat, recorded: BOOLEAN, deadline: Nat \cup {NULL}]
    /\ sess \in [at: {"claimed", "dispatch", "await", "consume", "suspend", "finish"}, until: Nat] \cup {NULL}
    /\ bound \in [signals: Nat, updates: Nat, resolves: Nat, releases: Nat, crashes: Nat]
    /\ claims \in Nat

LEMMA SoonerIsNat == ASSUME NEW t \in Nat PROVE Sooner(t) \in Nat /\ (t = 0 => Sooner(t) = 0)
BY DEF Sooner

LEMMA SuspendUntilIsNat == ASSUME Types PROVE SuspendUntil \in Nat
BY TimesAssumption, NULLAssumption DEF Types, SuspendUntil

LEMMA BumpIsCounters == ASSUME Types, NEW c \in Counter
                        PROVE /\ Bump(c) \in [Counter -> Nat]
                              /\ Bump(c)[c] = seq[c] + 1
                              /\ \A d \in Counter : Bump(c)[d] >= seq[d]
BY DEF Types, Bump

LEMMA WokenIsLease == ASSUME Types PROVE /\ Woken \in [status: {"ready", "running", "done"}, wake: Nat, returned: BOOLEAN]
                                         /\ Woken.status = lease.status
                                         /\ Woken.returned = lease.returned
                                         /\ lease.status = "ready" => Woken.wake = 0
                                         /\ lease.status # "ready" => Woken = lease
BY DEF Types, Woken

LEMMA TypesInit == Init => Types
BY DEF Init, Types, Counter

LEMMA TypesNext == Types /\ [Next]_vars => Types'
<1> SUFFICES ASSUME Types, [Next]_vars PROVE Types'
  OBVIOUS
<1>c. {"signal", "consumed", "promise"} = Counter
  BY DEF Counter
<1>1. CASE Claim
  <2>1. lease' \in [status: {"ready", "running", "done"}, wake: Nat, returned: BOOLEAN]
    BY Zenon, <1>1 DEF Claim, Types
  <2>2. sess' \in [at: {"claimed", "dispatch", "await", "consume", "suspend", "finish"}, until: Nat]
    BY <1>1 DEF Claim
  <2> QED BY <1>1, <2>1, <2>2 DEF Claim, Types
<1>2. CASE DispatchUpdates
  <2>1. Bump("promise") \in [Counter -> Nat] BY <1>c, BumpIsCounters
  <2>2. sess \in [at: {"claimed", "dispatch", "await", "consume", "suspend", "finish"}, until: Nat]
    BY <1>2 DEF DispatchUpdates, Types
  <2> QED BY <1>2, <2>1, <2>2 DEF DispatchUpdates, Types
<1>3. CASE AwaitCall
  <2>1. SuspendUntil \in Nat BY SuspendUntilIsNat
  <2>2. sess \in [at: {"claimed", "dispatch", "await", "consume", "suspend", "finish"}, until: Nat]
    BY <1>3 DEF AwaitCall, Types
  <2>3. guest' \in [stage: Nat, recorded: BOOLEAN, deadline: Nat \cup {NULL}]
    <3>1. CASE Arrived \/ Expired
      <4>1. guest' = NextStage BY <1>3, <3>1 DEF AwaitCall
      <4> QED BY <4>1 DEF NextStage, Types
    <3>2. CASE ~(Arrived \/ Expired)
      <4>1. PICK r \in BOOLEAN, d \in Nat \cup {NULL} : guest' = [guest EXCEPT !.recorded = r, !.deadline = d]
        BY <1>3, <2>1, <3>2, Zenon DEF AwaitCall
      <4> QED BY Zenon, <4>1 DEF Types
    <3> QED BY <3>1, <3>2
  <2>4. sess' \in [at: {"claimed", "dispatch", "await", "consume", "suspend", "finish"}, until: Nat]
    BY <1>3, <2>1, <2>2 DEF AwaitCall
  <2> QED BY <1>3, <2>3, <2>4 DEF AwaitCall, Types
<1>4. CASE ConsumeSignal
  <2>1. Bump("consumed") \in [Counter -> Nat] BY <1>c, BumpIsCounters
  <2>2. sess \in [at: {"claimed", "dispatch", "await", "consume", "suspend", "finish"}, until: Nat]
    BY <1>4 DEF ConsumeSignal, Types
  <2> QED BY <1>4, <2>1, <2>2 DEF ConsumeSignal, Types
<1>5. CASE FinalizeReady BY <1>5 DEF FinalizeReady, Types
<1>6. CASE FinalizeDone BY <1>6 DEF FinalizeDone, Types
<1>7. CASE returnToQueueAfterBackoff BY <1>7, TimesAssumption DEF returnToQueueAfterBackoff, Types
<1>8. CASE releaseWorkflow BY <1>8 DEF releaseWorkflow, Types
<1>9. CASE WorkerDies BY <1>9 DEF WorkerDies, Types
<1>10. CASE ReapStaleInstances BY <1>10 DEF ReapStaleInstances, Types
<1>11. CASE DeliverSignal
  <2>1. seq' \in [Counter -> Nat]
    BY <1>11, <1>c, BumpIsCounters DEF DeliverSignal
  <2>2. lease' \in [status: {"ready", "running", "done"}, wake: Nat, returned: BOOLEAN]
    BY <1>11, WokenIsLease DEF DeliverSignal
  <2> QED BY <1>11, <2>1, <2>2 DEF DeliverSignal, Types
<1>12. CASE CreateUpdateRequest
  <2>1. seq' \in [Counter -> Nat]
    BY <1>12, <1>c, BumpIsCounters DEF CreateUpdateRequest
  <2>2. lease' \in [status: {"ready", "running", "done"}, wake: Nat, returned: BOOLEAN]
    BY <1>12, WokenIsLease DEF CreateUpdateRequest
  <2> QED BY <1>12, <2>1, <2>2 DEF CreateUpdateRequest, Types
<1>13. CASE SettlePromise
  BY SMTT(30), <1>13, <1>c, BumpIsCounters, WokenIsLease DEF SettlePromise, Types
<1>14. CASE ChildSettles
  BY <1>14, WokenIsLease DEF ChildSettles, Types
<1>15. CASE Tick
  BY <1>15, SoonerIsNat, NULLAssumption DEF Tick, Types
<1>16. CASE UNCHANGED vars BY <1>16 DEF vars, Types
<1> QED
  BY <1>1, <1>2, <1>3, <1>4, <1>5, <1>6, <1>7, <1>8, <1>9, <1>10, <1>11, <1>12, <1>13, <1>14, <1>15, <1>16
     DEF Next, SessionStep

LEMMA WakeInvInit == Init => WakeInv
BY DEF Init, WakeInv, NoLostWake, Awaited, Counter

LEMMA WakeInvNext == ASSUME Types, WakeInv, [Next]_vars PROVE WakeInv'
<1>c. {"signal", "consumed", "promise"} = Counter
  BY DEF Counter
<1>a. (guest' = guest /\ inbox'.signals = inbox.signals /\ inbox'.promise = inbox.promise) => (Awaited' <=> Awaited)
  BY DEF Awaited, Await
<1>1. CASE Claim
  BY <1>1, <1>a DEF Claim, Types, WakeInv, NoLostWake, Moved
<1>2. CASE DispatchUpdates
  <2>1. lease' = lease /\ lease.status = "running" /\ sess' # NULL => sess'.at # "suspend"
    BY <1>2 DEF DispatchUpdates, WakeInv, Types
  <2>2. \A c \in Counter : at_claim'[c] <= seq'[c]
    BY <1>2, <1>c, BumpIsCounters DEF DispatchUpdates, WakeInv, Types
  <2> QED BY <1>2, <2>1, <2>2 DEF WakeInv, NoLostWake, DispatchUpdates, Types
<1>3. CASE AwaitCall
  <2>1. sess # NULL /\ lease' = lease /\ lease.status = "running"
    BY <1>3 DEF AwaitCall, WakeInv
  <2>2. CASE Arrived \/ Expired
    <3>1. sess'.at # "suspend" BY <1>3, <2>2 DEF AwaitCall, Types
    <3> QED BY <1>3, <2>1, <3>1 DEF AwaitCall, WakeInv, NoLostWake, Types
  <2>3. CASE ~(Arrived \/ Expired)
    <3>1. guest'.stage = guest.stage /\ inbox' = inbox
      BY Zenon, <1>3, <2>3 DEF AwaitCall, Types
    <3>2. Awaited' <=> Awaited BY <3>1 DEF Awaited, Await
    <3>3. ~Awaited BY <2>3 DEF Awaited, Arrived
    <3> QED BY <1>3, <2>1, <3>2, <3>3 DEF AwaitCall, WakeInv, NoLostWake
  <2> QED BY <2>2, <2>3
<1>4. CASE ConsumeSignal
  <2>1. lease' = lease /\ lease.status = "running" /\ sess'.at # "suspend"
    BY <1>4 DEF ConsumeSignal, WakeInv, Types
  <2>2. \A c \in Counter : at_claim'[c] <= seq'[c]
    BY SMTT(30), <1>4, <1>c, BumpIsCounters DEF ConsumeSignal, WakeInv, Types
  <2> QED BY <1>4, <2>1, <2>2 DEF WakeInv, NoLostWake
<1>5. CASE FinalizeReady
  BY <1>5, <1>a DEF FinalizeReady, Types, WakeInv, NoLostWake
<1>6. CASE FinalizeDone
  BY <1>6 DEF FinalizeDone, Types, WakeInv, NoLostWake
<1>7. CASE returnToQueueAfterBackoff \/ releaseWorkflow
  BY <1>7, <1>a DEF returnToQueueAfterBackoff, releaseWorkflow, Types, WakeInv, NoLostWake
<1>8. CASE WorkerDies
  BY <1>8, <1>a DEF WorkerDies, Types, WakeInv, NoLostWake
<1>9. CASE ReapStaleInstances
  BY <1>9, <1>a DEF ReapStaleInstances, Types, WakeInv, NoLostWake
<1>10. CASE DeliverSignal \/ CreateUpdateRequest \/ SettlePromise
  <2>1. lease' = Woken /\ guest' = guest /\ sess' = sess /\ at_claim' = at_claim
    BY <1>10 DEF DeliverSignal, CreateUpdateRequest, SettlePromise
  <2>2. PICK c \in Counter : seq' = Bump(c)
    BY <1>10, <1>c DEF DeliverSignal, CreateUpdateRequest, SettlePromise
  <2>3. \A d \in Counter : at_claim'[d] <= seq'[d]
    BY <2>1, <2>2, BumpIsCounters DEF WakeInv, Types
  <2>4. at_claim'[c] # seq'[c]
    BY <2>1, <2>2, BumpIsCounters DEF WakeInv, Types
  <2>5. Moved' BY <2>4 DEF Moved
  <2> QED BY <2>1, <2>3, <2>5, WokenIsLease DEF WakeInv, NoLostWake, Types
<1>11. CASE ChildSettles
  <2>1. /\ guest' = guest /\ sess' = sess /\ at_claim' = at_claim /\ seq' = seq
        /\ inbox'.signals = inbox.signals /\ inbox'.promise = inbox.promise
        /\ lease' \in {lease, Woken}
    BY <1>11 DEF ChildSettles, Types
  <2>2. (Awaited' <=> Awaited) /\ (Moved' <=> Moved) BY <2>1, <1>a DEF Moved
  <2> QED BY <2>1, <2>2, WokenIsLease DEF WakeInv, NoLostWake, Types
<1>12. CASE Tick
  <2>1. /\ lease'.status = lease.status /\ lease'.wake = Sooner(lease.wake) /\ lease'.returned = lease.returned
        /\ seq' = seq /\ at_claim' = at_claim /\ inbox' = inbox
    BY <1>12 DEF Tick, Types
  <2>2. guest'.stage = guest.stage BY <1>12 DEF Tick, Types
  <2>3. (Awaited' <=> Awaited) /\ (Moved' <=> Moved) BY <2>1, <2>2 DEF Awaited, Await, Moved
  <2>4. (sess' # NULL => sess # NULL) /\ (sess' # NULL => sess'.at = sess.at)
    BY <1>12 DEF Tick, Types
  <2>5. lease.wake = 0 => lease'.wake = 0 BY <2>1, SoonerIsNat DEF Types
  <2> QED BY <2>1, <2>3, <2>4, <2>5 DEF WakeInv, NoLostWake
<1>13. CASE UNCHANGED vars
  BY <1>13 DEF vars, WakeInv, NoLostWake, Awaited, Await, Moved
<1> QED
  BY <1>1, <1>2, <1>3, <1>4, <1>5, <1>6, <1>7, <1>8, <1>9, <1>10, <1>11, <1>12, <1>13 DEF Next, SessionStep

(* A signal or a settled promise that a suspended run awaits makes it due,  *)
(* whenever it arrived, unless the last worker returned it with a backoff.  *)
THEOREM WakeIsNotLost == Spec => []NoLostWake
<1>1. Init => Types /\ WakeInv
  BY TypesInit, WakeInvInit
<1>2. Types /\ WakeInv /\ [Next]_vars => (Types /\ WakeInv)'
  BY TypesNext, WakeInvNext
<1>3. WakeInv => NoLostWake
  BY DEF WakeInv
<1> QED
  BY <1>1, <1>2, <1>3, PTL DEF Spec
-----------------------------------------------------------------------------
At(places) == sess # NULL /\ sess.at \in places

(* Why no update request is left: a session that is past its poll and has  *)
(* not recorded its await has seen a counter move if a request is pending. *)
UpdateInv ==
    /\ UpdateNotLeft
    /\ Await = "sleep" => ~guest.recorded
    /\ At({"await", "suspend"}) /\ ~guest.recorded /\ inbox.updates > 0 => Moved

LEMMA UpdateInvInit == Init => UpdateInv
BY DEF Init, UpdateInv, UpdateNotLeft, At

LEMMA UpdateInvNext == ASSUME Types, WakeInv, UpdateInv, [Next]_vars PROVE UpdateInv'
<1>c. {"signal", "consumed", "promise"} = Counter
  BY DEF Counter
<1>a. guest'.stage = guest.stage => Await' = Await
  BY DEF Await
<1>1. CASE Claim
  BY <1>1, <1>a DEF Claim, Types, UpdateInv, UpdateNotLeft, At
<1>2. CASE DispatchUpdates
  <2>1. lease' = lease /\ guest' = guest /\ lease.status = "running"
    BY <1>2 DEF DispatchUpdates, WakeInv
  <2>2. sess' # NULL /\ sess'.at = "await" => ~Delivers /\ inbox' = inbox
    BY <1>2 DEF DispatchUpdates, Types
  <2>3. sess' # NULL => sess'.at # "suspend"
    BY <1>2 DEF DispatchUpdates, Types
  <2> QED BY <1>a, <2>1, <2>2, <2>3 DEF UpdateInv, UpdateNotLeft, At, Delivers
<1>3. CASE AwaitCall
  <2>1. sess # NULL /\ sess.at = "await" /\ lease' = lease /\ lease.status = "running"
    BY <1>3 DEF AwaitCall, WakeInv
  <2>2. CASE Arrived \/ Expired
    <3>1. sess'.at \notin {"await", "suspend"} BY <1>3, <2>2 DEF AwaitCall, Types
    <3>2. ~guest'.recorded BY <1>3, <2>2 DEF AwaitCall, NextStage
    <3> QED BY <2>1, <3>1, <3>2 DEF UpdateInv, UpdateNotLeft, At
  <2>3. CASE ~(Arrived \/ Expired)
    <3>1. guest'.stage = guest.stage /\ inbox' = inbox /\ seq' = seq /\ at_claim' = at_claim
      BY Zenon, <1>3, <2>3 DEF AwaitCall, Types
    <3>2. guest'.recorded <=> Await # "sleep"
      BY Zenon, <1>3, <2>3 DEF AwaitCall, Types
    <3>3. Moved' <=> Moved BY <3>1 DEF Moved
    <3> QED BY <1>a, <2>1, <3>1, <3>2, <3>3 DEF UpdateInv, UpdateNotLeft, At
  <2> QED BY <2>2, <2>3
<1>4. CASE ConsumeSignal
  BY <1>4, <1>a DEF ConsumeSignal, Types, WakeInv, UpdateInv, UpdateNotLeft, At
<1>5. CASE FinalizeReady
  BY <1>5, <1>a DEF FinalizeReady, Types, UpdateInv, UpdateNotLeft, At
<1>6. CASE FinalizeDone
  BY <1>6, <1>a DEF FinalizeDone, Types, UpdateInv, UpdateNotLeft, At
<1>7. CASE returnToQueueAfterBackoff \/ releaseWorkflow
  BY <1>7, <1>a DEF returnToQueueAfterBackoff, releaseWorkflow, Types, WakeInv, UpdateInv, UpdateNotLeft, At
<1>8. CASE WorkerDies
  BY <1>8, <1>a DEF WorkerDies, Types, WakeInv, UpdateInv, UpdateNotLeft, At
<1>9. CASE ReapStaleInstances
  BY <1>9, <1>a DEF ReapStaleInstances, Types, WakeInv, UpdateInv, UpdateNotLeft, At
<1>10. CASE DeliverSignal \/ CreateUpdateRequest \/ SettlePromise
  <2>1. lease' = Woken /\ guest' = guest /\ sess' = sess /\ at_claim' = at_claim
    BY <1>10 DEF DeliverSignal, CreateUpdateRequest, SettlePromise
  <2>2. PICK c \in Counter : seq' = Bump(c)
    BY <1>10, <1>c DEF DeliverSignal, CreateUpdateRequest, SettlePromise
  <2>3. at_claim'[c] # seq'[c]
    BY <2>1, <2>2, BumpIsCounters DEF WakeInv, Types
  <2>4. Moved' BY <2>3 DEF Moved
  <2> QED BY <1>a, <2>1, <2>4, WokenIsLease DEF UpdateInv, UpdateNotLeft, At
<1>11. CASE ChildSettles
  <2>1. /\ guest' = guest /\ sess' = sess /\ at_claim' = at_claim /\ seq' = seq
        /\ inbox'.updates = inbox.updates /\ lease' \in {lease, Woken}
    BY <1>11 DEF ChildSettles, Types
  <2>2. Moved' <=> Moved BY <2>1 DEF Moved
  <2> QED BY <1>a, <2>1, <2>2, WokenIsLease DEF UpdateInv, UpdateNotLeft, At
<1>12. CASE Tick
  <2>1. /\ lease'.status = lease.status /\ lease'.wake = Sooner(lease.wake) /\ lease'.returned = lease.returned
        /\ seq' = seq /\ at_claim' = at_claim /\ inbox' = inbox
    BY <1>12 DEF Tick, Types
  <2>2. guest'.stage = guest.stage /\ guest'.recorded = guest.recorded BY <1>12 DEF Tick, Types
  <2>3. Moved' <=> Moved BY <2>1 DEF Moved
  <2>4. (sess' # NULL => sess # NULL) /\ (sess' # NULL => sess'.at = sess.at)
    BY <1>12 DEF Tick, Types
  <2>5. lease.wake = 0 => lease'.wake = 0 BY <2>1, SoonerIsNat DEF Types
  <2> QED BY <1>a, <2>1, <2>2, <2>3, <2>4, <2>5 DEF UpdateInv, UpdateNotLeft, At
<1>13. CASE UNCHANGED vars
  BY <1>13 DEF vars, UpdateInv, UpdateNotLeft, Await, Moved, At
<1> QED
  BY <1>1, <1>2, <1>3, <1>4, <1>5, <1>6, <1>7, <1>8, <1>9, <1>10, <1>11, <1>12, <1>13 DEF Next, SessionStep

(* An update request that the guest was never asked about makes a suspended *)
(* run due, also when it came between the poll and finalize.                *)
THEOREM UpdateIsNotLeft == Spec => []UpdateNotLeft
<1>1. Init => Types /\ WakeInv /\ UpdateInv
  BY TypesInit, WakeInvInit, UpdateInvInit
<1>2. Types /\ WakeInv /\ UpdateInv /\ [Next]_vars => (Types /\ WakeInv /\ UpdateInv)'
  BY TypesNext, WakeInvNext, UpdateInvNext
<1>3. UpdateInv => UpdateNotLeft
  BY DEF UpdateInv
<1> QED
  BY <1>1, <1>2, <1>3, PTL DEF Spec
-----------------------------------------------------------------------------
(* Nothing for a session to do but to suspend. *)
Quiet == ~Arrived /\ ~Expired /\ ~Delivers

(* Why no run spins: the session of the second claim finds nothing to do,   *)
(* so no counter moves and it leaves a row that is not due.                 *)
SpinInv ==
    /\ NoSpin
    /\ claims = 2 + bound.releases /\ lease.status = "ready" => lease.wake > 0
    /\ claims = 2 + bound.releases /\ sess # NULL => Quiet /\ ~Moved /\ sess.at # "consume"
    /\ claims = 1 + bound.releases /\ lease.status = "ready" /\ lease.wake = 0 => Quiet
    /\ claims > 0 /\ At({"await"}) => ~Delivers
    /\ claims > 0 /\ At({"suspend"}) => Quiet /\ sess.until > 0

LEMMA SpinInvInit == Init => SpinInv
BY DEF Init, SpinInv, NoSpin, At

(* A quiet session that reaches its await suspends, stays quiet, and names a *)
(* time that has not come.                                                   *)
LEMMA QuietSuspends ==
    ASSUME Types, UpdateInv, AwaitCall, Quiet
    PROVE  Quiet' /\ sess'.at = "suspend" /\ sess'.until > 0
<1>1. ~(Arrived \/ Expired) BY DEF Quiet
<1>2. /\ guest' = [guest EXCEPT !.recorded = Await # "sleep",
                                !.deadline = IF Await = "child" THEN NULL ELSE SuspendUntil]
      /\ sess' = [at |-> "suspend", until |-> SuspendUntil]
      /\ inbox' = inbox
  BY <1>1 DEF AwaitCall
<1>3. guest'.stage = guest.stage /\ (guest'.recorded <=> Await # "sleep")
  BY Zenon, <1>2 DEF Types
<1>4. guest'.deadline = IF Await = "child" THEN NULL ELSE SuspendUntil
  BY <1>2 DEF Types
<1>5. SuspendUntil \in Nat /\ SuspendUntil > 0
  BY <1>1, TimesAssumption, NULLAssumption DEF SuspendUntil, Expired, Types
<1>6. Await' = Await BY <1>3 DEF Await
<1>7. ~Arrived' BY <1>1, <1>2, <1>6 DEF Arrived
<1>8. ~Expired' BY <1>4, <1>5, NULLAssumption DEF Expired
<1>9. ~Delivers' BY <1>2, <1>3 DEF Quiet, Delivers, UpdateInv
<1> QED BY <1>2, <1>5, <1>7, <1>8, <1>9 DEF Quiet

LEMMA SpinInvNext == ASSUME Types, WakeInv, UpdateInv, SpinInv, [Next]_vars PROVE SpinInv'
<1>n. bound.releases \in Nat /\ claims \in Nat
  BY DEF Types
<1>q. (guest' = guest /\ inbox' = inbox) => (Quiet' <=> Quiet) /\ (Delivers' <=> Delivers)
  BY DEF Quiet, Arrived, Expired, Delivers, Await
<1>m. (seq' = seq /\ at_claim' = at_claim) => (Moved' <=> Moved)
  BY DEF Moved
<1>1. CASE Claim
  <2>1. guest' = guest /\ inbox' = inbox /\ bound' = bound /\ claims' = claims + 1
    BY <1>1 DEF Claim
  <2>2. lease.status = "ready" /\ lease.wake = 0 /\ lease'.status = "running" /\ sess'.at = "claimed"
    BY <1>1 DEF Claim, Types
  <2>3. ~Moved' BY <1>1 DEF Claim, Moved
  <2>4. claims <= 1 + bound.releases BY <1>n, <2>2 DEF SpinInv, NoSpin
  <2> QED BY <1>n, <1>q, <2>1, <2>2, <2>3, <2>4 DEF SpinInv, NoSpin, At
<1>2. CASE DispatchUpdates
  <2>1. /\ sess # NULL /\ lease' = lease /\ lease.status = "running"
        /\ guest' = guest /\ bound' = bound /\ claims' = claims /\ at_claim' = at_claim
    BY <1>2 DEF DispatchUpdates, WakeInv
  <2>2. sess'.at \in {"dispatch", "await", "finish"}
    BY <1>2 DEF DispatchUpdates, Types
  <2>3. CASE Delivers
    <3>1. sess'.at = "dispatch" BY <1>2, <2>3 DEF DispatchUpdates, Types
    <3>2. claims # 2 + bound.releases BY <2>1, <2>3 DEF SpinInv, Quiet
    <3> QED BY <2>1, <3>1, <3>2 DEF SpinInv, NoSpin, At
  <2>4. CASE ~Delivers
    <3>1. inbox' = inbox /\ seq' = seq BY <1>2, <2>4 DEF DispatchUpdates
    <3> QED BY <1>q, <1>m, <2>1, <2>2, <2>4, <3>1 DEF SpinInv, NoSpin, At
  <2> QED BY <2>3, <2>4
<1>3. CASE AwaitCall
  <2>1. /\ sess # NULL /\ sess.at = "await" /\ lease' = lease /\ lease.status = "running"
        /\ bound' = bound /\ claims' = claims /\ at_claim' = at_claim /\ seq' = seq
    BY <1>3 DEF AwaitCall, WakeInv
  <2>2. CASE Arrived \/ Expired
    <3>1. sess'.at \in {"consume", "dispatch"} BY <1>3, <2>2 DEF AwaitCall, Types
    <3>2. claims # 2 + bound.releases BY <2>1, <2>2 DEF SpinInv, Quiet
    <3> QED BY <2>1, <3>1, <3>2 DEF SpinInv, NoSpin, At
  <2>3. CASE ~(Arrived \/ Expired) /\ claims > 0
    <3>1. Quiet BY <2>1, <2>3 DEF SpinInv, Quiet, At
    <3>2. Quiet' /\ sess'.at = "suspend" /\ sess'.until > 0 BY <1>3, <3>1, QuietSuspends
    <3> QED BY <1>m, <2>1, <3>2 DEF SpinInv, NoSpin, At
  <2>4. CASE ~(claims > 0)
    <3> QED BY <1>n, <2>1, <2>4 DEF SpinInv, NoSpin
  <2> QED BY <2>2, <2>3, <2>4
<1>4. CASE ConsumeSignal
  <2>1. /\ sess # NULL /\ sess.at = "consume" /\ lease' = lease /\ lease.status = "running"
        /\ bound' = bound /\ claims' = claims
    BY <1>4 DEF ConsumeSignal, WakeInv
  <2>2. sess'.at = "dispatch" BY <1>4 DEF ConsumeSignal, Types
  <2> QED BY <2>1, <2>2 DEF SpinInv, NoSpin, At
<1>5. CASE FinalizeReady
  <2>1. /\ sess # NULL /\ sess.at = "suspend" /\ sess' = NULL
        /\ guest' = guest /\ inbox' = inbox /\ bound' = bound /\ claims' = claims
    BY <1>5 DEF FinalizeReady
  <2>2. lease'.wake = IF Moved THEN 0 ELSE sess.until
    BY <1>5 DEF FinalizeReady
  <2>3. claims > 0 => Quiet /\ sess.until > 0 BY <2>1 DEF SpinInv, At
  <2> QED BY <1>n, <1>q, <2>1, <2>2, <2>3 DEF SpinInv, NoSpin, At
<1>6. CASE FinalizeDone
  <2>1. sess' = NULL /\ lease'.status = "done" /\ bound' = bound /\ claims' = claims
    BY <1>6 DEF FinalizeDone, Types
  <2> QED BY <2>1 DEF SpinInv, NoSpin, At
<1>7. CASE returnToQueueAfterBackoff
  <2>1. /\ sess' = NULL /\ lease'.wake > 0 /\ claims' = claims
        /\ bound'.releases = bound.releases + 1
    BY <1>7, TimesAssumption DEF returnToQueueAfterBackoff, Types
  <2> QED BY <1>n, <2>1 DEF SpinInv, NoSpin, At
<1>8. CASE releaseWorkflow
  <2>1. /\ sess # NULL /\ sess' = NULL /\ claims' = claims /\ guest' = guest /\ inbox' = inbox
        /\ bound'.releases = bound.releases + 1
    BY <1>8 DEF releaseWorkflow, Types
  <2> QED BY <1>n, <1>q, <2>1 DEF SpinInv, NoSpin, At
<1>9. CASE WorkerDies
  <2>1. /\ sess' = NULL /\ claims' = claims /\ guest' = guest /\ inbox' = inbox /\ lease' = lease
        /\ bound'.releases = bound.releases
    BY <1>9 DEF WorkerDies, Types
  <2> QED BY <1>n, <1>q, <2>1 DEF SpinInv, NoSpin, At
<1>10. CASE ReapStaleInstances \/ DeliverSignal \/ CreateUpdateRequest \/ SettlePromise \/ ChildSettles \/ Tick
  <2>1. claims' = 0
    BY <1>10 DEF ReapStaleInstances, DeliverSignal, CreateUpdateRequest, SettlePromise, ChildSettles, Tick
  <2>2. bound'.releases = bound.releases
    BY <1>10 DEF ReapStaleInstances, DeliverSignal, CreateUpdateRequest, SettlePromise, ChildSettles, Tick, Types
  <2> QED BY <1>n, <2>1, <2>2 DEF SpinInv, NoSpin
<1>11. CASE UNCHANGED vars
  BY <1>11, <1>q, <1>m DEF vars, SpinInv, NoSpin, At
<1> QED
  BY <1>1, <1>2, <1>3, <1>4, <1>5, <1>6, <1>7, <1>8, <1>9, <1>10, <1>11 DEF Next, SessionStep

(* Between two arrivals or ticks a run is claimed at most twice, and once    *)
(* more for each time a worker gave it back: it never spins on its own       *)
(* counters (cleat#1331), however many signals and updates it consumes.      *)
THEOREM NoRunSpins == Spec => []NoSpin
<1>1. Init => Types /\ WakeInv /\ UpdateInv /\ SpinInv
  BY TypesInit, WakeInvInit, UpdateInvInit, SpinInvInit
<1>2. Types /\ WakeInv /\ UpdateInv /\ SpinInv /\ [Next]_vars => (Types /\ WakeInv /\ UpdateInv /\ SpinInv)'
  BY TypesNext, WakeInvNext, UpdateInvNext, SpinInvNext
<1>3. SpinInv => NoSpin
  BY DEF SpinInv
<1> QED
  BY <1>1, <1>2, <1>3, PTL DEF Spec
=============================================================================
