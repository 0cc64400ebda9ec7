------------------------------ MODULE HoldPath ------------------------------
(***************************************************************************)
(* The life of a hold across the two threads that share it: the            *)
(* sequencer's reactor, which judges resolutions and hands committed       *)
(* decisions over, and the pending engine, which stores them and answers   *)
(* lookups.  The two meet in one bounded command queue and one queue of    *)
(* answers.  The requests debit an account the ledger does not constrain,  *)
(* so they keep no place in a lane and nothing but the hold path itself    *)
(* (overlay, pins, reservations, markers) protects the hold's money.       *)
(*                                                                         *)
(* A step of the reactor is one handler: one admission, one retry, one     *)
(* flushed write, one reply, one proposal, one effect of a committed       *)
(* batch.  The reactor runs them one after another in a tick; the engine   *)
(* runs between any two of them.                                           *)
(***************************************************************************)
EXTENDS Integers, Sequences, FiniteSets, FiniteSetsExt, HoldOverlay

CONSTANTS Holds,          \* hold ids: the transaction id of the creation
          Reqs,           \* client requests
          HoldAmount,     \* what every hold reserves
          CmdCap,         \* the command queue's capacity
          WriteLimit,     \* committed writes waiting before intake pauses
          QueuedLimit,    \* judged effects waiting before intake pauses
          MaxBatch,       \* effects one proposal carries
          InFlightLimit,  \* proposals consensus may hold
          SoftLimit,      \* overlay entries below which nothing is evicted
          EvictPerRound,  \* entries one round may evict
          MaxFailures     \* bound: how many batches consensus refuses

ASSUME HoldAmountAssumption == HoldAmount \in Nat \ {0}
ASSUME LimitsAssumption ==
    /\ CmdCap \in Nat \ {0} /\ WriteLimit \in Nat \ {0}
    /\ QueuedLimit \in Nat \ {0} /\ MaxBatch \in Nat \ {0}
    /\ InFlightLimit \in Nat \ {0} /\ EvictPerRound \in Nat \ {0}
    /\ SoftLimit \in Nat /\ MaxFailures \in Nat
ASSUME ReqsAssumption == IsFiniteSet(Reqs)

VARIABLES
    tx,           \* what each request asks: kind, hold, amount
    stage,        \* new, open (in a slot), judged, done
    deps,         \* answers a request still waits for
    sent,         \* questions already put for it
    expected,     \* applies its answer must reflect
    record,       \* what the engine said its hold had left; 0 is no record
    effect,       \* what the judge decided: amount and remaining_after
    outcome,      \* what the client was told
    overlay,      \* HoldOverlay's map
    deferred,     \* requests a full queue sent back, oldest first
    writes,       \* committed decisions the engine has not taken yet
    applies_sent, \* committed decisions handed over
    open,         \* judged effects of the batch being filled
    in_flight,    \* proposals consensus holds
    applying,     \* the batch being applied or rolled back
    sealed,       \* the apply path stopped and the reactor fail-stopped
    quarantined,  \* the lane was isolated
    pending,      \* the accounts' pending column
    cmdq,         \* command queue, reactor to engine
    answers,      \* replies on their way back
    fetches,      \* lookups whose record the store is fetching
    store,        \* what the engine's records say each hold has left
    applied,      \* applies the engine has done
    published,    \* the same number as the reactor last saw it
    failures,     \* batches consensus has refused so far
    saw,          \* history: the creation was acknowledged at admission
    released,     \* history: how much of each hold committed resolutions took
    ledger        \* history: what the committed decisions, in order, leave of it

reqVars    == <<tx, stage, deps, sent, expected, record, effect, outcome, saw>>
chanVars   == <<overlay, deferred, writes, applies_sent>>
batchVars  == <<open, in_flight, applying, failures>>
safetyVars == <<sealed, quarantined>>
moneyVars  == <<pending, released, ledger>>
engineVars == <<answers, fetches, store, applied, published>>
vars == <<reqVars, chanVars, batchVars, safetyVars, moneyVars, engineVars, cmdq>>

-----------------------------------------------------------------------------
Kinds    == {"hold", "settle", "void"}
Stages   == {"new", "open", "judged", "done"}
Outcomes == {"none", "committed", "failed", "not_found", "resolved",
             "invalid", "exceeds", "fail_stop", "quarantined"}
Deps     == {"idem", "pending"}

Transfer == [kind : Kinds, hold : Holds, amount : 0..HoldAmount]

\* A command: a lookup, or a committed decision with what it leaves of the
\* hold.  n counts decisions handed over: for a decision itself included,
\* for a lookup the number its answer must reflect.
Command == [op : {"lookup", "create", "reduce", "remove"}, req : Reqs,
            left : Nat, n : Nat]

Answer == [req : Reqs, found : Nat, applied : Nat]

ReadsHold(r) == tx[r].kind # "hold"

\* A client request is well formed (Transfer::validate): a hold and a settle
\* name a positive amount, a void takes whatever is left.  A transaction id
\* is used once, so a hold has one creation.
WellFormed(w) ==
    /\ \A r \in Reqs : w[r].amount = CASE w[r].kind = "hold" -> HoldAmount
                                       [] w[r].kind = "void" -> 0
                                       [] OTHER -> w[r].amount
    /\ \A r \in Reqs : w[r].kind = "settle" => w[r].amount > 0
    /\ \A r, q \in Reqs : /\ w[r].kind = "hold" /\ w[q].kind = "hold"
                          /\ w[r].hold = w[q].hold
                          => r = q

Init ==
    /\ tx \in {w \in [Reqs -> Transfer] : WellFormed(w)}
    /\ stage = [r \in Reqs |-> "new"]
    /\ deps = [r \in Reqs |-> {}] /\ sent = [r \in Reqs |-> {}]
    /\ expected = [r \in Reqs |-> 0] /\ record = [r \in Reqs |-> 0]
    /\ effect = [r \in Reqs |-> [amount |-> 0, left |-> 0]]
    /\ outcome = [r \in Reqs |-> "none"] /\ saw = [r \in Reqs |-> FALSE]
    /\ overlay = [h \in Holds |-> NoEntry]
    /\ deferred = <<>> /\ writes = <<>> /\ applies_sent = 0
    /\ open = <<>> /\ in_flight = <<>> /\ failures = 0
    /\ applying = [committed |-> FALSE, batch |-> <<>>]
    /\ sealed = FALSE /\ quarantined = FALSE
    /\ pending = 0 /\ released = [h \in Holds |-> 0] /\ ledger = [h \in Holds |-> 0]
    /\ cmdq = <<>> /\ answers = {} /\ fetches = {}
    /\ store = [h \in Holds |-> 0] /\ applied = 0 /\ published = 0

\* The reactor finishes the batch it is applying before it does anything else.
Free == applying.batch = <<>>

-----------------------------------------------------------------------------
(***************************************************************************)
(* Judging.  e is the hold's overlay entry as the step has left it so far, *)
(* found the record the request holds; quarantined' because a stale answer *)
(* isolates the lane before the request it answers is judged.              *)
(***************************************************************************)
Taken(r, e, found) ==
    IF tx[r].kind = "void" THEN ViewRemaining(e, found) ELSE tx[r].amount

\* Seeded fault: a settle is not held to what is left.
VerdictUnbounded(r, e, found) ==
    IF sealed THEN "fail_stop"
    ELSE IF quarantined' THEN "quarantined"
    ELSE IF ~ReadsHold(r) THEN "accepted"
    ELSE IF found = 0 THEN "not_found"
    ELSE IF ViewResolved(e) THEN "resolved"
    ELSE IF Taken(r, e, found) <= 0 THEN "invalid"
    ELSE "accepted"

\* accept, build_effect and resolving_effect: the first reason for refusal.
Verdict(r, e, found) ==
    IF sealed THEN "fail_stop"
    ELSE IF quarantined' THEN "quarantined"
    ELSE IF ~ReadsHold(r) THEN "accepted"
    ELSE IF found = 0 THEN "not_found"
    ELSE IF ViewResolved(e) THEN "resolved"
    ELSE IF Taken(r, e, found) <= 0 THEN "invalid"
    ELSE IF Taken(r, e, found) > ViewRemaining(e, found) THEN "exceeds"
    ELSE "accepted"

Effect(r, e, found) ==
    IF ReadsHold(r)
    THEN [amount |-> Taken(r, e, found),
          left   |-> ViewRemaining(e, found) - Taken(r, e, found)]
    ELSE [amount |-> tx[r].amount, left |-> 0]

\* finish: the request's slot goes, its pin with it, the client is answered.
\* e is the entry before the pin is returned; a creation pins nothing.
Unpinned(r, e) ==
    IF ReadsHold(r) /\ "pending" \in sent'[r] THEN Unpin(e) ELSE e

\* judge, from the moment nothing is waited for.
Judge(r, e, found) ==
    LET h  == tx[r].hold
        v  == Verdict(r, e, found)
        ef == Effect(r, e, found)
    IN  IF v = "accepted"
        THEN /\ stage' = [stage EXCEPT ![r] = "judged"]
             /\ effect' = [effect EXCEPT ![r] = ef]
             /\ open' = Append(open, r)
             /\ overlay' = [overlay EXCEPT ![h] =
                              IF ReadsHold(r)
                              THEN Reserve(e, ef.amount, ef.left = 0) ELSE e]
             /\ UNCHANGED outcome
        ELSE /\ stage' = [stage EXCEPT ![r] = "done"]
             /\ outcome' = [outcome EXCEPT ![r] = v]
             /\ overlay' = [overlay EXCEPT ![h] = Unpinned(r, e)]
             /\ UNCHANGED <<effect, open>>

\* A dependency of r went: judge it if that was the last one, else only
\* keep what the step did to the overlay entry.
ReleaseDep(r, dep, e, found) ==
    /\ deps' = [deps EXCEPT ![r] = @ \ {dep}]
    /\ IF deps[r] \subseteq {dep}
       THEN Judge(r, e, found)
       ELSE /\ overlay' = [overlay EXCEPT ![tx[r].hold] = e]
            /\ UNCHANGED <<stage, effect, open, outcome>>

-----------------------------------------------------------------------------
(***************************************************************************)
(* Intake: admit, prepare, dispatch and take_pending_step.                 *)
(***************************************************************************)
Paused == deferred # <<>> \/ Len(writes) >= WriteLimit \/ Len(open) >= QueuedLimit

Acknowledged(h) == \E q \in Reqs : /\ tx[q].kind = "hold" /\ tx[q].hold = h
                                   /\ outcome[q] = "committed"

\* Seeded fault: a lookup overtakes the decisions still in the backlog.
NothingBlocksLookups == FALSE

BlocksLookups == writes # <<>>

\* Ask the engine: the question is in the queue, the hold has an entry and
\* the request's pin on it.
Ask(r) ==
    LET h == tx[r].hold
    IN  /\ ~BlocksLookups /\ ~Gone(overlay[h]) /\ Len(cmdq) < CmdCap
        /\ cmdq' = Append(cmdq, [op |-> "lookup", req |-> r, left |-> 0,
                                 n |-> applies_sent])
        /\ expected' = [expected EXCEPT ![r] = applies_sent]
        /\ overlay' = [overlay EXCEPT ![h] = Pin(BeginLookup(@))]

\* The overlay already knows the hold is gone: nothing is asked, and the
\* request is judged with no record.
Skip(r) == ~BlocksLookups /\ Gone(overlay[tx[r].hold])

\* An external queue refuses, or the backlog comes first.
Refused(r) == /\ ~Skip(r)
              /\ BlocksLookups \/ Len(cmdq) >= CmdCap

Enter(r, waiting, asked) ==
    /\ stage' = [stage EXCEPT ![r] = "open"]
    /\ deps' = [deps EXCEPT ![r] = waiting]
    /\ sent' = [sent EXCEPT ![r] = asked]
    /\ UNCHANGED outcome

AdmitRefused(r) ==
    /\ sealed \/ quarantined
    /\ stage' = [stage EXCEPT ![r] = "done"]
    /\ outcome' = [outcome EXCEPT ![r] = IF sealed THEN "fail_stop" ELSE "quarantined"]
    /\ UNCHANGED <<deps, sent, expected, overlay, deferred, cmdq>>

AdmitHold(r) ==
    /\ ~sealed /\ ~quarantined /\ ~ReadsHold(r)
    /\ Enter(r, {"idem"}, {"idem"})
    /\ UNCHANGED <<expected, overlay, deferred, cmdq>>

AdmitResolution(r) ==
    /\ ~sealed /\ ~quarantined /\ ReadsHold(r)
    /\ \/ Ask(r) /\ Enter(r, Deps, Deps) /\ UNCHANGED deferred
       \/ /\ Skip(r) /\ Enter(r, {"idem"}, Deps)
          /\ overlay' = [overlay EXCEPT ![tx[r].hold] = Pin(@)]
          /\ UNCHANGED <<expected, deferred, cmdq>>
       \/ /\ Refused(r) /\ Enter(r, Deps, {"idem"})
          /\ deferred' = Append(deferred, r)
          /\ UNCHANGED <<expected, overlay, cmdq>>

Admit(r) ==
    /\ Free /\ ~Paused /\ stage[r] = "new"
    /\ saw' = [saw EXCEPT ![r] = Acknowledged(tx[r].hold)]
    /\ AdmitRefused(r) \/ AdmitHold(r) \/ AdmitResolution(r)
    /\ UNCHANGED <<tx, record, effect, writes, applies_sent, batchVars,
                   safetyVars, moneyVars, engineVars>>

\* drain_backlogs retries the oldest deferred request.  One whose
\* idempotency answer is already in is judged on the spot when nothing has
\* to be asked.
RetryDispatch ==
    /\ Free /\ deferred # <<>>
    /\ UNCHANGED <<tx, record, saw, writes, applies_sent, in_flight, applying,
                   failures, safetyVars, moneyVars, engineVars>>
    /\ LET r == Head(deferred)
       IN  /\ sent' = [sent EXCEPT ![r] = Deps]
           /\ \/ Ask(r) /\ UNCHANGED <<stage, deps, effect, open, outcome>>
              \/ /\ Skip(r)
                 /\ ReleaseDep(r, "pending", Pin(overlay[tx[r].hold]), 0)
                 /\ UNCHANGED <<expected, cmdq>>
    /\ deferred' = Tail(deferred)

-----------------------------------------------------------------------------
(***************************************************************************)
(* Replies.                                                                *)
(***************************************************************************)
\* The idempotency component found the request new (external: the answer to
\* a request sent once).
IdemAnswer(r) ==
    /\ Free /\ stage[r] = "open" /\ "idem" \in deps[r]
    /\ UNCHANGED <<tx, sent, expected, record, saw, deferred, writes, cmdq,
                   applies_sent, in_flight, applying, failures, safetyVars,
                   moneyVars, engineVars>>
    /\ ReleaseDep(r, "idem", overlay[tx[r].hold], record[r])

\* on_pending, reply a.  An answer older than a decision the engine had
\* already been given isolates the lane before the request is judged.
PendingAnswer(a) ==
    /\ Free
    /\ answers' = answers \ {a}
    /\ record' = [record EXCEPT ![a.req] = a.found]
    /\ quarantined' = (quarantined \/ a.applied < expected[a.req])
    /\ UNCHANGED <<sealed, sent>>
    /\ ReleaseDep(a.req, "pending",
                  AdmitLookup(overlay[tx[a.req].hold], a.found), a.found)
    /\ UNCHANGED <<tx, expected, saw, deferred, writes, applies_sent,
                   in_flight, applying, failures, moneyVars, fetches, store,
                   applied, published, cmdq>>

-----------------------------------------------------------------------------
(***************************************************************************)
(* Propose and apply.                                                      *)
(***************************************************************************)
\* take_proposal and on_proposed: the batch is due when it is full or has
\* lingered, and consensus takes it.
Propose ==
    /\ Free /\ open # <<>> /\ Len(in_flight) < InFlightLimit
    /\ LET take == IF Len(open) < MaxBatch THEN Len(open) ELSE MaxBatch
       IN  /\ in_flight' = Append(in_flight, SubSeq(open, 1, take))
           /\ open' = SubSeq(open, take + 1, Len(open))
    /\ UNCHANGED <<reqVars, chanVars, applying, failures, safetyVars, moneyVars,
                   engineVars, cmdq>>

\* Consensus answers for the oldest batch: committed, or refused.
StartApply ==
    /\ Free /\ ~sealed /\ in_flight # <<>>
    /\ \/ applying' = [committed |-> TRUE, batch |-> Head(in_flight)]
          /\ UNCHANGED failures
       \/ /\ failures < MaxFailures /\ failures' = failures + 1
          /\ applying' = [committed |-> FALSE, batch |-> Head(in_flight)]
    /\ in_flight' = Tail(in_flight)
    /\ UNCHANGED <<reqVars, chanVars, open, safetyVars, moneyVars, engineVars, cmdq>>

\* pending_effect: what the engine is told once the effect has committed.
PendingEffect(r) ==
    [op   |-> IF tx[r].kind = "hold" THEN "create"
              ELSE IF effect[r].left > 0 THEN "reduce" ELSE "remove",
     req  |-> r,
     left |-> IF tx[r].kind = "hold" THEN effect[r].amount ELSE effect[r].left,
     n    |-> applies_sent + 1]

\* apply_effect: a reduction repoints a slot that is there and makes none.
Stored(w, left) == CASE w.op = "create" -> w.left
                     [] w.op = "reduce" -> IF left > 0 THEN w.left ELSE 0
                     [] w.op = "remove" -> 0

\* send: what the overlay learns from a decision the queue has just taken.
Sent(w, e) == CASE w.op = "create" -> Created(e, w.left)
                [] w.op = "reduce" -> NoteRemaining(e, w.left)
                [] w.op = "remove" -> Forget(e, w.n)

\* Seeded fault: a decision the queue has no room for is lost.
WriteDropped(r, e) ==
    LET w    == PendingEffect(r)
        sent_now == writes = <<>> /\ Len(cmdq) < CmdCap
    IN  /\ cmdq' = IF sent_now THEN Append(cmdq, w) ELSE cmdq
        /\ applies_sent' = applies_sent + IF sent_now THEN 1 ELSE 0
        /\ overlay' = [overlay EXCEPT ![tx[r].hold] =
                         Unpinned(r, IF sent_now THEN Sent(w, e) ELSE e)]
        /\ UNCHANGED writes

\* write, then finish.  e is the entry with the reservation given back.
Write(r, e) ==
    LET w == PendingEffect(r)
    IN  IF writes = <<>> /\ Len(cmdq) < CmdCap
        THEN /\ cmdq' = Append(cmdq, w)
             /\ applies_sent' = applies_sent + 1
             /\ overlay' = [overlay EXCEPT ![tx[r].hold] = Unpinned(r, Sent(w, e))]
             /\ UNCHANGED writes
        ELSE /\ writes' = Append(writes, r)
             /\ overlay' = [overlay EXCEPT ![tx[r].hold] = Unpinned(r, e)]
             /\ UNCHANGED <<cmdq, applies_sent>>

\* effect.columns, the pending half; the accounts refuse to go below zero.
PendingDelta(r) == IF tx[r].kind = "hold" THEN effect[r].amount ELSE -effect[r].amount

Finish(r, result) ==
    /\ stage' = [stage EXCEPT ![r] = "done"]
    /\ outcome' = [outcome EXCEPT ![r] = result]
    /\ UNCHANGED <<tx, deps, sent, expected, record, effect, saw>>

\* One effect of a committed batch.  One the accounts refuse seals the apply
\* path: the rest of the batch is neither applied nor answered.
ApplyEffect ==
    /\ applying.committed /\ applying.batch # <<>>
    /\ UNCHANGED <<open, in_flight, failures, deferred, quarantined, engineVars>>
    /\ LET r == Head(applying.batch)
           h == tx[r].hold
       IN  \/ /\ pending + PendingDelta(r) >= 0
              /\ pending' = pending + PendingDelta(r)
              /\ released' = [released EXCEPT ![h] =
                                IF ReadsHold(r) THEN @ + effect[r].amount ELSE @]
              /\ ledger' = [ledger EXCEPT ![h] = Stored(PendingEffect(r), @)]
              /\ Finish(r, "committed")
              /\ Write(r, IF ReadsHold(r)
                          THEN ReleaseReservation(overlay[h], effect[r].amount)
                          ELSE overlay[h])
              /\ applying' = [applying EXCEPT !.batch = Tail(@)]
              /\ UNCHANGED sealed
           \/ /\ pending + PendingDelta(r) < 0
              /\ sealed' = TRUE
              /\ applying' = [applying EXCEPT !.batch = <<>>]
              /\ UNCHANGED <<reqVars, overlay, writes, applies_sent, moneyVars, cmdq>>

\* One effect of a refused batch: the reservation is given back.
RollBackEffect ==
    /\ ~applying.committed /\ applying.batch # <<>>
    /\ LET r == Head(applying.batch)
           h == tx[r].hold
       IN  /\ Finish(r, "failed")
           /\ overlay' = [overlay EXCEPT ![h] =
                IF ReadsHold(r)
                THEN Unpinned(r, Compensate(@, effect[r].amount, effect[r].left = 0))
                ELSE @]
    /\ applying' = [applying EXCEPT !.batch = Tail(@)]
    /\ UNCHANGED <<deferred, writes, applies_sent, open, in_flight, failures,
                   safetyVars, moneyVars, engineVars, cmdq>>

\* Seeded fault: the backlog waits for the deferred requests, which wait
\* for the backlog.
FlushAfterDeferred ==
    /\ Free /\ writes # <<>> /\ deferred = <<>> /\ Len(cmdq) < CmdCap
    /\ LET r == Head(writes)
           w == PendingEffect(r)
       IN  /\ cmdq' = Append(cmdq, w)
           /\ overlay' = [overlay EXCEPT ![tx[r].hold] = Sent(w, @)]
    /\ writes' = Tail(writes)
    /\ applies_sent' = applies_sent + 1
    /\ UNCHANGED <<reqVars, deferred, batchVars, safetyVars, moneyVars, engineVars>>

\* flush: the oldest decision of the backlog goes when the queue has room.
FlushWrite ==
    /\ Free /\ writes # <<>> /\ Len(cmdq) < CmdCap
    /\ LET r == Head(writes)
           w == PendingEffect(r)
       IN  /\ cmdq' = Append(cmdq, w)
           /\ overlay' = [overlay EXCEPT ![tx[r].hold] = Sent(w, @)]
    /\ writes' = Tail(writes)
    /\ applies_sent' = applies_sent + 1
    /\ UNCHANGED <<reqVars, deferred, batchVars, safetyVars, moneyVars, engineVars>>

\* maintain: above the soft limit, as many idle entries as the budget allows,
\* in whatever order the map is walked.
EvictIdle ==
    /\ Free /\ Cardinality({h \in Holds : overlay[h].tag # "none"}) > SoftLimit
    /\ LET idle == {h \in Holds : Idle(overlay[h], published)}
       IN  \E gone \in SUBSET idle :
              /\ gone # {}
              /\ Cardinality(gone) = IF Cardinality(idle) < EvictPerRound
                                     THEN Cardinality(idle) ELSE EvictPerRound
              /\ overlay' = [h \in Holds |-> IF h \in gone THEN NoEntry ELSE overlay[h]]
    /\ UNCHANGED <<reqVars, deferred, writes, applies_sent, batchVars, safetyVars,
                   moneyVars, engineVars, cmdq>>

-----------------------------------------------------------------------------
(***************************************************************************)
(* The engine's thread.  It takes commands in the order they were sent; a  *)
(* lookup is answered from the records as they are when it is taken.       *)
(***************************************************************************)
EngineApply ==
    /\ cmdq # <<>> /\ Head(cmdq).op # "lookup"
    /\ LET w == Head(cmdq)
       IN  store' = [store EXCEPT ![tx[w.req].hold] = Stored(w, @)]
    /\ applied' = applied + 1
    /\ cmdq' = Tail(cmdq)
    /\ UNCHANGED <<reqVars, chanVars, batchVars, safetyVars, moneyVars, answers,
                   fetches, published>>

\* Seeded fault: an answer carries the count last published, not the count
\* as it is.
StampedWithPublished(r, found) ==
    [req |-> r, found |-> found, applied |-> published]

\* reply: the answer says how much the engine had applied when it was made.
Reply(r, found) == [req |-> r, found |-> found, applied |-> applied]

\* begin_lookup: a record in memory is answered at once, so is a hold the
\* index does not have; otherwise the store fetches the record.
EngineLookup ==
    /\ cmdq # <<>> /\ Head(cmdq).op = "lookup"
    /\ LET r     == Head(cmdq).req
           found == store[tx[r].hold]
       IN  \/ answers' = answers \cup {Reply(r, found)} /\ UNCHANGED fetches
           \/ /\ found > 0
              /\ fetches' = fetches \cup {[req |-> r, found |-> found]}
              /\ UNCHANGED answers
    /\ cmdq' = Tail(cmdq)
    /\ UNCHANGED <<reqVars, chanVars, batchVars, safetyVars, moneyVars, store,
                   applied, published>>

\* harvest: fetches complete in the device's order.
Harvest(f) ==
    /\ fetches' = fetches \ {f}
    /\ answers' = answers \cup {Reply(f.req, f.found)}
    /\ UNCHANGED <<reqVars, chanVars, batchVars, safetyVars, moneyVars, cmdq,
                   store, applied, published>>

\* publish, at the end of a round.
Publish ==
    /\ published # applied
    /\ published' = applied
    /\ UNCHANGED <<reqVars, chanVars, batchVars, safetyVars, moneyVars, cmdq,
                   answers, fetches, store, applied>>

-----------------------------------------------------------------------------
Engine == EngineApply \/ EngineLookup \/ (\E f \in fetches : Harvest(f)) \/ Publish

\* Every stage of the tick but admission, which needs a client, and eviction,
\* which is optional work.
Drain == \/ RetryDispatch
         \/ FlushWrite
         \/ \E r \in Reqs : IdemAnswer(r)
         \/ \E a \in answers : PendingAnswer(a)
         \/ Propose
         \/ StartApply
         \/ ApplyEffect
         \/ RollBackEffect

Next == (\E r \in Reqs : Admit(r)) \/ Drain \/ EvictIdle \/ Engine

Spec == Init /\ [][Next]_vars

\* Both threads run forever: every tick runs every stage, and every round of
\* the engine takes what its queues hold.
FairSpec == Spec /\ WF_vars(Drain) /\ WF_vars(Engine)

-----------------------------------------------------------------------------
\* Type correctness.
TypeOK ==
    /\ tx \in [Reqs -> Transfer]
    /\ stage \in [Reqs -> Stages]
    /\ deps \in [Reqs -> SUBSET Deps] /\ sent \in [Reqs -> SUBSET Deps]
    /\ expected \in [Reqs -> Nat] /\ record \in [Reqs -> Nat]
    /\ effect \in [Reqs -> [amount : Nat, left : Nat]]
    /\ outcome \in [Reqs -> Outcomes] /\ saw \in [Reqs -> BOOLEAN]
    /\ overlay \in [Holds -> Entry]
    /\ deferred \in Seq(Reqs) /\ writes \in Seq(Reqs) /\ applies_sent \in Nat
    /\ open \in Seq(Reqs) /\ in_flight \in Seq(Seq(Reqs)) /\ failures \in Nat
    /\ applying \in [committed : BOOLEAN, batch : Seq(Reqs)]
    /\ sealed \in BOOLEAN /\ quarantined \in BOOLEAN
    /\ pending \in Nat /\ released \in [Holds -> Nat] /\ ledger \in [Holds -> Nat]
    /\ cmdq \in Seq(Command) /\ applied \in Nat /\ published \in Nat
    /\ answers \subseteq Answer
    /\ fetches \subseteq [req : Reqs, found : Nat]
    /\ store \in [Holds -> Nat]

-----------------------------------------------------------------------------
(***************************************************************************)
(* The money of a hold.                                                    *)
(***************************************************************************)
Resolutions(h) == {r \in Reqs : ReadsHold(r) /\ tx[r].hold = h}

\* What judged and undecided resolutions of h have been promised.
Promised(h) == MapThenSumSet(LAMBDA r : effect[r].amount,
                             {r \in Resolutions(h) : stage[r] = "judged"})

\* A resolution is judged against what its hold really has left: the whole
\* less what committed resolutions took and undecided ones were promised,
\* however old the record the engine answered with.  (A batch consensus
\* refused is the exception: see ConservedUnlessRefused.)
JudgedAgainstTruth ==
    [][\A r \in Reqs :
          /\ stage[r] # "judged" /\ stage'[r] = "judged" /\ ReadsHold(r)
          /\ failures = 0
          => effect'[r].amount + effect'[r].left
                = HoldAmount - released[tx[r].hold] - Promised(tx[r].hold)]_vars

\* No money of a hold is promised twice: what has been released and what is
\* promised to resolutions in flight never exceed the hold.
NoOverPromise == \A h \in Holds : released[h] + Promised(h) <= HoldAmount

\* What committed resolutions released and what the committed decisions leave
\* of a hold make up the hold: nothing of it stays reserved with no hold left
\* to release it.  Stated for as long as consensus has refused nothing: a
\* decision judged on one that is then refused carries the remainder that one
\* would have left.  (apply.rs commit_batch, roll_back_batch.)
ConservedUnlessRefused ==
    failures = 0 =>
      \A h \in Holds : Acknowledged(h) => released[h] + ledger[h] = HoldAmount

(***************************************************************************)
(* The two threads' views of a hold.                                       *)
(***************************************************************************)
\* The decisions on their way to the engine, oldest first.
Handover == cmdq \o [i \in 1..Len(writes) |-> PendingEffect(writes[i])]

\* What h will have left once the engine has applied all of them.
Replay(h) ==
    LET upto[i \in 0..Len(Handover)] ==
          IF i = 0 THEN store[h]
          ELSE IF Handover[i].op = "lookup" \/ tx[Handover[i].req].hold # h
               THEN upto[i - 1]
               ELSE Stored(Handover[i], upto[i - 1])
    IN  upto[Len(Handover)]

\* The engine ends where the log says: decisions reach it whole and in commit
\* order, whatever the queue refused on the way.
EngineFollowsCommits == \A h \in Holds : Replay(h) = ledger[h]

\* A client that has seen its hold acknowledged is not told the hold does not
\* exist, unless a resolution has taken all of it.
ReadYourWrites ==
    \A r \in Reqs :
       (saw[r] /\ outcome[r] = "not_found")
       => \E q \in Resolutions(tx[r].hold) :
             outcome[q] = "committed" /\ effect[q].left = 0

\* No honest engine answers from before a decision it had been handed, so the
\* lane is never isolated.
NoStaleAnswer == ~quarantined

\* Who has the hold pinned: the requests whose pending step went through.
Pinners(h) == {r \in Resolutions(h) :
                  stage[r] \in {"open", "judged"} /\ "pending" \in sent[r]}

\* Every unpin answers a pin: an entry carries one pin for each request in
\* flight that will read it, and is there for as long as there is one.
PinsMatch == \A h \in Holds : /\ overlay[h].pinned = Cardinality(Pinners(h))
                              /\ Pinners(h) # {} => overlay[h].tag # "none"

\* A removal handed over and not yet applied has its marker in the overlay,
\* and the marker outlives every answer that still shows the hold alive.
MarkerStands ==
    /\ \A i \in 1..Len(cmdq) :
          cmdq[i].op = "remove" => overlay[tx[cmdq[i].req].hold].tag = "removed"
    /\ \A a \in answers \cup fetches :
          (a.found > 0 /\ Replay(tx[a.req].hold) = 0 /\ writes = <<>>)
          => overlay[tx[a.req].hold].tag = "removed"

\* The overlay keeps what is still needed and for as long: its pins are those of the
\* requests in flight, and a removal's marker stands until no answer can revive the
\* hold.  (overlay.rs pin, unpin, forget, idle.)
OverlaySound == PinsMatch /\ MarkerStands

\* With nothing in flight no entry is kept for good: no reservation, mark or
\* pin has leaked, so every entry may be evicted.
Quiet == /\ \A r \in Reqs : stage[r] \in {"new", "done"}
         /\ cmdq = <<>> /\ writes = <<>> /\ published = applied
NothingLeaks ==
    Quiet => \A h \in Holds : overlay[h].tag # "none" => Idle(overlay[h], published)

\* Every request that took a slot is answered, through refused commands,
\* backlogs and refused batches, unless the apply path was sealed.
EveryRequestAnswered ==
    \A r \in Reqs : stage[r] = "open" ~> (stage[r] = "done" \/ sealed)

-----------------------------------------------------------------------------
(***************************************************************************)
(* What NoStaleAnswer rests on, inductively.                               *)
(***************************************************************************)
\* A request asks the engine once: the questions on their way are of requests
\* whose pending step is marked sent, and a deferred request has not asked.
AskedOnce ==
    /\ \A r \in Reqs : stage[r] = "new" => sent[r] = {}
    /\ \A i \in 1..Len(deferred) :
          stage[deferred[i]] # "new" /\ "pending" \notin sent[deferred[i]]
    /\ \A i, j \in 1..Len(deferred) : i # j => deferred[i] # deferred[j]
    /\ \A i \in 1..Len(cmdq) :
          cmdq[i].op = "lookup" => "pending" \in sent[cmdq[i].req]
    /\ \A a \in answers : "pending" \in sent[a.req]
    /\ \A f \in fetches : "pending" \in sent[f.req]

\* The queue holds exactly the decisions sent and not applied, in order, and
\* a question behind all those its answer must reflect.
QueueInOrder ==
    /\ applied <= applies_sent
    /\ \A i \in 1..Len(cmdq) :
          IF cmdq[i].op = "lookup"
          THEN cmdq[i].n = expected[cmdq[i].req] /\ cmdq[i].n <= applies_sent
          ELSE applied < cmdq[i].n /\ cmdq[i].n <= applies_sent
    /\ \A i, j \in 1..Len(cmdq) :
          (i < j /\ cmdq[j].op # "lookup") => cmdq[i].n < cmdq[j].n
    /\ \A k \in 1..applies_sent : applied < k
          => \E i \in 1..Len(cmdq) : cmdq[i].op # "lookup" /\ cmdq[i].n = k

AnswersReflectQueue ==
    /\ \A a \in answers : expected[a.req] <= a.applied
    /\ \A f \in fetches : expected[f.req] <= applied

StaleInv == AskedOnce /\ QueueInOrder /\ AnswersReflectQueue /\ NoStaleAnswer
=============================================================================
