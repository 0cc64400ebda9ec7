-------------------------------- MODULE Commit --------------------------------
(***************************************************************************)
(* Money from a judged request to an answered client: the balance check    *)
(* against the account's columns and the lane's speculative overlay, the   *)
(* batcher, consensus, the in-order apply, the account store, the outbox   *)
(* and the backlogs that pause intake, and the service's two-phase stop.   *)
(*                                                                         *)
(* Sources: src/sequencer/src/reactor.rs, reactor/apply.rs, judge.rs,      *)
(* state/batcher.rs, lane.rs, outbox.rs, safety.rs, src/base/src/effect.rs,*)
(* ports/account.rs, src/account/src/store.rs, src/raft/src/echo.rs,       *)
(* src/service/src/lib.rs.                                                 *)
(*                                                                         *)
(* The order within a lane and what a chain waits for is module Lanes; the *)
(* hold a resolution is judged by is module HoldPath, and is here one      *)
(* number, what the decisions so far have left of it.                      *)
(***************************************************************************)
EXTENDS Integers, Sequences, FiniteSets, SequencesExt, FiniteSetsExt

CONSTANTS
    Accounts,
    Constrained,     \* the accounts that may not be overdrawn
    Reqs,
    Transfer,        \* request -> [kind, debit, credit, amount, ref]
    Units,           \* the client's submissions: sequences of requests, a chain if longer than 1
    Opening,         \* account -> the columns earlier traffic left it
    Cap,             \* the largest value a column holds (Amount::MAX)
    BatchMax, BatchQueued, InFlightMax,    \* BatchPolicy: max, queued, in_flight
    RaftCap,         \* the two consensus rings
    AckCap,          \* the ack ring
    AckBacklog,      \* ack_backlog
    MaxFailures, MaxSwaps, MaxClears,      \* bounds of the model
    None

\* An account's columns, and what it has to spend.
Book == [dposted : 0..Cap, cposted : 0..Cap, dpending : 0..Cap, cpending : 0..Cap]
Available(record) == record.cposted - record.dposted - record.dpending
ColumnSum(books, col) == SumFunction([a \in Accounts |-> books[a][col]])
\* The two sums of double entry.
DoubleEntry(books) ==
    /\ ColumnSum(books, "dposted") = ColumnSum(books, "cposted")
    /\ ColumnSum(books, "dpending") = ColumnSum(books, "cpending")

ASSUME CommitAssumption ==
    /\ IsFiniteSet(Accounts) /\ Constrained \subseteq Accounts
    /\ {Cap, BatchMax, BatchQueued, InFlightMax, RaftCap, AckCap, AckBacklog} \subseteq Nat \ {0}
    /\ {MaxFailures, MaxSwaps, MaxClears} \subseteq Nat
    /\ None \notin Int /\ None \notin Reqs /\ None \notin Units
    /\ Opening \in [Accounts -> Book] /\ DoubleEntry(Opening)
    /\ \A a \in Constrained : Available(Opening[a]) >= 0

\* What clients send: a request goes out once, in one unit; a resolution names a request.
ASSUME ClientAssumption ==
    /\ Transfer \in [Reqs -> [kind : {"post", "hold", "settle", "void"}, debit : Accounts,
                              credit : Accounts, amount : Nat, ref : Reqs \cup {None}]]
    /\ \A r \in Reqs : Transfer[r].kind \in {"settle", "void"} => Transfer[r].ref # None
    /\ \A u \in Units : u \in Seq(Reqs) /\ Len(u) \in 1..BatchMax
    /\ \A u \in Units : \A i, j \in DOMAIN u : u[i] = u[j] => i = j
    /\ \A u, v \in Units : Range(u) \cap Range(v) # {} => u = v
    /\ \A r \in Reqs : \E u \in Units : r \in Range(u)

VARIABLES
    left, script,         \* units not begun, legs of the one the client is in
    queue,                \* requests sent and not admitted
    slots,                \* work slots: requests admitted and not finished
    ready,                \* those not judged, in order of arrival
    columns,              \* account -> its four columns
    speculative,          \* account -> the overlay of its lane
    remaining,            \* request -> what is left of the hold it made, or None
    open, inflight, batch,      \* the open batch, the ones proposed, the next batch's id
    proposals, held, commits,   \* the proposal ring, the consensus worker's queue, the commit ring
    log,                  \* the effects consensus committed
    outbox,               \* [ring, backlog]
    taken,                \* the answers the client has read
    judged, committed, applied, \* the counters counts_add_up compares
    sealed, failStop,
    pressure,             \* what is published of a pause: [cause, now]
    phase, drained,       \* the service: serving, draining, stopped
    failures, swaps, clears

client == <<left, script, queue>>
money == <<columns, speculative, remaining>>
batcher == <<open, inflight, batch>>
raft == <<proposals, held, commits, log, failures, swaps>>
counters == <<judged, committed, applied>>
service == <<phase, drained>>
vars == <<client, slots, ready, money, batcher, raft, outbox, taken, counters, sealed,
          failStop, pressure, service, clears>>

-----------------------------------------------------------------------------
(* Effects and columns.                                                    *)

UnitOf(r) == CHOOSE u \in Units : r \in Range(u)
\* The chain an effect belongs to; a request on its own has none.
ChainOf(r) == IF Len(UnitOf(r)) > 1 THEN UnitOf(r) ELSE None

\* The delta table, and what of it is promised before or spendable after the commit.
Columns(e) ==
    CASE e.kind = "post"   -> [posted |-> e.amount, pending |-> 0]
      [] e.kind = "hold"   -> [posted |-> 0, pending |-> e.amount]
      [] e.kind = "settle" -> [posted |-> e.amount, pending |-> -e.amount]
      [] e.kind = "void"   -> [posted |-> 0, pending |-> -e.amount]
Resolves(e) == e.kind \in {"settle", "void"}
Reservation(e) == IF Resolves(e) THEN 0 ELSE e.amount
Gain(e, a) ==
    IF \/ e.kind \in {"post", "settle"} /\ e.credit = a
       \/ e.kind = "void" /\ e.debit = a
      THEN e.amount ELSE 0

Check(value, delta) == value + delta \in 0..Cap
CanDebit(record, d) == Check(record.dposted, d.posted) /\ Check(record.dpending, d.pending)
CanCredit(record, d) == Check(record.cposted, d.posted) /\ Check(record.cpending, d.pending)
ApplyDebit(record, d) ==
    [record EXCEPT !.dposted = @ + d.posted, !.dpending = @ + d.pending]
ApplyCredit(record, d) ==
    [record EXCEPT !.cposted = @ + d.posted, !.cpending = @ + d.pending]

\* A mutant: the far side is asked when the near side has been written.
MoveColumnsLate(cols, e) ==
    LET d == Columns(e)
        near == IF CanDebit(cols[e.debit], d)
                  THEN [cols EXCEPT ![e.debit] = ApplyDebit(@, d)] ELSE cols
        ok == CanDebit(cols[e.debit], d) /\ CanCredit(near[e.credit], d)
    IN [ok |-> ok, cols |-> IF ok THEN [near EXCEPT ![e.credit] = ApplyCredit(@, d)] ELSE near]
\* move_columns: both sides or neither.
MoveColumns(cols, e) ==
    LET d == Columns(e)
        ok == CanCredit(cols[e.credit], d) /\ CanDebit(cols[e.debit], d)
        near == [cols EXCEPT ![e.debit] = ApplyDebit(@, d)]
    IN [ok |-> ok, cols |-> IF ok THEN [near EXCEPT ![e.credit] = ApplyCredit(@, d)] ELSE cols]

-----------------------------------------------------------------------------
(* The outbox.                                                             *)

Ack(r, outcome) == [tx |-> r, outcome |-> outcome]
\* emit: nothing overtakes a backlogged answer.
Emit(out, ack) ==
    IF out.backlog = <<>> /\ Len(out.ring) < AckCap
      THEN [out EXCEPT !.ring = Append(@, ack)]
      ELSE [out EXCEPT !.backlog = Append(@, ack)]
EmitAll(out, rs, outcome) == FoldLeft(LAMBDA o, r : Emit(o, Ack(r, outcome)), out, rs)

-----------------------------------------------------------------------------
(* The client, and intake.                                                 *)

Client ==
    \/ /\ script = <<>>
       /\ \E u \in left : /\ left' = left \ {u} /\ script' = Tail(u)
                          /\ queue' = Append(queue, Head(u))
       /\ UNCHANGED <<outbox, taken>>
    \/ /\ script # <<>>
       /\ queue' = Append(queue, Head(script)) /\ script' = Tail(script)
       /\ UNCHANGED <<left, outbox, taken>>
    \/ /\ outbox.ring # <<>>
       /\ taken' = taken \cup {Head(outbox.ring)}
       /\ outbox' = [outbox EXCEPT !.ring = Tail(@)]
       /\ UNCHANGED client

ClientStep ==
    /\ Client
    /\ UNCHANGED <<slots, ready, money, batcher, raft, counters, sealed, failStop, pressure,
                   service, clears>>

\* Why intake may not run, the first that holds.
PauseCause ==
    IF Len(open) >= BatchQueued THEN "consensus"
    ELSE IF Len(outbox.backlog) >= AckBacklog THEN "acks unread"
    ELSE "none"

\* A mutant: only the pause is published.
PublishedOnce(cause) ==
    IF cause = "none" THEN pressure ELSE [cause |-> cause, now |-> TRUE]
\* track_intake_pause and publish: on an edge; a resume keeps the cause.
Published(cause) ==
    IF (cause # "none") = pressure.now THEN pressure
    ELSE IF cause = "none" THEN [pressure EXCEPT !.now = FALSE]
    ELSE [cause |-> cause, now |-> TRUE]

\* intake, of one request.
Intake ==
    /\ phase = "serving"
    /\ pressure' = Published(PauseCause)
    /\ \/ /\ PauseCause = "none" /\ queue # <<>>
          /\ queue' = Tail(queue)
          /\ slots' = slots \cup {Head(queue)}
          /\ ready' = Append(ready, Head(queue))
       \/ /\ PauseCause # "none" \/ queue = <<>>
          /\ UNCHANGED <<queue, slots, ready>>
    /\ UNCHANGED <<left, script, money, batcher, raft, outbox, taken, counters, sealed,
                   failStop, service, clears>>

-----------------------------------------------------------------------------
(* The judge.                                                              *)

\* Committed columns, what the lane has promised, and what earlier legs will bring in.
Spendable(acc, a) ==
    Available(columns[a]) + acc.speculative[a]
      + SumFunction([i \in DOMAIN acc.effects |-> Gain(acc.effects[i], a)])

Effect(r, amount) ==
    [tx |-> r, kind |-> Transfer[r].kind, debit |-> Transfer[r].debit,
     credit |-> Transfer[r].credit, amount |-> amount, ref |-> Transfer[r].ref]

\* What a request may move: an amount, or None for a refusal.
AmountOf(acc, r) ==
    LET t == Transfer[r] IN
    IF t.kind \in {"post", "hold"}
      THEN IF t.debit \in Constrained /\ Spendable(acc, t.debit) < t.amount THEN None ELSE t.amount
    ELSE IF acc.remaining[t.ref] \in {None, 0} THEN None
    ELSE IF t.kind = "void" THEN acc.remaining[t.ref]
    ELSE IF t.amount <= acc.remaining[t.ref] THEN t.amount ELSE None

\* take_overlays, give_back_overlays.
TakeOverlays(acc, e) ==
    [acc EXCEPT !.speculative[e.debit] = @ - Reservation(e),
                !.remaining = IF Resolves(e) THEN [acc.remaining EXCEPT ![e.ref] = @ - e.amount]
                              ELSE acc.remaining]
GiveBackOverlays(acc, e) ==
    [acc EXCEPT !.speculative[e.debit] = @ + Reservation(e),
                !.remaining = IF Resolves(e) THEN [acc.remaining EXCEPT ![e.ref] = @ + e.amount]
                              ELSE acc.remaining]

\* One leg, judged with what the legs before it decided.
Leg(acc, r) ==
    LET amount == AmountOf(acc, r) IN
    IF ~acc.ok \/ failStop \/ amount = None THEN [acc EXCEPT !.ok = FALSE]
    ELSE [TakeOverlays(acc, Effect(r, amount)) EXCEPT !.effects = Append(@, Effect(r, amount))]
Judged(unit) ==
    FoldLeft(Leg, [ok |-> TRUE, effects |-> <<>>, speculative |-> speculative,
                   remaining |-> remaining], unit)

\* Every leg has arrived, and on no lane is an earlier request still to be judged.
Judgeable(unit) ==
    /\ Range(unit) \subseteq Range(ready)
    /\ \A r \in Range(unit), i, j \in DOMAIN ready :
         i < j /\ ready[j] = r /\ Transfer[ready[i]].debit = Transfer[r].debit
           => ready[i] \in Range(unit)

\* What is left of a lane's order when a unit has been taken out of it.
Without(seq, unit) ==
    LET kept[i \in 0..Len(seq)] ==
          IF i = 0 THEN <<>>
          ELSE IF seq[i] \in Range(unit) THEN kept[i - 1] ELSE Append(kept[i - 1], seq[i])
    IN kept[Len(seq)]

Judge ==
    /\ phase # "stopped"
    /\ \E unit \in {u \in Units : Judgeable(u)} : \E verdict \in {Judged(unit)} :
         /\ ready' = Without(ready, unit)
         /\ \/ /\ verdict.ok
               /\ open' = open \o verdict.effects
               /\ speculative' = verdict.speculative /\ remaining' = verdict.remaining
               /\ judged' = judged + Len(unit)
               /\ UNCHANGED <<slots, outbox>>
            \/ /\ ~verdict.ok
               /\ slots' = slots \ Range(unit)
               /\ outbox' = EmitAll(outbox, unit, "rejected")
               /\ UNCHANGED <<open, speculative, remaining, judged>>
    /\ UNCHANGED <<client, columns, inflight, batch, raft, taken, committed, applied, sealed,
                   failStop, pressure, service, clears>>

-----------------------------------------------------------------------------
(* The batcher and consensus.                                              *)

\* A mutant: a batch is cut wherever it is full.
ChainSplit(n) == n
\* chain_boundary: back to where no chain crosses.
ChainBoundary(n) ==
    Max({k \in 0..n : k = 0 \/ k = Len(open)
                        \/ ChainOf(open[k].tx) = None
                        \/ ChainOf(open[k].tx) # ChainOf(open[k + 1].tx)})

\* propose: a full or lingering batch; a full ring puts it back where it was.
Propose ==
    LET n == ChainBoundary(Min({Len(open), BatchMax}))
        effects == SubSeq(open, 1, n)
    IN /\ phase # "stopped"
       /\ open # <<>> /\ Len(inflight) < InFlightMax /\ Len(proposals) < RaftCap
       /\ proposals' = Append(proposals, [id |-> batch, effects |-> effects])
       /\ inflight' = Append(inflight, [id |-> batch, slots |-> [i \in 1..n |-> effects[i].tx]])
       /\ batch' = batch + 1
       /\ open' = SubSeq(open, n + 1, Len(open))
       /\ UNCHANGED <<client, slots, ready, money, held, commits, log, failures, swaps, outbox,
                      taken, counters, sealed, failStop, pressure, service, clears>>

\* drain_proposals: the outcome is decided here, and two may change places.
DrainProposals ==
    /\ proposals # <<>> /\ proposals' = Tail(proposals)
    /\ \E outcome \in {"committed", "failed"} :
         LET one == [id |-> Head(proposals).id, effects |-> Head(proposals).effects,
                     outcome |-> outcome]
         IN /\ failures' = failures + (IF outcome = "failed" THEN 1 ELSE 0)
            /\ failures' <= MaxFailures
            /\ \/ held' = Append(held, one) /\ UNCHANGED swaps
               \/ /\ held # <<>> /\ swaps < MaxSwaps /\ swaps' = swaps + 1
                  /\ held' = Front(held) \o <<one, Last(held)>>
    /\ UNCHANGED <<client, slots, ready, money, batcher, commits, log, outbox, taken, counters,
                   sealed, failStop, pressure, service, clears>>

\* deliver: the log grows in the order of the answers.
Deliver ==
    /\ held # <<>> /\ Len(commits) < RaftCap
    /\ held' = Tail(held)
    /\ commits' = Append(commits, Head(held))
    /\ log' = IF Head(held).outcome = "committed" THEN log \o Head(held).effects ELSE log
    /\ UNCHANGED <<client, slots, ready, money, batcher, proposals, failures, swaps, outbox,
                   taken, counters, sealed, failStop, pressure, service, clears>>

-----------------------------------------------------------------------------
(* Apply.                                                                  *)

Standing == [columns |-> columns, speculative |-> speculative, remaining |-> remaining,
             outbox |-> outbox, slots |-> slots, done |-> 0, sealed |-> FALSE]

\* A mutant: an effect that cannot be applied is skipped.
CommitOneSkipping(acc, pair) ==
    LET e == pair[1]  moved == MoveColumns(acc.columns, e) IN
    IF ~moved.ok THEN acc
    ELSE [acc EXCEPT !.columns = moved.cols,
                     !.speculative[e.debit] = @ + Reservation(e),
                     !.remaining = IF e.kind = "hold"
                                     THEN [acc.remaining EXCEPT ![e.tx] = e.amount]
                                     ELSE acc.remaining,
                     !.outbox = Emit(@, Ack(pair[2], "committed")),
                     !.slots = @ \ {pair[2]}, !.done = @ + 1]
\* commit_batch, of one effect and the slot it is paired with: one that cannot be
\* applied stops the node.
CommitOne(acc, pair) ==
    LET e == pair[1]  moved == MoveColumns(acc.columns, e) IN
    IF acc.sealed THEN acc
    ELSE IF ~moved.ok THEN [acc EXCEPT !.sealed = TRUE, !.columns = moved.cols]
    ELSE [acc EXCEPT !.columns = moved.cols,
                     !.speculative[e.debit] = @ + Reservation(e),
                     !.remaining = IF e.kind = "hold"
                                     THEN [acc.remaining EXCEPT ![e.tx] = e.amount]
                                     ELSE acc.remaining,
                     !.outbox = Emit(@, Ack(pair[2], "committed")),
                     !.slots = @ \ {pair[2]}, !.done = @ + 1]
\* A mutant: the slot of a refused request is not given back.
RollBackOneKept(acc, pair) ==
    [GiveBackOverlays(acc, pair[1]) EXCEPT !.outbox = Emit(@, Ack(pair[2], "failed"))]
RollBackOne(acc, pair) ==
    [GiveBackOverlays(acc, pair[1]) EXCEPT !.outbox = Emit(@, Ack(pair[2], "failed")),
                                           !.slots = @ \ {pair[2]}]
Paired(effects, who) == [i \in 1..Min({Len(effects), Len(who)}) |-> <<effects[i], who[i]>>]

\* A mutant: the answer is taken to be for the batch in front.
AnswersAny(b, commit) == TRUE
AnswersTheFirst(b, commit) == b.id = commit.id

\* What an answer does: nothing it is not paired with is applied.
Answered(commit, b) ==
    LET pairs == Paired(commit.effects, b.slots) IN
    IF ~AnswersTheFirst(b, commit) THEN [Standing EXCEPT !.sealed = TRUE]
    ELSE IF commit.outcome = "committed" THEN FoldLeft(CommitOne, Standing, pairs)
    ELSE FoldLeft(RollBackOne, Standing, pairs)

\* apply, of one answer.
Apply ==
    /\ phase # "stopped" /\ ~sealed
    /\ commits # <<>> /\ commits' = Tail(commits)
    /\ inflight # <<>> /\ inflight' = Tail(inflight)
    /\ \E done \in {Answered(Head(commits), Head(inflight))} :
          /\ columns' = done.columns /\ speculative' = done.speculative
          /\ remaining' = done.remaining /\ outbox' = done.outbox /\ slots' = done.slots
          /\ committed' = committed + done.done /\ applied' = applied + done.done
          /\ sealed' = done.sealed /\ failStop' = (failStop \/ done.sealed)
    /\ UNCHANGED <<client, ready, open, batch, proposals, held, log, failures, swaps, taken,
                   judged, pressure, service, clears>>

\* drain_backlogs: outbox.flush.
Flush ==
    /\ phase # "stopped"
    /\ outbox.backlog # <<>> /\ Len(outbox.ring) < AckCap
    /\ outbox' = [ring |-> Append(outbox.ring, Head(outbox.backlog)),
                  backlog |-> Tail(outbox.backlog)]
    /\ UNCHANGED <<client, slots, ready, money, batcher, raft, taken, counters, sealed,
                   failStop, pressure, service, clears>>

\* clear_fail_stop, an operator's.
ClearFailStop ==
    /\ failStop /\ inflight = <<>> /\ clears < MaxClears
    /\ failStop' = FALSE /\ clears' = clears + 1
    /\ UNCHANGED <<client, slots, ready, money, batcher, raft, outbox, taken, counters, sealed,
                   pressure, service>>

-----------------------------------------------------------------------------
(* The service.                                                            *)

Quiescent == slots = {} /\ inflight = <<>> /\ outbox.backlog = <<>>

\* A stop is asked for: intake closes and the drain begins.
CloseIntake ==
    /\ phase = "serving" /\ phase' = "draining"
    /\ UNCHANGED <<client, slots, ready, money, batcher, raft, outbox, taken, counters, sealed,
                   failStop, pressure, drained, clears>>
\* The drain ends when nothing is in flight, or when its time is up.
EndDrain(quiet) ==
    /\ phase = "draining" /\ phase' = "stopped" /\ drained' = quiet
    /\ UNCHANGED <<client, slots, ready, money, batcher, raft, outbox, taken, counters, sealed,
                   failStop, pressure, clears>>
Drained == Quiescent /\ EndDrain(TRUE)
TimedOut == ~Quiescent /\ EndDrain(FALSE)

Init ==
    /\ left = Units /\ script = <<>> /\ queue = <<>> /\ slots = {} /\ ready = <<>>
    /\ columns = Opening
    /\ speculative = [a \in Accounts |-> 0]
    /\ remaining = [r \in Reqs |-> None]
    /\ open = <<>> /\ inflight = <<>> /\ batch = 1
    /\ proposals = <<>> /\ held = <<>> /\ commits = <<>> /\ log = <<>>
    /\ outbox = [ring |-> <<>>, backlog |-> <<>>] /\ taken = {}
    /\ judged = 0 /\ committed = 0 /\ applied = 0
    /\ sealed = FALSE /\ failStop = FALSE
    /\ pressure = [cause |-> "none", now |-> FALSE]
    /\ phase = "serving" /\ drained = FALSE
    /\ failures = 0 /\ swaps = 0 /\ clears = 0

Stages == Intake \/ Judge \/ Propose \/ Apply \/ Flush
Next == ClientStep \/ Stages \/ DrainProposals \/ Deliver \/ ClearFailStop
          \/ CloseIntake \/ Drained \/ TimedOut

\* The threads run on: while a tick, consensus or a client in the middle of its own
\* business can do something, something of it is done.  Every such step uses up work,
\* so none can keep the others waiting.  Nothing makes a client begin, an operator act,
\* a stop come or a drain run out of time.
Progress ==
    \/ Flush \/ Deliver \/ DrainProposals \/ (left' = left /\ ClientStep) \/ Drained
    \/ Intake \/ Propose \/ Apply \/ Judge
Fairness == WF_vars(Progress)

Spec == Init /\ [][Next]_vars /\ Fairness

-----------------------------------------------------------------------------
(* Properties.                                                             *)

\* No promise is broken: an account that may not be overdrawn never is, whatever was
\* promised, failed, rolled back or spent ahead within a chain.
\* (judge.rs direct_effect; effect.rs reservation, gain.)
NoOverdraft == \A a \in Constrained : Available(columns[a]) >= 0

\* A node that applied the same log has the same books: the columns are the log's, as
\* far as this node has applied it, one effect after another.
\* (apply.rs commit_batch; store.rs move_columns, replay.)
Replayed(effects) ==
    FoldLeft(LAMBDA cols, e : MoveColumns(cols, e).cols, Opening, effects)
StateFollowsLog ==
    /\ committed <= Len(log)
    /\ columns = Replayed(SubSeq(log, 1, committed))

\* What a client is told is so: a commit it has an answer for is in the log and applied,
\* a refusal by consensus is of a request that is not in the log, and no request has two.
\* (apply.rs apply, seal_applies: a commit in the wrong order is never paired.)
Answers == taken \cup Range(outbox.ring) \cup Range(outbox.backlog)
AcksAreTrue ==
    \A ack \in Answers :
      /\ ack.outcome = "committed" <=> \E i \in 1..committed : log[i].tx = ack.tx
      /\ \A other \in Answers : other.tx = ack.tx => other = ack

Balanced == DoubleEntry(columns)
\* What every tick compares: counters one stage keeps, against those its peers keep
\* (the slots are module Lanes').
CountsAddUp ==
    /\ committed <= judged /\ applied = committed
    /\ Len(inflight) <= InFlightMax

\* The audit: both sums of double entry agree, the counters of the stages do, and when
\* nothing is in flight nothing is still promised, unjudged, or committed and not applied,
\* which is what a stop that drained relies on.
\* (reactor.rs audit, counts_add_up; service lib.rs serve_then_drain.)
AuditHolds ==
    /\ CountsAddUp /\ Balanced
    /\ Quiescent => /\ \A a \in Accounts : speculative[a] = 0
                     /\ ready = <<>> /\ open = <<>> /\ committed = Len(log)

\* A pause is not for good: the backlog that caused it shrinks, while the apply path is
\* not sealed and the node serves.  (reactor.rs track_intake_pause.)
PauseEnds == pressure.now ~> (~pressure.now \/ sealed \/ phase # "serving")

\* The rest of a chain whose first legs were admitted is still with the client.
InsideAChain == \E u \in Units : Range(u) \cap slots # {} /\ ~(Range(u) \subseteq slots)

\* A drain ends by itself: what is in the pipeline finishes, unless the apply path was
\* sealed or intake was closed in the middle of a chain.  (lib.rs serve_then_drain.)
DrainFinishes == (phase = "draining") ~> (phase = "stopped" \/ sealed \/ InsideAChain)

===============================================================================
