------------------------------- MODULE Lanes -------------------------------
(***************************************************************************)
(* The order the sequencer promises.  Requests debiting one constrained    *)
(* account form a lane: each gets a seq at intake, is put to components    *)
(* that answer in their own time, and must be judged in seq order.  Linked *)
(* chains are judged and proposed whole, and requests behind a chain on    *)
(* one of its lanes wait for it.  The reactor reorders nothing: a reply    *)
(* that leaves a gap isolates the lane.                                    *)
(*                                                                         *)
(* Balances, holds and the backlog of committed writes are left out        *)
(* (HoldPath has them): whether a judged request is refused for money or   *)
(* as a duplicate is a free choice.                                        *)
(***************************************************************************)
EXTENDS Integers, Sequences, FiniteSets, SequencesExt

CONSTANTS Accounts,      \* one lane per account
          Constrained,   \* the accounts whose balance the ledger protects
          MaxReqs,       \* bound: client requests
          MaxVoids,      \* bound: expiry voids the engine asks for
          MaxFaults,     \* bound: replies misordered, batches refused and requests
                         \* with a ledger-origin id, together
          Slots,         \* work slots
          IdemCap,       \* requests the idempotency queue holds
          PendCap,       \* commands the pending queue holds
          MaxLegs,       \* LinkedPolicy::max_legs
          MaxBatch,      \* BatchPolicy::max
          QueuedLimit,   \* BatchPolicy::queued
          InFlightLimit, \* BatchPolicy::in_flight
          LanesToFail    \* SafetyPolicy::quarantine_fail_stop

ASSUME ConstrainedAssumption == Constrained \subseteq Accounts
\* ReactorConfig::validate
ASSUME ConfigAssumption ==
    /\ Slots > 0 /\ InFlightLimit > 0 /\ MaxLegs > 0 /\ LanesToFail > 0
    /\ MaxLegs <= MaxBatch /\ MaxBatch <= QueuedLimit

VARIABLES
    item,       \* the work item of each request, in admission order
    count,      \* requests admitted or refused so far
    voids,      \* which of them are the ledger's own expiry voids
    lanes,      \* LaneState of each account
    open,       \* the chain being assembled, 0 if none
    chains,     \* the linked chains, each named by its first request
    gates,      \* the chain a new request on the lane must wait behind
    deferred,   \* requests a full queue sent back
    cascade,    \* judgeable slots and complete chains, top first
    batch,      \* judged effects of the batch being filled
    in_flight,  \* proposals consensus holds
    fail_stop,  \* Safety::fail_stop
    intake_closed, \* the service is stopping
    idem,       \* questions the idempotency component has not answered
    pendq,      \* commands the engine has not taken
    reserved,   \* places in the engine's orderer waiting for their record
    filled,     \* places filled and not released
    turn,       \* per lane, the seq the engine's orderer may release next, 0 if
                \* it holds no place
    faults,     \* of those counted by MaxFaults, how many so far
    misordered, \* history: lanes on which the component broke its order
    crossed,    \* history: lanes a void entered inside an open chain
    burnt       \* history: lanes where a fail-stop refused an issued seq

reactorVars == <<item, count, voids, lanes, open, chains, gates, deferred, cascade,
                 batch, in_flight, fail_stop, intake_closed>>
engineVars  == <<pendq, reserved, filled, turn>>
history     == <<misordered, crossed, burnt>>
vars == <<reactorVars, idem, engineVars, faults, history>>

-----------------------------------------------------------------------------
Ids  == 1..(MaxReqs + MaxVoids)
Deps == {"idem", "pending", "linked_chain"}

\* seq 0 is UNORDERED, chain 0 is ABSENT.
WorkItem == [stage : {"free", "open", "judged", "committed", "rejected", "reserved"},
             lane : Accounts, reads : BOOLEAN, seq : Nat, chain : Ids \cup {0},
             deps : SUBSET Deps, sent : SUBSET Deps]

LaneState == [seq_counter : Nat, last_seq : Nat, in_flight : Nat,
              pending_replies : Nat, quarantined : BOOLEAN]

LinkedChain == [legs : Seq(Ids), gated : Seq(Ids), outstanding : Nat,
                closed : BOOLEAN, failure : BOOLEAN]

NoChain == [legs |-> <<>>, gated |-> <<>>, outstanding |-> 0, closed |-> FALSE,
            failure |-> FALSE]

\* A request without a slot: not yet here, or answered.  Of an answered one the
\* chain it was in is kept for the properties.
Outside(stage, c) == [stage |-> stage, lane |-> CHOOSE l \in Accounts : TRUE, reads |-> FALSE,
                      seq |-> 0, chain |-> c, deps |-> {}, sent |-> {}]

Init ==
    /\ item = [i \in Ids |-> Outside("free", 0)]
    /\ count = 0 /\ voids = {} /\ deferred = <<>> /\ cascade = <<>>
    /\ lanes = [l \in Accounts |-> [seq_counter |-> 0, last_seq |-> 0, in_flight |-> 0,
                                    pending_replies |-> 0, quarantined |-> FALSE]]
    /\ open = 0 /\ chains = [c \in Ids |-> NoChain] /\ gates = [l \in Accounts |-> 0]
    /\ batch = <<>> /\ in_flight = <<>> /\ fail_stop = FALSE
    /\ intake_closed = FALSE
    /\ idem = <<>> /\ pendq = <<>> /\ reserved = {} /\ filled = {}
    /\ turn = [l \in Accounts |-> 0]
    /\ faults = 0 /\ misordered = {} /\ crossed = {} /\ burnt = {}

Open(i)    == item[i].stage \in {"open", "judged"}
Ordered(i) == item[i].seq # 0

Complete(ch) == ch.closed /\ ch.outstanding = 0

\* A job of the cascade: a slot that is judgeable, or a chain that is complete.
Ready(i)      == [slot |-> i, chain |-> 0]
ReadyChain(c) == [slot |-> 0, chain |-> c]

\* The reactor runs a cascade to its end before anything else.
Free == cascade = <<>>

-----------------------------------------------------------------------------
(***************************************************************************)
(* Dispatch.  The idempotency question goes first; the pending step only   *)
(* once that has gone.  taken is whether the idempotency queue takes the   *)
(* question (it must while fewer than its capacity are unanswered), known  *)
(* whether the overlay already knows the hold is missing, blocked whether  *)
(* writes the engine has not taken keep lookups back.                      *)
(***************************************************************************)
Owes(it, dep) == dep \in it.deps \ it.sent

Knows(it) == IF it.reads THEN BOOLEAN ELSE {FALSE}

IdemTakes(it) == IF Owes(it, "idem") /\ Len(idem) >= IdemCap THEN BOOLEAN ELSE {TRUE}

\* Seeded fault: a request that reads nothing never fences.
PendingStepNoFence(it, waiting, known) ==
    IF it.reads /\ ~known THEN "lookup" ELSE "inline"

PendingStep(it, waiting, known) ==
    IF it.reads /\ ~known THEN "lookup" ELSE IF waiting THEN "fence" ELSE "inline"

Held(it) == IF Owes(it, "pending") THEN BOOLEAN ELSE {FALSE}

Dispatched(it, ln, taken, known, blocked) ==
    LET step  == PendingStep(it, ln.pending_replies > 0, known)
        owes  == taken /\ Owes(it, "pending")
        goes  == owes /\ ~blocked /\ (step = "inline" \/ Len(pendq) < PendCap)
        sent  == it.sent \cup (IF taken THEN it.deps \cap {"idem"} ELSE {})
                         \cup (IF goes THEN {"pending"} ELSE {})
    IN  [item    |-> [it EXCEPT !.sent = sent,
                                !.deps = IF goes /\ step = "inline"
                                         THEN @ \ {"pending"} ELSE @],
         asks    |-> taken /\ Owes(it, "idem"),
         command |-> goes /\ step # "inline",
         done    |-> taken /\ (owes => goes)]

\* What dispatching i as d puts in the queues, and in its lane's count.
Send(i, d) ==
    /\ idem' = IF d.asks THEN Append(idem, i) ELSE idem
    /\ pendq' = IF d.command THEN Append(pendq, i) ELSE pendq

\* Seeded fault: the reply of a request that keeps no place is counted too.
RepliesCountAll(ln, d) == IF d.command THEN [ln EXCEPT !.pending_replies = @ + 1] ELSE ln

Replies(ln, d) == IF d.command /\ d.item.seq # 0
                  THEN [ln EXCEPT !.pending_replies = @ + 1] ELSE ln

-----------------------------------------------------------------------------
(***************************************************************************)
(* Intake.                                                                 *)
(***************************************************************************)
Paused == intake_closed \/ deferred # <<>> \/ Len(batch) >= QueuedLimit

NoSlot == Cardinality({i \in Ids : Open(i)}) >= Slots

\* prepare, up to the reason: valid stands for the shape and the accounts.
Refused(l, valid) == fail_stop \/ ~valid \/ lanes[l].quarantined \/ NoSlot

\* The item prepare makes for a request of chain c on lane l.
Prepared(l, reads, c) ==
    LET ordered == l \in Constrained
        gate    == gates[l] \notin {0, c}
        pending == reads \/ (ordered /\ lanes[l].pending_replies > 0)
    IN  [stage |-> "open", lane |-> l, reads |-> reads, chain |-> c,
         seq  |-> IF ordered THEN lanes[l].seq_counter + 1 ELSE 0,
         sent |-> {},
         deps |-> {"idem"} \cup (IF pending THEN {"pending"} ELSE {})
                           \cup (IF gate THEN {"linked_chain"} ELSE {})]

Entered(ln, it) == [ln EXCEPT !.in_flight = @ + 1,
                              !.seq_counter = IF it.seq # 0 THEN it.seq ELSE @]

\* Seeded fault: the chain a bad leg belongs to is not doomed by it.
JoinedForgiving(ch, i, linked, refused, ends) ==
    [ch EXCEPT !.legs = IF refused THEN @ ELSE Append(@, i),
               !.outstanding = IF refused THEN @ ELSE @ + 1,
               !.closed = ~linked \/ ends,
               !.failure = \/ @ \/ (linked /\ Len(ch.legs) >= MaxLegs)
                           \/ (linked /\ ends)]

\* LinkedChains::admit, fail, add_leg and close_batch on the request's chain.
Joined(ch, i, linked, refused, ends) ==
    [ch EXCEPT !.legs = IF refused THEN @ ELSE Append(@, i),
               !.outstanding = IF refused THEN @ ELSE @ + 1,
               !.closed = ~linked \/ ends,
               !.failure = \/ @ \/ refused \/ (linked /\ Len(ch.legs) >= MaxLegs)
                           \/ (linked /\ ends)]

\* wait_behind, when a gate is there.
Waiting(chs, it, i) == IF "linked_chain" \in it.deps
                       THEN [chs EXCEPT ![gates[it.lane]].gated = Append(@, i)]
                       ELSE chs

Turned(i, c) == item' = [item EXCEPT ![i] = Outside("rejected", c)]

\* A request takes its slot, its place in the lane and its place in the queues.
Enter(i, it) ==
    \E taken \in IdemTakes(it), known \in Knows(it), blocked \in Held(it) :
    LET l == it.lane
        d == Dispatched(it, lanes[l], taken, known, blocked)
    IN  /\ item' = [item EXCEPT ![i] = d.item]
        /\ lanes' = [lanes EXCEPT ![l] = Replies(Entered(@, it), d)]
        /\ deferred' = IF d.done THEN deferred ELSE Append(deferred, i)
        /\ Send(i, d)

\* The client's side: one more request, the last of its submission or not.
Stream(i, ends) ==
    /\ Free /\ ~Paused /\ count - Cardinality(voids) < MaxReqs
    \* the stream the bound cuts off ends with a whole submission
    /\ i - Cardinality(voids) = MaxReqs => ends
    /\ count' = i

\* admit on an id of the ledger's own: refused before the chains see it.
AdmitReserved(ends) ==
    LET i == count + 1
        cut == [chains[open] EXCEPT !.closed = TRUE, !.failure = TRUE]
    IN  /\ faults < MaxFaults /\ faults' = faults + 1
        /\ Stream(i, ends)
        /\ item' = [item EXCEPT ![i] = Outside("reserved", 0)]
        /\ \/ /\ open # 0 /\ ends
              /\ open' = 0
              /\ chains' = [chains EXCEPT ![open] = cut]
              /\ cascade' = IF Complete(cut) THEN <<ReadyChain(open)>> ELSE <<>>
           \/ ~(open # 0 /\ ends) /\ UNCHANGED <<open, chains, cascade>>
        /\ UNCHANGED <<voids, lanes, gates, deferred, batch, in_flight, fail_stop,
                       intake_closed, idem, engineVars, history>>

\* admit, and close_batch after the last request of a submission (ends).
Admit(l, linked, reads, valid, ends) ==
    LET i == count + 1
        c == IF open # 0 THEN open ELSE IF linked THEN i ELSE 0
        no == Refused(l, valid)
        it == Prepared(l, reads, c)
        joined == Joined(chains[c], i, linked, no, ends)
    IN  /\ Stream(i, ends)
        /\ open' = IF linked /\ ~ends THEN c ELSE 0
        /\ \/ /\ no /\ Turned(i, c)
              /\ chains' = IF c = 0 THEN chains ELSE [chains EXCEPT ![c] = joined]
              /\ cascade' = IF c # 0 /\ Complete(joined) THEN <<ReadyChain(c)>> ELSE <<>>
              /\ UNCHANGED <<lanes, gates, deferred, idem, pendq>>
           \/ /\ ~no
              /\ Enter(i, it)
              /\ chains' = LET w == Waiting(chains, it, i)
                           IN  IF c = 0 THEN w ELSE [w EXCEPT ![c] = joined]
              /\ gates' = IF c = 0 THEN gates ELSE [gates EXCEPT ![l] = c]
              /\ UNCHANGED cascade
        /\ UNCHANGED <<voids, batch, in_flight, fail_stop, intake_closed, reserved,
                       filled, turn, faults, history>>

\* admit_expiry, the ledger's own void: judged like a client's resolution.
\* A refused one is declined to the engine.
AdmitExpiry(l) ==
    LET i == count + 1
        it == Prepared(l, TRUE, 0)
    IN  /\ Free /\ ~Paused /\ Cardinality(voids) < MaxVoids
        /\ count' = i /\ voids' = voids \cup {i}
        /\ crossed' = IF open # 0 /\ gates[l] = open THEN crossed \cup {l} ELSE crossed
        /\ \/ /\ Refused(l, TRUE) /\ Turned(i, 0)
              /\ UNCHANGED <<lanes, chains, deferred, idem, pendq>>
           \/ /\ ~Refused(l, TRUE)
              /\ Enter(i, it)
              /\ chains' = Waiting(chains, it, i)
        /\ UNCHANGED <<open, gates, cascade, batch, in_flight, fail_stop,
                       intake_closed, reserved, filled, turn, faults, misordered, burnt>>

\* drain_backlogs: the oldest deferred request is tried again.
RetryDispatch ==
    /\ Free /\ deferred # <<>>
    /\ LET i == Head(deferred)
           l == item[i].lane
       IN  \E taken \in IdemTakes(item[i]), known \in Knows(item[i]), blocked \in Held(item[i]) :
             LET d == Dispatched(item[i], lanes[l], taken, known, blocked)
             IN  /\ d.item # item[i] \/ d.done
                 /\ item' = [item EXCEPT ![i] = d.item]
                 /\ lanes' = [lanes EXCEPT ![l] = Replies(@, d)]
                 /\ deferred' = IF d.done THEN Tail(deferred) ELSE deferred
                 /\ cascade' = IF d.item.deps = {} THEN <<Ready(i)>> ELSE <<>>
                 /\ Send(i, d)
    /\ UNCHANGED <<count, voids, open, chains, gates, batch, in_flight,
                   fail_stop, intake_closed, reserved, filled, turn, faults, history>>

-----------------------------------------------------------------------------
(***************************************************************************)
(* The components' side, and the replies.                                  *)
(***************************************************************************)
\* Results leave in the lane's order; exempt ones in theirs.
SameQueue(i, j) == IF Ordered(i) THEN Ordered(j) /\ item[j].lane = item[i].lane
                                 ELSE ~Ordered(j)

Release(i, dep) ==
    /\ item' = [item EXCEPT ![i].deps = @ \ {dep}]
    /\ cascade' = IF item[i].deps = {dep} THEN <<Ready(i)>> ELSE <<>>

\* on_idem
IdemAnswer(k) ==
    /\ Free
    /\ \A j \in 1..(k - 1) : ~SameQueue(idem[k], idem[j])
    /\ idem' = RemoveAt(idem, k)
    /\ Release(idem[k], "idem")
    /\ UNCHANGED <<count, voids, lanes, open, chains, gates, deferred, batch, in_flight,
                   fail_stop, intake_closed, engineVars, faults, history>>

\* LaneOrderer::violate_every: two results of one lane change places.
SwapReplies(j, k) ==
    /\ faults < MaxFaults /\ j < k /\ Ordered(idem[j]) /\ SameQueue(idem[j], idem[k])
    /\ faults' = faults + 1
    /\ idem' = [idem EXCEPT ![j] = idem[k], ![k] = idem[j]]
    /\ misordered' = misordered \cup {item[idem[j]].lane}
    /\ UNCHANGED <<reactorVars, engineVars, crossed, burnt>>

Places(l) == {i \in reserved \cup filled : Ordered(i) /\ item[i].lane = l}

\* take and Orderer::expect: a place in the order the commands came.  A fence
\* and a record in memory fill it at once.
EngineTake ==
    /\ pendq # <<>>
    /\ LET i == Head(pendq)
           l == item[i].lane
       IN  /\ turn' = IF Ordered(i) /\ Places(l) = {}
                      THEN [turn EXCEPT ![l] = item[i].seq] ELSE turn
           /\ \/ filled' = filled \cup {i} /\ UNCHANGED reserved
              \/ item[i].reads /\ reserved' = reserved \cup {i} /\ UNCHANGED filled
    /\ pendq' = Tail(pendq)
    /\ UNCHANGED <<reactorVars, idem, faults, history>>

\* harvest and Orderer::fill, in the device's order.
EngineFill(i) ==
    /\ reserved' = reserved \ {i} /\ filled' = filled \cup {i}
    /\ UNCHANGED <<reactorVars, idem, pendq, turn, faults, history>>

\* Seeded fault: a finished reply leaves at once.
MayLeaveWhenFilled(i) == TRUE

\* release_seq
MayLeave(i) == ~Ordered(i) \/ item[i].seq = turn[item[i].lane]

\* pop_ready, and on_pending.
PendingAnswer(i) ==
    /\ Free /\ MayLeave(i)
    /\ filled' = filled \ {i}
    /\ turn' = IF ~Ordered(i) THEN turn
               ELSE [turn EXCEPT ![item[i].lane] =
                        IF Places(item[i].lane) = {i} THEN 0 ELSE item[i].seq + 1]
    /\ lanes' = IF Ordered(i)
                THEN [lanes EXCEPT ![item[i].lane].pending_replies = @ - 1] ELSE lanes
    /\ Release(i, "pending")
    /\ UNCHANGED <<count, voids, open, chains, gates, deferred, batch, in_flight,
                   fail_stop, intake_closed, idem, pendq, reserved, faults, history>>

-----------------------------------------------------------------------------
(***************************************************************************)
(* Judging.  A judgment in progress is a record of what it may change: the *)
(* lanes, the fail-stop, whether it has failed.                            *)
(***************************************************************************)
Judgment == [lanes |-> lanes, stop |-> fail_stop, failed |-> FALSE, burnt |-> burnt]

Quarantined(lns) == {l \in Accounts : lns[l].quarantined}

\* on_seq_gap: the lane is lost to the component that broke its order, and enough of
\* them stop the node.
OnSeqGap(j, l) ==
    [j EXCEPT !.failed = TRUE, !.lanes[l].quarantined = TRUE,
              !.stop = Cardinality(Quarantined(j.lanes) \cup {l}) >= LanesToFail]

\* accept: every request consumes its seq, in order, before anything else.
Accept(j, i) ==
    LET l  == item[i].lane
        ln == j.lanes[l]
    IN  IF j.stop
        THEN [j EXCEPT !.failed = TRUE,
                       !.burnt = IF Ordered(i) THEN @ \cup {l} ELSE @]
        ELSE IF ln.quarantined THEN [j EXCEPT !.failed = TRUE]
        ELSE IF ~Ordered(i) THEN j
        ELSE IF item[i].seq = ln.last_seq + 1
        THEN [j EXCEPT !.lanes[l].last_seq = item[i].seq]
        ELSE OnSeqGap(j, l)

Left(lns, ids) == [l \in Accounts |-> [lns[l] EXCEPT !.in_flight =
                      @ - Cardinality({i \in ids : item[i].lane = l})]]

\* finish, for each of ids.
Finished(its, ids, stage) ==
    [i \in Ids |-> IF i \in ids THEN Outside(stage, its[i].chain) ELSE its[i]]

\* The requests ids, in that order, are judged together as j says: all of
\* them go to the batch or all are answered.  its is the items with what the
\* step does to them besides.
Decide(ids, j, its) ==
    LET all == Range(ids)
    IN  /\ fail_stop' = j.stop /\ burnt' = j.burnt
        /\ IF j.failed
           THEN /\ item' = Finished(its, all, "rejected")
                /\ lanes' = Left(j.lanes, all)
                /\ UNCHANGED batch
           ELSE /\ item' = [i \in Ids |-> IF i \in all THEN [its[i] EXCEPT !.stage = "judged"]
                                        ELSE its[i]]
                /\ lanes' = j.lanes
                /\ batch' = batch \o ids

\* judge: refused stands for a duplicate, the balance and the hold rules.
Judge(i, refused) ==
    LET j == Accept(Judgment, i)
    IN  /\ Decide(<<i>>, [j EXCEPT !.failed = @ \/ refused], item)
        /\ cascade' = Tail(cascade)
        /\ UNCHANGED <<chains, gates>>

\* open_gates: what waited behind the chain waits no more.
Freed(its, gated) == [i \in Ids |-> IF i \in Range(gated)
                                    THEN [its[i] EXCEPT !.deps = @ \ {"linked_chain"}]
                                    ELSE its[i]]

\* judge_chain: every leg consumes its seq even once the chain is doomed.
JudgeChain(c, ch, refused) ==
    LET j == FoldLeft(Accept, [Judgment EXCEPT !.failed = ch.failure], ch.legs)
        its == Freed(item, ch.gated)
    IN  /\ Decide(ch.legs, [j EXCEPT !.failed = @ \/ refused], its)
        /\ chains' = [chains EXCEPT ![c] = NoChain]
        /\ gates' = [l \in Accounts |-> IF gates[l] = c THEN 0 ELSE gates[l]]
        /\ cascade' = LET freed == SelectSeq(ch.gated, LAMBDA i : its[i].deps = {})
                      IN  [k \in 1..Len(freed) |-> Ready(freed[k])] \o Tail(cascade)

\* run_cascade, one job: a lone request, a leg whose chain still waits, or the
\* leg (or the refused leg, or the end of the batch) that completes a chain.
JudgeNext(refused) ==
    LET job == Head(cascade)
        c   == IF job.chain # 0 THEN job.chain ELSE item[job.slot].chain
        ch  == IF job.chain # 0 THEN chains[c] ELSE [chains[c] EXCEPT !.outstanding = @ - 1]
    IN  /\ cascade # <<>>
        /\ \/ c = 0 /\ Judge(job.slot, refused)
           \/ /\ c # 0 /\ ~Complete(ch) /\ ~refused
              /\ chains' = [chains EXCEPT ![c] = ch]
              /\ cascade' = Tail(cascade)
              /\ UNCHANGED <<item, lanes, gates, batch, fail_stop, burnt>>
           \/ c # 0 /\ Complete(ch) /\ JudgeChain(c, ch, refused)
        /\ UNCHANGED <<count, voids, open, deferred, in_flight, intake_closed, idem,
                       engineVars, faults, misordered, crossed>>

-----------------------------------------------------------------------------
(***************************************************************************)
(* Proposing, applying, and the operator's two actions.                    *)
(***************************************************************************)
\* Seeded fault: the chain the batch ends in might go on.
BoundaryMightGoOn(take) ==
    LET cuts(n) == /\ n > 0 /\ item[batch[n]].chain # 0
                   /\ n < Len(batch) => item[batch[n]].chain = item[batch[n + 1]].chain
    IN  CHOOSE n \in 0..take : ~cuts(n) /\ \A m \in (n + 1)..take : cuts(m)

\* chain_boundary: no chain is cut in two.
Boundary(take) ==
    LET cuts(n) == /\ n > 0 /\ n < Len(batch)
                   /\ item[batch[n]].chain # 0
                   /\ item[batch[n]].chain = item[batch[n + 1]].chain
    IN  CHOOSE n \in 0..take : ~cuts(n) /\ \A m \in (n + 1)..take : cuts(m)

Propose ==
    /\ Free /\ batch # <<>> /\ Len(in_flight) < InFlightLimit
    /\ LET take == Boundary(IF Len(batch) < MaxBatch THEN Len(batch) ELSE MaxBatch)
       IN  /\ in_flight' = Append(in_flight, SubSeq(batch, 1, take))
           /\ batch' = SubSeq(batch, take + 1, Len(batch))
    /\ UNCHANGED <<item, count, voids, lanes, open, chains, gates, deferred, cascade,
                   fail_stop, intake_closed, idem, engineVars, faults, history>>

\* apply: consensus answers for its oldest batch.
Apply(committed) ==
    /\ Free /\ in_flight # <<>>
    /\ committed \/ faults < MaxFaults
    /\ faults' = IF committed THEN faults ELSE faults + 1
    /\ LET ids == Range(Head(in_flight))
       IN  /\ item' = Finished(item, ids, IF committed THEN "committed" ELSE "rejected")
           /\ lanes' = Left(lanes, ids)
    /\ in_flight' = Tail(in_flight)
    /\ UNCHANGED <<count, voids, open, chains, gates, deferred, cascade, batch, fail_stop,
                   intake_closed, idem, engineVars, history>>

\* release_quarantine: the lane starts again from the seq it last judged, so
\* what went wrong before no longer counts.
ReleaseQuarantine(l) ==
    /\ Free /\ lanes[l].quarantined /\ lanes[l].in_flight = 0
    /\ lanes' = [lanes EXCEPT ![l].quarantined = FALSE, ![l].seq_counter = lanes[l].last_seq]
    /\ misordered' = misordered \ {l} /\ crossed' = crossed \ {l}
    /\ burnt' = burnt \ {l}
    /\ UNCHANGED <<item, count, voids, open, chains, gates, deferred, cascade, batch,
                   in_flight, fail_stop, intake_closed, idem, engineVars, faults>>

ClearFailStop ==
    /\ Free /\ fail_stop /\ in_flight = <<>>
    /\ fail_stop' = FALSE
    /\ UNCHANGED <<item, count, voids, lanes, open, chains, gates, deferred, cascade, batch,
                   in_flight, intake_closed, idem, engineVars, faults, history>>

\* close_intake: the service stops admitting, and goes on until all is answered.
CloseIntake ==
    /\ Free /\ ~intake_closed
    /\ intake_closed' = TRUE
    /\ UNCHANGED <<item, count, voids, lanes, open, chains, gates, deferred, cascade, batch,
                   in_flight, fail_stop, idem, engineVars, faults, history>>

-----------------------------------------------------------------------------
Client == \E ends \in BOOLEAN :
             \/ \E l \in Accounts, linked, reads, valid \in BOOLEAN :
                  Admit(l, linked, reads, valid, ends)
             \/ AdmitReserved(ends)

Components == \/ EngineTake
              \/ \E i \in reserved : EngineFill(i)

Drain == \/ RetryDispatch
         \/ \E k \in 1..Len(idem) : IdemAnswer(k)
         \/ \E i \in filled : PendingAnswer(i)
         \/ \E refused \in BOOLEAN : JudgeNext(refused)
         \/ Propose
         \/ \E committed \in BOOLEAN : Apply(committed)

Environment == \/ Client
               \/ \E l \in Accounts : AdmitExpiry(l) \/ ReleaseQuarantine(l)
               \/ \E j, k \in 1..Len(idem) : SwapReplies(j, k)
               \/ ClearFailStop
               \/ CloseIntake

Next == Environment \/ Components \/ Drain

Spec == Init /\ [][Next]_vars

\* The three threads run forever, and a client that has begun a chain goes on
\* to the end of its submission.
Progress == Drain \/ Components \/ (open # 0 /\ Client)
FairSpec == Spec /\ WF_vars(Progress)

-----------------------------------------------------------------------------

\* The reactor makes no gap of its own: a lane is isolated only after the
\* component broke its order, a void entered the lane inside an open chain, or
\* a fail-stop refused a request that had its seq.
GapHasACause ==
    \A l \in Accounts : lanes[l].quarantined => l \in misordered \cup crossed \cup burnt

\* A linked chain commits whole or not at all, whatever refused one leg: the
\* shape, a full slot pool, the judge, the end of the submission or consensus.
ChainWhole ==
    \A i, k \in 1..count :
       /\ item[i].chain # 0 /\ item[i].chain = item[k].chain
       /\ item[i].stage = "committed"
       => item[k].stage = "committed"

\* The engine's orderer never waits for a seq that will not come: the places
\* it holds for a lane run on from the one it may release next.
OrdererKeepsUp ==
    \A l \in Accounts :
       LET seqs == {item[i].seq : i \in Places(l)}
       IN  seqs # {} => seqs = turn[l]..(turn[l] + Cardinality(seqs) - 1)

\* Every question on its way is of a request still open that waits for that
\* very answer, so no answer reaches a slot that has been given to another.
NoOrphanAnswer ==
    /\ \A k \in 1..Len(idem) : item[idem[k]].stage = "open" /\ "idem" \in item[idem[k]].deps
    /\ \A i \in Range(pendq) \cup reserved \cup filled :
          item[i].stage = "open" /\ "pending" \in item[i].deps

\* What the two components owe the reactor: every question on its way is of a request
\* that waits for it, and the engine can let every answer it holds go in turn.
\* (orderer.rs pop_ready; judge.rs on_idem, on_pending.)
RepliesBelong == NoOrphanAnswer /\ OrdererKeepsUp

\* The counts a lane's decisions are made by are the counts of the requests
\* they stand for: what must be fenced behind, and whether it has drained.
LaneBooksBalance ==
    \A l \in Accounts :
       /\ lanes[l].in_flight = Cardinality({i \in Ids : Open(i) /\ item[i].lane = l})
       /\ lanes[l].pending_replies =
             Cardinality({i \in Range(pendq) \cup reserved \cup filled :
                             Ordered(i) /\ item[i].lane = l})

\* Every request that took a slot is answered, and gives it back: no gate, fence, chain or
\* deferred dispatch is waited for in vain, and what was judged is proposed, also when a
\* chain crosses the batch's ceiling.  Only a stop that cuts a chain in the middle leaves
\* something behind.  (linked.rs open_gates, batcher.rs chain_boundary, reactor.rs finish.)
EveryRequestAnswered ==
    <>[]((intake_closed /\ open # 0) \/ \A i \in Ids : ~Open(i))
=============================================================================
