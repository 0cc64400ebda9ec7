--------------------------------- MODULE Sweep ---------------------------------
(***************************************************************************)
(* The expiry sweep: the engine's cursor over the days that have run out,  *)
(* the blocks it walks, the voids it offers and has not seen land, the     *)
(* notices that carry them, the sequencer's queue of parked voids and what *)
(* becomes of each, and the declines that come back.                       *)
(*                                                                         *)
(* Sources: src/pending/src/engine.rs (open_day, propose_expiry, harvest), *)
(* memory.rs (sweep_expiry, hand_over_notices), block.rs (walk_day_block), *)
(* src/sequencer/src/state/expiry.rs, reactor.rs, reactor/intake.rs.       *)
(*                                                                         *)
(* A block holds one record.  What the record log does with it is module   *)
(* RecordLog, how a resolution is judged is module HoldPath: here a hold is*)
(* resolved by at most one of a void and a client at a time.               *)
(***************************************************************************)
EXTENDS Integers, Sequences, FiniteSets, SequencesExt, FiniteSetsExt

CONSTANTS
    Holds,
    Segments,       \* SEGMENTS
    Lifetime,       \* lifetime_days
    PerRound,       \* expiry_blocks_per_round
    NoticeCap,      \* the notice ring
    CmdCap,         \* the command ring
    Backlog,        \* expiry_backlog
    FirstDay,       \* the day the node starts on, never a small number
    MaxDay, MaxTurns,    \* bounds of the model
    None

ASSUME SweepAssumption ==
    /\ {Segments, Lifetime, PerRound, NoticeCap, CmdCap, Backlog} \subseteq Nat \ {0}
    /\ Lifetime < Segments
    /\ {MaxDay, MaxTurns} \subseteq Nat
    /\ FirstDay \in Nat /\ FirstDay >= 2 * Segments
    /\ None \notin Nat

VARIABLES
    clock,       \* the wall's day
    recs,        \* block number -> the hold recorded there and the day it was sealed
    index,       \* hold -> its block, 0 while it is only in the writeback buffer, or None
    range,       \* segment -> the blocks of its day, [first, blocks]
    engine,      \* [today, cursor, at_block, outstanding, arrived, declined, reading]
    owed,        \* the worker's notices not handed over
    notices,     \* the notice ring
    wants,       \* wants_expiry
    parked,      \* the sequencer's queue of voids
    inflight,    \* holds whose void has a slot and has not been judged
    resolver,    \* hold -> who has resolved it and waits for consensus
    declines,    \* declines the command ring would not take
    cmds,        \* the command ring
    lapsed,      \* history: the cursor in force was placed over a hold older than a cycle
    let_go,      \* history: the voids nobody carries any more and the engine waits for
    turns

sequencer == <<wants, parked, inflight, resolver, declines>>
vars == <<clock, recs, index, range, engine, owed, notices, sequencer, cmds, lapsed, let_go, turns>>

\* Declines, partial settles, refused batches and restarts are bounded together.
Turn == turns < MaxTurns /\ turns' = turns + 1

-----------------------------------------------------------------------------
(* Days and segments.                                                      *)

Segs == 0..(Segments - 1)
NoRange == [first |-> 0, blocks |-> 0]
NewEngine == [today |-> 0, cursor |-> None, at_block |-> 0, outstanding |-> {},
              arrived |-> <<>>, declined |-> {}, reading |-> {}]

SegmentOf(block) == recs[block].day % Segments
OnBlock(h) == index[h] \notin {None, 0}
LiveIn(segment) == {h \in Holds : OnBlock(h) /\ SegmentOf(index[h]) = segment}
Overdue(h) == OnBlock(h) /\ recs[index[h]].day + Lifetime <= clock
PointsAt(out) == index[out.hold] = out.block
\* The hold's day ran out less than a cycle of segments ago, if it has.
Recent(h) == recs[index[h]].day + Lifetime + Segments > clock

\* A mutant: a new leader starts at the day that has just run out.
OldestExpiredDay(day) == IF day < Lifetime THEN 0 ELSE day - Lifetime
\* oldest_unfinished_day: the oldest expired day the counts say has holds left.
OldestUnfinishedDay(day) ==
    LET through == day - Lifetime
        last(s) == through - ((through + Segments - s) % Segments)
    IN IF through < 0 THEN 0
       ELSE Min({last(s) : s \in {t \in Segs : LiveIn(t) # {}}} \cup {through})

DayHasASegment(cursor, day) == day - cursor < Segments

\* open_day: the cursor is placed, and the day moves if its segment is free.
Opened(e, day) ==
    LET cursor == IF e.cursor = None THEN OldestUnfinishedDay(day) ELSE e.cursor
        opens == day # e.today /\ DayHasASegment(cursor, day)
    IN [e EXCEPT !.cursor = cursor, !.today = IF opens THEN day ELSE @]

Behind(e) == e.today - Lifetime >= e.cursor
ExpiringSegment(e) == e.cursor % Segments

\* reclaim: every closed segment nothing points into is handed back.
Reclaimed(e) ==
    [s \in Segs |-> IF s # e.today % Segments /\ LiveIn(s) = {} THEN NoRange ELSE range[s]]

-----------------------------------------------------------------------------
(* propose_expiry, from one engine and slice to the next.                  *)

Void(block) == [hold |-> recs[block].hold, block |-> block]
Voids(blocks) == {Void(b) : b \in {c \in blocks : PointsAt(Void(c))}}
Offer(e, holds) == [e |-> e, found |-> holds]

\* The walk: n blocks of the day, each in memory (held) or asked of the volume.
\* Coming to the end with blocks to spare starts it over.
Walked(e, n, held) ==
    LET day == range[ExpiringSegment(e)]
        from == day.first + e.at_block
        blocks == from .. (from + n - 1)
        ends == n < PerRound /\ e.at_block + n = day.blocks
    IN Offer([e EXCEPT !.at_block = IF ends THEN 0 ELSE @ + n,
                       !.outstanding = @ \cup Voids(blocks \cap held),
                       !.reading = @ \cup (blocks \ held)],
             SetToSeq({v.hold : v \in Voids(blocks \cap held)}))

\* A full read queue ends a walk early; a round it lets nothing of is no round.
Walks(e) ==
    LET left == range[ExpiringSegment(e)].blocks - e.at_block IN
    IF left = 0 THEN {Offer([e EXCEPT !.at_block = 0], <<>>)}
    ELSE UNION {{Walked(e, n, held) :
                   held \in SUBSET {range[ExpiringSegment(e)].first + e.at_block + i : i \in 0..(n - 1)}} :
                n \in 1..Min({PerRound, left})}

\* A mutant: a declined void waits for the walk to come round.
ReofferedNot(e) == Offer([e EXCEPT !.declined = {}], <<>>)
\* The voids the sequencer handed back, and no others, are offered again.
Reoffered(e) ==
    Offer([e EXCEPT !.declined = {}],
          SetToSeq({v.hold : v \in {o \in e.outstanding : o.hold \in e.declined}}))

Proposed(e) ==
    LET kept == [e EXCEPT !.outstanding = {o \in @ : PointsAt(o)}] IN
    IF LiveIn(ExpiringSegment(e)) = {}
      THEN {Offer([e EXCEPT !.cursor = @ + 1, !.at_block = 0], <<>>)}
    ELSE IF kept.arrived # <<>> THEN {Offer([kept EXCEPT !.arrived = <<>>], kept.arrived)}
    ELSE IF kept.declined # {} THEN {Reoffered(kept)}
    ELSE IF kept.outstanding # {} \/ kept.reading # {} THEN {Offer(kept, <<>>)}
    ELSE Walks(kept)

-----------------------------------------------------------------------------
(* The worker's stages.                                                    *)

HandOverNotices ==
    /\ owed # <<>> /\ Len(notices) < NoticeCap
    /\ notices' = Append(notices, Head(owed))
    /\ owed' = Tail(owed)
    /\ UNCHANGED <<clock, recs, index, range, engine, sequencer, cmds, lapsed, let_go, turns>>

\* sweep_expiry: the day, what can be handed back, and a slice if the last one
\* has been handed over and the sequencer has room.
SweepExpiry ==
    LET opened == Opened(engine, clock)
        may == Behind(opened) /\ owed = <<>> /\ wants
    IN /\ range' = Reclaimed(opened)
       /\ \E step \in IF may THEN Proposed(opened) ELSE {Offer(opened, <<>>)} :
            engine' = step.e /\ owed' = owed \o step.found
       /\ lapsed' = IF engine.cursor = None THEN \E h \in Holds : OnBlock(h) /\ ~Recent(h)
                    ELSE lapsed
       /\ UNCHANGED <<clock, recs, index, notices, sequencer, cmds, let_go, turns>>

\* take, of the commands this module is about.
Take ==
    /\ cmds # <<>> /\ cmds' = Tail(cmds)
    /\ LET c == Head(cmds) IN
         \/ /\ c.kind = "declined"
            /\ engine' = [engine EXCEPT !.declined = @ \cup {c.hold}]
            /\ UNCHANGED index
         \/ /\ c.kind = "reduce"
            /\ index' = [index EXCEPT ![c.hold] = IF @ = None THEN @ ELSE 0]
            /\ UNCHANGED engine
         \/ /\ c.kind = "remove"
            /\ index' = [index EXCEPT ![c.hold] = None]
            /\ UNCHANGED engine
    /\ UNCHANGED <<clock, recs, range, owed, notices, sequencer, lapsed, let_go, turns>>

\* harvest: a block the sweep asked for.  What is still pointed at is offered.
Harvest ==
    \E b \in engine.reading :
      /\ engine' = [engine EXCEPT !.reading = @ \ {b},
                                  !.outstanding = @ \cup Voids({b}),
                                  !.arrived = @ \o SetToSeq({v.hold : v \in Voids({b})})]
      /\ UNCHANGED <<clock, recs, index, range, owed, notices, sequencer, cmds, lapsed, let_go, turns>>

\* drain: a buffered record is carried to a block of the day that is open.
Carry ==
    /\ engine.cursor # None
    /\ \E h \in {g \in Holds : index[g] = 0} :
         LET segment == engine.today % Segments
             block == Len(recs) + 1
             day == range[segment]
         IN /\ recs' = Append(recs, [hold |-> h, day |-> engine.today])
            /\ index' = [index EXCEPT ![h] = block]
            /\ range' = [range EXCEPT ![segment] =
                           [first |-> IF day.blocks = 0 THEN block ELSE day.first,
                            blocks |-> day.blocks + 1]]
    /\ UNCHANGED <<clock, engine, owed, notices, sequencer, cmds, lapsed, let_go, turns>>

-----------------------------------------------------------------------------
(* The sequencer.                                                          *)

\* A copy of the hold's void is on its way to the sequencer, in it, or back.
Travels(h) ==
    \/ h \in UNION {Range(q) : q \in {owed, notices, parked, declines, engine.arrived}}
    \/ h \in inflight \cup engine.declined
    \/ \E i \in DOMAIN cmds : cmds[i] = [kind |-> "declined", hold |-> h]

\* The voids of the hold the engine waits for, when this step ended the last copy.
LetGo(h) == {v \in engine.outstanding : v.hold = h /\ PointsAt(v) /\ ~Travels(v.hold)'}

\* ExpiryQueue: room is asked for one void, and one it cannot park is let go.
HasRoom == Len(parked) < Backlog
Park(h) == IF HasRoom THEN Append(parked, h) ELSE parked

\* publish_expiry_room: at the start of a tick, and read by the other thread.
PublishExpiryRoom ==
    /\ wants # HasRoom
    /\ wants' = ~wants
    /\ UNCHANGED <<clock, recs, index, range, engine, owed, notices, parked, inflight,
                   resolver, declines, cmds, lapsed, let_go, turns>>

\* drain_pending_notices, of one: parked, or lost when there is no room.
DrainNotice ==
    /\ notices # <<>> /\ notices' = Tail(notices)
    /\ parked' = Park(Head(notices))
    /\ UNCHANGED <<clock, recs, index, range, engine, owed, wants, inflight, resolver,
                   declines, cmds, lapsed, turns>>
    /\ let_go' = IF HasRoom THEN let_go ELSE let_go \cup LetGo(Head(notices))

Room == Len(cmds) < CmdCap
\* decline_expiry: sent, or kept behind the ones that were not taken.
DeclineExpiry(h) ==
    IF declines = <<>> /\ Room
      THEN cmds' = Append(cmds, [kind |-> "declined", hold |-> h]) /\ UNCHANGED declines
      ELSE declines' = Append(declines, h) /\ UNCHANGED cmds

\* admit_expiry: a slot and a place in the lane, or a refusal the engine hears of.
AdmitExpiry(h) ==
    \/ /\ inflight' = inflight \cup {h}
       /\ UNCHANGED <<declines, cmds, turns>>
    \/ /\ Turn
       /\ DeclineExpiry(h)
       /\ UNCHANGED inflight

\* admit_parked_expiry, of one.
AdmitParkedExpiry ==
    /\ parked # <<>> /\ parked' = Tail(parked)
    /\ AdmitExpiry(Head(parked))
    /\ UNCHANGED <<clock, recs, index, range, engine, owed, notices, wants, resolver,
                   lapsed, let_go>>

\* flush: drain_declines.
DrainDeclines ==
    /\ declines # <<>> /\ Room
    /\ cmds' = Append(cmds, [kind |-> "declined", hold |-> Head(declines)])
    /\ declines' = Tail(declines)
    /\ UNCHANGED <<clock, recs, index, range, engine, owed, notices, wants, parked,
                   inflight, resolver, lapsed, let_go, turns>>

\* The hold is still there as far as the judge can tell.
Standing(h) ==
    /\ index[h] # None /\ resolver[h] = None
    /\ ~ \E i \in DOMAIN cmds : cmds[i] = [kind |-> "remove", hold |-> h]

\* judge: a hold nobody has resolved, or the void is finished and that is all.
JudgeVoid ==
    /\ \E h \in inflight :
         /\ inflight' = inflight \ {h}
         /\ resolver' = IF Standing(h) THEN [resolver EXCEPT ![h] = "void"] ELSE resolver
    /\ UNCHANGED <<clock, recs, index, range, engine, owed, notices, wants, parked,
                   declines, cmds, lapsed, let_go, turns>>

\* A client's settle or void of a hold, whole or in part.
ClientResolves ==
    /\ \E h \in {g \in Holds : Standing(g)} :
         \/ /\ resolver' = [resolver EXCEPT ![h] = "client"]
            /\ UNCHANGED <<cmds, turns>>
         \/ /\ Turn /\ Room
            /\ cmds' = Append(cmds, [kind |-> "reduce", hold |-> h])
            /\ UNCHANGED resolver
    /\ UNCHANGED <<clock, recs, index, range, engine, owed, notices, wants, parked,
                   inflight, declines, lapsed, let_go>>

\* Consensus: the removal is handed over, or the resolution is taken back and its
\* request finished.
Outcome ==
    /\ UNCHANGED <<clock, recs, index, range, engine, owed, notices, wants, parked,
                   inflight, declines, lapsed>>
    /\ \E h \in {g \in Holds : resolver[g] # None} :
         /\ resolver' = [resolver EXCEPT ![h] = None]
         /\ \/ /\ Room /\ cmds' = Append(cmds, [kind |-> "remove", hold |-> h])
               /\ UNCHANGED <<let_go, turns>>
            \/ /\ Turn /\ UNCHANGED cmds
               /\ let_go' = let_go \cup LetGo(h)

-----------------------------------------------------------------------------
NextDay ==
    /\ clock < MaxDay /\ clock' = clock + 1
    /\ UNCHANGED <<recs, index, range, engine, owed, notices, sequencer, cmds, lapsed, let_go, turns>>

\* A restart: the cursor, the slice and everything on its way are volatile; the
\* index is what the log says it is, and a day's range what its live slots span.
Restart ==
    /\ Turn
    /\ index' = [h \in Holds |->
                   IF \E i \in DOMAIN cmds : cmds[i] = [kind |-> "remove", hold |-> h] THEN None
                   ELSE IF \E i \in DOMAIN cmds : cmds[i] = [kind |-> "reduce", hold |-> h] /\ index[h] # None
                     THEN 0 ELSE index[h]]
    /\ range' = [s \in Segs |->
                   LET blocks == {index[h] : h \in LiveIn(s)} IN
                   IF blocks = {} THEN NoRange
                   ELSE [first |-> Min(blocks), blocks |-> Max(blocks) - Min(blocks) + 1]]
    /\ engine' = NewEngine
    /\ owed' = <<>> /\ notices' = <<>> /\ wants' = TRUE /\ parked' = <<>>
    /\ inflight' = {} /\ resolver' = [h \in Holds |-> None]
    /\ declines' = <<>> /\ cmds' = <<>> /\ let_go' = {}
    /\ UNCHANGED <<clock, recs, lapsed>>

Init ==
    /\ clock = FirstDay /\ recs = <<>> /\ index = [h \in Holds |-> 0]
    /\ range = [s \in Segs |-> NoRange] /\ engine = NewEngine
    /\ owed = <<>> /\ notices = <<>> /\ wants = TRUE /\ parked = <<>>
    /\ inflight = {} /\ resolver = [h \in Holds |-> None]
    /\ declines = <<>> /\ cmds = <<>> /\ lapsed = FALSE /\ let_go = {}
    /\ turns = 0

Worker == HandOverNotices \/ SweepExpiry \/ Take \/ Harvest \/ Carry
Tick == PublishExpiryRoom \/ DrainNotice \/ AdmitParkedExpiry \/ DrainDeclines \/ JudgeVoid
Next == Worker \/ Tick \/ ClientResolves \/ Outcome \/ NextDay \/ Restart

\* Both loops run every stage each time round, and consensus answers.  Nothing
\* makes a client act, the day end or the node restart.
Fairness ==
    /\ WF_vars(HandOverNotices) /\ WF_vars(SweepExpiry) /\ WF_vars(Take)
    /\ WF_vars(Harvest) /\ WF_vars(Carry)
    /\ WF_vars(PublishExpiryRoom) /\ WF_vars(DrainNotice) /\ WF_vars(AdmitParkedExpiry)
    /\ WF_vars(DrainDeclines) /\ WF_vars(JudgeVoid) /\ WF_vars(Outcome)

Spec == Init /\ [][Next]_vars /\ Fairness

-----------------------------------------------------------------------------
(* Properties.                                                             *)

\* A day is open: not so from a restart until open_day takes the first one.
DayOpen == engine.today # 0

\* No day is stepped over: a hold on a block belongs to the cursor's day or a later
\* one, also after a restart has placed the cursor anew from the counts.
\* (engine.rs: Sweep, oldest_unfinished_day.)
NoDaySkipped ==
    DayOpen => \A h \in Holds : OnBlock(h) => recs[index[h]].day >= engine.cursor

\* A segment number means one day: holds of two days never share one, however far
\* the sweep has fallen behind.  (engine.rs day_has_a_segment.)
OneDayPerSegment ==
    \A g, h \in Holds :
      DayOpen /\ OnBlock(g) /\ OnBlock(h) /\ SegmentOf(index[g]) = SegmentOf(index[h])
        => recs[index[g]].day = recs[index[h]].day

\* The calendar of days and segments: the cursor leaves no hold behind it and no two
\* days share a segment, across late voids, slow sweeps and restarts.  A restart that
\* finds a hold more than a cycle behind (the node was away that long, or it ran on a
\* calendar that had stopped) takes its day for a later one: the counts name segments.
\* (engine.rs open_day, propose_expiry, oldest_unfinished_day, day_has_a_segment.)
DaysKeptApart == lapsed \/ (NoDaySkipped /\ OneDayPerSegment)

\* The calendar has stopped: the day the clock shows has no segment, and no day is
\* owed to the sweep whose end would free one.
Stopped ==
    /\ engine.cursor # None
    /\ ~DayHasASegment(engine.cursor, clock) /\ ~Behind(engine)

\* A void of the hold's block, offered once, is let go: no copy of it is anywhere.
Forgotten(h) == OnBlock(h) /\ Void(index[h]) \in let_go

\* A hold whose day has run out is released, or resolved, or written anew, and so
\* the day ends, also after restarts and whatever is declined or beaten by a client.
\* Two things stop it: the calendar has stopped, or a void that still points at its
\* hold was let go, by a queue without room for it or by a refused batch.
\* (engine.rs propose_expiry; reactor.rs drain_pending_notices; state/pending.rs
\* decline_expiry.)
DayFinishes ==
    \A h \in Holds : []<>(~Overdue(h) \/ Stopped \/ \E g \in Holds : Forgotten(g))

===============================================================================
