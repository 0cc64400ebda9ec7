------------------------------- MODULE RecordLog -------------------------------
(***************************************************************************)
(* The pending engine's records: how a committed decision becomes a record *)
(* in the writeback buffer, survives compaction into the block being       *)
(* filled, is sealed, written by the volume's lane and covered by a        *)
(* barrier; what the snapshot says of all that; and what a restart rebuilds*)
(* from the snapshot, the volume and the log's tail.                       *)
(*                                                                         *)
(* Sources: src/pending/src/block.rs (RecordLog and the DurableStore       *)
(* contract), engine.rs (the effects, drain, days, restore), snapshot.rs.  *)
(*                                                                         *)
(* The index is a function from keys to addresses: what HoldTable promises *)
(* (module HoldTable).  A dump's bytes reach their name atomically: what   *)
(* Snapshots promises (module Snapshots).  A record is the key it is for   *)
(* and what the hold has left; a block is a sequence of records.           *)
(***************************************************************************)
EXTENDS Integers, Sequences, FiniteSets, SequencesExt, FiniteSetsExt

CONSTANTS
    Keys,            \* the holds' keys
    Grouped,         \* those of them that are members of the budget group
    Amount,          \* what every hold is created with
    PerBlock,        \* RECORDS_PER_BLOCK
    FlushBlocks,     \* the writeback window
    ResidentBlocks,  \* the residency window
    DrainBlocks,     \* drain_blocks_per_round
    Ceiling,         \* buffer_ceiling
    Segments,        \* SEGMENTS
    Lifetime,        \* lifetime_days
    Depth,           \* the volume's write queue
    MaxEffects, MaxDay, MaxCrashes, MaxRefused, MaxDumps,   \* bounds of the model
    None

ASSUME RecordLogAssumption ==
    /\ Grouped \subseteq Keys
    /\ PerBlock \in Nat \ {0} /\ FlushBlocks \in Nat \ {0}
    /\ Segments \in Nat \ {0} /\ Amount \in Nat \ {0}
    /\ {ResidentBlocks, DrainBlocks, Ceiling, Lifetime, Depth} \subseteq Nat
    /\ {MaxEffects, MaxDay, MaxCrashes, MaxRefused, MaxDumps} \subseteq Nat

VARIABLES
    log,       \* the decisions consensus has committed, in log order
    engine,    \* [applied_through, index, members, remaining, today, sweep_day]
    records,   \* RecordLog's own fields
    lane,      \* operations the volume has taken and not yet done, in order
    done,      \* operations answered and not collected
    files,     \* what the volume holds: segment -> block number -> records
    disk,      \* the part of it a crash cannot take
    dump,      \* the snapshot being written
    current,   \* the snapshot a restart reads
    replaying, \* groups_reflect while the log's tail is replayed, else None
    strayed,   \* holds a replay treated otherwise than their first time: a
               \* repoint that found nothing, a member counted out twice
    crashes, refused, dumps

vars == <<log, engine, records, lane, done, files, disk, dump, current,
          replaying, strayed, crashes, refused, dumps>>

-----------------------------------------------------------------------------
(* Addresses and blocks.                                                   *)

Segs == 0..(Segments - 1)
\* BUFFER_SEGMENT: the one number no day has.
Buffer == Segments

RecordAddr(segment, block, i) == [segment |-> segment, block |-> block, index |-> i]
IsBuffered(addr) == addr.segment = Buffer

Filling == [recs |-> <<>>, began_at |-> 0]
Full(block) == Len(block.recs) = PerBlock
PutAt(block, rec, at) ==
    [recs |-> Append(block.recs, rec),
     began_at |-> IF block.recs = <<>> THEN at ELSE block.began_at]

NoRange == [first |-> 0, blocks |-> 0]
Note(range, block) ==
    [first |-> IF range.blocks = 0 THEN block ELSE range.first,
     blocks |-> range.blocks + 1]

NewLog ==
    [buffer |-> <<Filling>>, oldest |-> 0, store_open |-> Filling,
     resident |-> <<>>, oldest_resident |-> 0, pending_writes |-> <<>>,
     barrier |-> FALSE, unsynced |-> None, after_barrier |-> None,
     segment |-> 0, days |-> [s \in Segs |-> NoRange], next_block |-> 0,
     fault_owed |-> FALSE]

NewEngine ==
    [applied_through |-> 0, index |-> [k \in Keys |-> None],
     members |-> 0, remaining |-> 0, today |-> 0, sweep_day |-> None]

NoFile == <<>>

-----------------------------------------------------------------------------
(* RecordLog's operations, each from one log to the next.                  *)

\* append: the back block of the buffer, or a new one behind it.
Appended(r, rec, at) ==
    LET fresh == Full(Last(r.buffer))
        buffer == IF fresh THEN Append(r.buffer, Filling) ELSE r.buffer
    IN [r EXCEPT !.buffer = Front(buffer) \o <<PutAt(Last(buffer), rec, at)>>]
AppendedAt(r) ==
    RecordAddr(Buffer, r.oldest + Len(r.buffer) - 1, Len(Last(r.buffer).recs))

OverWindow(r) == Len(r.buffer) > FlushBlocks

\* A mutant: a block closed under a barrier counts as covered by it.
SealedUnderBarrier(r) ==
    LET run == [block |-> r.next_block, began_at |-> r.store_open.began_at]
        owed == [op |-> "write", segment |-> r.segment, block |-> r.next_block,
                 creating |-> r.days[r.segment].blocks = 0]
    IN [r EXCEPT
          !.unsynced = IF @ = None THEN run ELSE @,
          !.days[r.segment] = Note(@, r.next_block),
          !.resident = Append(@, r.store_open),
          !.pending_writes = Append(@, owed),
          !.next_block = @ + 1,
          !.store_open = Filling]

\* seal_block: the block joins the run its next barrier covers, enters
\* residency at once, and its write is owed.
Sealed(r) ==
    LET run == [block |-> r.next_block, began_at |-> r.store_open.began_at]
        owed == [op |-> "write", segment |-> r.segment, block |-> r.next_block,
                 creating |-> r.days[r.segment].blocks = 0]
    IN [r EXCEPT
          !.after_barrier = IF r.barrier /\ @ = None THEN run ELSE @,
          !.unsynced = IF ~r.barrier /\ @ = None THEN run ELSE @,
          !.days[r.segment] = Note(@, r.next_block),
          !.resident = Append(@, r.store_open),
          !.pending_writes = Append(@, owed),
          !.next_block = @ + 1,
          !.store_open = Filling]

\* keep: one survivor of compaction moves to the block being filled.
Kept(r, rec, from) ==
    LET open == IF Full(r.store_open) THEN Sealed(r) ELSE r
    IN [open EXCEPT !.store_open = PutAt(@, rec, from)]
KeptAt(r) == RecordAddr(r.segment, r.next_block, Len(r.store_open.recs))

DropOldest(r) ==
    IF Len(r.buffer) > 1
      THEN [r EXCEPT !.buffer = Tail(@), !.oldest = @ + 1] ELSE r

OpenDay(r, day) ==
    LET segment == day % Segments
        closed == IF r.store_open.recs # <<>> THEN Sealed(r) ELSE r
    IN IF segment = r.segment THEN r ELSE [closed EXCEPT !.segment = segment]

FreeSegment(r, segment) ==
    [r EXCEPT !.pending_writes = Append(@, [op |-> "remove", segment |-> segment]),
              !.days[segment] = NoRange]

Resident(r, block) ==
    block \in r.oldest_resident .. (r.oldest_resident + Len(r.resident) - 1)
ResidentBlock(r, block) == r.resident[block - r.oldest_resident + 1]

RecordIn(block, i) == IF i <= Len(block.recs) THEN block.recs[i] ELSE None

\* try_read: memory, by address.
TryRead(r, addr) ==
    LET i == addr.index IN
    IF IsBuffered(addr)
      THEN LET slot == addr.block - r.oldest + 1
           IN IF slot \in DOMAIN r.buffer THEN RecordIn(r.buffer[slot], i) ELSE None
    ELSE IF addr.block = r.next_block THEN RecordIn(r.store_open, i)
    ELSE IF Resident(r, addr.block) THEN RecordIn(ResidentBlock(r, addr.block), i)
    ELSE None

\* read_at: what the volume has there; a missing block is a fault.
ReadFromStore(volume, addr) ==
    IF addr.block \in DOMAIN volume[addr.segment]
      THEN RecordIn([recs |-> volume[addr.segment][addr.block]], addr.index)
      ELSE None

Read(r, volume, addr) ==
    LET held == TryRead(r, addr)
    IN IF held # None \/ IsBuffered(addr) THEN held ELSE ReadFromStore(volume, addr)

\* A mutant: the block being filled is forgotten.
DurableThroughSealed(r, applied_through) ==
    LET before(at) == IF at = 0 THEN 0 ELSE at - 1 IN
    IF r.unsynced # None THEN before(r.unsynced.began_at)
    ELSE IF r.buffer[1].recs # <<>> THEN before(r.buffer[1].began_at)
    ELSE applied_through

\* durable_through: just before the oldest record not known to be durable.
DurableThrough(r, applied_through) ==
    LET before(at) == IF at = 0 THEN 0 ELSE at - 1 IN
    IF r.unsynced # None THEN before(r.unsynced.began_at)
    ELSE IF r.store_open.recs # <<>> THEN before(r.store_open.began_at)
    ELSE IF r.buffer[1].recs # <<>> THEN before(r.buffer[1].began_at)
    ELSE applied_through

IsDurable(r, addr) ==
    /\ ~IsBuffered(addr)
    /\ addr.block < (IF r.unsynced # None THEN r.unsynced.block ELSE r.next_block)

-----------------------------------------------------------------------------
(* The queue to the volume.                                                *)

WriteOf(ops, block) == \E i \in DOMAIN ops : ops[i].op = "write" /\ ops[i].block = block

\* submit_writes: what is owed, in order, as far as the queue has room.  The
\* bytes are residency's: a block it no longer has stops the round.
Takeable(r, room) ==
    Max({n \in 0..Min({room, Len(r.pending_writes)}) :
           \A i \in 1..n : r.pending_writes[i].op = "write"
                             => Resident(r, r.pending_writes[i].block)})
Submitted(r, room) ==
    [i \in 1..Takeable(r, room) |->
       LET owed == r.pending_writes[i] IN
       IF owed.op = "write"
         THEN owed @@ [recs |-> ResidentBlock(r, owed.block).recs] ELSE owed]
AfterSubmit(r, room) ==
    [r EXCEPT !.pending_writes = SubSeq(@, Takeable(r, room) + 1, Len(@))]
\* writes_outstanding: closed or submitted, and not answered for.
WritesOutstanding ==
    Len(records.pending_writes) + Len(SelectSeq(lane \o done, LAMBDA a : a.op # "barrier"))

\* One completion: a barrier moves coverage, a refusal is latched.
Collected(r, answer) ==
    LET bad == [r EXCEPT !.fault_owed = @ \/ ~answer.ok] IN
    IF answer.op # "barrier" THEN bad
    ELSE [bad EXCEPT
            !.barrier = FALSE, !.after_barrier = None,
            !.unsynced = IF answer.ok \/ @ = None THEN r.after_barrier ELSE @]

\* A mutant: the window alone decides what residency keeps.
TrimmedByWindow(r, out) ==
    LET n == IF Len(r.resident) > ResidentBlocks THEN Len(r.resident) - ResidentBlocks ELSE 0
    IN [r EXCEPT !.resident = SubSeq(@, n + 1, Len(@)), !.oldest_resident = @ + n]

\* trim_residency: the oldest blocks past the window, up to one whose write
\* is still owed or out.
Trimmed(r, out) ==
    LET held(b) == WriteOf(r.pending_writes, b) \/ WriteOf(out, b)
        n == Max({m \in 0..Len(r.resident) :
                    \A j \in 0..(m - 1) :
                      /\ Len(r.resident) - j > ResidentBlocks
                      /\ ~held(r.oldest_resident + j)})
    IN [r EXCEPT !.resident = SubSeq(@, n + 1, Len(@)), !.oldest_resident = @ + n]

-----------------------------------------------------------------------------
(* The engine's operations.                                                *)

Live(index, segment) ==
    {k \in Keys : index[k] # None /\ index[k].segment = segment}

\* A mutant: every create counts, also one the snapshot's totals reflect.
ApplyCreateCounted(e, at, reflect) ==
    LET r == Appended(records, [key |-> e.key, remaining |-> Amount], at)
        counted == e.key \in Grouped
    IN /\ records' = r
       /\ engine' = [engine EXCEPT
                       !.applied_through = at,
                       !.index[e.key] = AppendedAt(r),
                       !.members = IF counted THEN @ + 1 ELSE @,
                       !.remaining = IF counted THEN @ + Amount ELSE @]
       /\ UNCHANGED strayed

\* apply_effect, by kind: arriving for the first time (reflect = 0) or again.
ApplyCreate(e, at, reflect) ==
    LET r == Appended(records, [key |-> e.key, remaining |-> Amount], at)
        counted == e.key \in Grouped /\ at > reflect
    IN /\ records' = r
       /\ engine' = [engine EXCEPT
                       !.applied_through = at,
                       !.index[e.key] = AppendedAt(r),
                       !.members = IF counted THEN @ + 1 ELSE @,
                       !.remaining = IF counted THEN @ + Amount ELSE @]
       /\ UNCHANGED strayed

\* A decision that came without the hold's size reads it back, and a record
\* that is not there ends the effect.
Unread(e) ==
    /\ ~e.sized
    /\ \/ engine.index[e.key] = None
       \/ Read(records, files, engine.index[e.key]) = None
Faulted(e) == ~e.sized /\ engine.index[e.key] # None /\ Unread(e)

ApplyReduce(e, at) ==
    LET r == Appended(records, [key |-> e.key, remaining |-> e.remaining], at)
        held == engine.index[e.key] # None
    IN IF Unread(e)
         THEN /\ records' = [records EXCEPT !.fault_owed = @ \/ Faulted(e)]
              /\ engine' = [engine EXCEPT !.applied_through = at]
              /\ strayed' = strayed \cup {e.key}
         ELSE /\ records' = r
              /\ engine' = [engine EXCEPT
                              !.applied_through = at,
                              !.index[e.key] = IF held THEN AppendedAt(r) ELSE @]
              /\ strayed' = IF held THEN strayed ELSE strayed \cup {e.key}

ApplyRemove(e, at) ==
    LET found == engine.index[e.key] # None
        again == replaying # None /\ at <= replaying
        grouped == found /\ e.key \in Grouped /\ engine.members > 0
        last == grouped /\ engine.members = 1
    IN /\ engine' = [engine EXCEPT
                       !.applied_through = at,
                       !.index[e.key] = None,
                       !.members = IF grouped THEN @ - 1 ELSE @,
                       !.remaining = IF last THEN 0
                                     ELSE IF grouped THEN @ - Amount ELSE @]
       /\ strayed' = IF grouped /\ again THEN strayed \cup {e.key} ELSE strayed
       /\ UNCHANGED records

ApplyEffect(e, at, reflect) ==
    CASE e.kind = "create" -> ApplyCreate(e, at, reflect)
      [] e.kind = "reduce" -> ApplyReduce(e, at)
      [] e.kind = "remove" -> ApplyRemove(e, at)

-----------------------------------------------------------------------------
(* What the decisions so far say of a hold: what is left of it, or zero.   *)

Touching(key, at) == {p \in 1..at : log[p].key = key}
Truth(key, at) ==
    IF Touching(key, at) = {} THEN 0
    ELSE LET e == log[Max(Touching(key, at))] IN
         CASE e.kind = "create" -> Amount
           [] e.kind = "reduce" -> e.remaining
           [] e.kind = "remove" -> 0

\* The decisions the sequencer can reach: a key is used once, a member of a
\* group resolves whole.
Decisions ==
    LET n == Len(log)
        alive == {k \in Keys : Truth(k, n) > 0}
    IN [kind : {"create"}, key : {k \in Keys : Touching(k, n) = {}}]
       \cup {e \in [kind : {"reduce"}, key : alive \ Grouped,
                    remaining : 1..(Amount - 1), sized : BOOLEAN] :
                e.remaining < Truth(e.key, n)}
       \cup [kind : {"remove"}, key : alive]

Init ==
    /\ log = <<>> /\ engine = NewEngine /\ records = NewLog
    /\ lane = <<>> /\ done = <<>>
    /\ files = [s \in Segs |-> NoFile] /\ disk = files
    /\ dump = None /\ current = None /\ replaying = None /\ strayed = {}
    /\ crashes = 0 /\ refused = 0 /\ dumps = 0

-----------------------------------------------------------------------------
(* The worker's stages.                                                    *)

\* take, for an Apply: the command waits while the buffer or the queue to the
\* volume is past its ceiling.
Apply ==
    /\ replaying = None /\ Len(log) < MaxEffects
    /\ Len(records.buffer) <= Ceiling
    /\ WritesOutstanding <= Ceiling
    /\ \E e \in Decisions :
         /\ log' = Append(log, e)
         /\ ApplyEffect(e, Len(log) + 1, 0)
    /\ UNCHANGED <<lane, done, files, disk, dump, current, replaying, crashes, refused, dumps>>

\* replay: the log's tail arrives again, from the snapshot's coverage on.
Replay ==
    LET at == engine.applied_through + 1 IN
    /\ replaying # None /\ at <= Len(log)
    /\ ApplyEffect(log[at], at, replaying)
    /\ replaying' = IF at = Len(log) THEN None ELSE replaying
    /\ UNCHANGED <<log, lane, done, files, disk, dump, current, crashes, refused, dumps>>

\* drain: compaction of the oldest buffered blocks past the window, and then
\* everything closed is offered to the volume.
Compacted(st) ==
    LET survives(i) ==
          st.index[st.r.buffer[1].recs[i].key] = RecordAddr(Buffer, st.r.oldest, i)
        carry(s, i) ==
          LET rec == st.r.buffer[1].recs[i]
              r == Kept(s.r, rec, st.r.buffer[1].began_at)
          IN IF survives(i)
               THEN [r |-> r, index |-> [s.index EXCEPT ![rec.key] = KeptAt(r)]]
               ELSE s
        carried == FoldLeft(carry, st, [i \in 1..Len(st.r.buffer[1].recs) |-> i])
    IN [carried EXCEPT !.r = DropOldest(@)]

Drained(r, index) ==
    FoldLeft(LAMBDA st, i : IF OverWindow(st.r) THEN Compacted(st) ELSE st,
             [r |-> r, index |-> index], [i \in 1..DrainBlocks |-> i])

\* collect_writes, drain and sync, the worker's round at the volume.  Nothing
\* the lane does between them is seen before the next round's collect, so the
\* three are one step: the completions, the compaction and what it closed,
\* then the barrier over everything submitted, if none is out.
Writeback ==
    LET collected == Trimmed(FoldLeft(Collected, records, done), lane)
        drained == Drained(collected, engine.index)
        room == Depth - Len(lane)
        ops == Submitted(drained.r, room)
        r == AfterSubmit(drained.r, room)
        asks == r.unsynced # None /\ ~r.barrier /\ Len(ops) < room
    IN /\ records' = [r EXCEPT !.barrier = @ \/ asks]
       /\ lane' = lane \o ops \o (IF asks THEN <<[op |-> "barrier"]>> ELSE <<>>)
       /\ done' = <<>>
       /\ engine' = [engine EXCEPT !.index = drained.index]
       /\ UNCHANGED <<log, files, disk, dump, current, replaying, strayed,
                      crashes, refused, dumps>>

\* oldest_unfinished_day: where the sweep's cursor starts.
OldestUnfinishedDay(today) ==
    LET through == today - Lifetime
        last(s) == through - ((through + Segments - s) % Segments)
    IN IF through < 0 THEN 0
       ELSE Min({last(s) : s \in {t \in Segs : Live(engine.index, t) # {}}}
                \cup {through})

\* sweep_expiry: the day moves if its segment is free, every segment nothing
\* points into is handed back, and the cursor leaves a day that is empty.
Reclaimable(r) ==
    {s \in Segs : s # r.segment /\ Live(engine.index, s) = {} /\ r.days[s].blocks > 0}
Behind(cursor, today) == today - Lifetime >= cursor

SweepExpiry(day) ==
    LET cursor == IF engine.sweep_day = None THEN OldestUnfinishedDay(day)
                  ELSE engine.sweep_day
        opens == day # engine.today /\ day - cursor < Segments
        today == IF opens THEN day ELSE engine.today
        r == IF opens THEN OpenDay(records, day) ELSE records
        empty == Behind(cursor, today) /\ Live(engine.index, cursor % Segments) = {}
    IN /\ records' = FoldLeft(FreeSegment, r, SetToSeq(Reclaimable(r)))
       /\ \E moves \in {FALSE, empty} :
            engine' = [engine EXCEPT !.today = today,
                                     !.sweep_day = IF moves THEN cursor + 1 ELSE cursor]
       /\ UNCHANGED <<log, lane, done, files, disk, dump, current, replaying,
                      strayed, crashes, refused, dumps>>

\* One turn of the snapshot stage: a dump begins, writes a bucket, or is
\* published.
Coverage == DurableThrough(records, engine.applied_through)
BeginSnapshot ==
    /\ dump = None /\ dumps < MaxDumps /\ dumps' = dumps + 1
    /\ dump' = [coverage |-> Coverage, reflect |-> engine.applied_through,
                members |-> engine.members, remaining |-> engine.remaining,
                slots |-> engine.index, written |-> FALSE]
    /\ UNCHANGED current
\* write_one: a slot as it stood when the dump began, if its record is on a
\* block a barrier has covered by now.
WriteChunk ==
    /\ dump # None /\ ~dump.written
    /\ dump' = [dump EXCEPT
                  !.written = TRUE,
                  !.slots = [k \in Keys |->
                     IF @[k] # None /\ IsDurable(records, @[k]) THEN @[k] ELSE None]]
    /\ UNCHANGED <<current, dumps>>
Publish ==
    /\ dump # None /\ dump.written
    /\ current' = dump /\ dump' = None
    /\ UNCHANGED dumps

\* The end of the round: a fault is handed over, and the dump abandoned.
SnapshotRound ==
    /\ BeginSnapshot \/ Publish \/ WriteChunk
    /\ ~records.fault_owed
    /\ UNCHANGED <<log, engine, records, lane, done, files, disk, replaying,
                   strayed, crashes, refused>>
FaultRound ==
    /\ records.fault_owed
    /\ records' = [records EXCEPT !.fault_owed = FALSE]
    /\ dump' = None
    /\ \/ UNCHANGED current
       \/ dump # None /\ dump.written /\ current' = dump
    /\ UNCHANGED <<log, engine, lane, done, files, disk, replaying, strayed,
                   crashes, refused, dumps>>

-----------------------------------------------------------------------------
(* The volume: one lane, in order.  A segment's file is created by its     *)
(* first block and by nothing else.                                        *)

Possible(a) == a.op = "write" => (a.creating <=> files[a.segment] = NoFile)

Performed(a) ==
    CASE a.op = "write" ->
           /\ files' = [files EXCEPT ![a.segment] = (a.block :> a.recs) @@ @]
           /\ UNCHANGED disk
      [] a.op = "remove" ->
           /\ files' = [files EXCEPT ![a.segment] = NoFile]
           /\ UNCHANGED disk
      \* A barrier syncs what was written; an unlink is nobody's to sync.
      [] a.op = "barrier" ->
           /\ disk' = [s \in Segs |-> IF files[s] = NoFile THEN disk[s] ELSE files[s]]
           /\ UNCHANGED files

LaneStep ==
    /\ lane # <<>>
    /\ lane' = Tail(lane)
    /\ LET a == Head(lane) IN
         \/ /\ Possible(a) /\ Performed(a)
            /\ done' = Append(done, [op |-> a.op, ok |-> TRUE])
            /\ UNCHANGED refused
         \/ /\ ~Possible(a) \/ refused < MaxRefused
            /\ done' = Append(done, [op |-> a.op, ok |-> FALSE])
            /\ refused' = refused + 1
            /\ UNCHANGED <<files, disk>>
    /\ UNCHANGED <<log, engine, records, dump, current, replaying, strayed, crashes, dumps>>

-----------------------------------------------------------------------------
(* A crash, and the restart that reads the snapshot back.                  *)

\* What a crash may leave of a segment's file: what was synced, with any of
\* what was written since.
Survivors(s) ==
    {disk[s], files[s]}
    \cup {[b \in kept |-> files[s][b]] :
            kept \in {t \in SUBSET DOMAIN files[s] :
                        DOMAIN disk[s] \cap DOMAIN files[s] \subseteq t}}

\* reconcile: the next block number is past every file's end; a day's range
\* is the span its live slots have; a file with none is handed back.
BlocksIn(file) == IF file = NoFile THEN 0 ELSE Max(DOMAIN file) + 1
\* A mutant: block numbers go on from the last live slot.
ReconciledBySlots(volume, slots) ==
    LET blocks(s) == {slots[k].block : k \in Live(slots, s)}
        span(s) == [first |-> Min(blocks(s)), blocks |-> Max(blocks(s)) - Min(blocks(s)) + 1]
        next == Max({0} \cup UNION {{b + 1 : b \in blocks(s)} : s \in Segs})
        fresh == [NewLog EXCEPT
                    !.next_block = next, !.oldest_resident = next,
                    !.days = [s \in Segs |-> IF blocks(s) = {} THEN NoRange ELSE span(s)]]
    IN FoldLeft(FreeSegment, fresh,
                SetToSeq({s \in Segs : volume[s] # NoFile /\ blocks(s) = {}}))

Reconciled(volume, slots) ==
    LET blocks(s) == {slots[k].block : k \in Live(slots, s)}
        span(s) == [first |-> Min(blocks(s)), blocks |-> Max(blocks(s)) - Min(blocks(s)) + 1]
        next == Max({BlocksIn(volume[s]) : s \in Segs})
        fresh == [NewLog EXCEPT
                    !.next_block = next, !.oldest_resident = next,
                    !.days = [s \in Segs |-> IF blocks(s) = {} THEN NoRange ELSE span(s)]]
    IN FoldLeft(FreeSegment, fresh,
                SetToSeq({s \in Segs : volume[s] # NoFile /\ blocks(s) = {}}))

CrashAndRestore ==
    /\ crashes < MaxCrashes /\ crashes' = crashes + 1
    /\ current # None
    /\ files' \in [Segs -> UNION {Survivors(s) : s \in Segs}]
    /\ \A s \in Segs : files'[s] \in Survivors(s)
    /\ disk' = files'
    /\ engine' = [NewEngine EXCEPT
                    !.applied_through = current.coverage, !.index = current.slots,
                    !.members = current.members, !.remaining = current.remaining]
    /\ records' = Reconciled(files', current.slots)
    /\ lane' = <<>> /\ done' = <<>> /\ dump' = None
    /\ replaying' = IF current.coverage = Len(log) THEN None ELSE current.reflect
    /\ UNCHANGED <<log, current, strayed, refused, dumps>>

Next ==
    \/ Apply \/ Replay \/ Writeback
    \/ \E day \in engine.today..MaxDay : SweepExpiry(day)
    \/ SnapshotRound \/ FaultRound
    \/ LaneStep \/ CrashAndRestore

Spec == Init /\ [][Next]_vars

-----------------------------------------------------------------------------
(* Properties.                                                             *)

Lookup(k) ==
    IF engine.index[k] = None THEN 0
    ELSE LET rec == Read(records, files, engine.index[k])
         IN IF rec = None \/ rec.key # k THEN -1 ELSE rec.remaining

\* A lookup answers what the decisions applied so far say, wherever the record is
\* at that moment: in the writeback buffer, the block being filled, residency, or
\* the volume; through compaction, a day's turn, a reused segment and a restart.
\* (engine.rs: lookup, repoint before drop; block.rs: try_read, trim_residency.)
LookupIsTruth ==
    replaying = None /\ refused = 0 =>
      \A k \in Keys \ strayed : Lookup(k) = Truth(k, engine.applied_through)

\* What coverage says a restart need not replay is on the disk, barrier and all:
\* a hold nothing has touched since coverage is read off a crashed volume with
\* what was left of it then.  (engine.rs coverage, block.rs durable_through.)
CoverageIsOnDisk ==
    refused = 0 /\ replaying = None =>
      \A k \in Keys \ strayed :
        (engine.index[k] # None
           /\ Touching(k, Coverage) = Touching(k, engine.applied_through))
        => /\ ~IsBuffered(engine.index[k])
           /\ Read(NewLog, disk, engine.index[k]) = [key |-> k, remaining |-> Truth(k, Coverage)]

\* A block number is written once, for ever: not again after a restart, nor when
\* its day's segment comes round.  (block.rs: reconcile's next block, and the
\* store's write-once assertion.)
WriteOnce ==
    \A i \in DOMAIN lane :
      lane[i].op = "write" => lane[i].block \notin DOMAIN files[lane[i].segment]

\* The group's totals are what its live members add up to, after a replay over
\* totals that already reflect some of its tail too.  (engine.rs apply_effect,
\* the groups_reflect guard.)
TotalsTrue ==
    LET alive == {k \in Grouped : Truth(k, engine.applied_through) > 0} IN
    replaying = None /\ Grouped \cap strayed = {} =>
      /\ engine.members = Cardinality(alive)
      /\ engine.remaining = Amount * Cardinality(alive)

===============================================================================
