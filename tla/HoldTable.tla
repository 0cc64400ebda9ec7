------------------------------- MODULE HoldTable -------------------------------
(***************************************************************************)
(* The index from a hold's key to its record: a cuckoo table of buckets,   *)
(* whose slots carry a fingerprint, an address and a mark that the         *)
(* fingerprint is shared; the shadow a dump reads it through while it goes *)
(* on changing; and the restart that puts a dump's buckets back and        *)
(* replays the log's tail over them.                                       *)
(*                                                                         *)
(* Source: src/pending/src/index.rs, and the engine's calls into it        *)
(* (src/pending/src/engine.rs: put, holds, walk, apply_effect, drain).     *)
(*                                                                         *)
(* A key's hash is its Home bucket and its Fingerprint; a fingerprint's    *)
(* hash is its Step between its two buckets.  Records are append-only: an  *)
(* address is a segment (the writeback buffer's or the day's) and a serial *)
(* number, a record the key and the log position of the decision it is of.  Which way a full bucket gives  *)
(* up is a pseudo-random choice, here any.                                 *)
(***************************************************************************)
EXTENDS Integers, Sequences, FiniteSets, SequencesExt, FiniteSetsExt, Bitwise

CONSTANTS
    Keys, Buckets, Ways, MaxHops,
    Fingerprint, Home, Step,          \* the hashes
    MaxEffects, MaxMoves, MaxDumps,   \* bounds of the model
    None

ASSUME HoldTableAssumption ==
    /\ Buckets > 1 /\ Ways > 0 /\ MaxHops > 0
    /\ Home \in [Keys -> 0..(Buckets - 1)]
    \* A step of zero would leave an entry one bucket: alternate makes it one.
    /\ \A k \in Keys : Step[Fingerprint[k]] \in 1..(Buckets - 1)

VARIABLES
    table,     \* [buckets, live, per_segment, shadow, read_through]
    recs,      \* the records, by serial number
    log,       \* the decisions committed
    applied,   \* how many of them this table has seen
    dump,      \* the buckets a dump has read, and the instant it is of
    current,   \* the finished dump a restart reads
    homeless,  \* holds a full cascade left out
    stolen,    \* holds whose slot a replayed decision took for another key's
    moves, dumps, instant

vars == <<table, recs, log, applied, dump, current, homeless, stolen, moves, dumps, instant>>

-----------------------------------------------------------------------------
(* Slots, buckets and the one write point.                                 *)

AllBuckets == 0..(Buckets - 1)
AllWays == 1..Ways
Segs == {"buffer", "day"}
EMPTY == [fp |-> None]
pack(fp, addr, ambiguous) == [fp |-> fp, addr |-> addr, ambiguous |-> ambiguous]

with_capacity ==
    [buckets |-> [b \in AllBuckets |-> [w \in AllWays |-> EMPTY]],
     live |-> 0, per_segment |-> [s \in Segs |-> 0],
     shadow |-> <<>>, read_through |-> None]

slot_word(t, at) == t.buckets[at[1]][at[2]]

\* A mutant: the bucket the dump is about to read is not copied aside.
set_slot_late(t, at, slot) ==
    LET b == at[1]
        previous == slot_word(t, at)
        shaded == t.read_through # None /\ b > t.read_through /\ b \notin DOMAIN t.shadow
        less(s) == IF previous # EMPTY /\ previous.addr.segment = s THEN 1 ELSE 0
        more(s) == IF slot # EMPTY /\ slot.addr.segment = s THEN 1 ELSE 0
    IN [t EXCEPT
          !.shadow = IF shaded THEN (b :> t.buckets[b]) @@ @ ELSE @,
          !.per_segment = [s \in Segs |-> @[s] - less(s) + more(s)],
          !.live = @ - (IF previous = EMPTY THEN 0 ELSE 1) + (IF slot = EMPTY THEN 0 ELSE 1),
          !.buckets[b][at[2]] = slot]
\* A mutant: a slot overwritten is not counted out of its segment.
set_slot_added(t, at, slot) ==
    LET b == at[1]
        shaded == t.read_through # None /\ b >= t.read_through /\ b \notin DOMAIN t.shadow
        more(s) == IF slot # EMPTY /\ slot.addr.segment = s THEN 1 ELSE 0
    IN [t EXCEPT
          !.shadow = IF shaded THEN (b :> t.buckets[b]) @@ @ ELSE @,
          !.per_segment = [s \in Segs |-> @[s] + more(s)],
          !.live = @ - (IF slot_word(t, at) = EMPTY THEN 0 ELSE 1)
                     + (IF slot = EMPTY THEN 0 ELSE 1),
          !.buckets[b][at[2]] = slot]
\* set_slot: the counts follow the slot, and a dump that has not reached the
\* bucket keeps it as it was.
set_slot(t, at, slot) ==
    LET b == at[1]
        previous == slot_word(t, at)
        shaded == t.read_through # None /\ b >= t.read_through /\ b \notin DOMAIN t.shadow
        less(s) == IF previous # EMPTY /\ previous.addr.segment = s THEN 1 ELSE 0
        more(s) == IF slot # EMPTY /\ slot.addr.segment = s THEN 1 ELSE 0
    IN [t EXCEPT
          !.shadow = IF shaded THEN (b :> t.buckets[b]) @@ @ ELSE @,
          !.per_segment = [s \in Segs |-> @[s] - less(s) + more(s)],
          !.live = @ - (IF previous = EMPTY THEN 0 ELSE 1) + (IF slot = EMPTY THEN 0 ELSE 1),
          !.buckets[b][at[2]] = slot]

alternate(bucket, fp) == bucket ^^ Step[fp]
\* locate: a key's two buckets, the home first.
locate(key) == <<Home[key], alternate(Home[key], Fingerprint[key])>>

\* Probe order: the home's ways and then the alternate's.
Probe(key) ==
    [i \in 1..(2 * Ways) |-> <<locate(key)[((i - 1) \div Ways) + 1], ((i - 1) % Ways) + 1>>]

candidates(t, key) ==
    SelectSeq(Probe(key), LAMBDA at : slot_word(t, at).fp = Fingerprint[key])

slot_at(t, key, addr) ==
    SelectSeq(Probe(key), LAMBDA at : slot_word(t, at) # EMPTY /\ slot_word(t, at).addr = addr)
points_at(t, key, addr) == slot_at(t, key, addr) # <<>>

\* verifier: the record at the slot's address is the key's.
verify(t, at, key) == recs[slot_word(t, at).addr.serial].key = key

\* A mutant: the first candidate is taken for the key's.
resolve_first(t, key) ==
    IF candidates(t, key) = <<>> THEN None ELSE candidates(t, key)[1]
\* find and resolve: the only candidate if it is not marked, else the first
\* whose record says so.
resolve(t, key) ==
    LET found == candidates(t, key)
        alone == Len(found) = 1 /\ ~slot_word(t, found[1]).ambiguous
        own == SelectSeq(found, LAMBDA at : verify(t, at, key))
    IN IF found = <<>> THEN None
       ELSE IF alone THEN found[1]
       ELSE IF own = <<>> THEN None ELSE own[1]

-----------------------------------------------------------------------------
(* Placement.                                                              *)

Vacant(t, bucket) == {w \in AllWays : t.buckets[bucket][w] = EMPTY}
\* put: the bucket's first empty way.
put(t, bucket, slot) == set_slot(t, <<bucket, Min(Vacant(t, bucket))>>, slot)

\* victim: any way whose other bucket is not where the cascade came from, or
\* any at all.
victim(t, bucket, came_from) ==
    LET onward == {w \in AllWays : alternate(bucket, t.buckets[bucket][w].fp) # came_from}
    IN IF onward = {} THEN AllWays ELSE onward

\* One hop of a cascade: every state it can lead to.
Hop(c) ==
    IF c.slot = EMPTY THEN {c}
    ELSE {LET t == set_slot(c.t, <<c.bucket, w>>, c.slot)
              out == slot_word(c.t, <<c.bucket, w>>)
              bucket == alternate(c.bucket, out.fp)
          IN IF Vacant(t, bucket) # {}
               THEN [c EXCEPT !.t = put(t, bucket, out), !.slot = EMPTY]
               ELSE [t |-> t, slot |-> out, bucket |-> bucket, came_from |-> c.bucket]
          : w \in victim(c.t, c.bucket, c.came_from)}

\* place: a free way in either bucket, else a cascade of at most MaxHops.  What
\* is left over is the slot without a home, EMPTY when there is none.
place(t, slot, home, other) ==
    LET start == [t |-> t, slot |-> slot, bucket |-> home, came_from |-> other]
        placed(bucket) == {[start EXCEPT !.t = put(t, bucket, slot), !.slot = EMPTY]}
    IN IF Vacant(t, home) # {} THEN placed(home)
       ELSE IF Vacant(t, other) # {} THEN placed(other)
       ELSE FoldLeft(LAMBDA cs, h : UNION {Hop(c) : c \in cs}, {start},
                     [h \in 1..MaxHops |-> h])

\* insert_new: whatever already has this fingerprint here is another key, so
\* both are marked.
insert_new(t, key, addr) ==
    LET clashes == candidates(t, key)
        mark(u, at) == set_slot(u, at, [slot_word(u, at) EXCEPT !.ambiguous = TRUE])
    IN place(FoldLeft(mark, t, clashes),
             pack(Fingerprint[key], addr, clashes # <<>>),
             locate(key)[1], locate(key)[2])

Moved(t, at, addr) == set_slot(t, at, [slot_word(t, at) EXCEPT !.addr = addr])

-----------------------------------------------------------------------------
(* The engine's use of it.                                                 *)

Touching(key, n) == {p \in 1..n : log[p].key = key}
\* The decision a hold's record should be of, or None.
Truth(key, n) ==
    IF Touching(key, n) = {} \/ log[Max(Touching(key, n))].kind = "remove" THEN None
    ELSE Max(Touching(key, n))

Decisions ==
    LET n == Len(log) IN
    [kind : {"create"}, key : {k \in Keys : Touching(k, n) = {}}]
    \cup [kind : {"reduce", "remove"}, key : {k \in Keys : Truth(k, n) # None}]

\* What a replayed decision that resolved another key's slot took from it.
Taken(key, at) ==
    IF applied = Len(log) \/ at = None \/ verify(table, at, key) THEN {}
    ELSE {recs[slot_word(table, at).addr.serial].key}

\* put, with the record it appends: fresh inserts, otherwise repoint.
Put(key, at, fresh) ==
    LET addr == [segment |-> "buffer", serial |-> Len(recs) + 1]
        own == resolve(table, key)
    IN   /\ recs' = Append(recs, [key |-> key, at |-> at])
         /\ IF fresh
              THEN \E c \in insert_new(table, key, addr) :
                     /\ table' = c.t
                     /\ homeless' = homeless \cup (IF c.slot = EMPTY THEN {}
                                       ELSE {recs'[c.slot.addr.serial].key})
                     /\ UNCHANGED stolen
              ELSE /\ table' = IF own = None THEN table ELSE Moved(table, own, addr)
                   /\ stolen' = stolen \cup Taken(key, own)
                   /\ UNCHANGED homeless

TakeOut(key) ==
    LET own == resolve(table, key) IN
    /\ table' = IF own = None THEN table ELSE set_slot(table, own, EMPTY)
    /\ stolen' = stolen \cup Taken(key, own)
    /\ UNCHANGED <<recs, homeless>>

\* apply_effect: a Create that arrives again repoints if the index has the key.
ApplyEffect(e, at, again) ==
    CASE e.kind = "create" -> Put(e.key, at, ~(again /\ resolve(table, e.key) # None))
      [] e.kind = "reduce" -> Put(e.key, at, FALSE)
      [] e.kind = "remove" -> TakeOut(e.key)

Init ==
    /\ table = with_capacity /\ recs = <<>> /\ log = <<>> /\ applied = 0
    /\ dump = None /\ current = None /\ homeless = {} /\ stolen = {}
    /\ moves = 0 /\ dumps = 0 /\ instant = None

\* write: a decision for the first time.  A hold that could not be stored is
\* reported, and the sequencer applies no more.
Write ==
    /\ applied = Len(log) /\ Len(log) < MaxEffects /\ homeless = {}
    /\ \E e \in Decisions : log' = Append(log, e) /\ ApplyEffect(e, Len(log) + 1, FALSE)
    /\ applied' = Len(log')
    /\ UNCHANGED <<dump, current, moves, dumps, instant>>

\* replay: a decision after a restart.
Replay ==
    /\ applied < Len(log)
    /\ applied' = applied + 1
    /\ ApplyEffect(log[applied'], applied', TRUE)
    /\ UNCHANGED <<log, dump, current, moves, dumps, instant>>

\* drain: a record the index still points at is carried to another address, by
\* replace; any other is dropped.
Carry ==
    /\ moves < MaxMoves /\ moves' = moves + 1
    /\ \E n \in DOMAIN recs :
         LET key == recs[n].key
             old == [segment |-> "buffer", serial |-> n]
             new == [segment |-> "day", serial |-> Len(recs) + 1]
         IN /\ points_at(table, key, old)
            /\ table' = Moved(table, slot_at(table, key, old)[1], new)
            /\ recs' = Append(recs, recs[n])
    /\ UNCHANGED <<log, applied, dump, current, homeless, stolen, dumps, instant>>

\* begin_snapshot: replay will start at a coverage at or before this instant
\* (module RecordLog says which).
BeginSnapshot ==
    /\ dump = None /\ dumps < MaxDumps /\ dumps' = dumps + 1
    /\ table' = [table EXCEPT !.shadow = <<>>, !.read_through = 0]
    /\ \E coverage \in 0..applied : dump' = [words |-> <<>>, at |-> coverage]
    /\ instant' = table.buckets
    /\ UNCHANGED <<recs, log, applied, current, homeless, stolen, moves>>

\* bucket_for_snapshot: the copy taken before it changed, or the live one.
NextBucket ==
    LET at == table.read_through IN
    /\ dump # None /\ at < Buckets
    /\ dump' = [dump EXCEPT !.words = Append(@, IF at \in DOMAIN table.shadow
                                               THEN table.shadow[at] ELSE table.buckets[at])]
    /\ table' = [table EXCEPT
                   !.read_through = at + 1,
                   !.shadow = [b \in DOMAIN @ \ {at} |-> @[b]]]
    /\ UNCHANGED <<recs, log, applied, current, homeless, stolen, moves, dumps, instant>>

\* end_snapshot: the dump is whole and takes its name, or was given up.
EndSnapshot ==
    /\ dump # None
    /\ \/ Len(dump.words) = Buckets /\ current' = dump
       \/ UNCHANGED current
    /\ dump' = None /\ instant' = None
    /\ table' = [table EXCEPT !.shadow = <<>>, !.read_through = None]
    /\ UNCHANGED <<recs, log, applied, homeless, stolen, moves, dumps>>

\* A restart: restore_bucket for every bucket of the dump, into a new table.
RestoreBucket(t, b) ==
    FoldLeft(LAMBDA u, w : set_slot(u, <<b, w>>, current.words[b + 1][w]), t,
             [w \in AllWays |-> w])
Restart ==
    /\ current # None
    /\ table' = FoldLeft(RestoreBucket, with_capacity, [i \in 1..Buckets |-> i - 1])
    /\ applied' = current.at
    /\ dump' = None /\ instant' = None
    /\ current' = None
    /\ UNCHANGED <<recs, log, homeless, stolen, moves, dumps>>

Next ==
    \/ Write \/ Replay \/ Carry
    \/ BeginSnapshot \/ NextBucket \/ EndSnapshot \/ Restart

Spec == Init /\ [][Next]_vars

-----------------------------------------------------------------------------
(* Properties.                                                             *)

Slots(t) == {at \in AllBuckets \X AllWays : slot_word(t, at) # EMPTY}

\* begin_lookup's walk: the first candidate whose record is the key's.
Lookup(key) ==
    LET own == SelectSeq(candidates(table, key), LAMBDA at : verify(table, at, key))
    IN IF own = <<>> THEN None ELSE recs[slot_word(table, own[1]).addr.serial].at

\* The table's counts are what its slots say, cascades, carries and restores
\* included: a day's segment is handed back exactly when nothing points into it.
\* (index.rs set_slot, counts_agree; the sweep's live_in_segment.)
CountsExact ==
    /\ table.live = Cardinality(Slots(table))
    /\ \A s \in Segs :
         table.per_segment[s] =
           Cardinality({at \in Slots(table) : slot_word(table, at).addr.segment = s})

\* Every live hold is found, at the record of its last decision, and no resolved
\* one is: through cascades, clashing fingerprints, compaction and a restart
\* that replays the tail over the dump's buckets.  Out of it are a hold a full
\* table left without a slot, and what follows once a replay overwrote one.
FindsEveryHold ==
    applied = Len(log) /\ stolen = {} =>
      \A k \in Keys \ homeless : Lookup(k) = Truth(k, applied)

\* One hold, one slot: a cascade never leaves an entry behind and a replay never
\* inserts a key the dump already had.  (engine.rs apply_effect: "a second insert
\* would give one key two slots".)
OneSlotEach ==
    stolen = {} =>
      \A a, b \in Slots(table) :
        recs[slot_word(table, a).addr.serial].key = recs[slot_word(table, b).addr.serial].key
          => a = b

\* An unmarked slot is the only one with its fingerprint in its two buckets, so
\* it needs no record to be told from another's.  (index.rs Slot.)
UnmarkedIsAlone ==
    \A a, b \in Slots(table) :
      LET x == slot_word(table, a)
          y == slot_word(table, b)
      IN (a # b /\ x.fp = y.fp /\ b[1] \in {a[1], alternate(a[1], x.fp)}) =>
           x.ambiguous /\ y.ambiguous

\* What the table says of itself is so, whatever kicks, repoints, removals and restores
\* it has been through.  (index.rs set_slot, insert, kick, load.)
EntriesSound == CountsExact /\ OneSlotEach /\ UnmarkedIsAlone

\* What a dump has read is the table of the instant it began, however many
\* entries have been kicked between read and unread buckets since.
\* (index.rs shadow: "appears twice in it ... or it appears nowhere".)
DumpIsOfItsInstant ==
    dump # None => \A i \in DOMAIN dump.words : dump.words[i] = instant[i - 1]

===============================================================================
