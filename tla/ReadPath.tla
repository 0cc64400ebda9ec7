------------------------------- MODULE ReadPath --------------------------------
(***************************************************************************)
(* Reading a block back: the cache in front of the volume (a bounded set   *)
(* of slots, hits that wait for a poll, reads that join one already on its *)
(* way), the descriptors the read side keeps, and the pool of read threads,*)
(* beside the write lane that creates and unlinks the segments' files.     *)
(*                                                                         *)
(* Sources: src/pending/src/cache.rs (Cached), src/pending/src/files.rs    *)
(* (ReadPool, FileStore's read side), src/pending/src/block.rs (fetch,     *)
(* harvest).  The log's side (which block is sealed into which day, when a *)
(* day is freed) is a free choice here; module RecordLog has it.           *)
(*                                                                         *)
(* Block numbers are never reused, so a block's bytes are its number.  A   *)
(* key is a segment and a block.                                           *)
(***************************************************************************)
EXTENDS Integers, Sequences, FiniteSets, SequencesExt, FiniteSetsExt, Functions

CONSTANTS
    Segs, Handles,
    CacheBlocks,   \* read_cache_blocks
    ReadDepth,     \* the pool's buffers
    MaxBlocks, MaxFrees,   \* bounds of the model
    None

Keys == Segs \X Nat

ASSUME ReadPathAssumption ==
    /\ CacheBlocks \in Nat \ {0} /\ ReadDepth \in Nat \ {0} /\ {MaxBlocks, MaxFrees} \subseteq Nat
    /\ None \notin Nat /\ None \notin Keys

VARIABLES
    lane,      \* writes and removals the lane has not done
    file,      \* files by number: the segment each was made for and the blocks in it
    names,     \* segment -> its file's number, or 0
    stored,    \* keys the index may name and memory may not have
    readfd,    \* FileStore.files: segment -> the file the read side has open, or 0
    cache,     \* [held, slots, order, ready, issued, waiting]
    pool,      \* reads with the threads: handle, file, block
    asked,     \* handle -> the key it wants, or None
    answer,    \* the last answer: [key, got]
    fault,     \* the key whose read was refused, when nothing more is asked, or None
    aliased,   \* keys whose slot was given to another key's block
    blocks, frees

vars == <<lane, file, names, stored, readfd, cache, pool, asked, answer, fault,
          aliased, blocks, frees>>

-----------------------------------------------------------------------------
(* Cached.                                                                 *)

NewCache == [held |-> <<>>, slots |-> [i \in 0..(CacheBlocks - 1) |-> 0], order |-> <<>>,
             ready |-> <<>>, issued |-> <<>>, waiting |-> <<>>]

\* A map with one entry more, or another value for one.
With(map, key, value) ==
    [k \in DOMAIN map \cup {key} |-> IF k = key THEN value ELSE map[k]]
\* order.retain, order.remove: what is left when some slots are taken out.
Without(seq, gone) ==
    LET kept[i \in 0..Len(seq)] ==
          IF i = 0 THEN <<>>
          ELSE IF seq[i] \in gone THEN kept[i - 1] ELSE Append(kept[i - 1], seq[i])
    IN kept[Len(seq)]

\* take_from_cache: the slot's bytes, which is then the last to be evicted.
Holds(c, key) == key \in DOMAIN c.held
TouchedSlot(c, key) ==
    LET slot == c.held[key]
    IN [c EXCEPT !.order = IF slot \in Range(@) THEN Append(Without(@, {slot}), slot) ELSE @]

\* keep: the oldest slot once the cache is full, else the next by count.
KeepSlot(c) == IF Len(c.order) >= CacheBlocks THEN Head(c.order) ELSE Len(c.order)
\* A mutant: the block evicted keeps its claim on the slot.
KeptOver(c, key, got) ==
    LET slot == KeepSlot(c)
        full == Len(c.order) >= CacheBlocks
    IN IF Holds(c, key) THEN c
       ELSE [c EXCEPT !.slots[slot] = got,
                      !.held = With(@, key, slot),
                      !.order = Append(IF full THEN Tail(@) ELSE @, slot)]
Kept(c, key, got) ==
    LET slot == KeepSlot(c)
        full == Len(c.order) >= CacheBlocks
        claims == IF full THEN {k \in DOMAIN c.held : c.held[k] # slot} ELSE DOMAIN c.held
    IN IF Holds(c, key) THEN c
       ELSE [c EXCEPT !.slots[slot] = got,
                      !.held = With(Restrict(@, claims), key, slot),
                      !.order = Append(IF full THEN Tail(@) ELSE @, slot)]
\* Keys that still claim the slot a block is about to be kept in.
Sharing(c, key) ==
    IF Holds(c, key) \/ Len(c.order) >= CacheBlocks THEN {}
    ELSE {k \in DOMAIN c.held : c.held[k] = Len(c.order)}

\* forget: every claim of one object's goes.
Forget(c, s) ==
    LET dropped == {k \in DOMAIN c.held : k[1] = s}
        slots == {c.held[k] : k \in dropped}
    IN [c EXCEPT !.held = Restrict(@, DOMAIN @ \ dropped),
                 !.order = Without(@, slots)]

-----------------------------------------------------------------------------
(* The log's writes and removals, and the lane that does them.             *)

\* A block is sealed: Cached.submit_write forgets the object and queues it.
Seal(s) ==
    /\ blocks < MaxBlocks /\ blocks' = blocks + 1
    /\ lane' = Append(lane, [op |-> "write", segment |-> s, block |-> blocks'])
    /\ cache' = Forget(cache, s)
    /\ UNCHANGED <<file, names, stored, readfd, pool, asked, answer, fault, aliased, frees>>

\* A day nothing points into is handed back.
Free(s) ==
    /\ frees < MaxFrees /\ frees' = frees + 1
    /\ \E k \in stored : k[1] = s
    /\ lane' = Append(lane, [op |-> "remove", segment |-> s])
    /\ stored' = {k \in stored : k[1] # s}
    /\ cache' = Forget(cache, s)
    /\ UNCHANGED <<file, names, readfd, pool, asked, answer, fault, aliased, blocks>>

\* The lane's thread.  The read side's descriptors are not its to close.
Serve ==
    /\ lane # <<>> /\ lane' = Tail(lane)
    /\ LET a == Head(lane)
           creating == a.op = "write" /\ names[a.segment] = 0
       IN IF a.op = "remove"
            THEN /\ names' = [names EXCEPT ![a.segment] = 0]
                 /\ UNCHANGED <<file, stored>>
            ELSE /\ file' = IF creating THEN Append(file, [of |-> a.segment, blocks |-> {a.block}])
                            ELSE [file EXCEPT ![names[a.segment]].blocks = @ \cup {a.block}]
                 /\ names' = IF creating THEN [names EXCEPT ![a.segment] = Len(file) + 1]
                             ELSE names
                 /\ stored' = IF \E i \in 2..Len(lane) : lane[i].op = "remove" /\ lane[i].segment = a.segment
                                THEN stored ELSE stored \cup {<<a.segment, a.block>>}
    /\ UNCHANGED <<readfd, cache, pool, asked, answer, fault, aliased, blocks, frees>>

-----------------------------------------------------------------------------
(* FileStore's read side.                                                  *)

\* file_of: the descriptor already open, or one opened by name.
FileOf(s) == IF readfd[s] # 0 THEN readfd[s] ELSE names[s]
\* read_block and the pool's pread: whole, or short when the file has not got it.
BytesOf(f, block) == IF f # 0 /\ block \in file[f].blocks THEN block ELSE None

Joins(key) == key \in DOMAIN cache.waiting
\* fetch, through Cached.submit: a hit becomes a completion that is ready, a block
\* on its way is joined, and anything else is a read if the store will take it.
Fetch(h, key) ==
    /\ asked[h] = None /\ key \in stored /\ fault = None
    /\ asked' = [asked EXCEPT ![h] = key]
    /\ \/ /\ Holds(cache, key)
          /\ cache' = [cache EXCEPT !.ready = Append(@, h)]
          /\ UNCHANGED <<pool, readfd>>
       \/ /\ ~Holds(cache, key) /\ Joins(key)
          /\ cache' = [cache EXCEPT !.waiting[key] = Append(@, h)]
          /\ UNCHANGED <<pool, readfd>>
       \/ /\ ~Holds(cache, key) /\ ~Joins(key)
          /\ FileOf(key[1]) # 0 /\ Cardinality(pool) < ReadDepth
          /\ readfd' = [readfd EXCEPT ![key[1]] = FileOf(key[1])]
          /\ pool' = pool \cup {[handle |-> h, file |-> FileOf(key[1]), block |-> key[2]]}
          /\ cache' = [cache EXCEPT !.issued = With(@, h, key),
                                    !.waiting = With(@, key, <<>>)]
    /\ UNCHANGED <<lane, file, names, stored, answer, fault, aliased, blocks, frees>>

Answer(h, got) ==
    /\ answer' = [key |-> asked[h], got |-> got]
    /\ asked' = [asked EXCEPT ![h] = None]

\* Cached.poll, the ready half: from the cache, or read inline when the block was
\* evicted or forgotten meanwhile.
PollReady ==
    /\ fault = None /\ cache.ready # <<>>
    /\ LET h == Head(cache.ready)
           key == asked[h]
           rest == [cache EXCEPT !.ready = Tail(@)]
           got == BytesOf(FileOf(key[1]), key[2])
       IN \/ /\ Holds(cache, key)
             /\ Answer(h, cache.slots[cache.held[key]])
             /\ cache' = TouchedSlot(rest, key)
             /\ UNCHANGED <<readfd, fault, aliased>>
          \/ /\ ~Holds(cache, key) /\ got # None
             /\ Answer(h, got)
             /\ cache' = Kept(rest, key, got)
             /\ aliased' = aliased \cup Sharing(rest, key)
             /\ readfd' = [readfd EXCEPT ![key[1]] = FileOf(key[1])]
             /\ UNCHANGED fault
          \/ /\ ~Holds(cache, key) /\ got = None
             /\ fault' = key /\ cache' = rest
             /\ UNCHANGED <<asked, answer, readfd, aliased>>
    /\ UNCHANGED <<lane, file, names, stored, pool, blocks, frees>>

\* A mutant: those who joined a read are forgotten with it.
WokenNone(key) == <<>>
Woken(key) == IF key \in DOMAIN cache.waiting THEN cache.waiting[key] ELSE <<>>
\* Cached.poll, the store's half: any read the threads have finished.  Whoever
\* joined it is ready; a refused read names no handle, and every claim goes.
PollStore(h) ==
    /\ fault = None /\ cache.ready = <<>>
    /\ \E p \in {q \in pool : q.handle = h} :
         LET key == cache.issued[p.handle]
             got == BytesOf(p.file, p.block)
             rest == [cache EXCEPT
                        !.issued = Restrict(@, DOMAIN @ \ {p.handle}),
                        !.waiting = Restrict(@, DOMAIN @ \ {key}),
                        !.ready = @ \o Woken(key)]
         IN /\ pool' = pool \ {p}
            /\ IF got = None
                 THEN /\ fault' = key
                      /\ cache' = [cache EXCEPT !.issued = <<>>, !.waiting = <<>>]
                      /\ UNCHANGED <<asked, answer, aliased>>
                 ELSE /\ Answer(p.handle, got)
                      /\ cache' = Kept(rest, key, got)
                      /\ aliased' = aliased \cup Sharing(rest, key)
                      /\ UNCHANGED fault
    /\ UNCHANGED <<lane, file, names, stored, readfd, blocks, frees>>

Init ==
    /\ lane = <<>> /\ file = <<>> /\ names = [s \in Segs |-> 0] /\ stored = {}
    /\ readfd = [s \in Segs |-> 0] /\ cache = NewCache /\ pool = {}
    /\ asked = [h \in Handles |-> None] /\ answer = None /\ fault = None
    /\ aliased = {} /\ blocks = 0 /\ frees = 0

Next ==
    \/ \E s \in Segs : Seal(s) \/ Free(s)
    \/ Serve
    \/ \E h \in Handles, key \in stored : Fetch(h, key)
    \/ PollReady
    \/ \E h \in Handles : PollStore(h)

\* Each round's harvest polls until nothing is left, the ready ones first, and
\* the threads' queues in turn: a read a thread has finished is not passed over
\* for ever.
Fairness == WF_vars(PollReady) /\ \A h \in Handles : SF_vars(PollStore(h))

Spec == Init /\ [][Next]_vars /\ Fairness

-----------------------------------------------------------------------------
(* Properties.                                                             *)

\* A read is answered with its own block's bytes: by a hit, by joining another's
\* read, after an eviction, from a file unlinked meanwhile.  Stated until a slot
\* has been given away under a key that still claims it.
RightBytes == aliased = {} /\ answer # None => answer.got = answer.key[2]

\* The cache's own books: no slot has two claims, and every claim is in the order
\* of eviction, so what is held stays within CacheBlocks.
ClaimsOrdered ==
    aliased = {} =>
      /\ \A k \in DOMAIN cache.held : cache.held[k] \in Range(cache.order)
      /\ Cardinality(DOMAIN cache.held) <= CacheBlocks
      /\ Cardinality({cache.held[k] : k \in DOMAIN cache.held}) = Cardinality(DOMAIN cache.held)

\* A volume that refuses nothing gives a fault in one case only: the segment has
\* been freed and used again, and the read side, which has the old file open, looked
\* for a block of the new one in it.  A read in hand when its segment is freed is
\* still answered.
FaultMeansReused ==
    fault # None =>
      \E f \in DOMAIN file : /\ file[f].of = fault[1] /\ fault[2] \in file[f].blocks
                             /\ readfd[fault[1]] # 0 /\ readfd[fault[1]] < f

\* A read gives what its record's block holds, or a fault the reuse of a segment
\* explains, whatever hits, joined reads, evictions and removals it meets.
\* (cache.rs take_from_cache, keep, poll; files.rs file_of, read_block.)
ReadsAreTrue == RightBytes /\ ClaimsOrdered /\ FaultMeansReused

\* Every read taken is answered, or the node has met a fault and stops.
EveryReadAnswered == \A h \in Handles : (asked[h] # None) ~> (asked[h] = None \/ fault # None)

===============================================================================
