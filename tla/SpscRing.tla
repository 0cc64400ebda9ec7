------------------------------ MODULE SpscRing ------------------------------
(***************************************************************************)
(* The ring every two threads of the ledger meet in (base/src/spsc.rs).    *)
(* The producer publishes tail, the consumer head; each keeps a cached     *)
(* copy of the other's index and loads it again only when the copy says    *)
(* there is no room, or nothing to read.                                   *)
(*                                                                         *)
(* A step is one access to memory the other thread can see.  A load may    *)
(* return any value the other thread has stored since the one last loaded: *)
(* the atomics promise no more.  A slot's value is written before the      *)
(* release store of tail and read after the acquire load of it, so its     *)
(* reader sees it.  Producer::tail and Consumer::head repeat ring.tail and *)
(* ring.head for the one thread that stores them, and are not kept apart.  *)
(***************************************************************************)
EXTENDS Integers, Sequences

CONSTANTS Values,    \* what is sent
          NoValue,   \* a slot that holds nothing
          Capacity,  \* slots: mask + 1
          Laps,      \* how often Capacity goes into the range of an index
          MaxPush    \* bound: values one push_from is given

\* Both are powers of two: an index wraps at a multiple of the capacity.
ASSUME CapacityAssumption == Capacity \in Nat \ {0} /\ Laps \in Nat \ {0, 1}
ASSUME ValuesAssumption == NoValue \notin Values /\ MaxPush \in Nat \ {0}

VARIABLES
    slots,        \* what each slot holds
    head, tail,   \* the two shared indices
    cached_head,  \* Producer::cached_head
    cached_tail,  \* Consumer::cached_tail
    producer,     \* where the producer is in a push: pc, values, how many written
    consumer,     \* where the consumer is in a pop: pc, value read
    wrapped,      \* the producer is inside a StagedProducer
    staged,       \* StagedProducer::staged
    received,     \* what the last pop returned
    dropped       \* both ends are gone and the ring with them

producerVars == <<cached_head, producer, wrapped, staged>>
consumerVars == <<cached_tail, consumer, received>>
vars == <<slots, head, tail, producerVars, consumerVars, dropped>>

-----------------------------------------------------------------------------
(***************************************************************************)
(* Indices are unsigned words that wrap.                                   *)
(***************************************************************************)
Modulus == Capacity * Laps
Index   == 0..(Modulus - 1)
Slots   == 0..(Capacity - 1)

WrappingAdd(i, n) == IF i + n < Modulus THEN i + n ELSE i + n - Modulus
WrappingSub(i, j) == IF j <= i THEN i - j ELSE i - j + Modulus

\* index & mask
SlotOf(i) == i % Capacity

\* Seeded fault: the ring is taken to be one larger than it is.
FreeOneMore(seen) == Capacity + 1 - WrappingSub(tail, seen)

\* Room, going by what the producer has seen of head.
Free(seen) == Capacity - WrappingSub(tail, seen)

Idle    == [pc |-> "idle", batch |-> <<>>, written |-> 0]
Resting == [pc |-> "idle", value |-> NoValue]

Init ==
    /\ slots = [k \in Slots |-> NoValue]
    /\ head = 0 /\ tail = 0 /\ cached_head = 0 /\ cached_tail = 0
    /\ producer = Idle /\ consumer = Resting
    /\ wrapped \in BOOLEAN /\ staged = NoValue
    /\ received = NoValue /\ dropped = FALSE

-----------------------------------------------------------------------------
(***************************************************************************)
(* The producer.                                                           *)
(***************************************************************************)
\* The first test of push and push_from, on the cached head.
Offer(batch) ==
    /\ producer.pc = "idle" /\ ~dropped
    /\ producer' = [pc |-> IF Free(cached_head) < Len(batch) THEN "load" ELSE "write",
                    batch |-> batch, written |-> 0]
    /\ UNCHANGED <<slots, head, tail, cached_head, wrapped, staged, consumerVars, dropped>>

\* push and push_from.
Push(batch) == ~wrapped /\ Offer(batch)

\* StagedProducer::send, which its callers make only while nothing is staged.
Send(v) == wrapped /\ staged = NoValue /\ Offer(<<v>>)

\* StagedProducer::flush: the staged value is offered again.
Flush == wrapped /\ staged # NoValue /\ Offer(<<staged>>)

\* Seeded fault: a value refused a second time is lost.
LoadHeadLoses ==
    /\ producer.pc = "load"
    /\ \E n \in 0..WrappingSub(head, cached_head) :
          LET seen == WrappingAdd(cached_head, n)
              fit  == IF Free(seen) < Len(producer.batch) THEN Free(seen) ELSE Len(producer.batch)
          IN  /\ cached_head' = seen
              /\ IF fit = 0
                 THEN /\ producer' = Idle
                      /\ staged' = IF wrapped /\ staged = NoValue THEN producer.batch[1]
                                   ELSE NoValue
                 ELSE /\ producer' = [pc |-> "write", written |-> 0,
                                      batch |-> SubSeq(producer.batch, 1, fit)]
                      /\ UNCHANGED staged
    /\ UNCHANGED <<slots, head, tail, wrapped, consumerVars, dropped>>

\* The load of head, and the second test: what fits is written; a push that
\* does not fit gives its value back, a send and a flush stage it.
LoadHead ==
    /\ producer.pc = "load"
    /\ \E n \in 0..WrappingSub(head, cached_head) :
          LET seen == WrappingAdd(cached_head, n)
              fit  == IF Free(seen) < Len(producer.batch) THEN Free(seen) ELSE Len(producer.batch)
          IN  /\ cached_head' = seen
              /\ IF fit = 0
                 THEN /\ producer' = Idle
                      /\ staged' = IF wrapped THEN producer.batch[1] ELSE staged
                 ELSE /\ producer' = [pc |-> "write", written |-> 0,
                                      batch |-> SubSeq(producer.batch, 1, fit)]
                      /\ UNCHANGED staged
    /\ UNCHANGED <<slots, head, tail, wrapped, consumerVars, dropped>>

\* One slot of the batch; no other thread may see it yet.
WriteSlot ==
    /\ producer.pc = "write"
    /\ LET n == producer.written + 1
       IN  /\ slots' = [slots EXCEPT ![SlotOf(WrappingAdd(tail, producer.written))] =
                                        producer.batch[n]]
           /\ producer' = [producer EXCEPT !.written = n,
                              !.pc = IF n = Len(producer.batch) THEN "store" ELSE "write"]
    /\ UNCHANGED <<head, tail, cached_head, wrapped, staged, consumerVars, dropped>>

\* The release store that publishes the batch.
StoreTail ==
    /\ producer.pc = "store"
    /\ tail' = WrappingAdd(tail, Len(producer.batch))
    /\ producer' = Idle /\ staged' = NoValue
    /\ UNCHANGED <<slots, head, cached_head, wrapped, consumerVars, dropped>>

-----------------------------------------------------------------------------
(***************************************************************************)
(* The consumer.                                                           *)
(***************************************************************************)
\* Seeded fault: nothing is loaded again.
PopOnCached ==
    /\ consumer.pc = "idle" /\ ~dropped
    /\ consumer' = [consumer EXCEPT !.pc = "read"]
    /\ UNCHANGED <<slots, head, tail, producerVars, cached_tail, received, dropped>>

\* The first test of pop, on the cached tail.
Pop ==
    /\ consumer.pc = "idle" /\ ~dropped
    /\ consumer' = [consumer EXCEPT !.pc = IF head = cached_tail THEN "load" ELSE "read"]
    /\ UNCHANGED <<slots, head, tail, producerVars, cached_tail, received, dropped>>

\* The load of tail, and the second test.
LoadTail ==
    /\ consumer.pc = "load"
    /\ \E n \in 0..WrappingSub(tail, cached_tail) :
          LET seen == WrappingAdd(cached_tail, n)
          IN  /\ cached_tail' = seen
              /\ consumer' = [consumer EXCEPT !.pc = IF head = seen THEN "idle" ELSE "read"]
    /\ UNCHANGED <<slots, head, tail, producerVars, received, dropped>>

\* assume_init_read moves the value out of its slot.
ReadSlot ==
    /\ consumer.pc = "read"
    /\ consumer' = [pc |-> "store", value |-> slots[SlotOf(head)]]
    /\ slots' = [slots EXCEPT ![SlotOf(head)] = NoValue]
    /\ UNCHANGED <<head, tail, producerVars, cached_tail, received, dropped>>

\* The release store that gives the slot back.
StoreHead ==
    /\ consumer.pc = "store"
    /\ head' = WrappingAdd(head, 1)
    /\ received' = consumer.value /\ consumer' = Resting
    /\ UNCHANGED <<slots, tail, producerVars, cached_tail, dropped>>

-----------------------------------------------------------------------------
\* Ring::drop, once both ends are gone: every value still inside is dropped.
DropRing ==
    /\ producer.pc = "idle" /\ consumer.pc = "idle" /\ ~dropped
    /\ dropped' = TRUE /\ staged' = NoValue
    /\ LET inside == {SlotOf(WrappingAdd(head, n)) : n \in 0..(WrappingSub(tail, head) - 1)}
       IN  slots' = [k \in Slots |-> IF k \in inside THEN NoValue ELSE slots[k]]
    /\ UNCHANGED <<head, tail, cached_head, producer, wrapped, consumerVars>>

Batches == UNION {[1..n -> Values] : n \in 1..MaxPush}

Producer == \/ \E batch \in Batches : Push(batch)
            \/ \E v \in Values : Send(v)
            \/ Flush \/ LoadHead \/ WriteSlot \/ StoreTail

Consumer == Pop \/ LoadTail \/ ReadSlot \/ StoreHead

Next == Producer \/ Consumer \/ DropRing

Spec == Init /\ [][Next]_vars

-----------------------------------------------------------------------------
\* Type correctness.
TypeOK ==
    /\ slots \in [Slots -> Values \cup {NoValue}]
    /\ head \in Index /\ tail \in Index /\ cached_head \in Index /\ cached_tail \in Index
    /\ producer \in [pc : {"idle", "load", "write", "store"}, batch : Seq(Values),
                     written : Nat]
    /\ consumer \in [pc : {"idle", "load", "read", "store"},
                     value : Values \cup {NoValue}]
    /\ wrapped \in BOOLEAN /\ dropped \in BOOLEAN
    /\ staged \in Values \cup {NoValue} /\ received \in Values \cup {NoValue}

\* A stale copy is only ever behind: going round the ring from what the
\* producer has seen of head one meets head, what the consumer has seen of
\* tail, and tail, within one capacity.  So a full ring never looks empty, and
\* len(), two loads that are not one, never wraps.
IndicesInOrder ==
    /\ WrappingSub(tail, cached_head) <= Capacity
    /\ WrappingSub(head, cached_head) + WrappingSub(cached_tail, head)
          + WrappingSub(tail, cached_tail) = WrappingSub(tail, cached_head)

\* The promise behind the unsafe blocks: a slot is written only while it holds
\* nothing, read only while it holds a value, never by both threads at once,
\* and a dropped ring has dropped what was in it.
OneOwner ==
    LET target == SlotOf(WrappingAdd(tail, producer.written))
    IN  /\ producer.pc = "write" => slots[target] = NoValue
        /\ consumer.pc = "read" => slots[SlotOf(head)] # NoValue
        /\ (producer.pc = "write" /\ consumer.pc \in {"read", "store"}) => target # SlotOf(head)
        /\ dropped => slots = [k \in Slots |-> NoValue]

\* The value at position n of the window, one already moved out included.
Content(n) == IF n = 0 /\ consumer.pc = "store" THEN consumer.value
              ELSE slots[SlotOf(WrappingAdd(head, n))]

Inside == [i \in 1..WrappingSub(tail, head) |-> Content(i - 1)]

\* As a queue: the window, and behind it the value a staged producer holds.
Queue == IF dropped THEN <<>>
         ELSE IF staged = NoValue THEN Inside ELSE Append(Inside, staged)

Limit == IF wrapped THEN Capacity + 1 ELSE Capacity

Fifo == INSTANCE BoundedFifo WITH queue <- Queue, limit <- Limit

\* The ring is a bounded queue, and a staged producer one with a place more:
\* no interleaving of stale loads, wraps, batches and refusals loses,
\* duplicates or reorders a value.
RefinesFifo == Fifo!Spec

-----------------------------------------------------------------------------
(***************************************************************************)
(* What makes these inductive.                                             *)
(***************************************************************************)
\* A push writes no more than the room it has seen, and knows what it pushes.
PushFits ==
    /\ producer.pc = "idle" => producer = Idle
    /\ producer.pc = "load" => producer.batch # <<>> /\ producer.written = 0
    /\ producer.pc = "write" => producer.written < Len(producer.batch)
    /\ producer.pc = "store" => producer.written = Len(producer.batch)
    /\ producer.pc \in {"write", "store"} => /\ producer.batch # <<>>
                                            /\ Len(producer.batch) <= Free(cached_head)
    /\ (wrapped /\ producer.pc # "idle") =>
          /\ Len(producer.batch) = 1
          /\ staged # NoValue => producer.batch[1] = staged
    /\ ~wrapped => staged = NoValue
    /\ consumer.pc \in {"read", "store"} => head # cached_tail
    /\ consumer.pc = "store" => consumer.value # NoValue
    /\ dropped => producer.pc = "idle" /\ consumer.pc = "idle" /\ staged = NoValue

\* The slots that hold a value are those between head and the last one
\* written, less the one being read; the last ones are the batch's.
SlotsMatch ==
    /\ ~dropped =>
          \A n \in Slots :
             slots[SlotOf(WrappingAdd(head, n))] # NoValue
             <=> /\ n < WrappingSub(tail, head) + producer.written
                 /\ n = 0 => consumer.pc # "store"
    /\ \A n \in 1..producer.written :
          slots[SlotOf(WrappingAdd(tail, n - 1))] = producer.batch[n]
    /\ dropped => slots = [k \in Slots |-> NoValue]

RingInv == TypeOK /\ IndicesInOrder /\ PushFits /\ SlotsMatch
=============================================================================
