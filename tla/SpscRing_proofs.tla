-------------------------- MODULE SpscRing_proofs --------------------------
(***************************************************************************)
(* Proofs about SpscRing, for every capacity, every width of an index and  *)
(* every set of values.                                                    *)
(***************************************************************************)
EXTENDS SpscRing, SequenceTheorems, TLAPS

(***************************************************************************)
(* Arithmetic of wrapping indices.                                         *)
(***************************************************************************)
\* An index has room for two capacities at least.
LEMMA ModulusFacts ==
    Modulus \in Nat /\ Capacity \in Nat /\ Capacity >= 1 /\ Modulus >= 2 * Capacity
BY CapacityAssumption DEF Modulus

\* Division by the capacity.
LEMMA Divided ==
    ASSUME NEW a \in Nat
    PROVE  a % Capacity \in Slots /\ \E q \in Int : a = Capacity * q + (a % Capacity)
<1>1. a % Capacity \in Slots
  BY CapacityAssumption DEF Slots
<1>2. a = Capacity * (a \div Capacity) + (a % Capacity)
  BY CapacityAssumption
<1>3. (a \div Capacity) \in Int
  BY CapacityAssumption
<1>4. QED  BY <1>1, <1>2, <1>3

LEMMA AtLeastOnce ==
    ASSUME NEW d \in Int, d >= 1
    PROVE  Capacity * d >= Capacity
BY CapacityAssumption

\* The remainder is the only one.
LEMMA OneRemainder ==
    ASSUME NEW q \in Int, NEW r \in Slots, NEW p \in Int, NEW s \in Slots,
           Capacity * q + r = Capacity * p + s
    PROVE  r = s
<1>1. Capacity * (q - p) = s - r /\ Capacity * (p - q) = r - s
  BY CapacityAssumption DEF Slots
<1>2. CASE q - p >= 1
  <2>1. Capacity * (q - p) >= Capacity
    BY <1>2, AtLeastOnce
  <2>2. QED  BY <2>1, <1>1, CapacityAssumption DEF Slots
<1>3. CASE p - q >= 1
  <2>1. Capacity * (p - q) >= Capacity
    BY <1>3, AtLeastOnce
  <2>2. QED  BY <2>1, <1>1, CapacityAssumption DEF Slots
<1>4. CASE p = q
  BY <1>4, <1>1, CapacityAssumption DEF Slots
<1>5. QED  BY <1>2, <1>3, <1>4

\* The slots of neighbouring indices are neighbours, also where an index wraps.
LEMMA SlotAdd ==
    ASSUME NEW i \in Index, NEW n \in 0..Capacity
    PROVE  /\ SlotOf(i) \in Slots
           /\ WrappingAdd(i, n) \in Index /\ SlotOf(WrappingAdd(i, n)) \in Slots
           /\ SlotOf(WrappingAdd(i, n)) =
                 IF SlotOf(i) + n < Capacity THEN SlotOf(i) + n ELSE SlotOf(i) + n - Capacity
<1> DEFINE j == WrappingAdd(i, n)
           s == IF SlotOf(i) + n < Capacity THEN SlotOf(i) + n ELSE SlotOf(i) + n - Capacity
<1>1. j \in Index /\ j \in Nat /\ i \in Nat
  BY ModulusFacts DEF WrappingAdd, Index
<1>2. SlotOf(i) \in Slots /\ SlotOf(j) \in Slots
  BY <1>1, Divided DEF SlotOf
<1>3. s \in Slots
  BY <1>2, ModulusFacts DEF Slots
<1>4. PICK q \in Int : i = Capacity * q + SlotOf(i)
  BY <1>1, Divided DEF SlotOf
<1>5. PICK p \in Int : j = Capacity * p + SlotOf(j)
  BY <1>1, Divided DEF SlotOf
<1>6. \E t \in Int : j = Capacity * t + s
  <2> DEFINE carry == IF SlotOf(i) + n < Capacity THEN 0 ELSE 1
             turn  == IF i + n < Modulus THEN 0 ELSE 1
  <2>1. j = i + n - turn * Modulus /\ turn \in {0, 1}
    BY ModulusFacts DEF WrappingAdd, Index
  <2>2. SlotOf(i) + n = s + carry * Capacity /\ carry \in {0, 1}
    BY <1>2, ModulusFacts DEF Slots
  <2>3. j = Capacity * q + s + carry * Capacity - turn * (Capacity * Laps)
    BY <2>1, <2>2, <1>2, <1>3, <1>4, CapacityAssumption DEF Modulus, Slots
  <2>4. Capacity * q + s + carry * Capacity - turn * (Capacity * Laps)
           = Capacity * (q + carry - turn * Laps) + s
    <3> HIDE DEF carry, turn, s
    <3>1. CASE turn = 0
      BY <3>1, <2>2, <1>3, CapacityAssumption DEF Slots
    <3>2. CASE turn = 1
      BY <3>2, <2>2, <1>3, CapacityAssumption DEF Slots
    <3>3. QED  BY <3>1, <3>2, <2>1
  <2>5. q + carry - turn * Laps \in Int
    BY <2>1, <2>2, CapacityAssumption
  <2>6. QED  BY <2>3, <2>4, <2>5
<1>7. SlotOf(j) = s
  BY <1>2, <1>3, <1>5, <1>6, OneRemainder
<1>8. QED  BY <1>1, <1>2, <1>7

\* Positions less than a capacity apart have slots of their own.
LEMMA SlotsApart ==
    ASSUME NEW i \in Index, NEW m \in Slots, NEW n \in Slots,
           SlotOf(WrappingAdd(i, m)) = SlotOf(WrappingAdd(i, n))
    PROVE  m = n
<1>1. m \in 0..Capacity /\ n \in 0..Capacity
  BY ModulusFacts DEF Slots
<1>2. /\ SlotOf(i) \in Slots
      /\ SlotOf(WrappingAdd(i, m)) =
            IF SlotOf(i) + m < Capacity THEN SlotOf(i) + m ELSE SlotOf(i) + m - Capacity
      /\ SlotOf(WrappingAdd(i, n)) =
            IF SlotOf(i) + n < Capacity THEN SlotOf(i) + n ELSE SlotOf(i) + n - Capacity
  BY <1>1, SlotAdd
<1>3. (IF SlotOf(i) + m < Capacity THEN SlotOf(i) + m ELSE SlotOf(i) + m - Capacity)
         = IF SlotOf(i) + n < Capacity THEN SlotOf(i) + n ELSE SlotOf(i) + n - Capacity
  BY <1>2
<1>4. \A s \in Slots :
         (IF s + m < Capacity THEN s + m ELSE s + m - Capacity)
            = (IF s + n < Capacity THEN s + n ELSE s + n - Capacity)
         => m = n
  BY ModulusFacts DEF Slots
<1>5. QED  BY <1>2, <1>3, <1>4

\* Every slot is at some position from any index.
LEMMA SlotsCovered ==
    ASSUME NEW i \in Index, NEW k \in Slots
    PROVE  \E n \in Slots : SlotOf(WrappingAdd(i, n)) = k
<1> DEFINE n == IF SlotOf(i) <= k THEN k - SlotOf(i) ELSE k - SlotOf(i) + Capacity
<1>1. 0 \in 0..Capacity
  BY ModulusFacts
<1>2. SlotOf(i) \in Slots
  BY <1>1, SlotAdd
<1>3. n \in Slots /\ n \in 0..Capacity
  BY <1>2, ModulusFacts DEF Slots
<1>4. SlotOf(WrappingAdd(i, n)) =
         IF SlotOf(i) + n < Capacity THEN SlotOf(i) + n ELSE SlotOf(i) + n - Capacity
  <2> HIDE DEF n
  <2>1. QED  BY <1>3, SlotAdd
<1>5. SlotOf(WrappingAdd(i, n)) = k
  BY <1>2, <1>4, ModulusFacts DEF Slots
<1>6. QED  BY <1>3, <1>5

\* Moving either end of a distance.
LEMMA Distances ==
    ASSUME NEW i \in Index, NEW j \in Index
    PROVE  /\ WrappingSub(i, j) \in Index
           /\ WrappingSub(i, j) = 0 <=> i = j
           /\ WrappingAdd(j, WrappingSub(i, j)) = i
           /\ WrappingAdd(i, 0) = i
           /\ \A n \in Index : WrappingAdd(i, n) \in Index
           /\ \A n \in Index : WrappingSub(i, j) + n < Modulus
                 => WrappingSub(WrappingAdd(i, n), j) = WrappingSub(i, j) + n
           /\ \A n \in Index : n <= WrappingSub(i, j)
                 => WrappingSub(i, WrappingAdd(j, n)) = WrappingSub(i, j) - n
           /\ \A m, n \in Index : m + n < Modulus
                 => WrappingAdd(WrappingAdd(i, m), n) = WrappingAdd(i, m + n)
BY ModulusFacts DEF WrappingAdd, WrappingSub, Index

\* The window between head and tail, and what either thread has seen of it.
LEMMA Window ==
    ASSUME TypeOK, IndicesInOrder
    PROVE  /\ WrappingSub(tail, head) \in 0..Capacity
           /\ WrappingSub(tail, head) = WrappingSub(cached_tail, head) + WrappingSub(tail, cached_tail)
           /\ WrappingSub(tail, cached_head) = WrappingSub(head, cached_head) + WrappingSub(tail, head)
           /\ WrappingSub(cached_tail, head) \in 0..Capacity
           /\ WrappingSub(tail, cached_tail) \in 0..Capacity
           /\ WrappingSub(head, cached_head) \in 0..Capacity
           /\ WrappingSub(tail, cached_head) \in 0..Capacity
           /\ head # cached_tail => WrappingSub(cached_tail, head) >= 1
           /\ Free(cached_head) \in 0..Capacity
           /\ WrappingSub(tail, head) + Free(cached_head) <= Capacity
BY ModulusFacts DEF TypeOK, IndicesInOrder, WrappingSub, Index, Free

LEMMA SumBound ==
    ASSUME NEW a \in Nat, NEW b \in Nat, NEW c \in Nat, NEW d \in Nat, b <= c, a + c <= d
    PROVE  a + b <= d
OBVIOUS

\* What the producer has written fits behind what the ring holds.
LEMMA WrittenFits ==
    ASSUME TypeOK, IndicesInOrder, PushFits
    PROVE  producer.written \in Nat /\ WrappingSub(tail, head) + producer.written <= Capacity
<1>1. producer.written \in Nat /\ Len(producer.batch) \in Nat
  BY DEF TypeOK
<1>2. /\ WrappingSub(tail, head) \in Nat /\ Free(cached_head) \in Nat /\ Capacity \in Nat
      /\ WrappingSub(tail, head) + Free(cached_head) <= Capacity
  BY Window, ModulusFacts
<1>3. producer.written <= Free(cached_head)
  <2>1. CASE producer.pc \in {"idle", "load"}
    <3>1. producer.written = 0
      BY <2>1 DEF PushFits, Idle
    <3>2. QED  BY <3>1, <1>2
  <2>2. CASE producer.pc \in {"write", "store"}
    <3>1. producer.written <= Len(producer.batch) /\ Len(producer.batch) <= Free(cached_head)
      BY <2>2, <1>1 DEF PushFits
    <3>2. QED  BY <3>1, <1>1, <1>2
  <2>3. QED  BY <2>1, <2>2 DEF TypeOK
<1>4. QED  BY <1>1, <1>2, <1>3, SumBound

(***************************************************************************)
(* Type correctness.                                                       *)
(***************************************************************************)
LEMMA InitInv == Init => RingInv
<1> SUFFICES ASSUME Init PROVE RingInv
  OBVIOUS
<1>1. 0 \in Index /\ 0 \in 0..Capacity
  BY ModulusFacts DEF Index
<1>2. WrappingSub(0, 0) = 0
  BY ModulusFacts DEF WrappingSub
<1>3. TypeOK
  <2>1. Idle \in [pc : {"idle", "load", "write", "store"}, batch : Seq(Values), written : Nat]
    BY DEF Idle
  <2>2. Resting \in [pc : {"idle", "load", "read", "store"}, value : Values \cup {NoValue}]
    BY DEF Resting
  <2>3. QED  BY <1>1, <2>1, <2>2 DEF Init, TypeOK
<1>4. IndicesInOrder
  BY <1>2, ModulusFacts DEF Init, IndicesInOrder
<1>5. PushFits
  BY DEF Init, PushFits, Idle, Resting
<1>6. SlotsMatch
  <2>1. \A n \in Slots : SlotOf(WrappingAdd(0, n)) \in Slots
    <3>1. \A n \in Slots : n \in 0..Capacity /\ WrappingAdd(0, n) \in Index
      BY <1>1, SlotAdd, ModulusFacts DEF Slots
    <3>2. QED  BY <3>1, <1>1, SlotAdd
  <2>2. QED
    BY <1>2, <2>1 DEF Init, SlotsMatch, Idle, Slots
<1>7. QED  BY <1>3, <1>4, <1>5, <1>6 DEF RingInv

(***************************************************************************)
(* Steps that leave the slots alone.                                       *)
(***************************************************************************)
LEMMA IndicesSame ==
    ASSUME IndicesInOrder, UNCHANGED <<head, tail, cached_head, cached_tail>>
    PROVE  IndicesInOrder'
BY DEF IndicesInOrder

LEMMA SlotsSame ==
    ASSUME SlotsMatch, UNCHANGED <<slots, head, tail, dropped>>,
           producer.written = 0, producer'.written = 0,
           consumer'.pc = "store" <=> consumer.pc = "store"
    PROVE  SlotsMatch'
BY DEF SlotsMatch

LEMMA OfferKeeps ==
    ASSUME RingInv, NEW batch \in Seq(Values), batch # <<>>, Offer(batch),
           wrapped => /\ Len(batch) = 1
                      /\ staged # NoValue => batch[1] = staged
    PROVE  RingInv'
<1> USE DEF RingInv
<1>1. /\ producer = Idle /\ producer.written = 0 /\ ~dropped
      /\ UNCHANGED <<slots, head, tail, cached_head, cached_tail, wrapped, staged,
                     consumer, received, dropped>>
  BY DEF Offer, PushFits, Idle, consumerVars
<1>2. /\ producer'.pc \in {"load", "write"} /\ producer'.batch = batch
      /\ producer'.written = 0
      /\ producer'.pc = "write" => ~(Free(cached_head) < Len(batch))
  BY DEF Offer
<1>3. producer' \in [pc : {"idle", "load", "write", "store"}, batch : Seq(Values),
                     written : Nat]
  BY DEF Offer
<1>4. TypeOK'
  BY <1>1, <1>3 DEF TypeOK
<1>5. IndicesInOrder'
  BY <1>1, IndicesSame
<1>6. PushFits'
  <2>1. Free(cached_head)' = Free(cached_head) /\ Free(cached_head) \in Int
    BY <1>1, Window DEF Free
  <2>2. Len(batch) \in Nat /\ 0 < Len(batch)
    OBVIOUS
  <2>3. producer'.pc = "write" => Len(batch) <= Free(cached_head)
    BY <1>2, <2>1, <2>2
  <2>4. QED  BY <1>1, <1>2, <2>1, <2>2, <2>3 DEF PushFits
<1>7. SlotsMatch'
  BY <1>1, <1>2, SlotsSame
<1>8. QED  BY <1>4, <1>5, <1>6, <1>7

LEMMA LoadHeadKeeps ==
    ASSUME RingInv, LoadHead
    PROVE  RingInv'
<1> USE DEF RingInv
<1>1. /\ producer.pc = "load" /\ producer.written = 0 /\ ~dropped
      /\ producer.batch \in Seq(Values) /\ producer.batch # <<>>
      /\ UNCHANGED <<slots, head, tail, wrapped, cached_tail, consumer, received, dropped>>
  BY DEF LoadHead, PushFits, consumerVars, TypeOK
<1>2. PICK n \in 0..WrappingSub(head, cached_head) :
         LET seen == WrappingAdd(cached_head, n)
             fit  == IF Free(seen) < Len(producer.batch) THEN Free(seen)
                     ELSE Len(producer.batch)
         IN  /\ cached_head' = seen
             /\ IF fit = 0
                THEN /\ producer' = Idle
                     /\ staged' = IF wrapped THEN producer.batch[1] ELSE staged
                ELSE /\ producer' = [pc |-> "write", written |-> 0,
                                     batch |-> SubSeq(producer.batch, 1, fit)]
                     /\ UNCHANGED staged
  BY DEF LoadHead
<1> DEFINE seen == WrappingAdd(cached_head, n)
           fit  == IF Free(seen) < Len(producer.batch) THEN Free(seen)
                   ELSE Len(producer.batch)
<1>3. /\ seen \in Index
      /\ WrappingSub(head, seen) = WrappingSub(head, cached_head) - n
      /\ WrappingSub(tail, seen) = WrappingSub(tail, cached_head) - n
  <2>1. n \in Index /\ n <= WrappingSub(head, cached_head) /\ n <= WrappingSub(tail, cached_head)
    BY Window, ModulusFacts DEF Index
  <2>2. QED  BY <2>1, Distances DEF TypeOK
<1>4. /\ Free(seen) \in 0..Capacity /\ Len(producer.batch) \in Nat \ {0}
      /\ fit \in Nat /\ fit <= Len(producer.batch) /\ fit <= Free(seen)
  <2>1. WrappingSub(tail, seen) \in 0..Capacity
    BY <1>3, Window, ModulusFacts
  <2>2. Free(seen) \in 0..Capacity
    BY <2>1, ModulusFacts DEF Free
  <2>3. Len(producer.batch) \in Nat \ {0}
    BY <1>1
  <2> HIDE DEF seen
  <2>4. QED  BY <2>2, <2>3, ModulusFacts
<1>5. Free(cached_head)' = Free(seen)
  BY <1>1, <1>2 DEF Free
<1> HIDE DEF seen, fit
<1>6. IndicesInOrder'
  <2>1. cached_head' = seen
    BY <1>2 DEF seen
  <2>2. /\ WrappingSub(tail, seen) <= Capacity
        /\ WrappingSub(head, seen) + WrappingSub(cached_tail, head)
              + WrappingSub(tail, cached_tail) = WrappingSub(tail, seen)
    BY <1>3, Window, ModulusFacts
  <2>3. QED  BY <1>1, <2>1, <2>2 DEF IndicesInOrder
<1>7. CASE fit = 0
  <2>1. producer' = Idle /\ staged' = IF wrapped THEN producer.batch[1] ELSE staged
    BY <1>2, <1>7 DEF fit, seen
  <2>2. producer.batch[1] \in Values
    BY <1>1, <1>4
  <2>3. Idle \in [pc : {"idle", "load", "write", "store"}, batch : Seq(Values), written : Nat]
    BY DEF Idle
  <2>4. TypeOK'
    BY <1>1, <1>2, <1>3, <2>1, <2>2, <2>3 DEF TypeOK, seen
  <2>5. PushFits'
    BY <1>1, <2>1 DEF PushFits, Idle
  <2>6. SlotsMatch'
    BY <1>1, <2>1, SlotsSame DEF Idle
  <2>7. QED  BY <2>4, <2>5, <2>6, <1>6
<1>8. CASE fit # 0
  <2>1. /\ producer' = [pc |-> "write", written |-> 0,
                        batch |-> SubSeq(producer.batch, 1, fit)]
        /\ staged' = staged
    BY <1>2, <1>8 DEF fit, seen
  <2>2. /\ SubSeq(producer.batch, 1, fit) \in Seq(Values)
        /\ Len(SubSeq(producer.batch, 1, fit)) = fit
        /\ SubSeq(producer.batch, 1, fit)[1] = producer.batch[1]
    BY <1>1, <1>4, <1>8
  <2>3. producer'.batch # <<>> /\ Len(producer'.batch) = fit
    BY <2>1, <2>2, <1>8
  <2>4. TypeOK'
    BY <1>1, <1>2, <1>3, <2>1, <2>2 DEF TypeOK, seen
  <2>5. PushFits'
    <3>1. (wrapped /\ producer.pc # "idle") => Len(producer.batch) = 1
      BY DEF PushFits
    <3>2. wrapped => fit = 1
      <4>1. wrapped => fit <= 1
        BY <3>1, <1>1, <1>4
      <4>2. QED  BY <4>1, <1>4, <1>8
    <3>3. producer'.pc = "write" /\ producer'.written = 0 /\ producer'.written < fit
      BY <2>1, <1>4, <1>8
    <3>4. producer'.batch[1] = producer.batch[1]
      BY <2>1, <2>2
    <3>5. QED
      BY <1>1, <1>4, <1>5, <2>1, <2>3, <3>2, <3>3, <3>4 DEF PushFits
  <2>6. SlotsMatch'
    BY <1>1, <2>1, SlotsSame
  <2>7. QED  BY <2>4, <2>5, <2>6, <1>6
<1>9. QED  BY <1>7, <1>8

LEMMA PopKeeps ==
    ASSUME RingInv, Pop \/ LoadTail
    PROVE  RingInv'
<1> USE DEF RingInv
<1>1. /\ consumer.pc \in {"idle", "load"} /\ consumer'.pc \in {"idle", "load", "read"}
      /\ consumer'.value = consumer.value
      /\ consumer' \in [pc : {"idle", "load", "read", "store"}, value : Values \cup {NoValue}]
      /\ UNCHANGED <<slots, head, tail, cached_head, producer, wrapped, staged,
                     received, dropped>>
      /\ ~dropped
  BY DEF Pop, LoadTail, producerVars, TypeOK, PushFits
<1>2. \E n \in 0..WrappingSub(tail, cached_tail) : cached_tail' = WrappingAdd(cached_tail, n)
  <2>1. CASE LoadTail
    BY <2>1 DEF LoadTail
  <2>2. CASE Pop
    <3>1. cached_tail' = WrappingAdd(cached_tail, 0)
      BY <2>2, Distances DEF Pop, TypeOK
    <3>2. 0 \in 0..WrappingSub(tail, cached_tail)
      BY Window
    <3>3. QED  BY <3>1, <3>2
  <2>3. QED  BY <2>1, <2>2
<1>3. consumer'.pc = "read" => head # cached_tail'
  BY DEF Pop, LoadTail, TypeOK
<1>4. PICK n \in 0..WrappingSub(tail, cached_tail) : cached_tail' = WrappingAdd(cached_tail, n)
  BY <1>2
<1>5. /\ cached_tail' \in Index
      /\ WrappingSub(tail, cached_tail') = WrappingSub(tail, cached_tail) - n
      /\ WrappingSub(cached_tail', head) = WrappingSub(cached_tail, head) + n
  <2>1. /\ n \in Index /\ n <= WrappingSub(tail, cached_tail)
        /\ WrappingSub(cached_tail, head) + n < Modulus
    BY Window, ModulusFacts DEF Index
  <2>2. QED  BY <1>4, <2>1, Distances DEF TypeOK
<1>6. TypeOK'
  BY <1>1, <1>5 DEF TypeOK
<1>7. IndicesInOrder'
  BY <1>1, <1>5, Window DEF IndicesInOrder
<1>8. PushFits'
  <2>1. Free(cached_head)' = Free(cached_head)
    BY <1>1 DEF Free
  <2>2. QED  BY <1>1, <1>3, <2>1 DEF PushFits
<1>9. SlotsMatch'
  BY <1>1 DEF SlotsMatch
<1>10. QED  BY <1>6, <1>7, <1>8, <1>9

(***************************************************************************)
(* Steps that write, publish, read and give back slots.  Positions are     *)
(* counted from head: the batch being written begins where the window      *)
(* ends.                                                                   *)
(***************************************************************************)
LEMMA BatchPosition ==
    ASSUME RingInv, NEW m \in Nat, m < Capacity
    PROVE  WrappingAdd(tail, m) = WrappingAdd(head, WrappingSub(tail, head) + m)
<1>1. WrappingSub(tail, head) \in 0..Capacity
  BY Window DEF RingInv
<1>2. /\ WrappingSub(tail, head) \in Index /\ m \in Index
      /\ WrappingSub(tail, head) + m < Modulus
  BY <1>1, ModulusFacts DEF Index
<1>3. WrappingAdd(head, WrappingSub(tail, head)) = tail
  BY Distances DEF RingInv, TypeOK
<1>4. WrappingAdd(WrappingAdd(head, WrappingSub(tail, head)), m)
         = WrappingAdd(head, WrappingSub(tail, head) + m)
  <2>1. head \in Index
    BY DEF RingInv, TypeOK
  <2>2. QED  BY <1>2, <2>1, ModulusFacts DEF WrappingAdd, Index
<1>5. QED  BY <1>3, <1>4

\* Slot numbers are slot numbers.
LEMMA SlotInRange ==
    ASSUME NEW i \in Index, NEW n \in Slots
    PROVE  SlotOf(WrappingAdd(i, n)) \in Slots /\ WrappingAdd(i, n) \in Index
<1>1. n \in 0..Capacity
  BY ModulusFacts DEF Slots
<1>2. QED  BY <1>1, SlotAdd

LEMMA AtHead ==
    ASSUME NEW i \in Index
    PROVE  0 \in Slots /\ WrappingAdd(i, 0) = i
<1>1. 0 \in Slots
  BY ModulusFacts DEF Slots
<1>2. WrappingAdd(i, 0) = i
  BY ModulusFacts DEF WrappingAdd, Index
<1>3. QED  BY <1>1, <1>2

\* The slot written is the first behind the window and the batch so far.
LEMMA WritesAt ==
    ASSUME RingInv, WriteSlot
    PROVE  /\ WrappingSub(tail, head) \in 0..Capacity
           /\ WrappingSub(tail, head) + Len(producer.batch) <= Capacity
           /\ WrappingSub(tail, head) + producer.written \in Slots
           /\ SlotOf(WrappingAdd(tail, producer.written)) \in Slots
           /\ producer.batch[producer.written + 1] \in Values
           /\ \A n \in Slots :
                 slots'[SlotOf(WrappingAdd(head, n))] =
                    IF n = WrappingSub(tail, head) + producer.written
                    THEN producer.batch[producer.written + 1]
                    ELSE slots[SlotOf(WrappingAdd(head, n))]
<1> USE DEF RingInv
<1> DEFINE w == producer.written
           len == Len(producer.batch)
           size == WrappingSub(tail, head)
           target == SlotOf(WrappingAdd(tail, w))
<1>1. /\ w \in Nat /\ producer.batch \in Seq(Values) /\ len \in Nat /\ w < len
      /\ len <= Free(cached_head)
  BY DEF WriteSlot, PushFits, TypeOK
<1>2. slots' = [slots EXCEPT ![target] = producer.batch[w + 1]]
  BY DEF WriteSlot
<1>3. size \in 0..Capacity /\ size + len <= Capacity
  <2>1. /\ size \in 0..Capacity /\ Free(cached_head) \in 0..Capacity
        /\ size + Free(cached_head) <= Capacity
    BY Window
  <2>2. QED  BY <1>1, <2>1, ModulusFacts
<1>4. size + w \in Slots /\ w \in Slots
  BY <1>1, <1>3, ModulusFacts DEF Slots
<1>5. target \in Slots /\ target = SlotOf(WrappingAdd(head, size + w))
  <2>1. WrappingAdd(tail, w) = WrappingAdd(head, size + w)
    BY <1>4, BatchPosition, ModulusFacts DEF Slots
  <2>2. QED  BY <1>4, <2>1, SlotInRange DEF TypeOK
<1>6. producer.batch[w + 1] \in Values
  BY <1>1
<1> HIDE DEF w, len, size, target
<1>7. \A n \in Slots :
          slots'[SlotOf(WrappingAdd(head, n))] =
             IF n = size + w THEN producer.batch[w + 1] ELSE slots[SlotOf(WrappingAdd(head, n))]
  <2> TAKE n \in Slots
  <2>1. SlotOf(WrappingAdd(head, n)) \in Slots
    BY SlotInRange DEF TypeOK
  <2>2. n # size + w => SlotOf(WrappingAdd(head, n)) # target
    BY <1>4, <1>5, SlotsApart DEF TypeOK
  <2>3. QED  BY <1>2, <1>5, <2>1, <2>2 DEF TypeOK
<1>8. QED  BY <1>3, <1>4, <1>5, <1>6, <1>7 DEF w, len, size, target

LEMMA WriteSlotKeeps ==
    ASSUME RingInv, WriteSlot
    PROVE  RingInv'
<1> USE DEF RingInv
<1> DEFINE w == producer.written
           len == Len(producer.batch)
           size == WrappingSub(tail, head)
           target == SlotOf(WrappingAdd(tail, w))
<1>1. /\ producer.pc = "write" /\ ~dropped
      /\ w \in Nat /\ producer.batch \in Seq(Values) /\ len \in Nat /\ w < len
      /\ len <= Free(cached_head) /\ producer.batch # <<>>
      /\ UNCHANGED <<head, tail, cached_head, cached_tail, wrapped, staged, consumer,
                     received, dropped>>
  BY DEF WriteSlot, PushFits, consumerVars, TypeOK
<1>2. /\ slots' = [slots EXCEPT ![target] = producer.batch[w + 1]]
      /\ producer' = [producer EXCEPT !.written = w + 1,
                         !.pc = IF w + 1 = len THEN "store" ELSE "write"]
  BY DEF WriteSlot
<1>3. /\ producer'.written = w + 1 /\ producer'.batch = producer.batch
      /\ producer'.pc = IF w + 1 = len THEN "store" ELSE "write"
      /\ producer' \in [pc : {"idle", "load", "write", "store"}, batch : Seq(Values),
                        written : Nat]
  <2> DEFINE pc == IF w + 1 = len THEN "store" ELSE "write"
  <2>1. pc \in {"idle", "load", "write", "store"} /\ w + 1 \in Nat
    BY <1>1
  <2>2. /\ producer \in [pc : {"idle", "load", "write", "store"}, batch : Seq(Values),
                         written : Nat]
        /\ producer' = [producer EXCEPT !.written = w + 1, !.pc = pc]
    BY <1>2 DEF TypeOK
  <2> HIDE DEF pc, w
  <2>3. QED  BY <2>1, <2>2 DEF pc
<1>4. size \in 0..Capacity /\ size + len <= Capacity
  BY WritesAt
<1>5. size + w \in Slots
  BY WritesAt
<1>6. target \in Slots
  BY WritesAt
<1>7. producer.batch[w + 1] \in Values
  BY WritesAt
<1> HIDE DEF w, len, size, target
<1>8. TypeOK'
  BY <1>1, <1>2, <1>3, <1>6, <1>7 DEF TypeOK
<1>9. IndicesInOrder'
  BY <1>1, IndicesSame
<1>10. PushFits'
  <2>1. Free(cached_head)' = Free(cached_head)
    BY <1>1 DEF Free
  <2>2. /\ producer'.pc = "write" => producer'.written < Len(producer'.batch)
        /\ producer'.pc = "store" => producer'.written = Len(producer'.batch)
    BY <1>1, <1>3 DEF len
  <2>3. QED
    BY <1>1, <1>3, <2>1, <2>2 DEF PushFits, len
<1>11. \A n \in Slots :
          slots'[SlotOf(WrappingAdd(head, n))] =
             IF n = size + w THEN producer.batch[w + 1] ELSE slots[SlotOf(WrappingAdd(head, n))]
  BY WritesAt DEF size, w
<1>12. SlotsMatch'
  <2>1. \A n \in Slots :
           slots'[SlotOf(WrappingAdd(head, n))] # NoValue
           <=> /\ n < size + (w + 1)
               /\ n = 0 => consumer.pc # "store"
    <3> TAKE n \in Slots
    <3>1. slots[SlotOf(WrappingAdd(head, n))] # NoValue
          <=> n < size + w /\ (n = 0 => consumer.pc # "store")
      BY <1>1 DEF SlotsMatch, size, w
    <3>2. n \in Nat /\ size + w \in Nat /\ size \in Nat /\ w \in Nat
      BY <1>1, <1>4, ModulusFacts DEF Slots
    <3>3. CASE n = size + w
      <4>1. consumer.pc = "store" => size >= 1
        <5>1. consumer.pc = "store" => WrappingSub(cached_tail, head) >= 1
          BY Window DEF PushFits
        <5>2. QED  BY <5>1, Window, ModulusFacts DEF size
      <4>2. n = 0 => consumer.pc # "store"
        BY <3>2, <3>3, <4>1
      <4>3. slots'[SlotOf(WrappingAdd(head, n))] # NoValue
        BY <3>3, <1>7, <1>11, ValuesAssumption
      <4>4. QED  BY <3>2, <3>3, <4>2, <4>3
    <3>4. CASE n # size + w
      <4>1. n < size + w <=> n < size + (w + 1)
        BY <3>2, <3>4
      <4>2. QED  BY <3>1, <3>4, <4>1, <1>11
    <3>5. QED  BY <3>3, <3>4
  <2>2. \A m \in 1..(w + 1) :
           slots'[SlotOf(WrappingAdd(tail, m - 1))] = producer.batch[m]
    <3> TAKE m \in 1..(w + 1)
    <3>1. m - 1 \in Nat /\ m - 1 < Capacity /\ size + (m - 1) \in Slots
      BY <1>1, <1>4, <1>5, ModulusFacts DEF Slots
    <3>2. WrappingAdd(tail, m - 1) = WrappingAdd(head, size + (m - 1))
      BY <3>1, BatchPosition DEF size
    <3>3. CASE m = w + 1
      BY <1>1, <1>4, <3>1, <3>2, <3>3, <1>11, ModulusFacts
    <3>4. CASE m \in 1..w
      <4>1. slots[SlotOf(WrappingAdd(tail, m - 1))] = producer.batch[m]
        BY <3>4 DEF SlotsMatch, w
      <4>2. size + (m - 1) # size + w
        BY <1>1, <1>4, <3>4, ModulusFacts
      <4>3. QED  BY <3>1, <3>2, <4>1, <4>2, <1>11
    <3>5. QED  BY <1>1, <3>3, <3>4
  <2>3. QED  BY <1>1, <1>3, <2>1, <2>2 DEF SlotsMatch, size
<1>13. QED  BY <1>8, <1>9, <1>10, <1>12

LEMMA StoreTailKeeps ==
    ASSUME RingInv, StoreTail
    PROVE  RingInv'
<1> USE DEF RingInv
<1> DEFINE len == Len(producer.batch)
<1>1. /\ producer.pc = "store" /\ ~dropped
      /\ producer.batch \in Seq(Values) /\ len \in Nat /\ producer.written = len
      /\ len <= Free(cached_head)
      /\ tail' = WrappingAdd(tail, len) /\ producer' = Idle /\ staged' = NoValue
      /\ UNCHANGED <<slots, head, cached_head, cached_tail, wrapped, consumer,
                     received, dropped>>
  BY DEF StoreTail, PushFits, consumerVars, TypeOK
<1> HIDE DEF len
<1>2. /\ len \in Index /\ WrappingSub(tail, cached_head) + len <= Capacity
      /\ WrappingSub(tail, cached_head) + len < Modulus
      /\ WrappingSub(tail, cached_tail) + len < Modulus
      /\ WrappingSub(tail, head) + len < Modulus
  <2>1. /\ WrappingSub(tail, cached_head) \in 0..Capacity
        /\ WrappingSub(tail, cached_tail) \in 0..Capacity
        /\ WrappingSub(tail, head) \in 0..Capacity
        /\ WrappingSub(tail, cached_tail) <= WrappingSub(tail, cached_head)
        /\ WrappingSub(tail, head) <= WrappingSub(tail, cached_head)
        /\ len <= Capacity - WrappingSub(tail, cached_head) /\ len \in Nat
    <3>1. /\ WrappingSub(tail, cached_tail) <= WrappingSub(tail, cached_head)
          /\ WrappingSub(tail, head) <= WrappingSub(tail, cached_head)
      BY Window, ModulusFacts
    <3>2. QED  BY <1>1, <3>1, Window DEF Free
  <2>2. QED  BY <2>1, ModulusFacts DEF Index
<1>3. /\ tail' \in Index
      /\ WrappingSub(tail', cached_head) = WrappingSub(tail, cached_head) + len
      /\ WrappingSub(tail', cached_tail) = WrappingSub(tail, cached_tail) + len
      /\ WrappingSub(tail', head) = WrappingSub(tail, head) + len
  BY <1>1, <1>2, Distances DEF TypeOK
<1>4. Idle \in [pc : {"idle", "load", "write", "store"}, batch : Seq(Values), written : Nat]
  BY DEF Idle
<1>5. TypeOK'
  BY <1>1, <1>3, <1>4 DEF TypeOK
<1>6. IndicesInOrder'
  <2>1. /\ WrappingSub(tail', cached_head) <= Capacity
        /\ WrappingSub(head, cached_head) + WrappingSub(cached_tail, head)
              + WrappingSub(tail', cached_tail) = WrappingSub(tail', cached_head)
    BY <1>1, <1>2, <1>3, Window, ModulusFacts
  <2>2. QED  BY <1>1, <2>1 DEF IndicesInOrder
<1>7. PushFits'
  BY <1>1 DEF PushFits, Idle
<1>8. SlotsMatch'
  <2>1. producer'.written = 0
    BY <1>1 DEF Idle
  <2>2. WrappingSub(tail', head) + 0 = WrappingSub(tail, head) + producer.written
    BY <1>1, <1>3, Window, ModulusFacts
  <2>3. QED  BY <1>1, <2>1, <2>2 DEF SlotsMatch
<1>9. QED  BY <1>5, <1>6, <1>7, <1>8

\* The slot read is the first of the window.
LEMMA ReadsAt ==
    ASSUME RingInv, ReadSlot
    PROVE  \A n \in Slots : slots'[SlotOf(WrappingAdd(head, n))] =
              IF n = 0 THEN NoValue ELSE slots[SlotOf(WrappingAdd(head, n))]
<1> USE DEF RingInv
<1>1. slots' = [slots EXCEPT ![SlotOf(head)] = NoValue]
  BY DEF ReadSlot
<1>2. 0 \in Slots /\ WrappingAdd(head, 0) = head
  BY AtHead DEF TypeOK
<1>3. SlotOf(head) \in Slots
  BY <1>2, SlotInRange DEF TypeOK
<1> TAKE n \in Slots
<1>4. SlotOf(WrappingAdd(head, n)) \in Slots
  BY SlotInRange DEF TypeOK
<1>5. n # 0 => SlotOf(WrappingAdd(head, n)) # SlotOf(head)
  BY <1>2, SlotsApart DEF TypeOK
<1>6. QED  BY <1>1, <1>2, <1>3, <1>4, <1>5 DEF TypeOK

LEMMA ReadSlotKeeps ==
    ASSUME RingInv, ReadSlot
    PROVE  RingInv'
<1> USE DEF RingInv
<1> DEFINE size == WrappingSub(tail, head)
<1>1. /\ consumer.pc = "read" /\ ~dropped /\ head # cached_tail
      /\ consumer' = [pc |-> "store", value |-> slots[SlotOf(head)]]
      /\ slots' = [slots EXCEPT ![SlotOf(head)] = NoValue]
      /\ UNCHANGED <<head, tail, cached_head, cached_tail, producer, wrapped, staged,
                     received, dropped>>
  BY DEF ReadSlot, PushFits, producerVars
<1>2. size \in 0..Capacity /\ size >= 1
  BY <1>1, Window, ModulusFacts
<1>3. 0 \in Slots /\ WrappingAdd(head, 0) = head
  BY AtHead DEF TypeOK
<1>4. SlotOf(head) \in Slots
  BY <1>3, SlotInRange DEF TypeOK
<1>5. producer.written \in Nat /\ size + producer.written <= Capacity
  BY WrittenFits
<1> HIDE DEF size
<1>6. slots[SlotOf(head)] # NoValue /\ slots[SlotOf(head)] \in Values
  <2>1. 0 < size + producer.written
    BY <1>2, <1>5, ModulusFacts
  <2>2. slots[SlotOf(head)] # NoValue
    BY <1>1, <1>3, <2>1 DEF SlotsMatch, size
  <2>3. QED  BY <2>2, <1>4 DEF TypeOK
<1>7. TypeOK'
  BY <1>1, <1>4, <1>6 DEF TypeOK
<1>8. IndicesInOrder'
  BY <1>1, IndicesSame
<1>9. PushFits'
  <2>1. Free(cached_head)' = Free(cached_head)
    BY <1>1 DEF Free
  <2>2. QED  BY <1>1, <1>6, <2>1 DEF PushFits
<1>10. \A n \in Slots : slots'[SlotOf(WrappingAdd(head, n))] =
          IF n = 0 THEN NoValue ELSE slots[SlotOf(WrappingAdd(head, n))]
  BY ReadsAt
<1>11. SlotsMatch'
  <2>1. \A n \in Slots :
           slots'[SlotOf(WrappingAdd(head, n))] # NoValue
           <=> n < size + producer.written /\ (n = 0 => consumer'.pc # "store")
    <3> TAKE n \in Slots
    <3>1. CASE n = 0
      BY <3>1, <1>1, <1>10
    <3>2. CASE n # 0
      <4>1. slots[SlotOf(WrappingAdd(head, n))] # NoValue <=> n < size + producer.written
        BY <3>2, <1>1 DEF SlotsMatch, size
      <4>2. QED  BY <3>2, <4>1, <1>10
    <3>3. QED  BY <3>1, <3>2
  <2>2. \A m \in 1..producer.written :
           slots'[SlotOf(WrappingAdd(tail, m - 1))] = producer.batch[m]
    <3> TAKE m \in 1..producer.written
    <3>1. m - 1 \in Nat /\ m - 1 < Capacity /\ size + (m - 1) \in Slots /\ size + (m - 1) # 0
      BY <1>2, <1>5, ModulusFacts DEF Slots
    <3>2. WrappingAdd(tail, m - 1) = WrappingAdd(head, size + (m - 1))
      BY <3>1, BatchPosition DEF size
    <3>3. slots[SlotOf(WrappingAdd(tail, m - 1))] = producer.batch[m]
      BY DEF SlotsMatch
    <3>4. QED  BY <3>1, <3>2, <3>3, <1>10
  <2>3. QED  BY <1>1, <2>1, <2>2 DEF SlotsMatch, size
<1>12. QED  BY <1>7, <1>8, <1>9, <1>11

LEMMA StoreHeadKeeps ==
    ASSUME RingInv, StoreHead
    PROVE  RingInv'
<1> USE DEF RingInv
<1> DEFINE size == WrappingSub(tail, head)
<1>1. /\ consumer.pc = "store" /\ ~dropped /\ head # cached_tail
      /\ head' = WrappingAdd(head, 1)
      /\ consumer' = Resting /\ received' = consumer.value
      /\ UNCHANGED <<slots, tail, cached_head, cached_tail, producer, wrapped, staged,
                     dropped>>
  BY DEF StoreHead, PushFits, producerVars
<1>2. /\ size \in 0..Capacity /\ size >= 1
      /\ WrappingSub(cached_tail, head) \in 0..Capacity
      /\ WrappingSub(cached_tail, head) >= 1
      /\ WrappingSub(head, cached_head) \in 0..Capacity
      /\ WrappingSub(head, cached_head) + size <= Capacity
  BY <1>1, Window, ModulusFacts
<1>3. /\ 1 \in Index /\ WrappingSub(head, cached_head) + 1 < Modulus
      /\ 1 <= WrappingSub(cached_tail, head) /\ 1 <= size
  BY <1>2, ModulusFacts DEF Index
<1>4. /\ head' \in Index
      /\ WrappingSub(head', cached_head) = WrappingSub(head, cached_head) + 1
      /\ WrappingSub(cached_tail, head') = WrappingSub(cached_tail, head) - 1
      /\ WrappingSub(tail, head') = size - 1
  BY <1>1, <1>3, Distances DEF TypeOK
<1>5. producer.written \in Nat /\ size + producer.written <= Capacity
  BY WrittenFits
<1> HIDE DEF size
<1>6. TypeOK'
  <2>1. Resting \in [pc : {"idle", "load", "read", "store"}, value : Values \cup {NoValue}]
    BY DEF Resting
  <2>2. consumer.value \in Values \cup {NoValue}
    BY DEF TypeOK
  <2>3. QED  BY <1>1, <1>4, <2>1, <2>2 DEF TypeOK
<1>7. IndicesInOrder'
  <2>1. WrappingSub(head', cached_head) + WrappingSub(cached_tail, head')
           + WrappingSub(tail, cached_tail) = WrappingSub(tail, cached_head)
    BY <1>4, Window, ModulusFacts
  <2>2. QED  BY <1>1, <2>1 DEF IndicesInOrder
<1>8. PushFits'
  <2>1. Free(cached_head)' = Free(cached_head)
    BY <1>1 DEF Free
  <2>2. QED  BY <1>1, <2>1 DEF PushFits, Resting
<1>9. SlotsMatch'
  <2>1. ASSUME NEW n \in Slots
        PROVE  slots[SlotOf(WrappingAdd(head', n))] # NoValue
               <=> n < (size - 1) + producer.written
    <3>1. WrappingAdd(head', n) = WrappingAdd(head, n + 1) /\ n + 1 \in 0..Capacity
      <4>1. head \in Index /\ n \in Nat /\ n + 1 < Modulus /\ n + 1 \in 0..Capacity
        BY ModulusFacts DEF Slots, TypeOK
      <4>2. QED  BY <1>1, <4>1, ModulusFacts DEF WrappingAdd, Index
    <3>2. CASE n + 1 \in Slots
      <4>1. slots[SlotOf(WrappingAdd(head, n + 1))] # NoValue <=> n + 1 < size + producer.written
        BY <3>2, <1>1, ModulusFacts DEF SlotsMatch, size, Slots
      <4>2. n + 1 < size + producer.written <=> n < (size - 1) + producer.written
        BY <1>2, <1>5, ModulusFacts DEF Slots
      <4>3. QED  BY <3>1, <4>1, <4>2
    <3>3. CASE n + 1 = Capacity
      <4>1. /\ SlotOf(head) \in Slots
            /\ SlotOf(WrappingAdd(head, Capacity)) =
                  IF SlotOf(head) + Capacity < Capacity THEN SlotOf(head) + Capacity
                  ELSE SlotOf(head) + Capacity - Capacity
        BY <3>1, <3>3, SlotAdd DEF TypeOK
      <4>2. SlotOf(WrappingAdd(head, Capacity)) = SlotOf(head)
        BY <4>1, ModulusFacts DEF Slots
      <4>3. 0 \in Slots /\ WrappingAdd(head, 0) = head
        BY AtHead DEF TypeOK
      <4>4. slots[SlotOf(head)] = NoValue
        BY <1>1, <4>3 DEF SlotsMatch
      <4>5. ~(n < (size - 1) + producer.written)
        BY <3>3, <1>2, <1>5, ModulusFacts DEF Slots
      <4>6. QED  BY <3>1, <3>3, <4>2, <4>4, <4>5
    <3>4. QED  BY <3>1, <3>2, <3>3, ModulusFacts DEF Slots
  <2>2. \A m \in 1..producer.written :
           slots[SlotOf(WrappingAdd(tail, m - 1))] = producer.batch[m]
    BY DEF SlotsMatch
  <2>3. consumer'.pc # "store"
    BY <1>1 DEF Resting
  <2>4. QED  BY <1>1, <1>4, <2>1, <2>2, <2>3 DEF SlotsMatch
<1>10. QED  BY <1>6, <1>7, <1>8, <1>9

LEMMA DropRingKeeps ==
    ASSUME RingInv, DropRing
    PROVE  RingInv'
<1> USE DEF RingInv
<1>1. /\ producer.pc = "idle" /\ consumer.pc = "idle" /\ ~dropped /\ producer.written = 0
      /\ dropped' = TRUE /\ staged' = NoValue
      /\ UNCHANGED <<head, tail, cached_head, cached_tail, producer, wrapped, consumer, received>>
  BY DEF DropRing, PushFits, Idle, consumerVars
<1>2. slots' = [k \in Slots |-> NoValue]
  <2> DEFINE inside == {SlotOf(WrappingAdd(head, n)) : n \in 0..(WrappingSub(tail, head) - 1)}
  <2>1. slots' = [k \in Slots |-> IF k \in inside THEN NoValue ELSE slots[k]]
    BY DEF DropRing
  <2>2. ASSUME NEW k \in Slots
        PROVE  k \in inside \/ slots[k] = NoValue
    <3>1. PICK n \in Slots : SlotOf(WrappingAdd(head, n)) = k
      BY SlotsCovered DEF TypeOK
    <3>2. slots[k] # NoValue => n < WrappingSub(tail, head) + 0
      BY <1>1, <3>1 DEF SlotsMatch
    <3>3. slots[k] # NoValue => n \in 0..(WrappingSub(tail, head) - 1)
      BY <3>2, Window, ModulusFacts DEF Slots
    <3>4. QED  BY <3>1, <3>3
  <2> HIDE DEF inside
  <2>3. QED  BY <2>1, <2>2
<1>3. TypeOK'
  BY <1>1, <1>2 DEF TypeOK
<1>4. IndicesInOrder'
  BY <1>1, IndicesSame
<1>5. PushFits'
  BY <1>1 DEF PushFits
<1>6. SlotsMatch'
  BY <1>1, <1>2 DEF SlotsMatch
<1>7. QED  BY <1>3, <1>4, <1>5, <1>6

(***************************************************************************)
(* The invariant.                                                          *)
(***************************************************************************)
LEMMA BatchesAreSeqs ==
    ASSUME NEW batch \in Batches
    PROVE  batch \in Seq(Values) /\ batch # <<>>
<1>1. PICK n \in 1..MaxPush : batch \in [1..n -> Values]
  BY DEF Batches
<1>2. n \in Nat \ {0}
  BY ValuesAssumption
<1>3. batch \in Seq(Values) /\ Len(batch) = n
  BY <1>1, <1>2
<1>4. QED  BY <1>2, <1>3

LEMMA ProducerKeeps ==
    ASSUME RingInv, Producer
    PROVE  RingInv'
<1>1. ASSUME NEW batch \in Batches, Push(batch)
      PROVE  RingInv'
  BY <1>1, BatchesAreSeqs, OfferKeeps DEF Push
<1>2. ASSUME NEW v \in Values, Send(v)
      PROVE  RingInv'
  <2>1. <<v>> \in Seq(Values) /\ <<v>> # <<>> /\ Len(<<v>>) = 1
    OBVIOUS
  <2>2. QED  BY <1>2, <2>1, OfferKeeps DEF Send
<1>3. CASE Flush
  <2>1. staged \in Values
    BY <1>3 DEF Flush, RingInv, TypeOK
  <2>2. /\ <<staged>> \in Seq(Values) /\ <<staged>> # <<>> /\ Len(<<staged>>) = 1
        /\ <<staged>>[1] = staged
    BY <2>1
  <2>3. QED  BY <1>3, <2>2, OfferKeeps DEF Flush
<1>4. QED
  BY <1>1, <1>2, <1>3, LoadHeadKeeps, WriteSlotKeeps, StoreTailKeeps DEF Producer

LEMMA RingStep ==
    ASSUME RingInv, [Next]_vars
    PROVE  RingInv'
<1>1. CASE UNCHANGED vars
  <2>1. UNCHANGED <<slots, head, tail, cached_head, cached_tail, producer, consumer,
                    wrapped, staged, received, dropped>>
    BY <1>1 DEF vars, producerVars, consumerVars
  <2>2. TypeOK' /\ IndicesInOrder'
    BY <2>1 DEF RingInv, TypeOK, IndicesInOrder
  <2>3. PushFits' /\ SlotsMatch'
    BY <2>1 DEF RingInv, PushFits, SlotsMatch, Free
  <2>4. QED  BY <2>2, <2>3 DEF RingInv
<1>2. CASE Next
  BY <1>2, ProducerKeeps, PopKeeps, ReadSlotKeeps, StoreHeadKeeps, DropRingKeeps
     DEF Next, Consumer
<1>3. QED  BY <1>1, <1>2

LEMMA RingInvariant == Spec => []RingInv
<1>1. QED  BY InitInv, RingStep, PTL DEF Spec

\* The cached indices are behind and never ahead, in every ring: a full ring
\* never looks empty, and len() never wraps.
THEOREM CachedIndicesBehind == Spec => []IndicesInOrder
<1>1. RingInv => IndicesInOrder
  BY DEF RingInv
<1>2. QED  BY <1>1, RingInvariant, PTL

LEMMA OwnerFromInv ==
    ASSUME RingInv
    PROVE  OneOwner
<1> USE DEF RingInv
<1> DEFINE w == producer.written
           size == WrappingSub(tail, head)
           target == SlotOf(WrappingAdd(tail, w))
<1>1. ASSUME producer.pc = "write"
      PROVE  /\ slots[target] = NoValue
             /\ consumer.pc \in {"read", "store"} => target # SlotOf(head)
  <2>1. /\ w \in Nat /\ Len(producer.batch) \in Nat /\ w < Len(producer.batch)
        /\ Len(producer.batch) <= Free(cached_head) /\ ~dropped
    BY <1>1 DEF PushFits, TypeOK
  <2>2. /\ size \in 0..Capacity /\ Free(cached_head) \in 0..Capacity
        /\ size + Free(cached_head) <= Capacity
    BY Window
  <2>3. size + w \in Slots /\ w < Capacity
    BY <2>1, <2>2, ModulusFacts DEF Slots
  <2>4. target = SlotOf(WrappingAdd(head, size + w))
    BY <2>1, <2>3, BatchPosition
  <2> HIDE DEF w, size, target
  <2>5. slots[target] = NoValue
    <3>1. ~(size + w < size + w)
      BY <2>1, <2>2, ModulusFacts
    <3>2. QED  BY <2>1, <2>3, <2>4, <3>1 DEF SlotsMatch, size, w
  <2>6. consumer.pc \in {"read", "store"} => target # SlotOf(head)
    <3>1. consumer.pc \in {"read", "store"} => size >= 1
      <4>1. consumer.pc \in {"read", "store"} => WrappingSub(cached_tail, head) >= 1
        BY Window DEF PushFits
      <4>2. QED  BY <4>1, Window, ModulusFacts DEF size
    <3>2. consumer.pc \in {"read", "store"} => size + w # 0
      BY <3>1, <2>1, <2>2, ModulusFacts
    <3>3. 0 \in Slots /\ WrappingAdd(head, 0) = head /\ head \in Index
      BY AtHead DEF TypeOK
    <3>4. QED  BY <2>3, <2>4, <3>2, <3>3, SlotsApart
  <2>7. QED  BY <2>5, <2>6
<1>2. ASSUME consumer.pc = "read"
      PROVE  slots[SlotOf(head)] # NoValue
  <2>1. 0 \in Slots /\ WrappingAdd(head, 0) = head
    BY AtHead DEF TypeOK
  <2>2. WrappingSub(cached_tail, head) >= 1 /\ ~dropped
    BY <1>2, Window DEF PushFits
  <2>3. 0 < WrappingSub(tail, head) + producer.written
    <3>1. /\ WrappingSub(cached_tail, head) \in Nat /\ WrappingSub(tail, cached_tail) \in Nat
          /\ WrappingSub(tail, head) = WrappingSub(cached_tail, head) + WrappingSub(tail, cached_tail)
      BY Window, ModulusFacts
    <3>2. producer.written \in Nat
      BY WrittenFits
    <3>3. QED  BY <2>2, <3>1, <3>2
  <2>4. QED  BY <1>2, <2>1, <2>2, <2>3 DEF SlotsMatch
<1>3. dropped => slots = [k \in Slots |-> NoValue]
  BY DEF SlotsMatch
<1>4. QED
  BY <1>1, <1>2, <1>3 DEF OneOwner

\* The safety argument of the unsafe blocks holds in every ring: no slot is
\* read empty, overwritten full, or touched by both threads at once.
THEOREM SlotsHaveOneOwner == Spec => []OneOwner
<1>1. RingInv => OneOwner
  BY OwnerFromInv
<1>2. QED  BY <1>1, RingInvariant, PTL

(***************************************************************************)
(* The ring implements the queue.                                          *)
(***************************************************************************)
LEMMA InsideFacts ==
    ASSUME RingInv, ~dropped
    PROVE  /\ Inside \in Seq(Values) /\ Len(Inside) = WrappingSub(tail, head)
           /\ WrappingSub(tail, head) \in Nat /\ WrappingSub(tail, head) <= Capacity
           /\ \A i \in 1..WrappingSub(tail, head) : Inside[i] = Content(i - 1)
<1> USE DEF RingInv
<1> DEFINE size == WrappingSub(tail, head)
<1>1. size \in Nat /\ size <= Capacity
  BY Window, ModulusFacts
<1>2. \A n \in 0..(size - 1) : Content(n) \in Values
  <2> TAKE n \in 0..(size - 1)
  <2>1. n \in Slots /\ n < size + producer.written
    BY <1>1, ModulusFacts DEF Slots, TypeOK
  <2>2. CASE n = 0 /\ consumer.pc = "store"
    BY <2>2 DEF Content, PushFits, TypeOK
  <2>3. CASE ~(n = 0 /\ consumer.pc = "store")
    <3>1. slots[SlotOf(WrappingAdd(head, n))] # NoValue
      BY <2>1, <2>3 DEF SlotsMatch
    <3>2. SlotOf(WrappingAdd(head, n)) \in Slots
      BY <2>1, SlotInRange DEF TypeOK
    <3>3. QED  BY <2>3, <3>1, <3>2 DEF Content, TypeOK
  <2>4. QED  BY <2>2, <2>3
<1> HIDE DEF size
<1>3. \A i \in 1..size : i - 1 \in 0..(size - 1)
  BY <1>1
<1>4. \A i \in 1..size : Content(i - 1) \in Values
  BY <1>2, <1>3
<1>5. Inside = [i \in 1..size |-> Content(i - 1)]
  BY DEF Inside, size
<1>6. Inside \in Seq(Values) /\ Len(Inside) = size
  BY <1>1, <1>4, <1>5
<1>7. QED  BY <1>1, <1>5, <1>6 DEF size

\* Steps after which the queue is what it was.
LEMMA InsideSame ==
    ASSUME UNCHANGED <<head, tail>>,
           \A n \in 0..(WrappingSub(tail, head) - 1) : Content(n)' = Content(n),
           WrappingSub(tail, head) \in Nat
    PROVE  Inside' = Inside
<1>1. \A i \in 1..WrappingSub(tail, head) : i - 1 \in 0..(WrappingSub(tail, head) - 1)
  OBVIOUS
<1>2. \A i \in 1..WrappingSub(tail, head) : Content(i - 1)' = Content(i - 1)
  BY <1>1
<1>3. WrappingSub(tail, head)' = WrappingSub(tail, head)
  OBVIOUS
<1>4. QED  BY <1>2, <1>3 DEF Inside

LEMMA OfferStutters ==
    ASSUME RingInv, NEW batch, Offer(batch)
    PROVE  UNCHANGED <<Queue, received, Limit>>
<1>1. /\ ~dropped
      /\ UNCHANGED <<slots, head, tail, wrapped, staged, consumer, received, dropped>>
  BY DEF Offer, consumerVars
<1>2. \A n \in 0..(WrappingSub(tail, head) - 1) : Content(n)' = Content(n)
  BY <1>1 DEF Content
<1>3. Inside' = Inside
  BY <1>1, <1>2, InsideFacts, InsideSame
<1>4. QED  BY <1>1, <1>3 DEF Queue, Limit

LEMMA PopStutters ==
    ASSUME RingInv, Pop \/ LoadTail
    PROVE  UNCHANGED <<Queue, received, Limit>>
<1>1. /\ consumer.pc # "store" /\ consumer'.pc # "store" /\ ~dropped
      /\ UNCHANGED <<slots, head, tail, wrapped, staged, received, dropped>>
  BY DEF Pop, LoadTail, producerVars, RingInv, TypeOK, PushFits
<1>2. \A n \in 0..(WrappingSub(tail, head) - 1) : Content(n)' = Content(n)
  BY <1>1 DEF Content
<1>3. Inside' = Inside
  BY <1>1, <1>2, InsideFacts, InsideSame
<1>4. QED  BY <1>1, <1>3 DEF Queue, Limit

LEMMA WriteSlotStutters ==
    ASSUME RingInv, WriteSlot
    PROVE  UNCHANGED <<Queue, received, Limit>>
<1>1. /\ ~dropped /\ producer.written \in Nat
      /\ UNCHANGED <<head, tail, wrapped, staged, consumer, received, dropped>>
  BY DEF WriteSlot, consumerVars, RingInv, TypeOK, PushFits
<1>2. ASSUME NEW n \in 0..(WrappingSub(tail, head) - 1)
      PROVE  Content(n)' = Content(n)
  <2>1. n \in Slots /\ n # WrappingSub(tail, head) + producer.written
    BY <1>1, WritesAt, ModulusFacts DEF Slots
  <2>2. slots'[SlotOf(WrappingAdd(head, n))] = slots[SlotOf(WrappingAdd(head, n))]
    BY <2>1, WritesAt
  <2>3. QED  BY <1>1, <2>2 DEF Content
<1>3. Inside' = Inside
  BY <1>1, <1>2, InsideFacts, InsideSame
<1>4. QED  BY <1>1, <1>3 DEF Queue, Limit

LEMMA ReadSlotStutters ==
    ASSUME RingInv, ReadSlot
    PROVE  UNCHANGED <<Queue, received, Limit>>
<1>1. /\ ~dropped /\ consumer.pc = "read"
      /\ consumer' = [pc |-> "store", value |-> slots[SlotOf(head)]]
      /\ UNCHANGED <<head, tail, wrapped, staged, received, dropped>>
  BY DEF ReadSlot, producerVars, RingInv, PushFits
<1>2. 0 \in Slots /\ WrappingAdd(head, 0) = head
  BY AtHead DEF RingInv, TypeOK
<1>3. WrappingSub(tail, head) \in Nat /\ WrappingSub(tail, head) <= Capacity
  BY <1>1, InsideFacts
<1>4. ASSUME NEW n \in 0..(WrappingSub(tail, head) - 1)
      PROVE  Content(n)' = Content(n)
  <2>1. n \in Slots
    BY <1>3, ModulusFacts DEF Slots
  <2>2. CASE n = 0
    BY <1>1, <1>2, <2>2 DEF Content
  <2>3. CASE n # 0
    <3>1. slots'[SlotOf(WrappingAdd(head, n))] = slots[SlotOf(WrappingAdd(head, n))]
      BY <2>1, <2>3, ReadsAt
    <3>2. QED  BY <1>1, <2>3, <3>1 DEF Content
  <2>4. QED  BY <2>2, <2>3
<1>5. Inside' = Inside
  BY <1>1, <1>3, <1>4, InsideSame
<1>6. QED  BY <1>1, <1>5 DEF Queue, Limit

\* Appending values, seen from the queue.
LEMMA Puts ==
    ASSUME NEW batch \in Seq(Values), batch # <<>>, Limit \in Nat,
           Queue \in Seq(Values), Len(Queue) + Len(batch) <= Limit,
           Queue' = Queue \o batch, UNCHANGED <<received, Limit>>
    PROVE  Fifo!Next
<1>1. Len(batch) \in Nat /\ Len(batch) # 0 /\ Len(Queue) \in Nat
  OBVIOUS
<1>2. Len(batch) \in 1..Limit
  BY <1>1
<1>3. batch \in [1..Len(batch) -> Values]
  OBVIOUS
<1>4. Fifo!Put(batch)
  BY DEF Fifo!Put
<1>5. QED  BY <1>2, <1>3, <1>4 DEF Fifo!Next

LEMMA LoadHeadQueues ==
    ASSUME RingInv, LoadHead
    PROVE  Fifo!Next \/ UNCHANGED <<Queue, received, Limit>>
<1>1. /\ ~dropped /\ producer.pc = "load" /\ producer.batch \in Seq(Values)
      /\ producer.batch # <<>>
      /\ UNCHANGED <<slots, head, tail, wrapped, consumer, received, dropped>>
  BY DEF LoadHead, consumerVars, RingInv, TypeOK, PushFits
<1>2. /\ Inside' = Inside /\ Inside \in Seq(Values)
      /\ Len(Inside) \in Nat /\ Len(Inside) <= Capacity
  <2>1. \A n \in 0..(WrappingSub(tail, head) - 1) : Content(n)' = Content(n)
    BY <1>1 DEF Content
  <2>2. QED  BY <1>1, <2>1, InsideFacts, InsideSame
<1>3. staged' = staged \/ (wrapped /\ staged' = producer.batch[1])
  BY DEF LoadHead
<1>4. CASE staged' = staged
  BY <1>1, <1>2, <1>4 DEF Queue, Limit
<1>5. CASE wrapped /\ staged' = producer.batch[1] /\ staged' # staged
  <2>1. staged = NoValue /\ Len(producer.batch) = 1
    BY <1>1, <1>5 DEF RingInv, PushFits
  <2>2. staged' \in Values /\ staged' # NoValue
    BY <1>1, <1>5, <2>1, ValuesAssumption
  <2>3. Queue = Inside /\ Queue' = Append(Inside, staged')
    BY <1>1, <1>2, <2>1, <2>2 DEF Queue
  <2>4. /\ <<staged'>> \in Seq(Values) /\ <<staged'>> # <<>> /\ Len(<<staged'>>) = 1
        /\ Queue' = Queue \o <<staged'>>
    BY <1>2, <2>2, <2>3
  <2>5. Limit \in Nat /\ Limit' = Limit /\ Len(Queue) + Len(<<staged'>>) <= Limit
    BY <1>1, <1>2, <1>5, <2>3, <2>4, ModulusFacts DEF Limit
  <2>6. Fifo!Next
    BY <1>1, <1>2, <2>3, <2>4, <2>5, Puts
  <2>7. QED  BY <2>6
<1>6. QED  BY <1>3, <1>4, <1>5

\* Publishing a batch appends it to the window.
LEMMA StoreTailAppends ==
    ASSUME RingInv, StoreTail
    PROVE  Inside' = Inside \o producer.batch
<1> DEFINE size == WrappingSub(tail, head)
           len == Len(producer.batch)
<1>1. /\ ~dropped /\ producer.batch \in Seq(Values) /\ len \in Nat
      /\ producer.written = len /\ len <= Free(cached_head)
      /\ tail' = WrappingAdd(tail, len)
      /\ UNCHANGED <<slots, head, consumer, dropped>>
  BY DEF StoreTail, consumerVars, RingInv, TypeOK, PushFits
<1>2. RingInv' /\ ~dropped'
  BY <1>1, StoreTailKeeps
<1>3. /\ Inside \in Seq(Values) /\ Len(Inside) = size /\ size \in Nat
      /\ \A i \in 1..size : Inside[i] = Content(i - 1)
  BY <1>1, InsideFacts
<1>4. size + len <= Capacity
  <2>1. /\ size \in 0..Capacity /\ Free(cached_head) \in 0..Capacity
        /\ size + Free(cached_head) <= Capacity
    BY Window DEF RingInv
  <2>2. QED  BY <1>1, <2>1, ModulusFacts
<1>5. WrappingSub(tail, head)' = size + len
  <2>1. len \in Index /\ size + len < Modulus /\ tail \in Index /\ head \in Index
    BY <1>1, <1>3, <1>4, ModulusFacts DEF Index, RingInv, TypeOK
  <2>2. WrappingSub(WrappingAdd(tail, len), head) = size + len
    BY <2>1, Distances
  <2>3. QED  BY <1>1, <2>2
<1> HIDE DEF size, len
<1>6. Inside' = [i \in 1..(size + len) |-> Content(i - 1)']
  BY <1>5 DEF Inside
<1>7. ASSUME NEW i \in 1..(size + len)
      PROVE  Content(i - 1)' = (Inside \o producer.batch)[i]
  <2>1. CASE i \in 1..size
    <3>1. (Inside \o producer.batch)[i] = Content(i - 1)
      BY <1>1, <1>3, <2>1
    <3>2. Content(i - 1)' = Content(i - 1)
      BY <1>1 DEF Content
    <3>3. QED  BY <3>1, <3>2
  <2>2. CASE i > size
    <3> DEFINE m == i - size
    <3>1. m \in 1..len /\ m - 1 \in Nat /\ m - 1 < Capacity /\ size + (m - 1) = i - 1
      BY <1>1, <1>3, <1>4, <2>2, ModulusFacts
    <3>2. (Inside \o producer.batch)[i] = producer.batch[m]
      <4>1. /\ i \in 1..(Len(Inside) + Len(producer.batch)) /\ ~(i <= Len(Inside))
            /\ i - Len(Inside) = m
        BY <1>1, <1>3, <2>2 DEF len
      <4>2. \A k \in 1..(Len(Inside) + Len(producer.batch)) :
               (Inside \o producer.batch)[k] =
                  IF k <= Len(Inside) THEN Inside[k] ELSE producer.batch[k - Len(Inside)]
        BY <1>1, <1>3, ConcatProperties
      <4>3. QED  BY <4>1, <4>2, Zenon
    <3> HIDE DEF m
    <3>3. WrappingAdd(tail, m - 1) = WrappingAdd(head, i - 1)
      BY <3>1, BatchPosition DEF size
    <3>4. slots[SlotOf(WrappingAdd(tail, m - 1))] = producer.batch[m]
      BY <1>1, <3>1 DEF RingInv, SlotsMatch
    <3>5. ~(i - 1 = 0 /\ consumer.pc = "store")
      <4>1. consumer.pc = "store" => size >= 1
        <5>1. consumer.pc = "store" => WrappingSub(cached_tail, head) >= 1
          BY Window DEF RingInv, PushFits
        <5>2. QED  BY <5>1, Window, ModulusFacts DEF size, RingInv
      <4>2. QED  BY <2>2, <1>3, <4>1
    <3>6. Content(i - 1)' = slots[SlotOf(WrappingAdd(head, i - 1))]
      BY <1>1, <3>5 DEF Content
    <3>7. QED  BY <3>2, <3>3, <3>4, <3>6
  <2>3. i \in 1..size \/ i > size
    BY <1>1, <1>3
  <2>4. QED  BY <2>1, <2>2, <2>3
<1>8. /\ Inside \o producer.batch \in Seq(Values)
      /\ Len(Inside \o producer.batch) = size + len
  <2>1. Len(Inside \o producer.batch) = Len(Inside) + Len(producer.batch)
    BY <1>1, <1>3, ConcatProperties
  <2>2. Inside \o producer.batch \in Seq(Values)
    BY <1>1, <1>3, ConcatProperties
  <2>3. QED  BY <1>3, <2>1, <2>2 DEF len
<1>9. Inside \o producer.batch = [i \in 1..(size + len) |-> (Inside \o producer.batch)[i]]
  BY <1>1, <1>3, <1>8
<1>10. QED  BY <1>6, <1>7, <1>9

LEMMA StoreTailQueues ==
    ASSUME RingInv, StoreTail
    PROVE  Fifo!Next \/ UNCHANGED <<Queue, received, Limit>>
<1>1. /\ ~dropped /\ producer.pc = "store" /\ producer.batch \in Seq(Values)
      /\ producer.batch # <<>> /\ Len(producer.batch) <= Free(cached_head)
      /\ staged' = NoValue
      /\ UNCHANGED <<wrapped, received, dropped>>
  BY DEF StoreTail, consumerVars, RingInv, TypeOK, PushFits
<1>2. /\ Inside \in Seq(Values) /\ Len(Inside) = WrappingSub(tail, head)
      /\ Len(Inside) \in Nat
  BY <1>1, InsideFacts
<1>3. Queue' = Inside \o producer.batch
  BY <1>1, StoreTailAppends DEF Queue
<1>4. Limit' = Limit /\ Limit \in Nat /\ Limit >= Capacity
  BY <1>1, ModulusFacts DEF Limit
<1>5. CASE staged = NoValue
  <2>1. Queue = Inside
    BY <1>1, <1>5 DEF Queue
  <2>2. Len(Inside) + Len(producer.batch) <= Capacity
    <3>1. /\ WrappingSub(tail, head) \in 0..Capacity /\ Free(cached_head) \in 0..Capacity
          /\ WrappingSub(tail, head) + Free(cached_head) <= Capacity
      BY Window DEF RingInv
    <3>2. Len(producer.batch) \in Nat
      BY <1>1
    <3>3. QED  BY <1>1, <1>2, <3>1, <3>2, ModulusFacts
  <2>3. Len(Queue) + Len(producer.batch) <= Limit
    BY <1>1, <1>2, <1>4, <2>1, <2>2, ModulusFacts
  <2>4. Fifo!Next
    BY <1>1, <1>2, <1>3, <1>4, <2>1, <2>3, Puts
  <2>5. QED  BY <2>4
<1>6. CASE staged # NoValue
  <2>1. wrapped /\ Len(producer.batch) = 1 /\ producer.batch[1] = staged
    BY <1>1, <1>6 DEF RingInv, PushFits
  <2>2. producer.batch = <<staged>>
    BY <1>1, <2>1
  <2>3. Queue = Append(Inside, staged)
    BY <1>1, <1>6 DEF Queue
  <2>4. Queue' = Queue
    BY <1>2, <1>3, <2>2, <2>3
  <2>5. QED  BY <1>1, <1>4, <2>4
<1>7. QED  BY <1>5, <1>6

LEMMA StoreHeadGets ==
    ASSUME RingInv, StoreHead
    PROVE  Fifo!Next
<1> DEFINE size == WrappingSub(tail, head)
<1>1. /\ ~dropped /\ consumer.pc = "store" /\ head # cached_tail
      /\ head' = WrappingAdd(head, 1) /\ received' = consumer.value /\ consumer' = Resting
      /\ UNCHANGED <<slots, tail, wrapped, staged, dropped>>
  BY DEF StoreHead, producerVars, RingInv, PushFits
<1>2. /\ Inside \in Seq(Values) /\ Len(Inside) = size /\ size \in Nat /\ size <= Capacity
      /\ \A i \in 1..size : Inside[i] = Content(i - 1)
  BY <1>1, InsideFacts
<1>3. size >= 1
  BY <1>1, Window, ModulusFacts DEF RingInv
<1>4. WrappingSub(tail, head)' = size - 1
  <2>1. 1 \in Index /\ 1 <= size /\ tail \in Index /\ head \in Index
    BY <1>3, ModulusFacts DEF Index, RingInv, TypeOK
  <2>2. WrappingSub(tail, WrappingAdd(head, 1)) = size - 1
    BY <2>1, Distances
  <2>3. QED  BY <1>1, <2>2
<1> HIDE DEF size
<1>5. Inside[1] = consumer.value
  BY <1>1, <1>2, <1>3 DEF Content
<1>6. ASSUME NEW i \in 1..(size - 1)
      PROVE  Content(i - 1)' = Inside[i + 1]
  <2>1. i + 1 \in 1..size /\ (i + 1) - 1 = i /\ i # 0
    BY <1>2
  <2>2. Inside[i + 1] = slots[SlotOf(WrappingAdd(head, i))]
    BY <1>2, <2>1 DEF Content
  <2>3. Content(i - 1)' = slots[SlotOf(WrappingAdd(head', i - 1))]
    BY <1>1 DEF Content, Resting
  <2>4. WrappingAdd(head', i - 1) = WrappingAdd(head, i)
    <3>1. head \in Index /\ i \in Nat /\ i >= 1 /\ i < Modulus
      BY <1>2, ModulusFacts DEF RingInv, TypeOK
    <3>2. QED  BY <1>1, <3>1, ModulusFacts DEF WrappingAdd, Index
  <2>5. QED  BY <2>2, <2>3, <2>4
<1>7. Inside' = Tail(Inside)
  <2>1. Inside' = [i \in 1..(size - 1) |-> Content(i - 1)']
    BY <1>4 DEF Inside
  <2>2. Tail(Inside) = [i \in 1..(size - 1) |-> Inside[i + 1]]
    <3>1. Inside # <<>>
      BY <1>2, <1>3
    <3>2. /\ Tail(Inside) \in Seq(Values) /\ Len(Tail(Inside)) = size - 1
          /\ \A i \in 1..(size - 1) : Tail(Inside)[i] = Inside[i + 1]
      BY <1>2, <3>1, HeadTailProperties
    <3>3. Tail(Inside) = [i \in 1..(size - 1) |-> Tail(Inside)[i]]
      <4>1. ASSUME NEW s \in Seq(Values)
            PROVE  s = [i \in 1..Len(s) |-> s[i]]
        OBVIOUS
      <4>2. QED  BY <3>2, <4>1, Zenon
    <3>4. QED  BY <3>2, <3>3, Zenon
  <2>3. QED  BY <2>1, <2>2, <1>6
<1>8. Inside # <<>> /\ Head(Inside) = consumer.value
  BY <1>2, <1>3, <1>5
<1>9. Queue # <<>> /\ Head(Queue) = consumer.value /\ Queue' = Tail(Queue)
  <2>1. CASE staged = NoValue
    BY <1>1, <1>7, <1>8, <2>1 DEF Queue
  <2>2. CASE staged # NoValue
    <3>1. Queue = Append(Inside, staged) /\ Queue' = Append(Tail(Inside), staged)
      BY <1>1, <1>7, <2>2 DEF Queue
    <3>2. staged \in Values
      BY <2>2 DEF RingInv, TypeOK
    <3>3. /\ Append(Inside, staged) # <<>>
          /\ Head(Append(Inside, staged)) = Head(Inside)
      BY <1>2, <1>3, <3>2
    <3>4. Tail(Append(Inside, staged)) = Append(Tail(Inside), staged)
      BY <1>2, <1>8, HeadTailAppend
    <3>5. QED  BY <1>8, <3>1, <3>3, <3>4
  <2>3. QED  BY <2>1, <2>2
<1>10. Fifo!Get
  BY <1>1, <1>9 DEF Fifo!Get, Limit
<1>11. QED  BY <1>10 DEF Fifo!Next

LEMMA FifoStep ==
    ASSUME RingInv, [Next]_vars
    PROVE  [Fifo!Next]_(Fifo!vars)
<1>1. CASE UNCHANGED vars
  <2>1. UNCHANGED <<slots, head, tail, consumer, wrapped, staged, received, dropped>>
    BY <1>1 DEF vars, producerVars, consumerVars
  <2>2. Inside' = Inside
    BY <2>1 DEF Inside, Content
  <2>3. QED  BY <2>1, <2>2 DEF Fifo!vars, Queue, Limit
<1>2. CASE DropRing
  <2>1. dropped' = TRUE /\ received' = received /\ wrapped' = wrapped
    BY <1>2 DEF DropRing, consumerVars
  <2>2. Fifo!Discard
    BY <2>1 DEF Fifo!Discard, Queue, Limit
  <2>3. QED  BY <2>2 DEF Fifo!Next
<1>3. CASE Producer
  <2>1. CASE \E batch : Offer(batch)
    BY <2>1, OfferStutters DEF Fifo!vars
  <2>2. (\E batch : Offer(batch)) \/ LoadHead \/ WriteSlot \/ StoreTail
    BY <1>3 DEF Producer, Push, Send, Flush
  <2>3. QED
    BY <2>1, <2>2, LoadHeadQueues, WriteSlotStutters, StoreTailQueues DEF Fifo!vars
<1>4. CASE Consumer
  BY <1>4, PopStutters, ReadSlotStutters, StoreHeadGets DEF Consumer, Fifo!vars
<1>5. QED  BY <1>1, <1>2, <1>3, <1>4 DEF Next

LEMMA FifoInit == Init => Fifo!Init
<1> SUFFICES ASSUME Init PROVE Fifo!Init
  OBVIOUS
<1>1. WrappingSub(tail, head) = 0 /\ ~dropped /\ staged = NoValue /\ received = NoValue
  BY ModulusFacts DEF Init, WrappingSub
<1>2. Inside = <<>>
  BY <1>1 DEF Inside
<1>3. Limit \in Nat
  BY ModulusFacts DEF Limit
<1>4. QED  BY <1>1, <1>2, <1>3 DEF Fifo!Init, Queue

\* Every ring, of any capacity and any index width, is a bounded queue: what
\* HoldPath and Lanes assume of the queues between the threads.
THEOREM RingIsAFifo == Spec => RefinesFifo
<1>1. Init => Fifo!Init
  BY FifoInit
<1>2. RingInv /\ [Next]_vars => [Fifo!Next]_(Fifo!vars)
  BY FifoStep
<1>3. QED  BY <1>1, <1>2, RingInvariant, PTL DEF Spec, RefinesFifo, Fifo!Spec
=============================================================================
