----------------------------- MODULE HoldMoney_proofs -----------------------------
(***************************************************************************)
(* What is promised of a hold is never more than it has, what is taken and *)
(* what is left add up to what it was opened with, and every judgement is  *)
(* of what is so, as long as no decision waits in the engine's backlog.    *)
(***************************************************************************)
EXTENDS HoldPath_proofs

-----------------------------------------------------------------------------
(***************************************************************************)
(* The money of a hold, for as long as no decision has to wait in the      *)
(* backlog.  A resolution is judged against what is left after those that  *)
(* were judged before it, so when its turn comes, and they are committed   *)
(* or refused, what it says is left is not too much.  The batches keep     *)
(* that order.                                                             *)
(***************************************************************************)
\* The batches, oldest first: the one being applied, those consensus holds, the open one.
Batch(k) == IF k = 0 THEN applying.batch ELSE IF k <= Len(in_flight) THEN in_flight[k] ELSE open
Spot(q, k, i) == k \in 0..(Len(in_flight) + 1) /\ i \in 1..Len(Batch(k)) /\ Batch(k)[i] = q
Stands(q) == \E k, i : Spot(q, k, i)
Before(p, q) == \E k, i, l, j : Spot(p, k, i) /\ Spot(q, l, j) /\ (k < l \/ (k = l /\ i < j))

\* pos numbers the judged in that order, below n.
Numbers(pos, n) == /\ n \in Nat /\ pos \in [Reqs -> Nat] /\ \A q \in Reqs : pos[q] < n
                   /\ \A p, q \in Reqs : Before(p, q) => pos[p] < pos[q]
Earlier(q, pos) == {p \in JudgedOf(tx[q].hold) : pos[p] < pos[q]}
\* The judged stand in a batch, until the apply path is sealed.
StandInv == /\ sealed => applying.batch = <<>>
            /\ ~sealed => \A q \in Reqs : stage[q] = "judged" => Stands(q)
\* What is left of the hold at q's turn if all that is promised before it is taken.
Share(q, pos) == HoldAmount - released[tx[q].hold] - Total(effect, Earlier(q, pos))
Fits(q, pos) == /\ effect[q].amount + effect[q].left <= Share(q, pos)
                /\ failures = 0 => effect[q].amount + effect[q].left = Share(q, pos)
ShareInv == \E pos, n : /\ Numbers(pos, n)
                       /\ \A q \in Reqs : Promising(q) /\ Stands(q) => Fits(q, pos)

\* What a hold is said to have left, wherever it is said, is not more than it has.
Left(h) == HoldAmount - released[h]
Decided(h) == overlay[h].tag \in {"decided", "removed"}
CoverInv ==
    /\ NoOverPromise
    /\ \A h \in Holds : Live(overlay[h]) => overlay[h].remaining <= Left(h)
    /\ \A h \in Holds : ledger[h] <= Left(h)
    /\ \A a \in Replies : ~Decided(tx[a.req].hold) => a.found <= Left(tx[a.req].hold)

\* A question the overlay still needs the answer to has no resolution of its hold behind
\* it, and a creation on its way is the first the engine hears of the hold.
BehindInv ==
    /\ \A i, j \in 1..Len(cmdq) :
          /\ i < j /\ cmdq[i].op = "lookup" /\ cmdq[j].op \in {"reduce", "remove"}
          /\ tx[cmdq[i].req].hold = tx[cmdq[j].req].hold
          => Decided(tx[cmdq[i].req].hold)
    /\ \A i \in 1..Len(cmdq) : cmdq[i].op = "create" =>
          /\ store[tx[cmdq[i].req].hold] = 0
          /\ \A j \in 1..(i - 1) : cmdq[j].op # "lookup" => tx[cmdq[j].req].hold # tx[cmdq[i].req].hold

\* Only a committed resolution releases, and only a refusal rolls back.
TakenInv ==
    /\ \A h \in Holds : released[h] # 0 => \E q \in Resolutions(h) : outcome[q] = "committed"
    /\ applying.batch # <<>> /\ ~applying.committed => failures > 0

\* As long as nothing was refused, nothing said of a hold is less than it has.
WholeInv ==
    failures = 0 =>
       /\ \A h \in Holds : Live(overlay[h]) => overlay[h].remaining >= Left(h)
       /\ \A h \in Holds : Acknowledged(h) => ledger[h] >= Left(h)
       /\ \A h \in Holds : store[h] > 0 => store[h] >= Left(h)
       /\ \A i \in 1..Len(cmdq) : cmdq[i].op \in {"create", "reduce"}
             => cmdq[i].left >= Left(tx[cmdq[i].req].hold)
       /\ \A a \in Replies : a.found > 0 => a.found >= Left(tx[a.req].hold)
       /\ \A r \in Reqs : record[r] > 0 => record[r] >= Left(tx[r].hold)

MoneyInv == StandInv /\ CoverInv /\ ShareInv /\ BehindInv /\ TakenInv /\ WholeInv

LEMMA SpotJudged ==
    ASSUME TypeOK, BatchInv, NEW q, NEW k, NEW i, Spot(q, k, i)
    PROVE  stage[q] = "judged" /\ q \in Reqs /\ k \in Nat /\ i \in Nat
<1>0. /\ open \in Seq(Reqs) /\ in_flight \in Seq(Seq(Reqs)) /\ applying.batch \in Seq(Reqs)
      /\ Len(in_flight) \in Nat
  BY DEF TypeOK
<1>1. k \in 0..(Len(in_flight) + 1) /\ i \in 1..Len(Batch(k)) /\ Batch(k)[i] = q
  BY DEF Spot
<1>2. CASE k = 0
  <2>1. i \in 1..Len(applying.batch) /\ applying.batch[i] = q
    BY <1>1, <1>2 DEF Batch
  <2> QED
    BY <1>0, <1>2, <2>1 DEF BatchInv, ApplyingInv
<1>3. CASE k \in 1..Len(in_flight)
  <2>1. i \in 1..Len(in_flight[k]) /\ in_flight[k][i] = q /\ in_flight[k] \in Seq(Reqs)
    BY <1>0, <1>1, <1>3 DEF Batch
  <2> QED
    BY <1>0, <1>3, <2>1 DEF BatchInv, FlightInv
<1>4. CASE k = Len(in_flight) + 1
  <2>1. i \in 1..Len(open) /\ open[i] = q
    BY <1>0, <1>1, <1>4 DEF Batch
  <2> QED
    BY <1>0, <1>4, <2>1 DEF BatchInv, OpenInv
<1> QED
  BY <1>0, <1>1, <1>2, <1>3, <1>4

LEMMA SpotStays ==
    ASSUME TypeOK, UNCHANGED <<open, in_flight>>, applying'.batch = applying.batch \/ applying'.batch = <<>>,
           NEW q, NEW k, NEW i, Spot(q, k, i)'
    PROVE  Spot(q, k, i)
<1>1. k \in 0..(Len(in_flight) + 1) /\ i \in 1..Len(Batch(k)') /\ Batch(k)'[i] = q
  BY DEF Spot
<1>2. Batch(k)' = Batch(k) \/ Batch(k)' = <<>>
  BY DEF Batch
<1>3. Batch(k)' # <<>>
  <2>1. Len(<<>>) = 0
    OBVIOUS
  <2> QED
    BY <1>1, <2>1
<1> QED
  BY <1>1, <1>2, <1>3 DEF Spot

LEMMA SpotJoined ==
    ASSUME TypeOK, NEW r, open' = Append(open, r), UNCHANGED <<in_flight, applying>>,
           NEW q, NEW k, NEW i, Spot(q, k, i)'
    PROVE  Spot(q, k, i) \/ (q = r /\ k = Len(in_flight) + 1 /\ i = Len(open) + 1)
<1>0. Len(in_flight) \in Nat /\ open \in Seq(Reqs) /\ Len(open) \in Nat
  BY DEF TypeOK
<1>1. k \in 0..(Len(in_flight) + 1) /\ i \in 1..Len(Batch(k)') /\ Batch(k)'[i] = q
  BY DEF Spot
<1>2. CASE k # Len(in_flight) + 1
  <2>1. Batch(k)' = Batch(k)
    BY <1>0, <1>1, <1>2 DEF Batch
  <2> QED
    BY <1>1, <2>1 DEF Spot
<1>3. CASE k = Len(in_flight) + 1
  <2>1. Batch(k)' = open' /\ Batch(k) = open
    BY <1>0, <1>3 DEF Batch
  <2>2. Len(open') = Len(open) + 1 /\ open'[Len(open) + 1] = r /\ \A j \in 1..Len(open) : open'[j] = open[j]
    BY <1>0
  <2>3. i \in 1..Len(open) \/ i = Len(open) + 1
    BY <1>0, <1>1, <2>1, <2>2
  <2> QED
    BY <1>1, <1>3, <2>1, <2>2, <2>3 DEF Spot
<1> QED
  BY <1>2, <1>3

LEMMA SpotProposed ==
    ASSUME TypeOK, Propose
    PROVE  \E take \in Nat : \A q, k, i : Spot(q, k, i)' =>
              \/ k <= Len(in_flight) /\ Spot(q, k, i)
              \/ k = Len(in_flight) + 1 /\ i <= take /\ Spot(q, Len(in_flight) + 1, i)
              \/ k = Len(in_flight) + 2 /\ i > 0 /\ Spot(q, Len(in_flight) + 1, take + i)
<1> DEFINE take == IF Len(open) < MaxBatch THEN Len(open) ELSE MaxBatch
           n == Len(in_flight)
           l == Len(open)
           batch == SubSeq(open, 1, take)
           rest == SubSeq(open, take + 1, l)
<1>1. /\ in_flight' = Append(in_flight, batch) /\ open' = rest /\ UNCHANGED applying /\ open # <<>>
      /\ open \in Seq(Reqs) /\ in_flight \in Seq(Seq(Reqs)) /\ n \in Nat /\ l \in Nat
  <2>1. open \in Seq(Reqs) /\ in_flight \in Seq(Seq(Reqs))
    BY DEF TypeOK
  <2>2. in_flight' = Append(in_flight, batch) /\ open' = rest /\ UNCHANGED applying /\ open # <<>>
    BY DEF Propose
  <2> QED
    BY <2>1, <2>2
<1>2. take \in Nat /\ take \in 1..l
  BY <1>1, LimitsAssumption
<1> HIDE DEF take
<1>3. Len(batch) = take /\ \A i \in 1..take : batch[i] = open[i]
  BY <1>1, <1>2
<1>4. Len(rest) = l - take /\ \A i \in 1..(l - take) : rest[i] = open[take + i]
  BY <1>1, <1>2
<1> HIDE DEF batch, rest, l
<1>5. Len(in_flight') = n + 1 /\ in_flight'[n + 1] = batch /\ \A k \in 1..n : in_flight'[k] = in_flight[k]
  BY <1>1
<1>6. Batch(n + 1) = open
  BY <1>1 DEF Batch
<1>7. ASSUME NEW q, NEW k, NEW i, Spot(q, k, i)'
      PROVE  \/ k <= n /\ Spot(q, k, i)
             \/ k = n + 1 /\ i <= take /\ Spot(q, n + 1, i)
             \/ k = n + 2 /\ i > 0 /\ Spot(q, n + 1, take + i)
  <2>1. k \in 0..(n + 2) /\ i \in 1..Len(Batch(k)') /\ Batch(k)'[i] = q
    BY <1>1, <1>5, <1>7 DEF Spot
  <2>2. CASE k \in 0..n
    <3>1. Batch(k)' = Batch(k)
      BY <1>1, <1>5, <2>2 DEF Batch
    <3>2. k \in 0..(Len(in_flight) + 1) /\ k <= n
      BY <1>1, <2>2
    <3> QED
      BY <2>1, <3>1, <3>2 DEF Spot
  <2>3. CASE k = n + 1
    <3>1. Batch(k)' = batch
      BY <1>1, <1>5, <2>3 DEF Batch
    <3>2. i \in 1..take /\ open[i] = q /\ i \in 1..l /\ i <= take
      BY <1>1, <1>2, <1>3, <2>1, <3>1
    <3>3. n + 1 \in 0..(Len(in_flight) + 1)
      BY <1>1
    <3> QED
      BY <1>6, <2>3, <3>2, <3>3 DEF Spot, l
  <2>4. CASE k = n + 2
    <3>1. Batch(k)' = rest
      BY <1>1, <1>5, <2>4 DEF Batch
    <3>2. i \in 1..(l - take) /\ rest[i] = q
      BY <1>4, <2>1, <3>1
    <3>3. open[take + i] = q /\ take + i \in 1..l /\ i > 0
      BY <1>1, <1>2, <1>4, <3>2
    <3>4. n + 1 \in 0..(Len(in_flight) + 1)
      BY <1>1
    <3> QED
      BY <1>6, <2>4, <3>3, <3>4 DEF Spot, l
  <2> QED
    BY <1>1, <2>1, <2>2, <2>3, <2>4
<1> QED
  BY <1>2, <1>7

LEMMA SpotAnswered ==
    ASSUME TypeOK, StartApply, NEW q, NEW k, NEW i, Spot(q, k, i)'
    PROVE  Spot(q, k + 1, i)
<1> DEFINE n == Len(in_flight)
<1>1. /\ in_flight # <<>> /\ in_flight' = Tail(in_flight) /\ applying'.batch = Head(in_flight) /\ UNCHANGED open
      /\ in_flight \in Seq(Seq(Reqs)) /\ n \in Nat
  BY DEF StartApply, TypeOK
<1>2. /\ n > 0 /\ Len(in_flight') = n - 1 /\ applying'.batch = in_flight[1]
      /\ \A j \in 1..(n - 1) : in_flight'[j] = in_flight[j + 1]
  BY <1>1, HeadTailProperties
<1>3. k \in 0..n /\ i \in 1..Len(Batch(k)') /\ Batch(k)'[i] = q
  BY <1>1, <1>2 DEF Spot
<1>4. Batch(k)' = Batch(k + 1)
  <2>1. CASE k = 0
    BY <1>1, <1>2, <2>1 DEF Batch
  <2>2. CASE k \in 1..(n - 1)
    <3>1. Batch(k)' = in_flight'[k]
      BY <1>1, <1>2, <2>2 DEF Batch
    <3>2. Batch(k + 1) = in_flight[k + 1]
      BY <1>1, <2>2 DEF Batch
    <3> QED
      BY <1>2, <2>2, <3>1, <3>2
  <2>3. CASE k = n
    <3>1. Batch(k)' = open'
      BY <1>1, <1>2, <2>3 DEF Batch
    <3>2. Batch(k + 1) = open
      BY <1>1, <1>2, <2>3 DEF Batch
    <3> QED
      BY <1>1, <3>1, <3>2
  <2> QED
    BY <1>1, <1>3, <2>1, <2>2, <2>3
<1>5. k + 1 \in 0..(Len(in_flight) + 1)
  BY <1>1, <1>3
<1> QED
  BY <1>3, <1>4, <1>5 DEF Spot

LEMMA SpotFinished ==
    ASSUME TypeOK, applying.batch # <<>>, applying'.batch = Tail(applying.batch), UNCHANGED <<open, in_flight>>,
           NEW q, NEW k, NEW i, Spot(q, k, i)'
    PROVE  (k > 0 /\ Spot(q, k, i)) \/ (k = 0 /\ Spot(q, 0, i + 1))
<1>0. applying.batch \in Seq(Reqs) /\ Len(applying.batch) \in Nat /\ Len(in_flight) \in Nat
  BY DEF TypeOK
<1>1. k \in 0..(Len(in_flight) + 1) /\ i \in 1..Len(Batch(k)') /\ Batch(k)'[i] = q
  BY DEF Spot
<1>2. CASE k = 0
  <2>1. Batch(0)' = Tail(applying.batch) /\ Batch(0) = applying.batch
    BY DEF Batch
  <2>2. /\ Len(Tail(applying.batch)) = Len(applying.batch) - 1
        /\ \A j \in 1..Len(Tail(applying.batch)) : Tail(applying.batch)[j] = applying.batch[j + 1]
    BY <1>0, HeadTailProperties
  <2>3. i \in 1..Len(Tail(applying.batch)) /\ Tail(applying.batch)[i] = q
    BY <1>1, <1>2, <2>1
  <2>4. i + 1 \in 1..Len(applying.batch)
    <3>1. PICK n \in Nat : n = Len(applying.batch)
      BY <1>0
    <3>2. Len(Tail(applying.batch)) = n - 1
      BY <2>2, <3>1
    <3>3. i \in 1..(n - 1)
      BY <2>3, <3>2
    <3> QED
      BY <3>1, <3>3
  <2>5. applying.batch[i + 1] = q
    BY <2>2, <2>3
  <2> QED
    BY <1>1, <1>2, <2>1, <2>4, <2>5 DEF Spot
<1>3. CASE k # 0
  <2>1. Batch(k)' = Batch(k) /\ k > 0
    BY <1>0, <1>1, <1>3 DEF Batch
  <2> QED
    BY <1>1, <2>1 DEF Spot
<1> QED
  BY <1>2, <1>3

LEMMA SpotPlace ==
    ASSUME NEW q, NEW k, NEW i
    PROVE  /\ Spot(q, k, i) => k \in Int /\ i \in Int /\ 0 <= k /\ 1 <= i
           /\ Spot(q, k, i)' => k \in Int /\ i \in Int /\ 0 <= k /\ 1 <= i
  BY DEF Spot

\* Places that move together keep their order.
LEMMA OrderKept ==
    ASSUME \A q, k, i : Spot(q, k, i)' => Spot(q, k, i)
    PROVE  \A p, q : (Before(p, q)' => Before(p, q)) /\ (Stands(q)' => Stands(q))
<1>1. ASSUME NEW p, NEW q, Before(p, q)' PROVE Before(p, q)
  <2>1. PICK k, i, l, j : Spot(p, k, i)' /\ Spot(q, l, j)' /\ (k < l \/ (k = l /\ i < j))
    BY <1>1 DEF Before
  <2> QED
    BY <2>1 DEF Before
<1>2. ASSUME NEW q, Stands(q)' PROVE Stands(q)
  BY <1>2 DEF Stands
<1> QED
  BY <1>1, <1>2

LEMMA OrderProposed ==
    ASSUME TypeOK, Propose
    PROVE  \A p, q : (Before(p, q)' => Before(p, q)) /\ (Stands(q)' => Stands(q))
<1> DEFINE n == Len(in_flight)
<1>0. n \in Nat
  BY DEF TypeOK
<1>1. PICK take \in Nat : \A q, k, i : Spot(q, k, i)' =>
              \/ k <= n /\ Spot(q, k, i)
              \/ k = n + 1 /\ i <= take /\ Spot(q, n + 1, i)
              \/ k = n + 2 /\ i > 0 /\ Spot(q, n + 1, take + i)
  BY SpotProposed
<1> HIDE DEF n
<1>2. ASSUME NEW p, NEW q, Before(p, q)' PROVE Before(p, q)
  <2>1. PICK k, i, l, j : Spot(p, k, i)' /\ Spot(q, l, j)' /\ (k < l \/ (k = l /\ i < j))
    BY <1>2 DEF Before
  <2>2. k \in Int /\ i \in Int /\ l \in Int /\ j \in Int
    BY <2>1, SpotPlace
  <2>3. \/ k <= n /\ Spot(p, k, i)
        \/ k = n + 1 /\ i <= take /\ Spot(p, n + 1, i)
        \/ k = n + 2 /\ i > 0 /\ Spot(p, n + 1, take + i)
    BY <1>1, <2>1
  <2>4. \/ l <= n /\ Spot(q, l, j)
        \/ l = n + 1 /\ j <= take /\ Spot(q, n + 1, j)
        \/ l = n + 2 /\ j > 0 /\ Spot(q, n + 1, take + j)
    BY <1>1, <2>1
  <2>5. CASE k <= n /\ Spot(p, k, i)
    <3>1. (l <= n /\ Spot(q, l, j)) \/ \E m : Spot(q, n + 1, m)
      BY <2>4
    <3>2. k < n + 1
      BY <1>0, <2>2, <2>5
    <3> QED
      BY <2>1, <2>5, <3>1, <3>2 DEF Before
  <2>6. CASE k = n + 1 /\ i <= take /\ Spot(p, n + 1, i)
    <3>1. (l = n + 1 /\ j <= take /\ Spot(q, n + 1, j)) \/ (l = n + 2 /\ j > 0 /\ Spot(q, n + 1, take + j))
      BY <1>0, <2>1, <2>2, <2>4, <2>6
    <3>2. (l = n + 1 => i < j) /\ (j > 0 => i < take + j)
      BY <1>0, <2>1, <2>2, <2>6
    <3> QED
      BY <2>6, <3>1, <3>2 DEF Before
  <2>7. CASE k = n + 2 /\ i > 0 /\ Spot(p, n + 1, take + i)
    <3>1. l = n + 2 /\ Spot(q, n + 1, take + j) /\ i < j
      BY <1>0, <2>1, <2>2, <2>4, <2>7
    <3>2. take + i < take + j
      BY <2>2, <3>1
    <3> QED
      BY <2>7, <3>1, <3>2 DEF Before
  <2> QED
    BY <2>3, <2>5, <2>6, <2>7
<1>3. ASSUME NEW q, Stands(q)' PROVE Stands(q)
  BY <1>1, <1>3 DEF Stands
<1> QED
  BY <1>2, <1>3

LEMMA OrderAnswered ==
    ASSUME TypeOK, StartApply
    PROVE  \A p, q : (Before(p, q)' => Before(p, q)) /\ (Stands(q)' => Stands(q))
<1>1. ASSUME NEW p, NEW q, Before(p, q)' PROVE Before(p, q)
  <2>1. PICK k, i, l, j : Spot(p, k, i)' /\ Spot(q, l, j)' /\ (k < l \/ (k = l /\ i < j))
    BY <1>1 DEF Before
  <2>2. k \in Int /\ l \in Int
    BY <2>1, SpotPlace
  <2>3. Spot(p, k + 1, i) /\ Spot(q, l + 1, j)
    BY <2>1, SpotAnswered
  <2>4. k + 1 < l + 1 \/ (k + 1 = l + 1 /\ i < j)
    BY <2>1, <2>2
  <2> QED
    BY <2>3, <2>4 DEF Before
<1>2. ASSUME NEW q, Stands(q)' PROVE Stands(q)
  <2>1. PICK k, i : Spot(q, k, i)'
    BY <1>2 DEF Stands
  <2>2. Spot(q, k + 1, i)
    BY <2>1, SpotAnswered
  <2> QED
    BY <2>2 DEF Stands
<1> QED
  BY <1>1, <1>2

LEMMA OrderFinished ==
    ASSUME TypeOK, applying.batch # <<>>, applying'.batch = Tail(applying.batch), UNCHANGED <<open, in_flight>>
    PROVE  \A p, q : (Before(p, q)' => Before(p, q)) /\ (Stands(q)' => Stands(q))
<1>0. \A q, k, i : Spot(q, k, i)' => (k > 0 /\ Spot(q, k, i)) \/ (k = 0 /\ Spot(q, 0, i + 1))
  BY SpotFinished
<1>1. ASSUME NEW p, NEW q, Before(p, q)' PROVE Before(p, q)
  <2>1. PICK k, i, l, j : Spot(p, k, i)' /\ Spot(q, l, j)' /\ (k < l \/ (k = l /\ i < j))
    BY <1>1 DEF Before
  <2>2. k \in Int /\ i \in Int /\ l \in Int /\ j \in Int
    BY <2>1, SpotPlace
  <2>3. (k > 0 /\ Spot(p, k, i)) \/ (k = 0 /\ Spot(p, 0, i + 1))
    BY <1>0, <2>1
  <2>4. (l > 0 /\ Spot(q, l, j)) \/ (l = 0 /\ Spot(q, 0, j + 1))
    BY <1>0, <2>1
  <2>5. CASE k > 0 /\ Spot(p, k, i)
    <3>1. l > 0 /\ Spot(q, l, j)
      BY <2>1, <2>2, <2>4, <2>5
    <3> QED
      BY <2>1, <2>5, <3>1 DEF Before
  <2>6. CASE k = 0 /\ Spot(p, 0, i + 1)
    <3>1. l = 0 => i + 1 < j + 1
      BY <2>1, <2>2, <2>6
    <3>2. l > 0 => 0 < l
      BY <2>2
    <3> QED
      BY <2>4, <2>6, <3>1, <3>2 DEF Before
  <2> QED
    BY <2>3, <2>5, <2>6
<1>2. ASSUME NEW q, Stands(q)' PROVE Stands(q)
  BY <1>0, <1>2 DEF Stands
<1> QED
  BY <1>1, <1>2

LEMMA OrderJoined ==
    ASSUME TypeOK, BatchInv, NEW r \in Reqs, stage[r] # "judged", open' = Append(open, r),
           UNCHANGED <<in_flight, applying>>
    PROVE  \A p, q : /\ Before(p, q)' => Before(p, q) \/ (q = r /\ stage[p] = "judged")
                     /\ Stands(q)' => Stands(q) \/ q = r
<1> DEFINE n == Len(in_flight) + 1
           m == Len(open) + 1
<1>a. \A q, k, i : Spot(q, k, i)' => Spot(q, k, i) \/ (q = r /\ k = n /\ i = m)
  BY SpotJoined
<1>b. n \in Nat /\ m \in Nat /\ \A q, k, i : Spot(q, k, i) => k <= n /\ (k = n => i < m)
  <2>1. open \in Seq(Reqs) /\ Len(in_flight) \in Nat /\ Len(open) \in Nat
    BY DEF TypeOK
  <2>2. Batch(n) = open
    BY <2>1 DEF Batch
  <2>3. ASSUME NEW q, NEW k, NEW i, Spot(q, k, i) PROVE k <= n /\ (k = n => i < m)
    <3>1. k \in 0..n /\ i \in 1..Len(Batch(k))
      BY <2>3 DEF Spot
    <3>2. k = n => i \in 1..Len(open)
      BY <2>2, <3>1
    <3> QED
      BY <2>1, <3>1, <3>2
  <2> QED
    BY <2>1, <2>3
<1>c. \A q, k, i : Spot(q, k, i) => stage[q] = "judged"
  BY SpotJudged
<1> HIDE DEF n, m
<1>1. ASSUME NEW p, NEW q, Before(p, q)' PROVE Before(p, q) \/ (q = r /\ stage[p] = "judged")
  <2>1. PICK k, i, l, j : Spot(p, k, i)' /\ Spot(q, l, j)' /\ (k < l \/ (k = l /\ i < j))
    BY <1>1 DEF Before
  <2>2. k \in Int /\ i \in Int /\ l \in Int /\ j \in Int
    BY <2>1, SpotPlace
  <2>3. Spot(p, k, i)
    <3>1. Spot(p, k, i) \/ (p = r /\ k = n /\ i = m)
      BY <1>a, <2>1
    <3>2. Spot(q, l, j) \/ (l = n /\ j = m)
      BY <1>a, <2>1
    <3>3. l <= n /\ (l = n => j <= m)
      BY <1>b, <2>2, <3>2
    <3>4. ~(k = n /\ i = m)
      BY <1>b, <2>1, <2>2, <3>3
    <3> QED
      BY <3>1, <3>4
  <2>4. Spot(q, l, j) \/ q = r
    BY <1>a, <2>1
  <2> QED
    BY <1>c, <2>1, <2>3, <2>4 DEF Before
<1>2. ASSUME NEW q, Stands(q)' PROVE Stands(q) \/ q = r
  BY <1>a, <1>2 DEF Stands
<1> QED
  BY <1>1, <1>2

LEMMA OrderNext ==
    ASSUME TypeOK, StaleInv, LifeInv, [Next]_vars
    PROVE  \A p, q : /\ Before(p, q)' => Before(p, q) \/ (stage[p] = "judged" /\ stage[q] = "open" /\ stage'[q] = "judged")
                     /\ Stands(q)' => Stands(q) \/ (stage[q] = "open" /\ stage'[q] = "judged")
\* The three ways to be judged.
<1>a. ASSUME NEW r \in Reqs, NEW dep, NEW e, NEW found, stage[r] = "open", ReleaseDep(r, dep, e, found),
             UNCHANGED <<in_flight, applying>>
      PROVE  \A p, q : /\ Before(p, q)' => Before(p, q) \/ (stage[p] = "judged" /\ stage[q] = "open" /\ stage'[q] = "judged")
                       /\ Stands(q)' => Stands(q) \/ (stage[q] = "open" /\ stage'[q] = "judged")
  <2>1. UNCHANGED open \/ (stage'[r] = "judged" /\ open' = Append(open, r))
    BY <1>a, Released
  <2>2. CASE UNCHANGED open
    <3>1. \A q, k, i : Spot(q, k, i)' => Spot(q, k, i)
      BY <1>a, <2>2, SpotStays
    <3> QED
      BY <3>1, OrderKept
  <2>3. CASE stage'[r] = "judged" /\ open' = Append(open, r)
    BY <1>a, <2>3, OrderJoined DEF LifeInv
  <2> QED
    BY <2>1, <2>2, <2>3
<1>b. ASSUME UNCHANGED <<open, in_flight>>, applying'.batch = applying.batch \/ applying'.batch = <<>>
      PROVE  \A p, q : (Before(p, q)' => Before(p, q)) /\ (Stands(q)' => Stands(q))
  <2>1. \A q, k, i : Spot(q, k, i)' => Spot(q, k, i)
    BY <1>b, SpotStays
  <2> QED
    BY <2>1, OrderKept
<1>1. CASE RetryDispatch
  <2>0. PICK r : r = Head(deferred)
    OBVIOUS
  <2>1. /\ deferred # <<>> /\ deferred' = Tail(deferred) /\ UNCHANGED <<in_flight, applying>>
        /\ \/ UNCHANGED open
           \/ ReleaseDep(r, "pending", Pin(overlay[tx[r].hold]), 0)
    BY <1>1, <2>0 DEF RetryDispatch
  <2>2. r \in Reqs /\ Deferred(r)
    BY <2>0, <2>1, DeferredShrinks DEF StaleInv
  <2>3. stage[r] = "open"
    BY <2>2 DEF LifeInv, WaitInv
  <2> QED
    BY <1>a, <1>b, <2>1, <2>2, <2>3
<1>2. CASE \E r \in Reqs : IdemAnswer(r)
  <2>1. PICK r \in Reqs : IdemAnswer(r)
    BY <1>2
  <2>2. /\ stage[r] = "open" /\ UNCHANGED <<in_flight, applying>>
        /\ ReleaseDep(r, "idem", overlay[tx[r].hold], record[r])
    BY <2>1 DEF IdemAnswer
  <2> QED
    BY <1>a, <2>2
<1>3. CASE \E a \in answers : PendingAnswer(a)
  <2>1. PICK a \in answers : PendingAnswer(a)
    BY <1>3
  <2>2. /\ ReleaseDep(a.req, "pending", AdmitLookup(overlay[tx[a.req].hold], a.found), a.found)
        /\ UNCHANGED <<in_flight, applying>>
    BY <2>1 DEF PendingAnswer
  <2>3. a.req \in Reqs /\ Asks(a.req)
    BY DEF TypeOK, Answer, Asks
  <2>4. stage[a.req] = "open"
    BY <2>3 DEF LifeInv, WaitInv
  <2> QED
    BY <1>a, <2>2, <2>3, <2>4
<1>4. CASE Propose
  BY <1>4, OrderProposed
<1>5. CASE StartApply
  BY <1>5, OrderAnswered
<1>6. CASE ApplyEffect \/ RollBackEffect
  <2>1. /\ applying.batch # <<>> /\ UNCHANGED <<open, in_flight>>
        /\ \/ applying' = [applying EXCEPT !.batch = Tail(@)]
           \/ applying' = [applying EXCEPT !.batch = <<>>]
    BY <1>6 DEF ApplyEffect, RollBackEffect
  <2>2. applying'.batch = Tail(applying.batch) \/ applying'.batch = <<>>
    BY <2>1 DEF TypeOK
  <2> QED
    BY <1>b, <2>1, <2>2, OrderFinished
<1>7. CASE (\E r \in Reqs : Admit(r)) \/ FlushWrite \/ EvictIdle \/ Engine \/ UNCHANGED vars
  <2>1. UNCHANGED <<open, in_flight, applying>>
    BY <1>7 DEF Admit, FlushWrite, EvictIdle, Engine, EngineApply, EngineLookup, Harvest, Publish,
       vars, batchVars
  <2> QED
    BY <1>b, <2>1
<1> QED
  BY <1>1, <1>2, <1>3, <1>4, <1>5, <1>6, <1>7 DEF Next, Drain

\* A judged request keeps its number, and one that is judged now gets the next.
LEMMA NumbersNext ==
    ASSUME TypeOK, StaleInv, LifeInv, [Next]_vars, NEW pos, NEW n, Numbers(pos, n)
    PROVE  \E more : /\ Numbers(more, n + 1)'
                     /\ \A q \in Reqs : IF stage[q] = "judged" THEN more[q] = pos[q] ELSE more[q] = n
<1>0. PICK more : more = [q \in Reqs |-> IF stage[q] = "judged" THEN pos[q] ELSE n]
  OBVIOUS
<1>1. n \in Nat /\ pos \in [Reqs -> Nat] /\ \A q \in Reqs : pos[q] < n
  BY DEF Numbers
<1>2. n + 1 \in Nat /\ more \in [Reqs -> Nat] /\ \A q \in Reqs : more[q] < n + 1
  BY <1>0, <1>1
<1>3. ASSUME NEW p \in Reqs, NEW q \in Reqs, Before(p, q)'
      PROVE  more[p] < more[q]
  <2>1. CASE Before(p, q)
    <3>1. stage[p] = "judged" /\ stage[q] = "judged"
      BY <2>1, SpotJudged DEF Before, LifeInv
    <3> QED
      BY <1>0, <2>1, <3>1 DEF Numbers
  <2>2. CASE stage[p] = "judged" /\ stage[q] = "open"
    BY <1>0, <1>1, <2>2
  <2> QED
    BY <1>3, <2>1, <2>2, OrderNext
<1>4. \A q \in Reqs : IF stage[q] = "judged" THEN more[q] = pos[q] ELSE more[q] = n
  BY <1>0
<1>5. Numbers(more, n + 1)'
  BY <1>2, <1>3 DEF Numbers
<1> QED
  BY <1>4, <1>5

\* The head of the batch being applied is before everybody else.
LEMMA HeadIsFirst ==
    ASSUME TypeOK, applying.batch # <<>>, NEW pos, NEW n, Numbers(pos, n), NEW r, r = Head(applying.batch)
    PROVE  r \in Reqs /\ Stands(r) /\ \A q \in Reqs : q # r /\ Stands(q) => pos[r] < pos[q]
<1>1. applying.batch \in Seq(Reqs) /\ Len(applying.batch) \in Nat /\ Len(in_flight) \in Nat
  BY DEF TypeOK
<1>2. Len(applying.batch) > 0 /\ applying.batch[1] = r /\ r \in Reqs
  BY <1>1
<1>3. Spot(r, 0, 1)
  BY <1>1, <1>2 DEF Spot, Batch
<1>4. ASSUME NEW q \in Reqs, q # r, Stands(q) PROVE pos[r] < pos[q]
  <2>1. PICK l, j : Spot(q, l, j)
    BY <1>4 DEF Stands
  <2>2. ~(l = 0 /\ j = 1)
    BY <1>2, <1>4, <2>1 DEF Spot, Batch
  <2>3. 0 < l \/ (0 = l /\ 1 < j)
    BY <2>1, <2>2, SpotPlace
  <2>4. Before(r, q)
    BY <1>3, <2>1, <2>3 DEF Before
  <2> QED
    BY <1>2, <2>4 DEF Numbers
<1> QED
  BY <1>2, <1>3, <1>4 DEF Stands

\* Nobody leaves the batches but the head of the one being applied.
LEMMA StandsJoined ==
    ASSUME TypeOK, NEW r \in Reqs, open' = Append(open, r), UNCHANGED <<in_flight, applying>>
    PROVE  Stands(r)' /\ \A q : Stands(q) => Stands(q)'
<1>0. PICK n, l : n = Len(in_flight) /\ l = Len(open)
  OBVIOUS
<1>1. n \in Nat /\ l \in Nat /\ open \in Seq(Reqs)
  BY <1>0 DEF TypeOK
<1>2. /\ Len(open') = l + 1 /\ open'[l + 1] = r
      /\ \A j \in 1..l : open'[j] = open[j]
  BY <1>0, <1>1
<1>3. \A k : k = n + 1 => Batch(k) = open /\ Batch(k)' = open'
  BY <1>0, <1>1 DEF Batch
<1>4. PICK m, j : m = n + 1 /\ j = l + 1
  OBVIOUS
<1>6. Spot(r, m, j)'
  BY <1>0, <1>1, <1>4, <1>2, <1>3 DEF Spot
<1>5. ASSUME NEW q, NEW k, NEW i, Spot(q, k, i) PROVE Spot(q, k, i)'
  <2>1. k \in 0..(n + 1) /\ i \in 1..Len(Batch(k)) /\ Batch(k)[i] = q
    BY <1>0, <1>5 DEF Spot
  <2>2. CASE k = n + 1
    BY <1>0, <1>1, <1>2, <1>3, <2>1, <2>2 DEF Spot
  <2>3. CASE k # n + 1
    <3>1. Batch(k)' = Batch(k)
      BY <1>0, <1>1, <2>1, <2>3 DEF Batch
    <3> QED
      BY <1>0, <1>1, <2>1, <3>1 DEF Spot
  <2> QED
    BY <2>2, <2>3
<1> QED
  BY <1>5, <1>6 DEF Stands

LEMMA StandsProposed ==
    ASSUME TypeOK, Propose
    PROVE  \A q : Stands(q) => Stands(q)'
<1>0. PICK take, n, l, batch, rest :
         /\ take = IF Len(open) < MaxBatch THEN Len(open) ELSE MaxBatch
         /\ n = Len(in_flight) /\ l = Len(open)
         /\ batch = SubSeq(open, 1, take) /\ rest = SubSeq(open, take + 1, l)
  OBVIOUS
<1>1. /\ in_flight' = Append(in_flight, batch) /\ open' = rest /\ UNCHANGED applying /\ open # <<>>
      /\ open \in Seq(Reqs) /\ in_flight \in Seq(Seq(Reqs)) /\ n \in Nat /\ l \in Nat
  <2>1. open \in Seq(Reqs) /\ in_flight \in Seq(Seq(Reqs))
    BY DEF TypeOK
  <2>2. in_flight' = Append(in_flight, batch) /\ open' = rest /\ UNCHANGED applying /\ open # <<>>
    BY <1>0 DEF Propose
  <2> QED
    BY <1>0, <2>1, <2>2
<1>2. take \in Nat /\ take \in 1..l
  BY <1>0, <1>1, LimitsAssumption
<1>3. Len(batch) = take /\ \A i \in 1..take : batch[i] = open[i]
  BY <1>0, <1>1, <1>2
<1>r. rest = SubSeq(open, take + 1, Len(open)) /\ l = Len(open) /\ open \in Seq(Reqs)
  BY <1>0, <1>1
<1>4. Len(rest) = l - take /\ \A i \in 1..(l - take) : rest[i] = open[take + i]
  BY <1>r, <1>1, <1>2
<1>s. in_flight' = Append(in_flight, batch) /\ n = Len(in_flight) /\ in_flight \in Seq(Seq(Reqs)) /\ n \in Nat
  BY <1>0, <1>1
<1>5. Len(in_flight') = n + 1 /\ in_flight'[n + 1] = batch /\ \A k \in 1..n : in_flight'[k] = in_flight[k]
  BY <1>s
<1>6. \A k : (k = n + 1 => Batch(k)' = batch) /\ (k = n + 2 => Batch(k)' = rest)
  BY <1>1, <1>5 DEF Batch
<1>7. ASSUME NEW q, NEW k, NEW i, Spot(q, k, i) PROVE Stands(q)'
  <2>1. k \in 0..(n + 1) /\ i \in 1..Len(Batch(k)) /\ Batch(k)[i] = q
    BY <1>0, <1>7 DEF Spot
  <2>2. CASE k \in 0..n
    <3>0. k \in 0..(n + 2) /\ k <= n /\ k <= n + 1
      BY <1>1, <2>2
    <3>1. Batch(k)' = Batch(k)
      BY <1>0, <1>1, <1>5, <2>2, <3>0 DEF Batch
    <3>2. Spot(q, k, i)'
      BY <1>1, <1>5, <2>1, <3>0, <3>1 DEF Spot
    <3> QED
      BY <3>2 DEF Stands
  <2>3. CASE k = n + 1
    <3>1. i \in 1..l /\ open[i] = q
      BY <1>0, <1>1, <2>1, <2>3 DEF Batch
    <3>2. CASE i <= take
      <4>1. i \in 1..take /\ n + 1 \in 0..(n + 2)
        BY <1>1, <1>2, <3>1, <3>2
      <4>2. Spot(q, k, i)'
        BY <2>3, <1>1, <1>3, <1>5, <1>6, <3>1, <4>1 DEF Spot
      <4> QED
        BY <4>2 DEF Stands
    <3>3. CASE i > take
      <4>1. i - take \in 1..(l - take) /\ n + 2 \in 0..(n + 2) /\ take + (i - take) = i
        BY <1>1, <1>2, <3>1, <3>3
      <4>2. PICK m, j : m = n + 2 /\ j = i - take
        OBVIOUS
      <4>3. Spot(q, m, j)'
        BY <4>2, <1>1, <1>4, <1>5, <1>6, <3>1, <4>1 DEF Spot
      <4> QED
        BY <4>3 DEF Stands
    <3> QED
      BY <1>2, <3>1, <3>2, <3>3
  <2> QED
    BY <1>1, <2>1, <2>2, <2>3
<1> QED
  BY <1>7 DEF Stands

LEMMA StandsAnswered ==
    ASSUME TypeOK, StartApply
    PROVE  \A q : Stands(q) => Stands(q)'
<1> DEFINE n == Len(in_flight)
<1>1. /\ in_flight # <<>> /\ in_flight' = Tail(in_flight) /\ applying'.batch = Head(in_flight) /\ UNCHANGED open
      /\ in_flight \in Seq(Seq(Reqs)) /\ n \in Nat /\ applying.batch = <<>>
  BY DEF StartApply, TypeOK, Free
<1>2. /\ n > 0 /\ Len(in_flight') = n - 1 /\ applying'.batch = in_flight[1]
      /\ \A j \in 1..(n - 1) : in_flight'[j] = in_flight[j + 1]
  BY <1>1, HeadTailProperties
<1>3. ASSUME NEW q, NEW k, NEW i, Spot(q, k, i) PROVE Stands(q)'
  <2>1. k \in 0..(n + 1) /\ i \in 1..Len(Batch(k)) /\ Batch(k)[i] = q
    BY <1>3 DEF Spot
  <2>2. k # 0
    BY <1>1, <2>1 DEF Batch
  <2>3. k - 1 \in 0..n /\ k \in Int
    BY <1>1, <2>1, <2>2
  <2>4. Batch(k - 1)' = Batch(k)
    <3>1. CASE k = 1
      BY <1>1, <1>2, <3>1 DEF Batch
    <3>2. CASE k \in 2..n
      <4>1. Batch(k - 1)' = in_flight'[k - 1]
        BY <1>1, <1>2, <3>2 DEF Batch
      <4>2. Batch(k) = in_flight[k]
        BY <1>1, <3>2 DEF Batch
      <4>3. k - 1 \in 1..(n - 1) /\ (k - 1) + 1 = k
        BY <1>1, <3>2
      <4> QED
        BY <1>2, <4>1, <4>2, <4>3
    <3>3. CASE k = n + 1
      <4>1. Batch(k - 1)' = open'
        BY <1>1, <1>2, <3>3 DEF Batch
      <4>2. Batch(k) = open
        BY <1>1, <3>3 DEF Batch
      <4> QED
        BY <1>1, <4>1, <4>2
    <3> QED
      BY <1>1, <2>1, <2>2, <3>1, <3>2, <3>3
  <2>5. Len(in_flight') + 1 = n
    BY <1>1, <1>2
  <2>6. Spot(q, k - 1, i)'
    BY <2>1, <2>3, <2>4, <2>5 DEF Spot
  <2> QED
    BY <2>6 DEF Stands
<1> QED
  BY <1>3 DEF Stands

LEMMA StandsFinished ==
    ASSUME TypeOK, applying.batch # <<>>, applying'.batch = Tail(applying.batch), UNCHANGED <<open, in_flight>>
    PROVE  \A q : q # Head(applying.batch) /\ Stands(q) => Stands(q)'
<1>1. applying.batch \in Seq(Reqs) /\ Len(applying.batch) \in Nat /\ Len(in_flight) \in Nat
  BY DEF TypeOK
<1>2. /\ Len(Tail(applying.batch)) = Len(applying.batch) - 1 /\ Head(applying.batch) = applying.batch[1]
      /\ \A j \in 1..Len(Tail(applying.batch)) : Tail(applying.batch)[j] = applying.batch[j + 1]
  BY <1>1, HeadTailProperties
<1>3. Batch(0) = applying.batch /\ Batch(0)' = Tail(applying.batch)
  BY DEF Batch
<1>4. ASSUME NEW q, q # Head(applying.batch), NEW k, NEW i, Spot(q, k, i) PROVE Stands(q)'
  <2>1. k \in 0..(Len(in_flight) + 1) /\ i \in 1..Len(Batch(k)) /\ Batch(k)[i] = q
    BY <1>4 DEF Spot
  <2>2. CASE k = 0
    <3>1. i \in 1..Len(applying.batch) /\ i # 1 /\ applying.batch[i] = q
      BY <1>2, <1>3, <1>4, <2>1, <2>2
    <3>2. i - 1 \in 1..(Len(applying.batch) - 1) /\ (i - 1) + 1 = i
      BY <1>1, <3>1
    <3>3. Spot(q, 0, i - 1)'
      BY <1>1, <1>2, <1>3, <3>1, <3>2 DEF Spot
    <3> QED
      BY <3>3 DEF Stands
  <2>3. CASE k # 0
    <3>1. Batch(k)' = Batch(k)
      BY <1>1, <2>1, <2>3 DEF Batch
    <3>2. Spot(q, k, i)'
      BY <2>1, <3>1 DEF Spot
    <3> QED
      BY <3>2 DEF Stands
  <2> QED
    BY <2>2, <2>3
<1> QED
  BY <1>4 DEF Stands

LEMMA StandNext ==
    ASSUME TypeOK, StaleInv, LifeInv, StandInv, [Next]_vars
    PROVE  StandInv'
<1>a. ASSUME UNCHANGED <<open, in_flight, applying, sealed>>,
             \A q \in Reqs : stage'[q] = "judged" => stage[q] = "judged"
      PROVE  StandInv'
  <2>1. \A q : Stands(q)' <=> Stands(q)
    BY <1>a DEF Stands, Spot, Batch
  <2> QED
    BY <1>a, <2>1 DEF StandInv
<1>b. ASSUME NEW r \in Reqs, NEW dep, NEW e, NEW found, ReleaseDep(r, dep, e, found),
             UNCHANGED <<in_flight, applying, sealed>>
      PROVE  StandInv'
  <2>1. \A q \in Reqs : q # r => stage'[q] = stage[q]
    BY <1>b, Released
  <2>2. \/ UNCHANGED open /\ (stage'[r] = stage[r] \/ stage'[r] = "done")
        \/ stage'[r] = "judged" /\ open' = Append(open, r)
    BY <1>b, Released
  <2>3. CASE UNCHANGED open /\ (stage'[r] = stage[r] \/ stage'[r] = "done")
    BY <1>a, <1>b, <2>1, <2>3
  <2>4. CASE stage'[r] = "judged" /\ open' = Append(open, r)
    <3>1. Stands(r)' /\ \A q : Stands(q) => Stands(q)'
      BY <1>b, <2>4, StandsJoined
    <3> QED
      BY <1>b, <2>1, <3>1 DEF StandInv
  <2> QED
    BY <2>2, <2>3, <2>4
<1>1. CASE RetryDispatch
  <2>0. PICK r : r = Head(deferred)
    OBVIOUS
  <2>1. /\ deferred # <<>> /\ deferred' = Tail(deferred) /\ UNCHANGED <<in_flight, applying, sealed>>
        /\ \/ UNCHANGED <<open, stage>>
           \/ ReleaseDep(r, "pending", Pin(overlay[tx[r].hold]), 0)
    BY <1>1, <2>0 DEF RetryDispatch, safetyVars
  <2>2. r \in Reqs
    BY <2>0, <2>1, DeferredShrinks DEF StaleInv
  <2> QED
    BY <1>a, <1>b, <2>1, <2>2
<1>2. CASE \E r \in Reqs : IdemAnswer(r)
  <2>1. PICK r \in Reqs : IdemAnswer(r)
    BY <1>2
  <2>2. /\ UNCHANGED <<in_flight, applying, sealed>>
        /\ ReleaseDep(r, "idem", overlay[tx[r].hold], record[r])
    BY <2>1 DEF IdemAnswer, safetyVars
  <2> QED
    BY <1>b, <2>2
<1>3. CASE \E a \in answers : PendingAnswer(a)
  <2>1. PICK a \in answers : PendingAnswer(a)
    BY <1>3
  <2>2. /\ ReleaseDep(a.req, "pending", AdmitLookup(overlay[tx[a.req].hold], a.found), a.found)
        /\ UNCHANGED <<in_flight, applying, sealed>>
    BY <2>1 DEF PendingAnswer
  <2>3. a.req \in Reqs
    BY DEF TypeOK, Answer
  <2> QED
    BY <1>b, <2>2, <2>3
<1>4. CASE Propose
  <2>1. UNCHANGED <<stage, applying, sealed>>
    BY <1>4 DEF Propose, reqVars, safetyVars
  <2> QED
    BY <1>4, <2>1, StandsProposed DEF StandInv
<1>5. CASE StartApply
  <2>1. UNCHANGED <<stage, sealed>> /\ ~sealed
    BY <1>5 DEF StartApply, reqVars, safetyVars
  <2> QED
    BY <1>5, <2>1, StandsAnswered DEF StandInv
<1>6. CASE ApplyEffect \/ RollBackEffect
  <2>0. PICK r : r = Head(applying.batch)
    OBVIOUS
  <2>1. /\ applying.batch # <<>> /\ UNCHANGED <<open, in_flight>>
        /\ \/ sealed' = TRUE /\ applying' = [applying EXCEPT !.batch = <<>>]
           \/ /\ UNCHANGED sealed /\ applying' = [applying EXCEPT !.batch = Tail(@)]
              /\ stage' = [stage EXCEPT ![r] = "done"]
    BY <1>6, <2>0 DEF ApplyEffect, RollBackEffect, Finish, safetyVars
  <2>2. CASE sealed' = TRUE /\ applying' = [applying EXCEPT !.batch = <<>>]
    <3>1. applying'.batch = <<>>
      BY <2>2 DEF TypeOK
    <3> QED
      BY <2>2, <3>1 DEF StandInv
  <2>3. CASE /\ UNCHANGED sealed /\ applying' = [applying EXCEPT !.batch = Tail(@)]
             /\ stage' = [stage EXCEPT ![r] = "done"]
    <3>1. applying'.batch = Tail(applying.batch) /\ ~sealed
      BY <2>1, <2>3 DEF TypeOK, StandInv
    <3>2. \A q : q # r /\ Stands(q) => Stands(q)'
      BY <2>0, <2>1, <3>1, StandsFinished
    <3>3. \A q \in Reqs : stage'[q] = "judged" => q # r /\ stage[q] = "judged"
      BY <2>3 DEF TypeOK
    <3> QED
      BY <2>3, <3>1, <3>2, <3>3 DEF StandInv
  <2> QED
    BY <2>1, <2>2, <2>3
<1>7. CASE (\E r \in Reqs : Admit(r)) \/ FlushWrite \/ EvictIdle \/ Engine \/ UNCHANGED vars
  <2>1. UNCHANGED <<open, in_flight, applying, sealed>>
    BY <1>7 DEF Admit, FlushWrite, EvictIdle, Engine, EngineApply, EngineLookup, Harvest, Publish,
       vars, batchVars, safetyVars
  <2>2. \A q \in Reqs : stage'[q] = "judged" => stage[q] = "judged"
    BY <1>7 DEF Admit, AdmitRefused, AdmitHold, AdmitResolution, Enter, FlushWrite, EvictIdle, Engine,
       EngineApply, EngineLookup, Harvest, Publish, vars, reqVars, TypeOK
  <2> QED
    BY <1>a, <2>1, <2>2
<1> QED
  BY <1>1, <1>2, <1>3, <1>4, <1>5, <1>6, <1>7 DEF Next, Drain

-----------------------------------------------------------------------------
(***************************************************************************)
(* What a step adds to: the count of refusals, what is released, committed *)
(* decisions, the queue, and the replies.                                  *)
(***************************************************************************)
LEMMA FailuresGrow ==
    ASSUME TypeOK, TypeOK', [Next]_vars
    PROVE  failures \in Nat /\ failures' \in Nat /\ failures <= failures'
<1>1. failures \in Nat /\ failures' \in Nat
  BY DEF TypeOK
<1>2. CASE StartApply
  <2>1. failures' = failures \/ failures' = failures + 1
    BY <1>2 DEF StartApply
  <2> QED
    BY <1>1, <2>1
<1>3. CASE (\E r \in Reqs : Admit(r)) \/ RetryDispatch \/ Engine
  <2>1. UNCHANGED failures
    BY <1>3 DEF Admit, RetryDispatch, Engine, EngineApply, EngineLookup, Harvest, Publish, batchVars
  <2> QED
    BY <1>1, <2>1
<1>4. CASE (\E r \in Reqs : IdemAnswer(r)) \/ (\E a \in answers : PendingAnswer(a)) \/ Propose \/ ApplyEffect
             \/ RollBackEffect \/ FlushWrite \/ EvictIdle \/ UNCHANGED vars
  <2>1. UNCHANGED failures
    BY <1>4 DEF IdemAnswer, PendingAnswer, Propose, ApplyEffect, RollBackEffect, FlushWrite, EvictIdle, vars, batchVars
  <2> QED
    BY <1>1, <2>1
<1> QED
  BY <1>2, <1>3, <1>4 DEF Next, Drain

LEMMA ReleasedMoves ==
    ASSUME TypeOK, StaleInv, LifeInv, RecordInv, [Next]_vars, NEW h \in Holds
    PROVE  /\ released[h] \in Nat /\ released'[h] \in Nat /\ released[h] <= released'[h]
           /\ \/ released'[h] = released[h]
              \/ \E r \in Reqs : /\ Commits(r) /\ ReadsHold(r) /\ tx[r].hold = h
                                 /\ released'[h] = released[h] + effect[r].amount
<1>1. released \in [Holds -> Nat] /\ \A r \in Reqs : effect[r].amount \in Nat
  BY DEF TypeOK
<1>2. CASE UNCHANGED released
  BY <1>1, <1>2
<1>3. ASSUME NEW r \in Reqs, Commits(r)
      PROVE  \/ released'[h] = released[h]
             \/ ReadsHold(r) /\ tx[r].hold = h /\ released'[h] = released[h] + effect[r].amount
  BY <1>1, <1>3 DEF Commits
<1>4. CASE \E r \in Reqs : Commits(r)
  BY <1>1, <1>3, <1>4
<1> QED
  BY <1>2, <1>4, StepKinds DEF Quietly, JudgedOn, Refuses, Flushes

LEMMA CommittedNow ==
    ASSUME TypeOK, StaleInv, LifeInv, [Next]_vars, NEW q \in Reqs, outcome'[q] = "committed"
    PROVE  outcome[q] = "committed" \/ Commits(q)
<1>a. ASSUME NEW r \in Reqs, NEW dep, NEW e, NEW found, ReleaseDep(r, dep, e, found)
      PROVE  outcome[q] = "committed"
  <2>1. CASE q # r
    BY <1>a, <2>1, ReleaseTells
  <2>2. CASE q = r
    <3>1. Verdict(r, e, found) # "committed"
      BY DEF Verdict
    <3> QED
      BY <1>a, <2>2, <3>1, ReleaseTells
  <2> QED
    BY <2>1, <2>2
<1>1. CASE \E r \in Reqs : Admit(r)
  BY <1>1 DEF Admit, AdmitRefused, AdmitHold, AdmitResolution, Enter, TypeOK
<1>2. CASE RetryDispatch
  <2>0. PICK r : r = Head(deferred)
    OBVIOUS
  <2>1. /\ deferred # <<>> /\ deferred' = Tail(deferred)
        /\ \/ UNCHANGED outcome
           \/ ReleaseDep(r, "pending", Pin(overlay[tx[r].hold]), 0)
    BY <1>2, <2>0 DEF RetryDispatch
  <2>2. r \in Reqs
    BY <2>0, <2>1, DeferredShrinks DEF StaleInv
  <2> QED
    BY <1>a, <2>1, <2>2
<1>3. CASE \E r \in Reqs : IdemAnswer(r)
  BY <1>3, <1>a DEF IdemAnswer
<1>4. CASE \E a \in answers : PendingAnswer(a)
  <2>1. PICK a \in answers : PendingAnswer(a)
    BY <1>4
  <2>2. ReleaseDep(a.req, "pending", AdmitLookup(overlay[tx[a.req].hold], a.found), a.found)
    BY <2>1 DEF PendingAnswer
  <2>3. a.req \in Reqs
    BY DEF TypeOK, Answer
  <2> QED
    BY <1>a, <2>2, <2>3
<1>5. CASE ApplyEffect
  <2>1. PICK r : r = Head(applying.batch)
    OBVIOUS
  <2>2. CASE Commits(r)
    BY <2>2 DEF Commits
  <2>3. CASE UNCHANGED outcome
    BY <2>3
  <2> QED
    BY <1>5, <2>1, <2>2, <2>3, KindApply
<1>6. CASE RollBackEffect
  BY <1>6 DEF RollBackEffect, Finish, TypeOK
<1>7. CASE FlushWrite \/ Propose \/ StartApply \/ EvictIdle \/ Engine \/ UNCHANGED vars
  BY <1>7 DEF FlushWrite, Propose, StartApply, EvictIdle, Engine, EngineApply, EngineLookup, Harvest, Publish,
     vars, reqVars
<1> QED
  BY <1>1, <1>2, <1>3, <1>4, <1>5, <1>6, <1>7 DEF Next, Drain

\* With nothing held back a decision enters the queue as it commits.
LEMMA QueueSteps ==
    ASSUME TypeOK, StaleInv, LifeInv, writes = <<>>, writes' = <<>>, [Next]_vars
    PROVE  \/ UNCHANGED <<cmdq, store>>
           \/ EngineApply
           \/ EngineLookup
           \/ \E r \in Reqs : Ask(r) /\ UNCHANGED store
           \/ \E r \in Reqs : Commits(r) /\ cmdq' = Append(cmdq, PendingEffect(r)) /\ UNCHANGED store
<1>1. CASE \E r \in Reqs : Admit(r)
  <2>1. PICK r \in Reqs : Admit(r)
    BY <1>1
  <2>2. (Ask(r) \/ UNCHANGED cmdq) /\ UNCHANGED store
    BY <2>1 DEF Admit, AdmitRefused, AdmitHold, AdmitResolution, engineVars
  <2> QED
    BY <2>2
<1>2. CASE RetryDispatch
  <2>1. (Ask(Head(deferred)) \/ UNCHANGED cmdq) /\ UNCHANGED store
    BY <1>2 DEF RetryDispatch, engineVars
  <2>2. Head(deferred) \in Reqs
    BY <1>2 DEF RetryDispatch, TypeOK
  <2> QED
    BY <2>1, <2>2
<1>3. CASE ApplyEffect
  <2>0. PICK r : r = Head(applying.batch)
    OBVIOUS
  <2>1. r \in Reqs
    BY <1>3, <2>0, HeadJudged DEF ApplyEffect
  <2>2. UNCHANGED store
    BY <1>3 DEF ApplyEffect, engineVars
  <2>3. CASE Commits(r)
    <3>1. ~Backlogging(r, GivenBack(r))
      <4>1. Append(<<>>, r) # <<>>
        <5>1. Len(Append(<<>>, r)) = 1 /\ Len(<<>>) = 0
          OBVIOUS
        <5> QED
          BY <5>1
      <4> QED
        BY <4>1 DEF Backlogging
    <3>2. cmdq' = Append(cmdq, PendingEffect(r))
      BY <2>3, <3>1 DEF Commits, Handing
    <3> QED
      BY <2>1, <2>2, <2>3, <3>2
  <2> QED
    BY <1>3, <2>0, <2>2, <2>3, KindApply
<1>4. CASE FlushWrite
  BY <1>4 DEF FlushWrite
<1>5. CASE Engine
  BY <1>5 DEF Engine, Harvest, Publish
<1>6. CASE (\E r \in Reqs : IdemAnswer(r)) \/ (\E a \in answers : PendingAnswer(a)) \/ Propose \/ StartApply
             \/ RollBackEffect \/ EvictIdle \/ UNCHANGED vars
  BY <1>6 DEF IdemAnswer, PendingAnswer, Propose, StartApply, RollBackEffect, EvictIdle, vars, engineVars
<1> QED
  BY <1>1, <1>2, <1>3, <1>4, <1>5, <1>6 DEF Next, Drain

LEMMA ReplyMoves ==
    ASSUME TypeOK, [Next]_vars, NEW b \in Replies'
    PROVE  \/ \E a \in Replies : b.req = a.req /\ b.found = a.found
           \/ EngineLookup /\ b.req = cmdq[1].req /\ b.found = store[tx[cmdq[1].req].hold]
<1>a. b \in answers' \/ b \in fetches'
  BY DEF Replies
<1>1. CASE EngineLookup
  <2>1. PICK r, found : r = Head(cmdq).req /\ found = store[tx[r].hold]
    OBVIOUS
  <2>2. \/ answers' = answers \cup {Reply(r, found)} /\ UNCHANGED fetches
        \/ fetches' = fetches \cup {[req |-> r, found |-> found]} /\ UNCHANGED answers
    BY <1>1, <2>1 DEF EngineLookup
  <2>3. Reply(r, found).req = r /\ Reply(r, found).found = found
    BY DEF Reply
  <2>4. Head(cmdq) = cmdq[1]
    BY <1>1, TailOfQueue DEF EngineLookup
  <2>5. b \in Replies \/ (b.req = r /\ b.found = found)
    BY <1>a, <2>2, <2>3 DEF Replies
  <2> QED
    BY <1>1, <2>1, <2>4, <2>5
<1>2. CASE \E f \in fetches : Harvest(f)
  <2>1. PICK f \in fetches : Harvest(f)
    BY <1>2
  <2>2. answers' = answers \cup {Reply(f.req, f.found)} /\ fetches' = fetches \ {f}
    BY <2>1 DEF Harvest
  <2>3. Reply(f.req, f.found).req = f.req /\ Reply(f.req, f.found).found = f.found
    BY DEF Reply
  <2>4. b \in Replies \/ (b.req = f.req /\ b.found = f.found)
    BY <1>a, <2>2, <2>3 DEF Replies
  <2> QED
    BY <2>4 DEF Replies
<1>3. CASE \E a \in answers : PendingAnswer(a)
  BY <1>a, <1>3 DEF PendingAnswer, Replies
<1>4. CASE (\E r \in Reqs : Admit(r)) \/ RetryDispatch \/ EngineApply \/ Publish
  BY <1>a, <1>4 DEF Admit, RetryDispatch, EngineApply, Publish, engineVars, Replies
<1>5. CASE (\E r \in Reqs : IdemAnswer(r)) \/ Propose \/ StartApply \/ ApplyEffect
             \/ RollBackEffect \/ FlushWrite \/ EvictIdle \/ UNCHANGED vars
  BY <1>a, <1>5 DEF IdemAnswer, Propose, StartApply, ApplyEffect, RollBackEffect, FlushWrite, EvictIdle,
     vars, engineVars, Replies
<1> QED
  BY <1>1, <1>2, <1>3, <1>4, <1>5 DEF Next, Drain, Engine

\* A queue without decisions of its own on a hold leaves the hold as it is.
LEMMA EndsIdle ==
    ASSUME NEW q \in Seq(Command), NEW own, NEW base, NEW left, EndsWith(q, own, base, left),
           \A i \in 1..Len(q) : q[i].op = "lookup" \/ q[i].req \notin own
    PROVE  left = base
<1>1. PICK f : Runs(q, own, base, f) /\ f[Len(q)] = left
  BY DEF EndsWith
<1> DEFINE T == {k \in Nat : k <= Len(q) => f[k] = base}
<1>2. 0 \in T
  BY <1>1 DEF Runs
<1>3. ASSUME NEW k \in Nat, k \in T PROVE k + 1 \in T
  <2>1. CASE k + 1 <= Len(q)
    <3>1. k + 1 \in 1..Len(q) /\ (k + 1) - 1 = k /\ f[k] = base
      BY <1>3, <2>1
    <3>2. f[k + 1] = Turned(q[k + 1], own, f[k])
      BY <1>1, <3>1 DEF Runs
    <3> QED
      BY <3>1, <3>2 DEF Turned
  <2> QED
    BY <2>1
<1> HIDE DEF T
<1>4. Nat \subseteq T
  BY <1>2, <1>3, P!SetInduction
<1> QED
  BY <1>1, <1>4 DEF T

-----------------------------------------------------------------------------
(***************************************************************************)
(* The parts of MoneyInv, kept by every kind of step while nothing is held *)
(* back.                                                                   *)
(***************************************************************************)
\* An entry that has at most learnt something.
LEMMA LearntCovers ==
    ASSUME TypeOK, CoverInv, NEW h \in Holds, NEW e, Learns(h, overlay[h], e), Live(e)
    PROVE  e.remaining <= Left(h)
<1>1. CASE SameHold(e, overlay[h])
  <2>1. Live(overlay[h]) /\ e.remaining = overlay[h].remaining
    BY <1>1 DEF SameHold, Live
  <2> QED
    BY <2>1 DEF CoverInv
<1>2. CASE ~SameHold(e, overlay[h])
  <2>1. /\ overlay[h].tag \in {"none", "watched"}
        /\ \E a \in answers : tx[a.req].hold = h /\ a.found = e.remaining
    BY <1>2 DEF Learns, Live
  <2>2. PICK a \in answers : tx[a.req].hold = h /\ a.found = e.remaining
    BY <2>1
  <2>3. ~Decided(tx[a.req].hold) /\ a \in Replies
    BY <2>1, <2>2 DEF Decided, Replies
  <2> QED
    BY <2>2, <2>3 DEF CoverInv
<1> QED
  BY <1>1, <1>2

LEMMA LearntWhole ==
    ASSUME TypeOK, WholeInv, failures = 0, NEW h \in Holds, NEW e, Learns(h, overlay[h], e), Live(e)
    PROVE  e.remaining >= Left(h)
<1>1. CASE SameHold(e, overlay[h])
  <2>1. Live(overlay[h]) /\ e.remaining = overlay[h].remaining
    BY <1>1 DEF SameHold, Live
  <2> QED
    BY <2>1 DEF WholeInv
<1>2. CASE ~SameHold(e, overlay[h])
  <2>1. PICK a \in answers : tx[a.req].hold = h /\ a.found = e.remaining /\ a.found > 0
    BY <1>2 DEF Learns, Live
  <2>2. a \in Replies
    BY DEF Replies
  <2> QED
    BY <2>1, <2>2 DEF WholeInv
<1> QED
  BY <1>1, <1>2

LEMMA LearntReserves ==
    ASSUME TypeOK, ReservedInv, HeldInv, NEW h \in Holds, NEW e, Learns(h, overlay[h], e), Live(e)
    PROVE  e.reserved = Promised(h)
<1>1. CASE SameHold(e, overlay[h])
  <2>1. e.reserved = overlay[h].reserved /\ Live(overlay[h])
    BY <1>1 DEF SameHold, Live
  <2> QED
    BY <2>1 DEF ReservedInv
<1>2. CASE ~SameHold(e, overlay[h])
  <2>1. e.reserved = 0 /\ overlay[h].tag \in {"none", "watched"}
    BY <1>2 DEF Learns, Live
  <2>2. JudgedOf(h) = {}
    BY <2>1, JudgedFinite DEF HeldInv
  <2>3. Promised(h) = 0
    BY <2>2, JudgedFinite, TotalEmpty
  <2> QED
    BY <2>1, <2>3
<1> QED
  BY <1>1, <1>2

\* What is judged: it takes and leaves no more than the hold has, and all of it when
\* nothing was refused.
LEMMA JudgedFits ==
    ASSUME TypeOK, ReservedInv, HeldInv, CoverInv, WholeInv,
           NEW r \in Reqs, NEW e \in Entry, NEW found \in Nat, JudgedOn(r, e, found), TypeOK'
    PROVE  LET h == tx[r].hold  takes == effect'[r].amount + effect'[r].left IN
           /\ effect'[r].amount \in Nat /\ effect'[r].left \in Nat /\ takes <= Left(h) - Promised(h)
           /\ failures = 0 => takes = Left(h) - Promised(h)
<1>1. PICK h \in Holds : h = tx[r].hold
  BY RequestTypes
<1>2. PICK view : view = ViewRemaining(e, found)
  OBVIOUS
<1>3. /\ Learns(h, overlay[h], e) /\ Live(e) /\ Verdict(r, e, found) = "accepted" /\ ReadsHold(r)
      /\ effect'[r] = Effect(r, e, found)
      /\ found = record[r] \/ (\E a \in answers : a.req = r /\ a.found = found)
  BY <1>1 DEF JudgedOn
<1>4. e.remaining \in Int /\ e.reserved \in Int /\ Left(h) \in Int /\ Promised(h) \in Nat
  <2>1. released[h] \in Nat
    BY DEF TypeOK
  <2> QED
    BY <2>1, EntryFields, JudgedFinite, HoldAmountAssumption DEF Left
<1>5. view = (IF e.remaining < found THEN e.remaining ELSE found) - e.reserved
  BY <1>2, <1>3 DEF ViewRemaining
<1>6. e.reserved = Promised(h) /\ e.remaining <= Left(h)
  BY <1>3, LearntReserves, LearntCovers
<1>7. /\ effect'[r].amount = Taken(r, e, found) /\ effect'[r].left = view - Taken(r, e, found)
      /\ effect'[r].amount \in Nat /\ effect'[r].left \in Nat
  <2>1. effect'[r].amount \in Nat /\ effect'[r].left \in Nat
    BY DEF TypeOK
  <2> QED
    BY <1>2, <1>3, <2>1 DEF Effect
<1>8. view \in Int
  BY <1>4, <1>5
<1>9. effect'[r].amount + effect'[r].left = view
  BY <1>7, <1>8
<1>10. view <= Left(h) - Promised(h)
  BY <1>4, <1>5, <1>6
<1>11. ASSUME failures = 0
       PROVE  view = Left(h) - Promised(h)
  <2>1. e.remaining >= Left(h)
    BY <1>3, <1>11, LearntWhole
  <2>2. found > 0
    BY <1>3 DEF Verdict
  <2>3. found >= Left(h)
    <3>1. CASE found = record[r]
      BY <1>1, <1>11, <2>2, <3>1 DEF WholeInv
    <3>2. CASE \E a \in answers : a.req = r /\ a.found = found
      BY <1>1, <1>11, <2>2, <3>2 DEF WholeInv, Replies
    <3> QED
      BY <1>3, <3>1, <3>2
  <2> QED
    BY <1>4, <1>5, <1>6, <2>1, <2>3
<1> QED
  BY <1>1, <1>7, <1>9, <1>10, <1>11

\* Whose turn is before q's.
LEMMA EarlierFinite ==
    ASSUME TypeOK, NEW q, NEW pos
    PROVE  /\ IsFiniteSet(Earlier(q, pos)) /\ Earlier(q, pos) \subseteq JudgedOf(tx[q].hold)
           /\ Amounts(effect, Earlier(q, pos)) /\ Total(effect, Earlier(q, pos)) \in Nat
<1>1. IsFiniteSet(JudgedOf(tx[q].hold)) /\ Amounts(effect, JudgedOf(tx[q].hold))
  BY JudgedFinite
<1>2. Earlier(q, pos) \subseteq JudgedOf(tx[q].hold)
  BY DEF Earlier
<1>3. IsFiniteSet(Earlier(q, pos)) /\ Amounts(effect, Earlier(q, pos))
  BY <1>1, <1>2, FS_Subset DEF Amounts
<1> QED
  BY <1>2, <1>3, TotalType

\* The numbers of those that stay do not change, so neither do their shares.
LEMMA EarlierIs ==
    ASSUME TypeOK, NEW q \in Reqs, NEW pos
    PROVE  /\ \A p \in Reqs : p \in Earlier(q, pos) <=> /\ Promising(p) /\ tx[p].hold = tx[q].hold
                                                        /\ pos[p] < pos[q]
           /\ Earlier(q, pos) \subseteq Reqs
  BY JudgedFinite DEF Earlier

LEMMA EarlierNext ==
    ASSUME UNCHANGED tx, NEW q \in Reqs, NEW pos
    PROVE  /\ \A p \in Reqs : p \in Earlier(q, pos)' <=> /\ Promising(p)' /\ tx[p].hold = tx[q].hold
                                                         /\ pos[p] < pos[q]
           /\ Earlier(q, pos)' \subseteq Reqs
<1>1. PICK h : h = tx[q].hold
  OBVIOUS
<1>2. /\ \A r \in Reqs : r \in JudgedOf(h)' <=> Promising(r)' /\ tx[r].hold = h
      /\ JudgedOf(h)' \subseteq Reqs
  BY PromisedNext
<1>3. Earlier(q, pos)' = {p \in JudgedOf(h)' : pos[p] < pos[q]}
  BY <1>1 DEF Earlier
<1> QED
  BY <1>1, <1>2, <1>3

LEMMA EarlierNextType ==
    ASSUME TypeOK', UNCHANGED tx, NEW q \in Reqs, NEW pos
    PROVE  Total(effect', Earlier(q, pos)') \in Nat
<1>1. PICK S : S = Earlier(q, pos)'
  OBVIOUS
<1>2. S \subseteq Reqs
  BY <1>1, EarlierNext
<1>3. IsFiniteSet(S)
  BY <1>2, ReqsAssumption, FS_Subset
<1>4. \A x \in Reqs : effect'[x].amount \in Nat
  BY DEF TypeOK
<1>5. PICK ef : ef = effect'
  OBVIOUS
<1>6. Amounts(ef, S)
  BY <1>2, <1>4, <1>5 DEF Amounts
<1>7. Total(ef, S) \in Nat
  BY <1>3, <1>6, TotalType
<1> QED
  BY <1>1, <1>5, <1>7

LEMMA EarlierStays ==
    ASSUME TypeOK, UNCHANGED tx, NEW q \in Reqs, NEW pos, NEW more,
           \A p \in Reqs : tx[p].hold = tx[q].hold =>
              /\ (Promising(p)' /\ more[p] < more[q]) <=> (Promising(p) /\ pos[p] < pos[q])
              /\ Promising(p) => effect'[p] = effect[p]
    PROVE  Total(effect', Earlier(q, more)') = Total(effect, Earlier(q, pos))
<1>1. PICK S : S = Earlier(q, pos)
  OBVIOUS
<1>2. Earlier(q, more)' = S
  <2>1. Earlier(q, more)' \subseteq Reqs /\ S \subseteq Reqs
    BY <1>1, EarlierIs, EarlierNext
  <2>2. ASSUME NEW p \in Reqs PROVE p \in Earlier(q, more)' <=> p \in S
    BY <1>1, EarlierIs, EarlierNext
  <2> QED
    BY <2>1, <2>2
<1>3. IsFiniteSet(S) /\ S \subseteq Reqs /\ \A p \in S : effect'[p] = effect[p]
  BY <1>1, EarlierIs, EarlierFinite
<1>4. \A x \in S : Taking(effect'[x]) = Taking(effect[x])
  BY <1>3
<1>5. Total(effect', S) = Total(effect, S)
  BY <1>3, <1>4, TotalCong
<1> QED
  BY <1>1, <1>2, <1>5

\* One of those before q leaves.
LEMMA EarlierLeaves ==
    ASSUME TypeOK, UNCHANGED <<tx, effect>>, NEW q \in Reqs, NEW pos, NEW more, NEW r \in Reqs,
           Promising(r), ~Promising(r)', tx[r].hold = tx[q].hold,
           \A p \in Reqs : p # r => (Promising(p)' <=> Promising(p)),
           \A p \in Reqs : Promising(p) => (more[p] < more[q] <=> pos[p] < pos[q])
    PROVE  /\ pos[r] < pos[q] => Total(effect, Earlier(q, pos)) = effect[r].amount + Total(effect', Earlier(q, more)')
           /\ ~(pos[r] < pos[q]) => Total(effect, Earlier(q, pos)) = Total(effect', Earlier(q, more)')
<1>1. PICK S : S = Earlier(q, pos)
  OBVIOUS
<1>2. Earlier(q, more)' = S \ {r}
  BY <1>1, EarlierIs, EarlierNext
<1>3. IsFiniteSet(S) /\ Amounts(effect, S)
  BY <1>1, EarlierFinite
<1>4. r \in S <=> pos[r] < pos[q]
  BY <1>1, EarlierIs
<1>5. CASE r \in S
  BY <1>1, <1>2, <1>3, <1>4, <1>5, TotalRemove
<1>6. CASE r \notin S
  <2>1. S \ {r} = S
    BY <1>6
  <2> QED
    BY <1>1, <1>2, <1>4, <1>6, <2>1
<1> QED
  BY <1>5, <1>6

LEMMA ShareNext ==
    ASSUME TypeOK, TypeOK', StaleInv, LifeInv, RecordInv, HeldInv, ReservedInv,
           StandInv, CoverInv, TakenInv, ShareInv, WholeInv, writes = <<>>, [Next]_vars, UNCHANGED tx
    PROVE  ShareInv'
<1>1. PICK pos, n : Numbers(pos, n) /\ \A q \in Reqs : Promising(q) /\ Stands(q) => Fits(q, pos)
  BY DEF ShareInv
<1>2. PICK more : /\ Numbers(more, n + 1)'
                  /\ \A q \in Reqs : IF stage[q] = "judged" THEN more[q] = pos[q] ELSE more[q] = n
  BY <1>1, NumbersNext
<1>3. n \in Nat /\ n + 1 \in Nat /\ \A q \in Reqs : pos[q] \in Nat /\ pos[q] < n
  BY <1>1 DEF Numbers
<1>4. failures \in Nat /\ failures' \in Nat /\ failures <= failures'
  BY FailuresGrow
<1>5. SUFFICES ASSUME NEW q \in Reqs, Promising(q)', Stands(q)'
               PROVE  Fits(q, more)'
  <2>1. PICK m : m = n + 1
    OBVIOUS
  <2>2. Numbers(more, m)'
    BY <1>2, <2>1
  <2> QED
    BY <2>2, <1>5 DEF ShareInv
<1>6. PICK h \in Holds : h = tx[q].hold
  BY RequestTypes
<1>7. ReadsHold(q) /\ stage'[q] = "judged"
  BY <1>5, PromisingIs DEF Promising
<1>8. \A p \in Reqs : Promising(p) => more[p] = pos[p]
  BY <1>2 DEF Promising
\* Whoever was judged before fits if nothing more is taken before his turn.
<1>a. ASSUME Promising(q), Stands(q), effect'[q] = effect[q],
             released'[h] + Total(effect', Earlier(q, more)') <= released[h] + Total(effect, Earlier(q, pos)),
             failures' = 0 => released'[h] + Total(effect', Earlier(q, more)')
                                = released[h] + Total(effect, Earlier(q, pos))
      PROVE  Fits(q, more)'
  <2>1. /\ effect[q].amount + effect[q].left <= Share(q, pos)
        /\ failures = 0 => effect[q].amount + effect[q].left = Share(q, pos)
    BY <1>1, <1>a DEF Fits
  <2>2. PICK old, new : old = Total(effect, Earlier(q, pos)) /\ new = Total(effect', Earlier(q, more)')
    OBVIOUS
  <2>3. old \in Nat /\ new \in Nat
    BY <2>2, EarlierFinite, EarlierNextType
  <2>4. released[h] \in Nat /\ released'[h] \in Nat /\ effect[q].amount \in Nat /\ effect[q].left \in Nat
    BY DEF TypeOK
  <2>5. Share(q, pos) = HoldAmount - released[h] - old
    BY <1>6, <2>2 DEF Share
  <2>6. Share(q, more)' = HoldAmount - released'[h] - new
    <3>1. Total(effect, Earlier(q, more))' = new
      BY <2>2 DEF Total, MapThenSumSet, MapThenFoldSet
    <3> QED
      BY <1>6, <3>1 DEF Share
  <2>7. /\ released'[h] + new <= released[h] + old
        /\ failures' = 0 => released'[h] + new = released[h] + old
    BY <1>a, <2>2
  <2>a. PICK x, a, b : x = effect[q].amount + effect[q].left /\ a = released[h] /\ b = released'[h]
    OBVIOUS
  <2>b. x \in Nat /\ a \in Nat /\ b \in Nat /\ HoldAmount \in Nat
    BY <2>4, <2>a, HoldAmountAssumption
  <2>c. effect'[q].amount + effect'[q].left = x
    BY <1>a, <2>a
  <2>d. x <= HoldAmount - a - old /\ (failures = 0 => x = HoldAmount - a - old)
    BY <2>1, <2>5, <2>a
  <2>e. b + new <= a + old /\ (failures' = 0 => b + new = a + old)
    BY <2>7, <2>a
  <2>f. failures' = 0 => failures = 0
    BY <1>4
  <2>g. Share(q, more)' = HoldAmount - b - new
    BY <2>6, <2>a
  <2>8. effect'[q].amount + effect'[q].left <= Share(q, more)'
    BY <2>3, <2>b, <2>c, <2>d, <2>e, <2>g
  <2>9. failures' = 0 => effect'[q].amount + effect'[q].left = Share(q, more)'
    BY <2>3, <2>b, <2>c, <2>d, <2>e, <2>f, <2>g
  <2> QED
    BY <2>8, <2>9 DEF Fits
\* Those before him are the same.
<1>b. ASSUME Promising(q), Stands(q), effect'[q] = effect[q], released'[h] = released[h],
             \A p \in Reqs : tx[p].hold = tx[q].hold =>
                /\ (Promising(p)' /\ more[p] < more[q]) <=> (Promising(p) /\ pos[p] < pos[q])
                /\ Promising(p) => effect'[p] = effect[p]
      PROVE  Fits(q, more)'
  <2>1. Total(effect', Earlier(q, more)') = Total(effect, Earlier(q, pos))
    BY <1>b, EarlierStays
  <2>2. Total(effect, Earlier(q, pos)) \in Nat /\ released[h] \in Nat
    BY EarlierFinite DEF TypeOK
  <2> QED
    BY <1>a, <1>b, <2>1, <2>2
<1>c. ASSUME Promising(q) PROVE Stands(q)
  BY <1>5, <1>c, OrderNext DEF Promising
<1>9. CASE Quietly
  <2>1. UNCHANGED released /\ \A p \in Reqs : (Promising(p)' <=> Promising(p)) /\ (Promising(p) => effect'[p] = effect[p])
    BY <1>9 DEF Quietly
  <2> QED
    BY <1>5, <1>8, <1>b, <1>c, <2>1
<1>10. ASSUME NEW r \in Reqs, NEW e \in Entry, NEW found \in Nat, JudgedOn(r, e, found)
       PROVE  Fits(q, more)'
  <2>1. /\ UNCHANGED <<released, failures>> /\ ~Promising(r) /\ stage[r] = "open"
        /\ \A p \in Reqs : p # r => (Promising(p)' <=> Promising(p)) /\ effect'[p] = effect[p]
    BY <1>10, PromisingIs DEF JudgedOn, Promising
  <2>2. CASE q # r
    <3>1. Promising(q)
      BY <1>5, <2>1, <2>2
    <3>2. ~(more[r] < more[q])
      BY <1>2, <1>3, <1>8, <2>1, <3>1
    <3> QED
      BY <1>8, <1>b, <1>c, <2>1, <2>2, <3>1, <3>2
  <2>3. CASE q = r
    <3>1. PICK takes : takes = effect'[q].amount + effect'[q].left
      OBVIOUS
    <3>2. takes <= Left(h) - Promised(h) /\ (failures = 0 => takes = Left(h) - Promised(h))
      BY <1>6, <1>10, <2>3, <3>1, JudgedFits
    <3>3. PICK S : S = JudgedOf(h)
      OBVIOUS
    <3>4. Earlier(q, more)' = S
      <4>1. Earlier(q, more)' \subseteq Reqs /\ S \subseteq Reqs
        BY <3>3, JudgedFinite, EarlierNext
      <4>2. ASSUME NEW p \in Reqs PROVE p \in Earlier(q, more)' <=> p \in S
        <5>1. p \in S <=> Promising(p) /\ tx[p].hold = h
          BY <3>3, JudgedFinite
        <5>2. p \in Earlier(q, more)' <=> Promising(p)' /\ tx[p].hold = h /\ more[p] < more[q]
          BY <1>6, EarlierNext
        <5>3. more[q] = n /\ (Promising(p) => more[p] < n)
          BY <1>2, <1>3, <1>8, <2>1, <2>3
        <5>4. p = q => ~(more[p] < more[q])
          BY <1>3, <5>3
        <5> QED
          BY <2>1, <2>3, <5>1, <5>2, <5>3, <5>4
      <4> QED
        BY <4>1, <4>2
    <3>5. Total(effect', S) = Total(effect, S) /\ Promised(h) = Total(effect, S)
      <4>1. IsFiniteSet(S) /\ Promised(h) = Total(effect, S) /\ \A p \in S : p \in Reqs /\ p # r
        BY <2>1, <3>3, JudgedFinite
      <4>2. \A p \in S : Taking(effect'[p]) = Taking(effect[p])
        BY <2>1, <4>1
      <4> QED
        BY <4>1, <4>2, TotalCong
    <3>6. Share(q, more)' = HoldAmount - released'[h] - Total(effect', S)
      <4>1. Total(effect, Earlier(q, more))' = Total(effect', S)
        BY <3>4 DEF Total, MapThenSumSet, MapThenFoldSet
      <4> QED
        BY <1>6, <4>1 DEF Share
    <3>7. Share(q, more)' = Left(h) - Promised(h)
      BY <2>1, <3>5, <3>6 DEF Left
    <3> QED
      BY <2>1, <3>1, <3>2, <3>7 DEF Fits
  <2> QED
    BY <2>2, <2>3
\* One of the judged is decided.
<1>d. ASSUME NEW r \in Reqs, stage[r] = "judged", stage'[r] = "done", UNCHANGED effect,
             \A p \in Reqs : p # r => stage'[p] = stage[p]
      PROVE  /\ Promising(q) /\ q # r /\ ~Promising(r)'
             /\ \A p \in Reqs : p # r => (Promising(p)' <=> Promising(p))
  BY <1>5, <1>d, PromisingIs DEF Promising
<1>e. ASSUME NEW r \in Reqs, stage[r] = "judged", stage'[r] = "done", UNCHANGED effect,
             \A p \in Reqs : p # r => stage'[p] = stage[p],
             ~ReadsHold(r) \/ tx[r].hold # h, released'[h] = released[h]
      PROVE  Fits(q, more)'
  <2>1. /\ Promising(q) /\ q # r
        /\ \A p \in Reqs : p # r => (Promising(p)' <=> Promising(p))
    BY <1>d, <1>e
  <2>2. ~ReadsHold(r) => ~Promising(r) /\ ~Promising(r)'
    BY PromisingIs DEF Promising
  <2>3. \A p \in Reqs : tx[p].hold = h => (Promising(p)' <=> Promising(p))
    BY <1>e, <2>1, <2>2
  <2> QED
    BY <1>6, <1>8, <1>b, <1>c, <1>e, <2>1, <2>3
<1>11. ASSUME NEW r \in Reqs, Commits(r)
       PROVE  Fits(q, more)'
  <2>1. /\ stage[r] = "judged" /\ stage'[r] = "done" /\ UNCHANGED effect
        /\ \A p \in Reqs : p # r => stage'[p] = stage[p]
        /\ applying.batch # <<>> /\ r = Head(applying.batch)
        /\ released' = [released EXCEPT ![tx[r].hold] = IF ReadsHold(r) THEN @ + effect[r].amount ELSE @]
    BY <1>11 DEF Commits
  <2>2. CASE ~ReadsHold(r) \/ tx[r].hold # h
    <3>1. released'[h] = released[h]
      BY <2>1, <2>2 DEF TypeOK
    <3> QED
      BY <1>e, <2>1, <2>2, <3>1
  <2>3. CASE ReadsHold(r) /\ tx[r].hold = h
    <3>1. released'[h] = released[h] + effect[r].amount
      BY <2>1, <2>3 DEF TypeOK
    <3>2. /\ Promising(q) /\ q # r /\ ~Promising(r)'
          /\ \A p \in Reqs : p # r => (Promising(p)' <=> Promising(p))
      BY <1>d, <2>1
    <3>3. Promising(r)
      BY <2>1, <2>3 DEF Promising
    <3>4. pos[r] < pos[q]
      BY <1>1, <1>c, <2>1, <3>2, HeadIsFirst
    <3>a. \A p \in Reqs : Promising(p) => (more[p] < more[q] <=> pos[p] < pos[q])
      BY <1>8, <3>2
    <3>b. tx[r].hold = tx[q].hold /\ UNCHANGED effect
      BY <1>6, <2>1, <2>3
    <3>5. Total(effect, Earlier(q, pos)) = effect[r].amount + Total(effect', Earlier(q, more)')
      BY <3>2, <3>3, <3>4, <3>a, <3>b, EarlierLeaves
    <3>6. PICK old, new : old = Total(effect, Earlier(q, pos)) /\ new = Total(effect', Earlier(q, more)')
      OBVIOUS
    <3>7. old \in Nat /\ new \in Nat /\ old = effect[r].amount + new
      BY <3>5, <3>6, EarlierFinite, EarlierNextType
    <3>8. released[h] \in Nat /\ effect[r].amount \in Nat
      BY DEF TypeOK
    <3>9. released'[h] + new = released[h] + old /\ released'[h] + new <= released[h] + old
      BY <3>1, <3>7, <3>8
    <3> QED
      BY <1>a, <1>c, <2>1, <3>2, <3>6, <3>9
  <2> QED
    BY <2>2, <2>3
<1>12. ASSUME NEW r \in Reqs, Refuses(r)
       PROVE  Fits(q, more)'
  <2>1. /\ stage[r] = "judged" /\ stage'[r] = "done" /\ UNCHANGED <<effect, released, failures>>
        /\ \A p \in Reqs : p # r => stage'[p] = stage[p]
        /\ ReadsHold(r) /\ applying.batch # <<>> /\ ~applying.committed
    BY <1>12 DEF Refuses
  <2>2. failures' # 0
    BY <1>4, <2>1 DEF TakenInv
  <2>3. CASE tx[r].hold # h
    BY <1>e, <2>1, <2>3
  <2>4. CASE tx[r].hold = h
    <3>1. /\ Promising(q) /\ q # r /\ ~Promising(r)'
          /\ \A p \in Reqs : p # r => (Promising(p)' <=> Promising(p))
      BY <1>d, <2>1
    <3>2. Promising(r)
      BY <2>1 DEF Promising
    <3>a. \A p \in Reqs : Promising(p) => (more[p] < more[q] <=> pos[p] < pos[q])
      BY <1>8, <3>1
    <3>b. tx[r].hold = tx[q].hold /\ UNCHANGED effect
      BY <1>6, <2>1, <2>4
    <3>3. /\ pos[r] < pos[q] => Total(effect, Earlier(q, pos)) = effect[r].amount + Total(effect', Earlier(q, more)')
          /\ ~(pos[r] < pos[q]) => Total(effect, Earlier(q, pos)) = Total(effect', Earlier(q, more)')
      BY <3>1, <3>2, <3>a, <3>b, EarlierLeaves
    <3>4. PICK old, new : old = Total(effect, Earlier(q, pos)) /\ new = Total(effect', Earlier(q, more)')
      OBVIOUS
    <3>5. old \in Nat /\ new \in Nat /\ (old = effect[r].amount + new \/ old = new)
      BY <3>3, <3>4, EarlierFinite, EarlierNextType
    <3>6. released[h] \in Nat /\ effect[r].amount \in Nat /\ released'[h] = released[h]
      BY <2>1 DEF TypeOK
    <3>7. released'[h] + new <= released[h] + old
      BY <3>5, <3>6
    <3> QED
      BY <1>a, <1>c, <2>1, <2>2, <3>1, <3>4, <3>7
  <2> QED
    BY <2>3, <2>4
<1> QED
  BY <1>9, <1>10, <1>11, <1>12, StepKinds DEF Flushes

\* A resolution that commits takes and leaves what the hold has.
LEMMA CommitFits ==
    ASSUME TypeOK, StandInv, ShareInv, NEW r \in Reqs, Commits(r), ReadsHold(r)
    PROVE  /\ effect[r].amount \in Nat /\ effect[r].left \in Nat
           /\ effect[r].amount + effect[r].left <= Left(tx[r].hold)
           /\ failures = 0 => effect[r].amount + effect[r].left = Left(tx[r].hold)
<1>1. PICK pos, n : Numbers(pos, n) /\ \A q \in Reqs : Promising(q) /\ Stands(q) => Fits(q, pos)
  BY DEF ShareInv
<1>2. applying.batch # <<>> /\ r = Head(applying.batch) /\ Promising(r)
  BY DEF Commits, Promising
<1>3. Stands(r) /\ \A q \in Reqs : q # r /\ Stands(q) => pos[r] < pos[q]
  BY <1>1, <1>2, HeadIsFirst
<1>4. PICK h \in Holds : h = tx[r].hold
  BY RequestTypes
<1>5. PICK before : before = Total(effect, Earlier(r, pos))
  OBVIOUS
<1>6. Earlier(r, pos) = {}
  <2>1. ASSUME NEW p \in Reqs, p \in Earlier(r, pos) PROVE FALSE
    <3>1. stage[p] = "judged" /\ pos[p] < pos[r]
      BY <2>1, EarlierIs DEF Promising
    <3>2. Stands(p)
      BY <1>2, <3>1 DEF StandInv
    <3>3. pos[p] \in Nat /\ pos[r] \in Nat
      BY <1>1 DEF Numbers
    <3>4. p # r
      BY <3>1, <3>3
    <3>5. pos[r] < pos[p]
      BY <1>3, <3>2, <3>4
    <3> QED
      BY <3>1, <3>3, <3>5
  <2> QED
    BY <2>1, EarlierIs
<1>7. before = 0
  BY <1>5, <1>6, TotalEmpty
<1>8. released[h] \in Nat /\ effect[r].amount \in Nat /\ effect[r].left \in Nat
  BY DEF TypeOK
<1>9. Share(r, pos) = Left(h)
  BY <1>4, <1>5, <1>7, <1>8, HoldAmountAssumption DEF Share, Left
<1>10. Fits(r, pos)
  BY <1>1, <1>2, <1>3
<1> QED
  BY <1>4, <1>8, <1>9, <1>10 DEF Fits

\* A creation that commits finds a hold nobody has taken from.
LEMMA CreationFinds ==
    ASSUME TypeOK, ReadInv, CreatedInv, SeenInv, TakenInv, NEW r \in Reqs, Commits(r), ~ReadsHold(r)
    PROVE  /\ released[tx[r].hold] = 0 /\ store[tx[r].hold] = 0 /\ effect[r].amount = HoldAmount
           /\ ~Handed(tx[r].hold) /\ released' = released
<1>1. PICK h \in Holds : h = tx[r].hold
  BY RequestTypes
<1>2. stage[r] = "judged" /\ released' = released
  BY DEF Commits, TypeOK
<1>3. ~Handed(h) /\ effect[r].amount = HoldAmount
  BY <1>1, <1>2, NobodyPromised DEF CreatedInv
<1>4. released[h] = 0
  BY <1>3 DEF TakenInv, SeenInv, KnownInv, Resolutions
<1>5. store[h] = 0
  <2>1. store[h] \in Nat
    BY DEF TypeOK
  <2> QED
    BY <1>3, <2>1 DEF SeenInv, KnownInv
<1> QED
  BY <1>1, <1>2, <1>3, <1>4, <1>5

\* And its decision is handed over at once.
LEMMA CommitsNow ==
    ASSUME TypeOK, writes = <<>>, writes' = <<>>, NEW r \in Reqs, Commits(r)
    PROVE  Handing(r, GivenBack(r)) /\ SameHold(overlay'[tx[r].hold], Sent(PendingEffect(r), GivenBack(r)))
<1>1. ~Backlogging(r, GivenBack(r))
  <2>1. Append(<<>>, r) # <<>>
    <3>1. Len(Append(<<>>, r)) = 1 /\ Len(<<>>) = 0
      OBVIOUS
    <3> QED
      BY <3>1
  <2> QED
    BY <2>1 DEF Backlogging
<1> QED
  BY <1>1, CommitsEntry DEF Commits

\* What is promised and released together only moves from the one to the other.
LEMMA PromiseNext ==
    ASSUME TypeOK, TypeOK', StaleInv, LifeInv, ReadInv, CreatedInv, SeenInv, RecordInv, HeldInv, ReservedInv,
           CoverInv, WholeInv, writes = <<>>, [Next]_vars, UNCHANGED tx
    PROVE  NoOverPromise'
<1> SUFFICES ASSUME NEW h \in Holds PROVE released'[h] + Promised(h)' <= HoldAmount
  BY DEF NoOverPromise
<1>1. PICK was, now, kept : was = released[h] /\ now = released'[h] /\ kept = Promised(h)
  OBVIOUS
<1>2. was \in Nat /\ now \in Nat /\ kept \in Nat /\ HoldAmount \in Nat
  BY <1>1, JudgedFinite, HoldAmountAssumption DEF TypeOK
<1>3. was + kept <= HoldAmount
  BY <1>1 DEF CoverInv, NoOverPromise
<1>a. ASSUME now = was, Promised(h)' = kept
      PROVE  released'[h] + Promised(h)' <= HoldAmount
  BY <1>1, <1>3, <1>a
<1>4. CASE Quietly
  <2>1. Promised(h)' = Promised(h) /\ released' = released
    BY <1>4, PromisedStays DEF Quietly
  <2> QED
    BY <1>1, <1>a, <2>1
<1>5. ASSUME NEW r \in Reqs, NEW e \in Entry, NEW found \in Nat, JudgedOn(r, e, found)
      PROVE  released'[h] + Promised(h)' <= HoldAmount
  <2>1. /\ released' = released /\ ~Promising(r) /\ Promising(r)'
        /\ \A q \in Reqs : q # r => (Promising(q)' <=> Promising(q)) /\ (Promising(q) => effect'[q] = effect[q])
    BY <1>5, PromisingIs DEF JudgedOn, Promising
  <2>2. CASE h # tx[r].hold
    <3>1. Promised(h)' = Promised(h)
      BY <2>1, <2>2, PromisedStays
    <3> QED
      BY <1>1, <1>a, <2>1, <3>1
  <2>3. CASE h = tx[r].hold
    <3>1. Promised(h)' = kept + effect'[r].amount
      BY <1>1, <2>1, <2>3, PromisedGrows
    <3>2. PICK a, l : a = effect'[r].amount /\ l = effect'[r].left
      OBVIOUS
    <3>3. a \in Nat /\ l \in Nat /\ a + l <= Left(h) - kept
      BY <1>1, <1>5, <2>3, <3>2, JudgedFits
    <3>4. Left(h) = HoldAmount - was
      BY <1>1 DEF Left
    <3>5. now = was
      BY <1>1, <2>1
    <3>6. now + (kept + a) <= HoldAmount
      BY <1>2, <3>3, <3>4, <3>5
    <3> QED
      BY <1>1, <3>1, <3>2, <3>6
  <2> QED
    BY <2>2, <2>3
<1>b. ASSUME NEW r \in Reqs, ReadsHold(r), stage[r] = "judged", stage'[r] = "done",
             \A q \in Reqs : q # r => stage'[q] = stage[q], UNCHANGED effect
      PROVE  /\ h # tx[r].hold => Promised(h)' = kept
             /\ h = tx[r].hold => kept = Promised(h)' + effect[r].amount /\ Promised(h)' \in Nat /\ effect[r].amount \in Nat
  <2>1. /\ Promising(r) /\ ~Promising(r)'
        /\ \A q \in Reqs : q # r => (Promising(q)' <=> Promising(q)) /\ (Promising(q) => effect'[q] = effect[q])
    BY <1>b, PromisingIs DEF Promising
  <2> QED
    BY <1>1, <2>1, PromisedStays, PromisedShrinks
<1>6. ASSUME NEW r \in Reqs, Commits(r)
      PROVE  released'[h] + Promised(h)' <= HoldAmount
  <2>1. /\ stage[r] = "judged" /\ stage'[r] = "done" /\ UNCHANGED effect
        /\ \A q \in Reqs : q # r => stage'[q] = stage[q]
        /\ released' = [released EXCEPT ![tx[r].hold] = IF ReadsHold(r) THEN @ + effect[r].amount ELSE @]
    BY <1>6 DEF Commits
  <2>2. CASE ReadsHold(r) /\ h = tx[r].hold
    <3>1. now = was + effect[r].amount
      BY <1>1, <2>1, <2>2 DEF TypeOK
    <3>2. PICK p, a : p = Promised(h)' /\ a = effect[r].amount
      OBVIOUS
    <3>3. p \in Nat /\ a \in Nat /\ kept = p + a
      BY <1>b, <2>1, <2>2, <3>2
    <3>4. now + p <= HoldAmount
      BY <1>2, <1>3, <3>1, <3>2, <3>3
    <3> QED
      BY <1>1, <3>2, <3>4
  <2>3. CASE ReadsHold(r) /\ h # tx[r].hold
    <3>1. now = was /\ Promised(h)' = kept
      BY <1>1, <1>b, <2>1, <2>3 DEF TypeOK
    <3> QED
      BY <1>a, <3>1
  <2>4. CASE ~ReadsHold(r)
    <3>1. now = was
      BY <1>1, <2>1, <2>4 DEF TypeOK
    <3>2. \A q \in Reqs : Promising(q)' <=> Promising(q)
      BY <2>1, <2>4, PromisingIs DEF Promising
    <3>3. Promised(h)' = kept
      BY <1>1, <2>1, <3>2, PromisedStays
    <3> QED
      BY <1>a, <3>1, <3>3
  <2> QED
    BY <2>2, <2>3, <2>4
<1>7. ASSUME NEW r \in Reqs, Refuses(r)
      PROVE  released'[h] + Promised(h)' <= HoldAmount
  <2>1. /\ ReadsHold(r) /\ stage[r] = "judged" /\ stage'[r] = "done" /\ UNCHANGED <<effect, released>>
        /\ \A q \in Reqs : q # r => stage'[q] = stage[q]
    BY <1>7 DEF Refuses
  <2>2. PICK p, a : p = Promised(h)' /\ a = effect[r].amount
    OBVIOUS
  <2>3. p = kept \/ (p \in Nat /\ a \in Nat /\ kept = p + a)
    BY <1>b, <2>1, <2>2
  <2>4. now = was
    BY <1>1, <2>1
  <2>5. now + p <= HoldAmount
    BY <1>2, <1>3, <2>3, <2>4
  <2> QED
    BY <1>1, <2>2, <2>5
<1> QED
  BY <1>4, <1>5, <1>6, <1>7, StepKinds DEF Flushes

\* What the overlay has of a hold.
LEMMA EntriesNext ==
    ASSUME TypeOK, TypeOK', StaleInv, LifeInv, ReadInv, CreatedInv, SeenInv, RecordInv,
           StandInv, CoverInv, ShareInv, TakenInv, WholeInv, writes = <<>>, writes' = <<>>, [Next]_vars,
           NEW h \in Holds, Live(overlay'[h])
    PROVE  overlay'[h].remaining <= Left(h)' /\ (failures' = 0 => overlay'[h].remaining >= Left(h)')
<1>0. failures' = 0 => failures = 0
  BY FailuresGrow
<1>1. PICK has, will : has = Left(h) /\ will = Left(h)'
  OBVIOUS
<1>2. released[h] \in Nat /\ released'[h] \in Nat /\ HoldAmount \in Nat
  BY HoldAmountAssumption DEF TypeOK
<1>3. has = HoldAmount - released[h] /\ will = HoldAmount - released'[h] /\ has \in Int /\ will \in Int
  BY <1>1, <1>2 DEF Left
\* Nothing is released and an entry has at most learnt.
<1>a. ASSUME released'[h] = released[h], NEW e, Learns(h, overlay[h], e), Live(e), overlay'[h].remaining = e.remaining
      PROVE  overlay'[h].remaining <= Left(h)' /\ (failures' = 0 => overlay'[h].remaining >= Left(h)')
  <2>1. has = will
    BY <1>3, <1>a
  <2>2. e.remaining <= has /\ (failures = 0 => e.remaining >= has)
    BY <1>1, <1>a, LearntCovers, LearntWhole
  <2> QED
    BY <1>0, <1>1, <1>a, <2>1, <2>2
<1>b. ASSUME released'[h] = released[h], overlay'[h].remaining = overlay[h].remaining, Live(overlay[h])
      PROVE  overlay'[h].remaining <= Left(h)' /\ (failures' = 0 => overlay'[h].remaining >= Left(h)')
  <2>1. Learns(h, overlay[h], overlay[h])
    BY DEF Learns, SameHold
  <2> QED
    BY <1>a, <1>b, <2>1
<1>4. CASE Quietly
  <2>1. Learns(h, overlay[h], overlay'[h]) /\ released' = released
    BY <1>4 DEF Quietly, NoEntry, Bare, Live
  <2> QED
    BY <1>a, <2>1
<1>5. ASSUME NEW r \in Reqs, NEW e \in Entry, NEW found \in Nat, JudgedOn(r, e, found)
      PROVE  overlay'[h].remaining <= Left(h)' /\ (failures' = 0 => overlay'[h].remaining >= Left(h)')
  <2>1. released' = released
    BY <1>5 DEF JudgedOn
  <2>2. CASE h # tx[r].hold
    <3>1. overlay'[h] = overlay[h]
      BY <1>5, <2>2 DEF JudgedOn
    <3> QED
      BY <1>b, <2>1, <3>1
  <2>3. CASE h = tx[r].hold
    <3>1. Learns(h, overlay[h], e) /\ Live(e) /\ overlay'[h].remaining = e.remaining
      BY <1>5, <2>3 DEF JudgedOn, Reserve, Hold
    <3> QED
      BY <1>a, <2>1, <3>1
  <2> QED
    BY <2>2, <2>3
<1>6. ASSUME NEW r \in Reqs, Commits(r)
      PROVE  overlay'[h].remaining <= Left(h)' /\ (failures' = 0 => overlay'[h].remaining >= Left(h)')
  <2>1. released' = [released EXCEPT ![tx[r].hold] = IF ReadsHold(r) THEN @ + effect[r].amount ELSE @]
    BY <1>6 DEF Commits
  <2>2. CASE h # tx[r].hold
    <3>1. overlay'[h] = overlay[h] /\ released'[h] = released[h]
      BY <1>6, <2>1, <2>2, CommitsEntry DEF TypeOK
    <3> QED
      BY <1>b, <3>1
  <2>3. CASE h = tx[r].hold /\ ReadsHold(r)
    <3>1. PICK e : e = GivenBack(r)
      OBVIOUS
    <3>2. SameHold(overlay'[h], Sent(PendingEffect(r), e))
      BY <1>6, <2>3, <3>1, CommitsNow
    <3>3. overlay'[h].remaining = effect[r].left
      BY <2>3, <3>2, DecisionIs DEF NoteRemaining, Forget, Hold, SameHold, Live
    <3>4. PICK a, l : a = effect[r].amount /\ l = effect[r].left
      OBVIOUS
    <3>5. a \in Nat /\ l \in Nat /\ a + l <= has /\ (failures = 0 => a + l = has)
      BY <1>1, <1>6, <2>3, <3>4, CommitFits
    <3>6. released'[h] = released[h] + a
      BY <2>1, <2>3, <3>4 DEF TypeOK
    <3>7. will = has - a
      BY <1>2, <1>3, <3>5, <3>6
    <3>8. l <= will /\ (failures = 0 => l >= will)
      BY <1>3, <3>5, <3>7
    <3> QED
      BY <1>0, <1>1, <3>3, <3>4, <3>8
  <2>4. CASE h = tx[r].hold /\ ~ReadsHold(r)
    <3>1. released'[h] = 0 /\ effect[r].amount = HoldAmount /\ released'[h] = released[h]
      BY <1>6, <2>4, CreationFinds
    <3>2. PICK e : e = overlay[h]
      OBVIOUS
    <3>3. SameHold(overlay'[h], Created(e, effect[r].amount))
      BY <1>6, <2>4, <3>2, CommitsNow, DecisionIs DEF GivenBack
    <3>4. overlay'[h].remaining = HoldAmount
      BY <3>1, <3>3 DEF SameHold, Live, Created, Decide, Hold
    <3>5. will = HoldAmount
      BY <1>2, <1>3, <3>1
    <3> QED
      BY <1>1, <1>2, <3>4, <3>5
  <2> QED
    BY <2>2, <2>3, <2>4
<1>7. ASSUME NEW r \in Reqs, Refuses(r)
      PROVE  overlay'[h].remaining <= Left(h)' /\ (failures' = 0 => overlay'[h].remaining >= Left(h)')
  <2>1. released' = released
    BY <1>7 DEF Refuses
  <2>2. CASE h # tx[r].hold
    BY <1>7, <1>b, <2>1, <2>2, RefusesEntry
  <2>3. CASE h = tx[r].hold
    <3>1. SameHold(overlay'[h], Compensate(overlay[h], effect[r].amount, effect[r].left = 0))
      BY <1>7, <2>3, RefusesEntry
    <3>2. Live(overlay[h]) /\ overlay'[h].remaining = overlay[h].remaining
      BY <3>1 DEF Compensate, Hold, SameHold, Live
    <3> QED
      BY <1>b, <2>1, <3>2
  <2> QED
    BY <2>2, <2>3
<1> QED
  BY <1>4, <1>5, <1>6, <1>7, StepKinds DEF Flushes

\* What the log leaves of it.
LEMMA LedgerNext ==
    ASSUME TypeOK, TypeOK', StaleInv, LifeInv, ReadInv, CreatedInv, SeenInv, RecordInv,
           StandInv, CoverInv, ShareInv, TakenInv, WholeInv, writes = <<>>, writes' = <<>>, [Next]_vars, UNCHANGED tx,
           NoOverPromise', NEW h \in Holds
    PROVE  ledger'[h] <= Left(h)' /\ (failures' = 0 /\ Acknowledged(h)' => ledger'[h] >= Left(h)')
<1>0. failures' = 0 => failures = 0
  BY FailuresGrow
<1>1. PICK has, will : has = Left(h) /\ will = Left(h)'
  OBVIOUS
<1>2. /\ released[h] \in Nat /\ released'[h] \in Nat /\ HoldAmount \in Nat /\ ledger[h] \in Nat /\ ledger'[h] \in Nat
      /\ released[h] <= released'[h]
  BY ReleasedMoves, HoldAmountAssumption DEF TypeOK
<1>3. /\ has = HoldAmount - released[h] /\ will = HoldAmount - released'[h] /\ has \in Int /\ will \in Int
      /\ will <= has
  BY <1>1, <1>2 DEF Left
<1>4. ledger[h] <= has /\ (failures = 0 /\ Acknowledged(h) => ledger[h] >= has)
  BY <1>1 DEF CoverInv, WholeInv
<1>5. will >= 0
  <2>1. released'[h] + Promised(h)' <= HoldAmount
    BY DEF NoOverPromise
  <2>2. Promised(h)' \in Nat
    <3>1. PICK S, ef : S = JudgedOf(h)' /\ ef = effect'
      OBVIOUS
    <3>2. S \subseteq Reqs /\ Promised(h)' = Total(ef, S)
      BY <3>1, PromisedNext
    <3>3. IsFiniteSet(S)
      BY <3>2, ReqsAssumption, FS_Subset
    <3>4. Amounts(ef, S)
      BY <3>1, <3>2 DEF Amounts, TypeOK
    <3> QED
      BY <3>2, <3>3, <3>4, TotalType
  <2> QED
    BY <1>2, <1>3, <2>1, <2>2
\* The log says nothing new of the hold, and nobody hears of it for the first time.
<1>a. ASSUME ledger'[h] = ledger[h], released'[h] = released[h], Acknowledged(h)' => Acknowledged(h)
      PROVE  ledger'[h] <= Left(h)' /\ (failures' = 0 /\ Acknowledged(h)' => ledger'[h] >= Left(h)')
  <2>1. has = will
    BY <1>3, <1>a
  <2> QED
    BY <1>0, <1>1, <1>4, <1>a, <2>1
<1>6. CASE \E r \in Reqs : Commits(r)
  <2>0. PICK r \in Reqs : Commits(r)
    BY <1>6
  <2>1. /\ released' = [released EXCEPT ![tx[r].hold] = IF ReadsHold(r) THEN @ + effect[r].amount ELSE @]
        /\ ledger' = [ledger EXCEPT ![tx[r].hold] = Stored(PendingEffect(r), @)]
        /\ \A q \in Reqs : q # r => outcome'[q] = outcome[q]
    BY <2>0 DEF Commits
  <2>2. ~(tx[r].kind = "hold" /\ tx[r].hold = h) => (Acknowledged(h)' => Acknowledged(h))
    BY <2>1 DEF Acknowledged
  <2>3. CASE h # tx[r].hold
    <3>1. ledger'[h] = ledger[h] /\ released'[h] = released[h]
      BY <2>1, <2>3 DEF TypeOK
    <3> QED
      BY <1>a, <2>2, <2>3, <3>1
  <2>4. CASE h = tx[r].hold /\ ReadsHold(r)
    <3>1. PICK a, l : a = effect[r].amount /\ l = effect[r].left
      OBVIOUS
    <3>2. a \in Nat /\ l \in Nat /\ a + l <= has /\ (failures = 0 => a + l = has)
      BY <1>1, <2>0, <2>4, <3>1, CommitFits
    <3>3. released'[h] = released[h] + a
      BY <2>1, <2>4, <3>1 DEF TypeOK
    <3>4. will = has - a
      BY <1>2, <1>3, <3>2, <3>3
    <3>5. ledger'[h] = Stored(PendingEffect(r), ledger[h])
      BY <2>1, <2>4 DEF TypeOK
    <3>6. ledger'[h] = IF l > 0 THEN (IF ledger[h] > 0 THEN l ELSE 0) ELSE 0
      BY <2>4, <3>1, <3>2, <3>5, DecisionIs DEF Stored
    <3>7. ledger'[h] <= will
      BY <1>5, <3>2, <3>4, <3>6, <1>3
    <3>8. failures' = 0 /\ Acknowledged(h)' => ledger'[h] >= will
      <4>1. ASSUME failures' = 0, Acknowledged(h)' PROVE ledger'[h] >= will
        <5>1. ledger[h] >= has /\ a + l = has
          BY <1>0, <1>4, <2>2, <2>4, <3>2, <4>1 DEF ReadsHold
        <5>2. will = l
          BY <3>2, <3>4, <5>1
        <5>3. l > 0 => ledger[h] > 0
          BY <1>2, <3>2, <5>1
        <5> QED
          BY <3>2, <3>6, <5>2, <5>3
      <4> QED
        BY <4>1
    <3> QED
      BY <1>1, <3>7, <3>8
  <2>5. CASE h = tx[r].hold /\ ~ReadsHold(r)
    <3>1. released'[h] = 0 /\ effect[r].amount = HoldAmount
      BY <2>0, <2>5, CreationFinds
    <3>2. ledger'[h] = Stored(PendingEffect(r), ledger[h])
      BY <2>1, <2>5 DEF TypeOK
    <3>3. ledger'[h] = HoldAmount
      BY <2>5, <3>1, <3>2, DecisionIs DEF Stored
    <3>4. will = HoldAmount
      BY <1>2, <1>3, <3>1
    <3> QED
      BY <1>1, <1>2, <3>3, <3>4
  <2> QED
    BY <2>3, <2>4, <2>5
<1>7. CASE ~\E r \in Reqs : Commits(r)
  <2>1. released' = released /\ ledger' = ledger
    BY <1>7, StepKinds DEF Quietly, JudgedOn, Refuses, Flushes
  <2>2. \A q \in Reqs : outcome'[q] = "committed" => outcome[q] = "committed"
    BY <1>7, CommittedNow
  <2>3. Acknowledged(h)' => Acknowledged(h)
    BY <2>2 DEF Acknowledged
  <2> QED
    BY <1>a, <2>1, <2>3
<1> QED
  BY <1>6, <1>7

\* A question the engine takes while the overlay still needs the answer meets a record of
\* which every decision so far is part: the one the log gives.
LEMMA LookedUp ==
    ASSUME TypeOK, Follows, CoverInv, BehindInv, writes = <<>>, EngineLookup,
           NEW h \in Holds, h = tx[cmdq[1].req].hold, ~Decided(h)
    PROVE  store[h] <= Left(h)
<1>1. /\ cmdq # <<>> /\ 1 \in 1..Len(cmdq) /\ cmdq[1].op = "lookup" /\ cmdq \in Seq(Command) /\ Len(cmdq) \in Nat
      /\ released[h] \in Nat /\ Promised(h) \in Nat
  <2>1. cmdq # <<>> /\ Head(cmdq).op = "lookup"
    BY DEF EngineLookup
  <2>2. Promised(h) \in Nat
    BY JudgedFinite
  <2>3. released[h] \in Nat
    BY DEF TypeOK
  <2> QED
    BY <2>1, <2>2, <2>3, TailOfQueue, QueueTypes
<1>2. \A i \in 1..Len(cmdq) : cmdq[i] \in Command
  BY <1>1
<1>3. CASE \E j \in 1..Len(cmdq) : cmdq[j].op # "lookup" /\ tx[cmdq[j].req].hold = h
  <2>1. PICK j \in 1..Len(cmdq) : cmdq[j].op # "lookup" /\ tx[cmdq[j].req].hold = h
    BY <1>3
  <2>2. cmdq[j].op \in {"create", "reduce", "remove"} /\ 1 < j
    BY <1>1, <1>2, <2>1 DEF Command
  <2>3. cmdq[j].op \notin {"reduce", "remove"}
    BY <1>1, <2>1, <2>2 DEF BehindInv
  <2>4. store[h] = 0
    BY <2>1, <2>2, <2>3 DEF BehindInv
  <2>5. released[h] + Promised(h) <= HoldAmount
    BY DEF CoverInv, NoOverPromise
  <2>6. PICK a, b : a = released[h] /\ b = Promised(h)
    OBVIOUS
  <2>7. 0 <= HoldAmount - a
    BY <1>1, <2>5, <2>6, HoldAmountAssumption
  <2> QED
    BY <2>4, <2>6, <2>7 DEF Left
<1>4. CASE \A j \in 1..Len(cmdq) : cmdq[j].op = "lookup" \/ tx[cmdq[j].req].hold # h
  <2>1. PICK q : q = Handover
    OBVIOUS
  <2>2. q \in Seq(Command) /\ Len(q) = Len(cmdq) /\ \A i \in 1..Len(cmdq) : q[i] = cmdq[i]
    <3>1. Len(writes) = 0
      OBVIOUS
    <3> QED
      BY <1>1, <2>1, <3>1, HandoverIs
  <2>3. \A i \in 1..Len(q) : q[i].op = "lookup" \/ q[i].req \notin Of(h)
    BY <1>4, <2>2 DEF Of
  <2>4. EndsWith(q, Of(h), store[h], ledger[h])
    BY <2>1 DEF Follows
  <2>5. ledger[h] = store[h]
    BY <2>2, <2>3, <2>4, EndsIdle
  <2> QED
    BY <2>5 DEF CoverInv
<1> QED
  BY <1>3, <1>4

\* Who has asked finds the hold's entry keep what it has learnt.
LEMMA AskedKeeps ==
    ASSUME TypeOK, StaleInv, LifeInv, ReadInv, PinInv, RecordInv, [Next]_vars, NEW q \in Reqs, Asks(q)
    PROVE  /\ tx[q].hold \in Holds /\ overlay[tx[q].hold].pinned > 0
           /\ Decided(tx[q].hold) => overlay'[tx[q].hold].tag \in {"decided", "removed"}
<1>1. stage[q] = "open" /\ ReadsHold(q) /\ overlay[tx[q].hold].pinned > 0
  BY AsksPins
<1>2. "pending" \in sent[q]
  BY DEF StaleInv, AskedOnce, Asks
<1>3. Pinning(q)
  BY <1>1, <1>2 DEF Pinning
<1>4. KeepsTag(overlay[tx[q].hold], overlay'[tx[q].hold])
  BY <1>3, PinnedKeeps
<1> QED
  BY <1>1, <1>4, RequestTypes DEF KeepsTag, Decided

\* What the engine's answers say.
LEMMA RepliesNext ==
    ASSUME TypeOK, TypeOK', StaleInv, LifeInv, ReadInv, PinInv, RecordInv, HeldInv, Follows, CoverInv, BehindInv,
           writes = <<>>, [Next]_vars, UNCHANGED tx, NEW b \in Replies',
           overlay'[tx[b.req].hold].tag \notin {"decided", "removed"}
    PROVE  b.found <= HoldAmount - released'[tx[b.req].hold]
<1>1. b.req \in Reqs
  BY DEF TypeOK, Replies, Answer
<1>2. PICK h \in Holds : h = tx[b.req].hold
  BY <1>1, RequestTypes
<1>3. Asks(b.req)
  <2>1. CASE \E a \in Replies : b.req = a.req
    BY <2>1 DEF Asks, Replies
  <2>2. CASE EngineLookup /\ b.req = cmdq[1].req
    BY <2>2, TailOfQueue DEF EngineLookup, Asks
  <2> QED
    BY <2>1, <2>2, ReplyMoves
<1>4. ~Decided(h)
  BY <1>1, <1>2, <1>3, AskedKeeps
<1>5. released'[h] = released[h]
  <2>1. ASSUME NEW r \in Reqs, Commits(r), ReadsHold(r), tx[r].hold = h PROVE FALSE
    <3>1. Promising(r)
      BY <2>1 DEF Commits, Promising
    <3> QED
      BY <1>4, <2>1, <3>1 DEF HeldInv, Decided
  <2> QED
    BY <2>1, ReleasedMoves
<1>6. b.found <= Left(h)
  <2>1. CASE \E a \in Replies : b.req = a.req /\ b.found = a.found
    BY <1>2, <1>4, <2>1 DEF CoverInv
  <2>2. CASE EngineLookup /\ b.req = cmdq[1].req /\ b.found = store[tx[cmdq[1].req].hold]
    BY <1>2, <1>4, <2>2, LookedUp
  <2> QED
    BY <2>1, <2>2, ReplyMoves
<1> QED
  BY <1>2, <1>5, <1>6 DEF Left

LEMMA CoverNext ==
    ASSUME TypeOK, TypeOK', StaleInv, LifeInv, ReadInv, PinInv, CreatedInv, SeenInv, RecordInv, HeldInv,
           ReservedInv, Follows, StandInv, CoverInv, ShareInv, BehindInv, TakenInv, WholeInv,
           writes = <<>>, writes' = <<>>, [Next]_vars, UNCHANGED tx
    PROVE  CoverInv'
<1>1. NoOverPromise'
  BY PromiseNext
<1>2. \A h \in Holds : Live(overlay'[h]) => overlay'[h].remaining <= Left(h)'
  BY EntriesNext
<1>3. \A h \in Holds : ledger'[h] <= Left(h)'
  BY <1>1, LedgerNext
<1>4. ASSUME NEW b \in Replies', overlay'[tx[b.req].hold].tag \notin {"decided", "removed"}
      PROVE  b.found <= HoldAmount - released'[tx[b.req].hold]
  BY <1>4, RepliesNext
<1> QED
  BY <1>1, <1>2, <1>3, <1>4 DEF CoverInv, Left, Decided

\* What is on its way to the engine of a hold.
LEMMA BehindNext ==
    ASSUME TypeOK, StaleInv, LifeInv, ReadInv, PinInv, CreatedInv, SeenInv, RecordInv, HeldInv, BehindInv, TakenInv,
           writes = <<>>, writes' = <<>>, [Next]_vars, UNCHANGED tx
    PROVE  BehindInv'
<1>0. cmdq \in Seq(Command) /\ Len(cmdq) \in Nat /\ \A i \in 1..Len(cmdq) : cmdq[i] \in Command /\ cmdq[i].req \in Reqs
  <2>1. cmdq \in Seq(Command)
    BY DEF TypeOK
  <2>2. \A i \in 1..Len(cmdq) : cmdq[i] \in Command
    BY <2>1
  <2> QED
    BY <2>1, <2>2 DEF Command
\* A question of the queue as it was, behind which a resolution stands or comes to stand.
<1>1. ASSUME NEW i \in 1..Len(cmdq), NEW j \in 1..Len(cmdq), i < j, cmdq[i].op = "lookup",
             cmdq[j].op \in {"reduce", "remove"}, tx[cmdq[i].req].hold = tx[cmdq[j].req].hold
      PROVE  overlay'[tx[cmdq[i].req].hold].tag \in {"decided", "removed"}
  <2>1. Decided(tx[cmdq[i].req].hold)
    BY <1>1 DEF BehindInv
  <2> QED
    BY <1>0, <1>1, <2>1, AskedKeeps DEF Asks
<1>2. CASE UNCHANGED <<cmdq, store>>
  BY <1>1, <1>2 DEF BehindInv, Decided
<1>3. CASE EngineApply \/ EngineLookup
  <2>1. /\ cmdq # <<>> /\ cmdq' = Tail(cmdq)
        /\ \A h \in Holds : store'[h] # store[h] => cmdq[1].op # "lookup" /\ tx[cmdq[1].req].hold = h
    <3>1. cmdq # <<>> /\ cmdq' = Tail(cmdq)
      BY <1>3 DEF EngineApply, EngineLookup
    <3>2. store' = store \/ (Head(cmdq).op # "lookup"
             /\ store' = [store EXCEPT ![tx[Head(cmdq).req].hold] = Stored(Head(cmdq), @)])
      BY <1>3 DEF EngineApply, EngineLookup
    <3>3. store \in [Holds -> Nat] /\ Head(cmdq) = cmdq[1]
      BY <1>0, <3>1 DEF TypeOK
    <3> QED
      BY <3>1, <3>2, <3>3
  <2>2. /\ 1 \in 1..Len(cmdq)
        /\ \A i \in 1..Len(cmdq') : i + 1 \in 1..Len(cmdq) /\ cmdq'[i] = cmdq[i + 1]
    BY <2>1, TailOfQueue
  <2>3. ASSUME NEW i \in 1..Len(cmdq'), NEW j \in 1..Len(cmdq'), i < j, cmdq'[i].op = "lookup",
               cmdq'[j].op \in {"reduce", "remove"}, tx[cmdq'[i].req].hold = tx[cmdq'[j].req].hold
        PROVE  overlay'[tx[cmdq'[i].req].hold].tag \in {"decided", "removed"}
    <3>1. PICK k \in 1..Len(cmdq), l \in 1..Len(cmdq) :
            k = i + 1 /\ l = j + 1 /\ cmdq'[i] = cmdq[k] /\ cmdq'[j] = cmdq[l]
      BY <2>2
    <3>2. k < l
      BY <2>3, <3>1
    <3> QED
      BY <1>1, <2>3, <3>1, <3>2
  <2>4. ASSUME NEW i \in 1..Len(cmdq'), cmdq'[i].op = "create"
        PROVE  /\ store'[tx[cmdq'[i].req].hold] = 0
               /\ \A j \in 1..(i - 1) : cmdq'[j].op # "lookup" => tx[cmdq'[j].req].hold # tx[cmdq'[i].req].hold
    <3>1. i + 1 \in 1..Len(cmdq) /\ cmdq'[i] = cmdq[i + 1] /\ cmdq[i + 1].req \in Reqs /\ cmdq[i + 1].op = "create"
      BY <1>0, <2>2, <2>4
    <3>2. PICK h \in Holds : h = tx[cmdq[i + 1].req].hold
      BY <3>1, RequestTypes
    <3>3. store[h] = 0 /\ \A j \in 1..((i + 1) - 1) : cmdq[j].op # "lookup" => tx[cmdq[j].req].hold # h
      BY <3>1, <3>2 DEF BehindInv
    <3>4. 1 \in 1..((i + 1) - 1)
      BY <2>4
    <3>5. store'[h] = 0
      BY <2>1, <3>3, <3>4
    <3>6. ASSUME NEW j \in 1..(i - 1), cmdq'[j].op # "lookup" PROVE tx[cmdq'[j].req].hold # h
      <4>1. j \in 1..Len(cmdq') /\ j + 1 \in 1..((i + 1) - 1)
        BY <3>6, <2>4
      <4>2. cmdq'[j] = cmdq[j + 1]
        BY <2>2, <4>1
      <4> QED
        BY <3>3, <3>6, <4>1, <4>2
    <3> QED
      BY <3>1, <3>2, <3>5, <3>6
  <2> QED
    BY <2>3, <2>4 DEF BehindInv, Decided
<1>4. ASSUME NEW w \in Command, cmdq' = Append(cmdq, w), UNCHANGED store,
             w.op \in {"reduce", "remove"} => overlay'[tx[w.req].hold].tag \in {"decided", "removed"},
             w.op = "create" => /\ store[tx[w.req].hold] = 0
                                /\ \A j \in 1..Len(cmdq) : cmdq[j].op # "lookup" => tx[cmdq[j].req].hold # tx[w.req].hold
      PROVE  BehindInv'
  <2>1. /\ Len(cmdq') = Len(cmdq) + 1 /\ cmdq'[Len(cmdq) + 1] = w
        /\ \A i \in 1..Len(cmdq) : cmdq'[i] = cmdq[i]
        /\ \A i \in 1..Len(cmdq') : i \in 1..Len(cmdq) \/ i = Len(cmdq) + 1
    BY <1>0, <1>4, Joined
  <2>2. ASSUME NEW i \in 1..Len(cmdq'), NEW j \in 1..Len(cmdq'), i < j, cmdq'[i].op = "lookup",
               cmdq'[j].op \in {"reduce", "remove"}, tx[cmdq'[i].req].hold = tx[cmdq'[j].req].hold
        PROVE  overlay'[tx[cmdq'[i].req].hold].tag \in {"decided", "removed"}
    <3>1. i \in 1..Len(cmdq) /\ cmdq'[i] = cmdq[i]
      BY <1>0, <2>1, <2>2
    <3>2. CASE j \in 1..Len(cmdq)
      BY <1>1, <2>1, <2>2, <3>1, <3>2
    <3>3. CASE j = Len(cmdq) + 1
      BY <1>4, <2>1, <2>2, <3>3
    <3> QED
      BY <2>1, <3>2, <3>3
  <2>3. ASSUME NEW i \in 1..Len(cmdq'), cmdq'[i].op = "create"
        PROVE  /\ store'[tx[cmdq'[i].req].hold] = 0
               /\ \A j \in 1..(i - 1) : cmdq'[j].op # "lookup" => tx[cmdq'[j].req].hold # tx[cmdq'[i].req].hold
    <3>1. \A j \in 1..(i - 1) : j \in 1..Len(cmdq) /\ cmdq'[j] = cmdq[j]
      BY <1>0, <2>1
    <3>2. CASE i \in 1..Len(cmdq)
      BY <1>4, <2>1, <2>3, <3>1, <3>2 DEF BehindInv
    <3>3. CASE i = Len(cmdq) + 1
      BY <1>4, <2>1, <2>3, <3>1, <3>3
    <3> QED
      BY <2>1, <3>2, <3>3
  <2> QED
    BY <2>2, <2>3 DEF BehindInv, Decided
<1>5. ASSUME NEW r \in Reqs, Ask(r), UNCHANGED store
      PROVE  BehindInv'
  <2>1. PICK w : w = [op |-> "lookup", req |-> r, left |-> 0, n |-> applies_sent]
    OBVIOUS
  <2>2. w \in Command /\ w.op = "lookup"
    BY <2>1 DEF TypeOK, Command
  <2>3. cmdq' = Append(cmdq, w)
    BY <1>5, <2>1 DEF Ask
  <2> QED
    BY <1>4, <1>5, <2>2, <2>3
<1>6. ASSUME NEW r \in Reqs, Commits(r), cmdq' = Append(cmdq, PendingEffect(r)), UNCHANGED store
      PROVE  BehindInv'
  <2>1. PICK w : w = PendingEffect(r)
    OBVIOUS
  <2>2. w \in Command /\ w.req = r
    BY <2>1, PendingEffectType
  <2>3. PICK h \in Holds : h = tx[r].hold
    BY RequestTypes
  <2>4. w.op = "create" <=> ~ReadsHold(r)
    BY <2>1, DecisionIs
  <2>5. ASSUME w.op \in {"reduce", "remove"} PROVE overlay'[h].tag \in {"decided", "removed"}
    <3>1. ReadsHold(r) /\ Promising(r)
      BY <1>6, <2>4, <2>5 DEF Commits, Promising
    <3>2. Pinning(r) /\ overlay[h].tag \in {"decided", "removed"}
      BY <2>3, <3>1 DEF HeldInv, Promising, Pinning
    <3> QED
      BY <2>3, <3>2, PinnedKeeps DEF KeepsTag
  <2>6. ASSUME w.op = "create"
        PROVE  /\ store[h] = 0
               /\ \A j \in 1..Len(cmdq) : cmdq[j].op # "lookup" => tx[cmdq[j].req].hold # h
    <3>1. store[h] = 0 /\ ~Handed(h)
      BY <1>6, <2>3, <2>4, <2>6, CreationFinds
    <3> QED
      BY <3>1 DEF SeenInv, KnownInv
  <2> QED
    BY <1>4, <1>6, <2>1, <2>2, <2>3, <2>5, <2>6
<1> QED
  BY <1>2, <1>3, <1>5, <1>6, QueueSteps

LEMMA TakenNext ==
    ASSUME TypeOK, TypeOK', StaleInv, LifeInv, ReadInv, RecordInv, TakenInv, [Next]_vars, UNCHANGED tx
    PROVE  TakenInv'
<1>1. ASSUME NEW h \in Holds, released'[h] # 0
      PROVE  \E q \in Reqs : tx[q].kind # "hold" /\ tx[q].hold = h /\ outcome'[q] = "committed"
  <2>1. CASE released'[h] = released[h]
    <3>1. PICK q \in Resolutions(h) : outcome[q] = "committed"
      BY <1>1, <2>1 DEF TakenInv
    <3>2. q \in Reqs /\ ReadsHold(q) /\ tx[q].hold = h
      BY DEF Resolutions
    <3>3. stage[q] = "done"
      BY <3>1, <3>2 DEF ReadInv
    <3>4. outcome'[q] = outcome[q]
      BY <3>2, <3>3, Moves DEF Moved
    <3> QED
      BY <3>1, <3>2, <3>4 DEF ReadsHold
  <2>2. CASE \E r \in Reqs : Commits(r) /\ ReadsHold(r) /\ tx[r].hold = h
    BY <2>2 DEF Commits, ReadsHold
  <2> QED
    BY <2>1, <2>2, ReleasedMoves
<1>2. ASSUME NEW h \in Holds, released'[h] # 0
      PROVE  \E q \in Resolutions(h)' : outcome'[q] = "committed"
  BY <1>1, <1>2 DEF Resolutions, ReadsHold
<1>3. ASSUME applying'.batch # <<>>, ~applying'.committed
      PROVE  failures' > 0
  <2>0. failures \in Nat /\ applying \in [committed : BOOLEAN, batch : Seq(Reqs)]
    BY DEF TypeOK
  <2>1. CASE StartApply
    <3>1. \/ applying' = [committed |-> TRUE, batch |-> Head(in_flight)]
          \/ failures' = failures + 1
      BY <2>1 DEF StartApply
    <3> QED
      BY <1>3, <2>0, <3>1
  <2>2. CASE ApplyEffect
    <3>1. applying.committed /\ applying'.committed = applying.committed
      BY <2>0, <2>2 DEF ApplyEffect
    <3> QED
      BY <1>3, <3>1
  <2>3. CASE RollBackEffect
    <3>1. applying.batch # <<>> /\ ~applying.committed /\ UNCHANGED failures
      BY <2>3 DEF RollBackEffect
    <3> QED
      BY <3>1 DEF TakenInv
  <2>a. ASSUME UNCHANGED <<applying, failures>> PROVE failures' > 0
    BY <1>3, <2>a DEF TakenInv
  <2>4. CASE (\E r \in Reqs : Admit(r)) \/ RetryDispatch \/ Engine
    <3>1. UNCHANGED <<applying, failures>>
      BY <2>4 DEF Admit, RetryDispatch, Engine, EngineApply, EngineLookup, Harvest, Publish, batchVars
    <3> QED
      BY <2>a, <3>1
  <2>5. CASE (\E r \in Reqs : IdemAnswer(r)) \/ (\E a \in answers : PendingAnswer(a)) \/ Propose
               \/ FlushWrite \/ EvictIdle \/ UNCHANGED vars
    <3>1. UNCHANGED <<applying, failures>>
      BY <2>5 DEF IdemAnswer, PendingAnswer, Propose, FlushWrite, EvictIdle, vars, batchVars
    <3> QED
      BY <2>a, <3>1
  <2> QED
    BY <2>1, <2>2, <2>3, <2>4, <2>5 DEF Next, Drain
<1> QED
  BY <1>2, <1>3 DEF TakenInv

\* What a decision says on its way to the engine.
LEMMA DecidedWhole ==
    ASSUME TypeOK, ReadInv, CreatedInv, SeenInv, StandInv, ShareInv, TakenInv, failures = 0,
           NEW r \in Reqs, Commits(r), PendingEffect(r).op \in {"create", "reduce"}
    PROVE  PendingEffect(r).left >= HoldAmount - released'[tx[r].hold]
<1>1. PICK h \in Holds : h = tx[r].hold
  BY RequestTypes
<1>2. released \in [Holds -> Nat] /\ HoldAmount \in Nat
  BY HoldAmountAssumption DEF TypeOK
<1>3. released' = [released EXCEPT ![tx[r].hold] = IF ReadsHold(r) THEN @ + effect[r].amount ELSE @]
  BY DEF Commits
<1>4. CASE ReadsHold(r)
  <2>1. PICK a, l, was : a = effect[r].amount /\ l = effect[r].left /\ was = released[h]
    OBVIOUS
  <2>2. a \in Nat /\ l \in Nat /\ a + l = Left(h)
    BY <1>1, <1>4, <2>1, CommitFits
  <2>3. released'[h] = was + a /\ was \in Nat
    BY <1>1, <1>2, <1>3, <1>4, <2>1
  <2>4. Left(h) = HoldAmount - was
    BY <2>1 DEF Left
  <2>5. l >= HoldAmount - released'[h]
    BY <1>2, <2>2, <2>3, <2>4
  <2> QED
    BY <1>1, <1>4, <2>1, <2>5, DecisionIs
<1>5. CASE ~ReadsHold(r)
  <2>1. released'[h] = 0 /\ effect[r].amount = HoldAmount
    BY <1>1, <1>5, CreationFinds
  <2> QED
    BY <1>1, <1>2, <1>5, <2>1, DecisionIs
<1> QED
  BY <1>4, <1>5

LEMMA WholeNext ==
    ASSUME TypeOK, TypeOK', StaleInv, LifeInv, ReadInv, CreatedInv, SeenInv, RecordInv,
           StandInv, CoverInv, ShareInv, TakenInv, WholeInv, writes = <<>>, writes' = <<>>, [Next]_vars, UNCHANGED tx,
           NoOverPromise'
    PROVE  WholeInv'
<1> SUFFICES ASSUME failures' = 0
             PROVE  /\ \A h \in Holds : Live(overlay'[h]) => overlay'[h].remaining >= Left(h)'
                    /\ \A h \in Holds : Acknowledged(h)' => ledger'[h] >= Left(h)'
                    /\ \A h \in Holds : store'[h] > 0 => store'[h] >= HoldAmount - released'[h]
                    /\ \A i \in 1..Len(cmdq') : cmdq'[i].op \in {"create", "reduce"}
                          => cmdq'[i].left >= HoldAmount - released'[tx[cmdq'[i].req].hold]
                    /\ \A a \in Replies' : a.found > 0 => a.found >= HoldAmount - released'[tx[a.req].hold]
                    /\ \A r \in Reqs : record'[r] > 0 => record'[r] >= HoldAmount - released'[tx[r].hold]
  BY DEF WholeInv, Left
<1>0. failures = 0
  BY FailuresGrow
\* As much as it had left is enough: what is left does not grow.
<1>1. ASSUME NEW h \in Holds, NEW n \in Nat, n >= Left(h)
      PROVE  n >= HoldAmount - released'[h]
  <2>1. PICK was, now : was = released[h] /\ now = released'[h]
    OBVIOUS
  <2>2. was \in Nat /\ now \in Nat /\ was <= now
    BY <2>1, ReleasedMoves
  <2>3. n >= HoldAmount - was
    BY <1>1, <2>1 DEF Left
  <2> QED
    BY <2>1, <2>2, <2>3, HoldAmountAssumption
<1>2. /\ \A h \in Holds : Live(overlay'[h]) => overlay'[h].remaining >= Left(h)'
      /\ \A h \in Holds : Acknowledged(h)' => ledger'[h] >= Left(h)'
  BY EntriesNext, LedgerNext
<1>3. cmdq \in Seq(Command) /\ Len(cmdq) \in Nat /\ \A i \in 1..Len(cmdq) : /\ cmdq[i] \in Command /\ cmdq[i].req \in Reqs
                                                                           /\ cmdq[i].left \in Nat
  <2>1. cmdq \in Seq(Command)
    BY DEF TypeOK
  <2>2. \A i \in 1..Len(cmdq) : cmdq[i] \in Command
    BY <2>1
  <2> QED
    BY <2>1, <2>2 DEF Command
<1>4. store \in [Holds -> Nat]
  BY DEF TypeOK
<1>5. ASSUME NEW i \in 1..Len(cmdq), cmdq[i].op \in {"create", "reduce"}
      PROVE  cmdq[i].left >= HoldAmount - released'[tx[cmdq[i].req].hold]
  <2>1. cmdq[i].left >= Left(tx[cmdq[i].req].hold)
    BY <1>0, <1>5 DEF WholeInv
  <2> QED
    BY <1>1, <1>3, <2>1, RequestTypes
<1>6. ASSUME NEW h \in Holds, store[h] > 0
      PROVE  store[h] >= Left(h) /\ store[h] >= HoldAmount - released'[h]
  <2>1. store[h] >= Left(h)
    BY <1>0, <1>6 DEF WholeInv
  <2> QED
    BY <1>1, <1>4, <2>1
<1>7. ASSUME NEW h \in Holds, store'[h] > 0
      PROVE  store'[h] >= HoldAmount - released'[h]
  <2>1. CASE store'[h] = store[h]
    BY <1>6, <1>7, <2>1
  <2>2. CASE store'[h] # store[h]
    <3>1. EngineApply
      BY <2>2, QueueSteps DEF EngineLookup
    <3>2. PICK w : w = cmdq[1]
      OBVIOUS
    <3>3. /\ cmdq # <<>> /\ w = Head(cmdq) /\ 1 \in 1..Len(cmdq) /\ w.op # "lookup"
          /\ store' = [store EXCEPT ![tx[w.req].hold] = Stored(w, @)]
      BY <3>1, <3>2, TailOfQueue DEF EngineApply
    <3>4. tx[w.req].hold = h /\ store'[h] = Stored(w, store[h])
      BY <1>4, <2>2, <3>3
    <3>5. w.op \in {"create", "reduce"} /\ store'[h] = w.left
      BY <1>3, <1>7, <3>2, <3>3, <3>4 DEF Stored, Command
    <3> QED
      BY <1>5, <3>2, <3>3, <3>4, <3>5
  <2> QED
    BY <2>1, <2>2
<1>8. ASSUME NEW i \in 1..Len(cmdq'), cmdq'[i].op \in {"create", "reduce"}
      PROVE  cmdq'[i].left >= HoldAmount - released'[tx[cmdq'[i].req].hold]
  <2>a. ASSUME NEW w \in Command, cmdq' = Append(cmdq, w),
               w.op \in {"create", "reduce"} => w.left >= HoldAmount - released'[tx[w.req].hold]
        PROVE  cmdq'[i].left >= HoldAmount - released'[tx[cmdq'[i].req].hold]
    <3>1. (i \in 1..Len(cmdq) /\ cmdq'[i] = cmdq[i]) \/ cmdq'[i] = w
      BY <1>3, <2>a, Joined
    <3> QED
      BY <1>5, <1>8, <2>a, <3>1
  <2>1. CASE UNCHANGED cmdq
    BY <1>5, <1>8, <2>1
  <2>2. CASE EngineApply \/ EngineLookup
    <3>1. cmdq # <<>> /\ cmdq' = Tail(cmdq)
      BY <2>2 DEF EngineApply, EngineLookup
    <3>2. PICK k \in 1..Len(cmdq) : cmdq'[i] = cmdq[k]
      BY <3>1, TailOfQueue
    <3> QED
      BY <1>5, <1>8, <3>2
  <2>3. ASSUME NEW r \in Reqs, Ask(r)
        PROVE  cmdq'[i].left >= HoldAmount - released'[tx[cmdq'[i].req].hold]
    <3>1. PICK w : w = [op |-> "lookup", req |-> r, left |-> 0, n |-> applies_sent]
      OBVIOUS
    <3>2. w \in Command /\ w.op = "lookup"
      BY <3>1 DEF TypeOK, Command
    <3>3. cmdq' = Append(cmdq, w)
      BY <2>3, <3>1 DEF Ask
    <3> QED
      BY <2>a, <3>2, <3>3
  <2>4. ASSUME NEW r \in Reqs, Commits(r), cmdq' = Append(cmdq, PendingEffect(r))
        PROVE  cmdq'[i].left >= HoldAmount - released'[tx[cmdq'[i].req].hold]
    <3>1. PICK w : w = PendingEffect(r)
      OBVIOUS
    <3>2. w \in Command /\ w.req = r
      BY <3>1, PendingEffectType
    <3>3. w.op \in {"create", "reduce"} => w.left >= HoldAmount - released'[tx[w.req].hold]
      BY <1>0, <2>4, <3>1, <3>2, DecidedWhole
    <3> QED
      BY <2>a, <2>4, <3>1, <3>2, <3>3
  <2> QED
    BY <2>1, <2>2, <2>3, <2>4, QueueSteps
<1>9. ASSUME NEW a \in Replies, a.found > 0
      PROVE  a.found >= HoldAmount - released'[tx[a.req].hold]
  <2>1. a.found >= Left(tx[a.req].hold)
    BY <1>0, <1>9 DEF WholeInv
  <2>2. a.req \in Reqs /\ a.found \in Nat
    BY DEF TypeOK, Replies, Answer
  <2> QED
    BY <1>1, <2>1, <2>2, RequestTypes
<1>10. ASSUME NEW b \in Replies', b.found > 0
       PROVE  b.found >= HoldAmount - released'[tx[b.req].hold]
  <2>1. CASE \E a \in Replies : b.req = a.req /\ b.found = a.found
    BY <1>9, <1>10, <2>1
  <2>2. CASE EngineLookup /\ b.req = cmdq[1].req /\ b.found = store[tx[cmdq[1].req].hold]
    <3>1. cmdq[1].req \in Reqs
      BY <1>3, <2>2, TailOfQueue DEF EngineLookup
    <3>2. PICK h \in Holds : h = tx[cmdq[1].req].hold
      BY <3>1, RequestTypes
    <3> QED
      BY <1>6, <1>10, <2>2, <3>2
  <2> QED
    BY <2>1, <2>2, ReplyMoves
<1>11. ASSUME NEW r \in Reqs, record'[r] > 0
       PROVE  record'[r] >= HoldAmount - released'[tx[r].hold]
  <2>1. CASE record'[r] = record[r]
    <3>1. record[r] >= Left(tx[r].hold)
      BY <1>0, <1>11, <2>1 DEF WholeInv
    <3>2. record[r] \in Nat
      BY DEF TypeOK
    <3> QED
      BY <1>1, <2>1, <3>1, <3>2, RequestTypes
  <2>2. CASE \E a \in answers : a.req = r /\ record'[r] = a.found
    BY <1>9, <1>11, <2>2 DEF Replies
  <2> QED
    BY <2>1, <2>2, RecordMoves
<1> QED
  BY <1>2, <1>7, <1>8, <1>10, <1>11

LEMMA MoneyInit ==
    ASSUME Init
    PROVE  MoneyInv
<1>1. TypeOK
  BY InitType
<1>2. /\ \A r \in Reqs : stage[r] = "new" /\ outcome[r] = "none" /\ record[r] = 0
      /\ \A h \in Holds : overlay[h].tag = "none" /\ released[h] = 0 /\ ledger[h] = 0 /\ store[h] = 0
      /\ applying.batch = <<>> /\ open = <<>> /\ in_flight = <<>> /\ cmdq = <<>> /\ Replies = {}
  BY DEF Init, NoEntry, Bare, Replies
<1>3. ASSUME NEW h \in Holds PROVE Promised(h) = 0
  <2>1. JudgedOf(h) = {}
    BY <1>2 DEF JudgedOf, Resolutions
  <2> QED
    BY <1>1, <2>1, JudgedFinite, TotalEmpty
<1>4. NoOverPromise
  BY <1>2, <1>3, HoldAmountAssumption DEF NoOverPromise
<1>5. CoverInv
  BY <1>2, <1>4, HoldAmountAssumption DEF CoverInv, Live, Left
<1>6. ShareInv
  <2>1. PICK pos : pos = [q \in Reqs |-> 0]
    OBVIOUS
  <2>2. \A k : Batch(k) = <<>> \/ k \notin 0..(Len(in_flight) + 1)
    BY <1>2 DEF Batch
  <2>3. \A p, q : ~Before(p, q)
    BY <2>2 DEF Before, Spot
  <2>4. Numbers(pos, 1)
    BY <2>1, <2>3 DEF Numbers
  <2>5. \A q \in Reqs : ~Promising(q)
    BY <1>2 DEF Promising
  <2> QED
    BY <2>4, <2>5 DEF ShareInv
<1>7. StandInv /\ BehindInv /\ TakenInv
  BY <1>2 DEF StandInv, BehindInv, TakenInv
<1>8. WholeInv
  BY <1>2 DEF WholeInv, Live, Acknowledged
<1> QED
  BY <1>5, <1>6, <1>7, <1>8 DEF MoneyInv

\* For as long as the command queue takes every decision at once.
NothingHeldBack == writes = <<>>

Books == OverlayInv /\ ReserveInv /\ Follows /\ MoneyInv

LEMMA BooksNext ==
    ASSUME Books, [Next]_vars, NothingHeldBack, NothingHeldBack'
    PROVE  Follows' /\ MoneyInv'
<1>0. /\ TypeOK /\ StaleInv /\ LifeInv /\ ReadInv /\ PinInv /\ CreatedInv /\ SeenInv
      /\ RecordInv /\ HeldInv /\ ReservedInv /\ Follows
      /\ StandInv /\ CoverInv /\ ShareInv /\ BehindInv /\ TakenInv /\ WholeInv
      /\ writes = <<>> /\ writes' = <<>>
  BY DEF Books, OverlayInv, ReserveInv, MoneyInv, NothingHeldBack
<1>1. TypeOK' /\ UNCHANGED tx
  BY <1>0, NextType, Moves
<1>2. Follows'
  BY <1>0, <1>1, FollowsNext
<1>3. StandInv' /\ TakenInv'
  BY <1>0, <1>1, StandNext, TakenNext
<1>4. CoverInv'
  BY <1>0, <1>1, CoverNext
<1>5. ShareInv'
  BY <1>0, <1>1, ShareNext
<1>6. BehindInv'
  BY <1>0, <1>1, BehindNext
<1>7. WholeInv'
  <2>1. NoOverPromise'
    BY <1>4 DEF CoverInv
  <2> QED
    BY <1>0, <1>1, <2>1, WholeNext
<1> QED
  BY <1>2, <1>3, <1>4, <1>5, <1>6, <1>7 DEF MoneyInv

LEMMA BooksInvariant == Spec /\ []NothingHeldBack => []Books
<1>1. Init => Follows /\ MoneyInv
  BY FollowsInit, MoneyInit
<1>2. OverlayInv /\ ReserveInv /\ Follows /\ MoneyInv /\ [Next]_vars /\ NothingHeldBack /\ NothingHeldBack'
        => Follows' /\ MoneyInv'
  BY BooksNext DEF Books
<1>3. OverlayInv /\ ReserveInv /\ Follows /\ MoneyInv => Books
  BY DEF Books
<1> QED
  BY <1>1, <1>2, <1>3, ReserveInvariant, PTL DEF Spec

\* No money of a hold is promised twice, as long as the queue to the engine takes every decision
\* at once: whatever was answered late, evicted, refused or rolled back, what committed resolutions
\* released and undecided ones were promised is never more than the hold.  (overlay.rs
\* reserve, compose.  hold_backlogged.cfg shows what a decision that waits does to it.)
THEOREM NothingPromisedTwice == Spec /\ []NothingHeldBack => []NoOverPromise
<1>1. Books => NoOverPromise
  BY DEF Books, MoneyInv, CoverInv
<1> QED
  BY <1>1, BooksInvariant, PTL

\* And what committed resolutions released and what the log leaves of a hold make up the hold, for
\* as long as consensus has refused nothing: no batch in between is judged on money that is gone
\* or leaves money that nobody can release.  (apply.rs commit_batch.)
THEOREM BooksBalance == Spec /\ []NothingHeldBack => []ConservedUnlessRefused
<1>1. ASSUME Books, failures = 0, NEW h \in Holds, Acknowledged(h)
      PROVE  released[h] + ledger[h] = HoldAmount
  <2>1. ledger[h] <= Left(h) /\ ledger[h] >= Left(h)
    BY <1>1 DEF Books, MoneyInv, CoverInv, WholeInv
  <2>2. PICK a, b : a = released[h] /\ b = ledger[h]
    OBVIOUS
  <2>3. a \in Nat /\ b \in Nat
    BY <1>1, <2>2 DEF Books, OverlayInv, TypeOK
  <2>4. b <= HoldAmount - a /\ b >= HoldAmount - a
    BY <2>1, <2>2 DEF Left
  <2>5. a + b = HoldAmount
    BY <2>3, <2>4, HoldAmountAssumption
  <2> QED
    BY <2>2, <2>5
<1>2. Books => ConservedUnlessRefused
  BY <1>1 DEF ConservedUnlessRefused
<1> QED
  BY <1>2, BooksInvariant, PTL

\* A resolution is judged against exactly what its hold has left, however old the record the engine
\* answered with: the overlay's entry and the answer together know every committed decision and
\* every promise.  (reactor.rs judge, overlay.rs admit_lookup.)
THEOREM JudgedOnTheTruth == Spec /\ []NothingHeldBack => JudgedAgainstTruth
<1> DEFINE Truly == \A r \in Reqs :
              /\ stage[r] # "judged" /\ stage'[r] = "judged" /\ ReadsHold(r)
              /\ failures = 0
              => effect'[r].amount + effect'[r].left
                    = HoldAmount - released[tx[r].hold] - Promised(tx[r].hold)
<1>1. ASSUME Books, [Next]_vars, NEW r \in Reqs,
             stage[r] # "judged", stage'[r] = "judged", ReadsHold(r), failures = 0
      PROVE  effect'[r].amount + effect'[r].left = HoldAmount - released[tx[r].hold] - Promised(tx[r].hold)
  <2>0. /\ TypeOK /\ StaleInv /\ LifeInv /\ ReadInv /\ RecordInv /\ HeldInv /\ ReservedInv /\ CoverInv /\ WholeInv
    BY <1>1 DEF Books, OverlayInv, ReserveInv, MoneyInv
  <2>1. TypeOK' /\ UNCHANGED tx
    BY <1>1, <2>0, NextType, Moves
  <2>2. ~Promising(r) /\ Promising(r)'
    BY <1>1, <2>1 DEF Promising, ReadsHold
  <2>3. PICK q \in Reqs, e \in Entry, found \in Nat : JudgedOn(q, e, found)
    <3>1. ASSUME NEW q \in Reqs, Commits(q) \/ Refuses(q) \/ Flushes(q) PROVE FALSE
      BY <1>1, <3>1 DEF Commits, Refuses, Flushes
    <3> QED
      BY <1>1, <2>0, <2>2, <3>1, StepKinds DEF Quietly
  <2>4. q = r
    BY <1>1, <2>3 DEF JudgedOn
  <2>5. effect'[r].amount + effect'[r].left = Left(tx[r].hold) - Promised(tx[r].hold)
    BY <1>1, <2>0, <2>1, <2>3, <2>4, JudgedFits
  <2> QED
    BY <2>5 DEF Left
<1>2. Books /\ [Next]_vars => [Truly]_vars
  BY <1>1
<1>3. JudgedAgainstTruth <=> [][Truly]_vars
  BY DEF JudgedAgainstTruth
<1> QED
  BY <1>2, <1>3, BooksInvariant, PTL DEF Spec
===================================================================================
