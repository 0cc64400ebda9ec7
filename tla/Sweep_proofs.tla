----------------------------- MODULE Sweep_proofs -----------------------------
(***************************************************************************)
(* Proofs about Sweep, for any holds, any number of segments, any lifetime *)
(* shorter than the cycle, any limits, and any number of restarts.         *)
(***************************************************************************)
EXTENDS Sweep, SequenceTheorems, WellFoundedInduction, TLAPS

-----------------------------------------------------------------------------
(* The arithmetic of days and segments.                                    *)

LEMMA SegmentsFacts ==
    /\ Segments \in Nat /\ Segments >= 1
    /\ Lifetime \in Nat /\ Lifetime >= 1 /\ Lifetime < Segments
    /\ FirstDay \in Nat /\ FirstDay >= 2 * Segments
    /\ None \notin Nat
BY SweepAssumption

\* Division by the number of segments.
LEMMA Divided ==
    ASSUME NEW a \in Int
    PROVE  a % Segments \in Segs /\ \E q \in Int : a = Segments * q + (a % Segments)
<1>1. a % Segments \in Segs
  BY SegmentsFacts DEF Segs
<1>2. a = Segments * (a \div Segments) + (a % Segments) /\ (a \div Segments) \in Int
  BY SegmentsFacts
<1>3. QED  BY <1>1, <1>2

LEMMA AtLeastOnce ==
    ASSUME NEW d \in Int, d >= 1
    PROVE  Segments * d >= Segments
BY SegmentsFacts

\* Days of one segment are whole cycles apart.
LEMMA CyclesApart ==
    ASSUME NEW a \in Int, NEW b \in Int, a % Segments = b % Segments, a < b
    PROVE  b - a >= Segments
<1>1. PICK p \in Int : a = Segments * p + (a % Segments)
  BY Divided
<1>2. PICK q \in Int : b = Segments * q + (b % Segments)
  BY Divided
<1>3. a % Segments \in Int
  BY Divided DEF Segs
<1>4. b - a = Segments * (q - p)
  BY <1>1, <1>2, <1>3, SegmentsFacts
<1>5. CASE q - p >= 1
  BY <1>4, <1>5, AtLeastOnce
<1>6. CASE q - p <= 0
  <2>1. Segments * (p - q) >= 0
    BY <1>6, SegmentsFacts
  <2>2. Segments * (p - q) = a - b
    BY <1>4, SegmentsFacts
  <2> QED  BY <2>1, <2>2
<1> QED  BY <1>5, <1>6

\* The latest day up to `through` with a segment's number.
LastOf(through, s) == through - ((through + Segments - s) % Segments)

\* It is within a cycle, and it has that number.
LEMMA LastOfSegment ==
    ASSUME NEW through \in Int, NEW s \in Segs
    PROVE  /\ LastOf(through, s) \in Int
           /\ LastOf(through, s) <= through /\ LastOf(through, s) > through - Segments
           /\ LastOf(through, s) % Segments = s
<1>1. PICK a : a = through + Segments - s
  OBVIOUS
<1>2. a \in Int /\ s \in Int /\ s >= 0 /\ s < Segments
  BY <1>1, SegmentsFacts DEF Segs
<1>3. PICK r : r = a % Segments
  OBVIOUS
<1>4. r \in Int /\ r >= 0 /\ r < Segments
  BY <1>2, <1>3, Divided, SegmentsFacts DEF Segs
<1>5. PICK q \in Int : a = Segments * q + r
  BY <1>2, <1>3, Divided
<1>6. PICK l : l = LastOf(through, s)
  OBVIOUS
<1>7. l = through - r /\ l \in Int
  <2>1. LastOf(through, s) = through - (a % Segments)
    BY <1>1, Zenon DEF LastOf
  <2>2. l = through - r
    BY <2>1, <1>3, <1>6, Zenon
  <2> QED  BY <2>2, <1>4
<1>8. l \in Int
  BY <1>7, Zenon
<1>9. PICK t : t = l % Segments
  OBVIOUS
<1>10. t \in Int /\ t >= 0 /\ t < Segments
  BY <1>8, <1>9, Divided, SegmentsFacts DEF Segs
<1>11. PICK p \in Int : l = Segments * p + t
  BY <1>8, <1>9, Divided
<1>12. Segments * (q - 1 - p) = t - s /\ Segments * (p + 1 - q) = s - t
  <2>1. PICK x : x = Segments * q
    OBVIOUS
  <2>2. PICK y : y = Segments * p
    OBVIOUS
  <2>3. x \in Int /\ y \in Int
    BY <2>1, <2>2, SegmentsFacts
  <2>4. Segments * (q - 1 - p) = x - Segments - y /\ Segments * (p + 1 - q) = y + Segments - x
    BY <2>1, <2>2, SegmentsFacts
  <2>5. x + r = through + Segments - s /\ through - r = y + t
    BY <2>1, <2>2, <1>1, <1>5, <1>7, <1>11
  <2> QED  BY <2>3, <2>4, <2>5, <1>2, <1>4, <1>10, SegmentsFacts
<1>13. t = s
  <2>1. CASE q - 1 - p >= 1
    BY <2>1, <1>10, <1>12, <1>2, AtLeastOnce, SegmentsFacts
  <2>2. CASE p + 1 - q >= 1
    BY <2>2, <1>10, <1>12, <1>2, AtLeastOnce, SegmentsFacts
  <2>3. CASE p + 1 = q
    BY <2>3, <1>10, <1>12, <1>2, SegmentsFacts
  <2> QED  BY <2>1, <2>2, <2>3
<1>14. l <= through /\ l > through - Segments
  BY <1>4, <1>7, SegmentsFacts
<1> QED  BY <1>6, <1>8, <1>9, <1>13, <1>14

\* A set of naturals that is not empty has a least member, which Min gives.
LEMMA LeastOfNats ==
    ASSUME NEW T \in SUBSET Nat, T # {}
    PROVE  Min(T) \in T /\ \A y \in T : Min(T) <= y
<1> DEFINE R == OpToRel(<, Nat)
<1>1. IsWellFoundedOn(R, Nat)
  BY NatLessThanWellFounded
<1>2. \A x, y \in Nat : y < x => <<y, x>> \in R
  BY DEF OpToRel
<1> HIDE DEF R
<1>3. \E x \in T : \A y \in T : ~ (<<y, x>> \in R)
  BY <1>1, WFMin
<1>4. \E x \in T : \A y \in T : ~ (y < x)
  BY <1>2, <1>3
<1>5. \E x \in T : \A y \in T : x <= y
  BY <1>4
<1> QED  BY <1>5, Zenon DEF Min

-----------------------------------------------------------------------------
(* The invariant.                                                          *)

\* The clock, the records and the index, as far as the calendar reads them.
CalendarTypes ==
    /\ clock \in Nat /\ clock >= FirstDay
    /\ recs \in Seq([hold : Holds, day : Nat])
    /\ \A b \in 1..Len(recs) : recs[b].day <= clock
    /\ index \in [Holds -> {None} \cup (0..Len(recs))]
    /\ {"today", "cursor"} \subseteq DOMAIN engine
    /\ engine.today \in Nat /\ engine.cursor \in Nat \cup {None}
    /\ lapsed \in BOOLEAN

\* What an engine's calendar keeps at a clock.  A cursor that was placed and left the
\* day unopened is a cycle behind the clock, so it stays so; a day that is open is
\* less than a cycle from the cursor; and between the two are the days of all holds.
Calendar(e, now, astray) ==
    /\ e.today <= now
    /\ e.cursor = None => e.today = 0
    /\ e.cursor # None /\ e.today = 0 => ~DayHasASegment(e.cursor, now)
    /\ e.today # 0 => e.cursor <= e.today /\ e.today - e.cursor < Segments
    /\ e.today # 0 /\ ~astray =>
         \A h \in Holds : OnBlock(h) =>
           e.cursor <= recs[index[h]].day /\ recs[index[h]].day <= e.today

CalendarInv == Calendar(engine, clock, lapsed)

SweepInv == CalendarTypes /\ CalendarInv

\* A hold on a block has a record there, of a day not after the clock's.
LEMMA RecordOfHold ==
    ASSUME CalendarTypes, NEW h \in Holds, OnBlock(h)
    PROVE  /\ index[h] \in 1..Len(recs)
           /\ recs[index[h]].day \in Nat /\ recs[index[h]].day <= clock
           /\ SegmentOf(index[h]) \in Segs
<1>1. index[h] \in 1..Len(recs)
  BY DEF CalendarTypes, OnBlock
<1>2. recs[index[h]] \in [hold : Holds, day : Nat]
  <2>1. recs \in Seq([hold : Holds, day : Nat])
    BY DEF CalendarTypes
  <2> QED  BY <2>1, <1>1, ElementOfSeq
<1>3. recs[index[h]].day \in Nat
  BY <1>2
<1>4. SegmentOf(index[h]) \in Segs
  BY <1>3, Divided DEF SegmentOf
<1> QED  BY <1>1, <1>3, <1>4 DEF CalendarTypes

\* The property follows: days between the cursor and the day that is open, less than
\* a cycle apart, have segments of their own.
LEMMA CalendarKeepsDaysApart ==
    ASSUME SweepInv  PROVE DaysKeptApart
<1> SUFFICES ASSUME ~lapsed, DayOpen  PROVE NoDaySkipped /\ OneDayPerSegment
  BY DEF DaysKeptApart, NoDaySkipped, OneDayPerSegment
<1>1. \A h \in Holds : OnBlock(h) =>
         engine.cursor <= recs[index[h]].day /\ recs[index[h]].day <= engine.today
  BY DEF SweepInv, CalendarInv, Calendar, DayOpen
<1>2. engine.today \in Nat /\ engine.cursor \in Nat /\ engine.today - engine.cursor < Segments
  BY DEF SweepInv, CalendarInv, Calendar, CalendarTypes, DayOpen
<1>3. NoDaySkipped
  <2> SUFFICES ASSUME NEW h \in Holds, OnBlock(h)
               PROVE  recs[index[h]].day >= engine.cursor
    BY DEF NoDaySkipped
  <2>1. recs[index[h]].day \in Nat
    BY RecordOfHold DEF SweepInv
  <2> QED  BY <1>1, <1>2, <2>1
<1>4. OneDayPerSegment
  <2> SUFFICES ASSUME NEW g \in Holds, NEW h \in Holds, OnBlock(g), OnBlock(h),
                      SegmentOf(index[g]) = SegmentOf(index[h])
               PROVE  recs[index[g]].day = recs[index[h]].day
    BY DEF OneDayPerSegment
  <2>1. PICK a : a = recs[index[g]].day
    OBVIOUS
  <2>2. PICK b : b = recs[index[h]].day
    OBVIOUS
  <2>3. a \in Nat /\ b \in Nat /\ a % Segments = b % Segments
    BY <2>1, <2>2, RecordOfHold DEF SweepInv, SegmentOf
  <2>4. engine.cursor <= a /\ a <= engine.today /\ engine.cursor <= b /\ b <= engine.today
    BY <1>1, <2>1, <2>2
  <2>5. a - b < Segments /\ b - a < Segments
    BY <2>3, <2>4, <1>2, SegmentsFacts
  <2>6. ~(a < b) /\ ~(b < a)
    <3>1. a < b => b - a >= Segments
      BY <2>3, CyclesApart
    <3>2. b < a => a - b >= Segments
      BY <2>3, CyclesApart
    <3> QED  BY <3>1, <3>2, <2>3, <2>5, SegmentsFacts
  <2> QED  BY <2>1, <2>2, <2>3, <2>6
<1> QED  BY <1>3, <1>4

-----------------------------------------------------------------------------
(* Where the cursor is placed, and when a day opens.                       *)

\* The cursor of a new engine is no later than any hold's day that is less than a
\* cycle behind, and a cycle before one that has not run out.
LEMMA CursorPlaced ==
    ASSUME CalendarTypes
    PROVE  /\ OldestUnfinishedDay(clock) \in Nat /\ OldestUnfinishedDay(clock) <= clock
           /\ \A h \in Holds : OnBlock(h) /\ Recent(h) =>
                /\ OldestUnfinishedDay(clock) <= recs[index[h]].day
                /\ recs[index[h]].day > clock - Lifetime =>
                     OldestUnfinishedDay(clock) <= recs[index[h]].day - Segments
<1>1. PICK through : through = clock - Lifetime
  OBVIOUS
<1>2. clock \in Nat /\ through \in Nat /\ through >= Segments
  BY <1>1, SegmentsFacts DEF CalendarTypes
<1> DEFINE T == {LastOf(through, s) : s \in {t \in Segs : LiveIn(t) # {}}} \cup {through}
<1>3. OldestUnfinishedDay(clock) = Min(T)
  BY <1>1, <1>2, SegmentsFacts DEF OldestUnfinishedDay, LastOf
<1>4. T \in SUBSET Nat /\ T # {}
  <2>1. \A s \in Segs : LastOf(through, s) \in Nat
    BY <1>2, LastOfSegment, SegmentsFacts
  <2> QED  BY <2>1, <1>2
<1>5. Min(T) \in Nat /\ \A y \in T : Min(T) <= y
  BY <1>4, LeastOfNats
<1>6. ASSUME NEW h \in Holds, OnBlock(h), Recent(h)
      PROVE  /\ Min(T) <= recs[index[h]].day
             /\ recs[index[h]].day > clock - Lifetime => Min(T) <= recs[index[h]].day - Segments
  <2>1. PICK d : d = recs[index[h]].day
    OBVIOUS
  <2>2. PICK s : s = SegmentOf(index[h])
    OBVIOUS
  <2>3. d \in Nat /\ s \in Segs /\ s = d % Segments /\ d > through - Segments
    <3>1. d \in Nat /\ s \in Segs
      BY <2>1, <2>2, <1>6, RecordOfHold
    <3>2. s = d % Segments
      BY <2>1, <2>2, Zenon DEF SegmentOf
    <3>3. d + Lifetime + Segments > clock
      BY <2>1, <1>6, Zenon DEF Recent
    <3> QED  BY <3>1, <3>2, <3>3, <1>1, <1>2, SegmentsFacts
  <2>4. LastOf(through, s) \in T
    <3>1. h \in LiveIn(s)
      BY <1>6, <2>2 DEF LiveIn
    <3> QED  BY <3>1, <2>3
  <2>5. PICK l : l = LastOf(through, s)
    OBVIOUS
  <2>6. l \in Int /\ l <= through /\ l > through - Segments /\ l % Segments = d % Segments
    BY <2>3, <2>5, <1>2, LastOfSegment
  <2>7. Min(T) <= l
    BY <1>5, <2>4, <2>5
  <2>8. l <= d
    <3>1. d < l => l - d >= Segments
      BY <2>3, <2>6, CyclesApart
    <3> QED  BY <3>1, <2>3, <2>6, <1>2, SegmentsFacts
  <2>9. d > through => l <= d - Segments
    <3>1. l < d => d - l >= Segments
      BY <2>3, <2>6, CyclesApart
    <3> QED  BY <3>1, <2>3, <2>6, <1>2, SegmentsFacts
  <2>10. Min(T) \in Int
    BY <1>5
  <2> HIDE DEF T
  <2> QED  BY <2>1, <2>3, <2>6, <2>7, <2>8, <2>9, <2>10, <1>1, <1>2, SegmentsFacts
<1>7. Min(T) <= clock
  <2>1. Min(T) <= through
    BY <1>5
  <2> QED  BY <2>1, <1>1, <1>2, <1>5, SegmentsFacts
<1> QED  BY <1>3, <1>5, <1>6, <1>7

\* open_day: the cursor is there, and no other field moves but the day.
LEMMA OpenedFields ==
    ASSUME CalendarTypes
    PROVE  LET o == Opened(engine, clock)
               c == IF engine.cursor = None THEN OldestUnfinishedDay(clock) ELSE engine.cursor
           IN /\ {"today", "cursor"} \subseteq DOMAIN o
              /\ o.cursor = c /\ c \in Nat
              /\ o.today = IF clock # engine.today /\ DayHasASegment(c, clock)
                             THEN clock ELSE engine.today
              /\ o.today \in Nat
<1> DEFINE c == IF engine.cursor = None THEN OldestUnfinishedDay(clock) ELSE engine.cursor
           opens == clock # engine.today /\ DayHasASegment(c, clock)
<1>1. c \in Nat
  BY CursorPlaced DEF CalendarTypes
<1>2. Opened(engine, clock) =
        [engine EXCEPT !.cursor = c, !.today = IF opens THEN clock ELSE @]
  BY DEF Opened
<1>3. {"today", "cursor"} \subseteq DOMAIN engine /\ engine.today \in Nat /\ clock \in Nat
  BY DEF CalendarTypes
<1> HIDE DEF c, opens
<1>4. /\ DOMAIN Opened(engine, clock) = DOMAIN engine
      /\ Opened(engine, clock).cursor = c
      /\ Opened(engine, clock).today = IF opens THEN clock ELSE engine.today
  BY <1>2, <1>3
<1> QED  BY <1>1, <1>3, <1>4 DEF c, opens

\* What sweep_expiry notes of a placement.
LapsedAfter == IF engine.cursor = None THEN \E h \in Holds : OnBlock(h) /\ ~Recent(h)
               ELSE lapsed

\* open_day keeps the calendar, and when it places the cursor it makes it anew.
LEMMA OpenedCalendar ==
    ASSUME SweepInv
    PROVE  Calendar(Opened(engine, clock), clock, LapsedAfter)
<1> DEFINE c == IF engine.cursor = None THEN OldestUnfinishedDay(clock) ELSE engine.cursor
<1>1. PICK o : o = Opened(engine, clock)
  OBVIOUS
<1>2. /\ o.cursor = c /\ c \in Nat /\ o.today \in Nat
      /\ o.today = IF clock # engine.today /\ DayHasASegment(c, clock)
                     THEN clock ELSE engine.today
  BY <1>1, OpenedFields DEF SweepInv
<1>3. clock \in Nat /\ clock >= 1 /\ engine.today \in Nat
  BY SegmentsFacts DEF SweepInv, CalendarTypes
<1>4. o.cursor # None
  BY <1>2, SegmentsFacts
<1>5. o.today <= clock
  BY <1>2, <1>3 DEF SweepInv, CalendarInv, Calendar
<1>6. o.today = 0 => ~DayHasASegment(o.cursor, clock)
  BY <1>2, <1>3
<1>7. o.today # 0 => o.cursor <= o.today /\ o.today - o.cursor < Segments
  <2>1. CASE clock # engine.today /\ DayHasASegment(c, clock)
    <3>1. c <= clock
      <4>1. CASE engine.cursor = None
        BY <4>1, CursorPlaced DEF SweepInv
      <4>2. CASE engine.cursor # None
        <5>1. engine.today # 0
          BY <2>1, <4>2 DEF SweepInv, CalendarInv, Calendar
        <5>2. engine.cursor <= engine.today /\ engine.today <= clock
          BY <5>1 DEF SweepInv, CalendarInv, Calendar
        <5> QED  BY <5>2, <4>2, <1>2, <1>3
      <4> QED  BY <4>1, <4>2
    <3> QED  BY <3>1, <2>1, <1>2 DEF DayHasASegment
  <2>2. CASE ~(clock # engine.today /\ DayHasASegment(c, clock)) /\ engine.today # 0
    <3>1. /\ engine.cursor # None
          /\ engine.cursor <= engine.today /\ engine.today - engine.cursor < Segments
      BY <2>2 DEF SweepInv, CalendarInv, Calendar
    <3> QED  BY <3>1, <2>2, <1>2
  <2> QED  BY <2>1, <2>2, <1>2
<1>8. ASSUME o.today # 0, ~LapsedAfter, NEW h \in Holds, OnBlock(h)
      PROVE  o.cursor <= recs[index[h]].day /\ recs[index[h]].day <= o.today
  <2>1. recs[index[h]].day \in Nat /\ recs[index[h]].day <= clock
    BY <1>8, RecordOfHold DEF SweepInv
  <2>2. CASE engine.cursor = None
    <3>1. engine.today = 0
      BY <2>2 DEF SweepInv, CalendarInv, Calendar
    <3>2. o.today = clock /\ DayHasASegment(c, clock)
      BY <3>1, <1>2, <1>8
    <3>3. Recent(h)
      BY <2>2, <1>8 DEF LapsedAfter
    <3>4. c = OldestUnfinishedDay(clock)
      BY <2>2
    <3>5. c <= recs[index[h]].day
      BY <3>3, <3>4, <1>8, CursorPlaced DEF SweepInv
    <3> QED  BY <3>2, <3>5, <2>1, <1>2
  <2>3. CASE engine.cursor # None
    <3>1. c = engine.cursor /\ ~lapsed
      BY <2>3, <1>8 DEF LapsedAfter
    <3>2. CASE engine.today # 0
      <4>1. c <= recs[index[h]].day /\ recs[index[h]].day <= engine.today
        BY <3>1, <3>2, <1>8 DEF SweepInv, CalendarInv, Calendar
      <4> QED  BY <4>1, <2>1, <1>2
    <3>3. CASE engine.today = 0
      <4>1. ~DayHasASegment(c, clock)
        BY <2>3, <3>1, <3>3 DEF SweepInv, CalendarInv, Calendar
      <4> QED  BY <4>1, <3>3, <1>2, <1>8
    <3> QED  BY <3>2, <3>3
  <2> QED  BY <2>2, <2>3
<1>9. Calendar(o, clock, LapsedAfter)
  BY <1>4, <1>5, <1>6, <1>7, <1>8 DEF Calendar
<1> QED  BY <1>1, <1>9

-----------------------------------------------------------------------------
(* A slice of the sweep, and the other steps.                              *)

\* A slice leaves the day alone and moves the cursor by one, past a day whose segment
\* no hold is left in.
LEMMA SliceFields ==
    ASSUME NEW e, {"today", "cursor"} \subseteq DOMAIN e, NEW step \in Proposed(e)
    PROVE  /\ {"today", "cursor"} \subseteq DOMAIN step.e
           /\ step.e.today = e.today
           /\ \/ step.e.cursor = e.cursor
              \/ step.e.cursor = e.cursor + 1 /\ LiveIn(ExpiringSegment(e)) = {}
<1> DEFINE Same(x) == /\ {"today", "cursor"} \subseteq DOMAIN x
                      /\ x.today = e.today /\ x.cursor = e.cursor
<1>1. PICK kept : kept = [e EXCEPT !.outstanding = {o \in @ : PointsAt(o)}]
  OBVIOUS
<1>2. Same(kept)
  BY <1>1
<1>3. CASE LiveIn(ExpiringSegment(e)) = {}
  <2>1. step = Offer([e EXCEPT !.cursor = @ + 1, !.at_block = 0], <<>>)
    BY <1>3 DEF Proposed
  <2>2. step.e = [e EXCEPT !.cursor = @ + 1, !.at_block = 0]
    BY <2>1 DEF Offer
  <2> QED  BY <2>2, <1>3
<1>4. CASE LiveIn(ExpiringSegment(e)) # {}
  <2>1. \/ step = Offer([kept EXCEPT !.arrived = <<>>], kept.arrived)
        \/ step = Reoffered(kept)
        \/ step = Offer(kept, <<>>)
        \/ step \in Walks(kept)
    BY <1>1, <1>4 DEF Proposed
  <2>2. CASE step = Offer([kept EXCEPT !.arrived = <<>>], kept.arrived)
    <3>1. step.e = [kept EXCEPT !.arrived = <<>>]
      BY <2>2 DEF Offer
    <3> QED  BY <3>1, <1>2
  <2>3. CASE step = Reoffered(kept)
    <3>1. step.e = [kept EXCEPT !.declined = {}]
      BY <2>3 DEF Offer, Reoffered
    <3> QED  BY <3>1, <1>2
  <2>4. CASE step = Offer(kept, <<>>)
    BY <2>4, <1>2 DEF Offer
  <2>5. CASE step \in Walks(kept)
    <3>1. \/ step = Offer([kept EXCEPT !.at_block = 0], <<>>)
          \/ \E n, held : step = Walked(kept, n, held)
      BY <2>5, Zenon DEF Walks
    <3>2. CASE step = Offer([kept EXCEPT !.at_block = 0], <<>>)
      <4>1. step.e = [kept EXCEPT !.at_block = 0]
        BY <3>2 DEF Offer
      <4> QED  BY <4>1, <1>2
    <3>3. CASE \E n, held : step = Walked(kept, n, held)
      <4>1. PICK n, held : step = Walked(kept, n, held)
        BY <3>3
      <4>2. \E x, y, z : step.e = [kept EXCEPT !.at_block = x, !.outstanding = y, !.reading = z]
        BY <4>1, Zenon DEF Walked, Offer
      <4> QED  BY <4>2, <1>2
    <3> QED  BY <3>1, <3>2, <3>3
  <2> QED  BY <2>1, <2>2, <2>3, <2>4, <2>5
<1> QED  BY <1>3, <1>4

\* The sweep's step.
LEMMA SweepKeeps ==
    ASSUME SweepInv, SweepExpiry  PROVE SweepInv'
<1>1. PICK o : o = Opened(engine, clock)
  OBVIOUS
<1>2. /\ {"today", "cursor"} \subseteq DOMAIN o
      /\ o.cursor \in Nat /\ o.today \in Nat
  BY <1>1, OpenedFields DEF SweepInv
<1>3. Calendar(o, clock, LapsedAfter)
  BY <1>1, OpenedCalendar
<1>4. UNCHANGED <<clock, recs, index>> /\ lapsed' = LapsedAfter
  BY DEF SweepExpiry, LapsedAfter
<1>5. \/ engine' = o
      \/ Behind(o) /\ \E step \in Proposed(o) : engine' = step.e
  BY <1>1 DEF SweepExpiry, Offer
<1>6. /\ {"today", "cursor"} \subseteq DOMAIN engine'
      /\ engine'.today = o.today
      /\ \/ engine'.cursor = o.cursor
         \/ /\ engine'.cursor = o.cursor + 1 /\ Behind(o)
            /\ LiveIn(ExpiringSegment(o)) = {}
  BY <1>2, <1>5, SliceFields
<1>7. LapsedAfter \in BOOLEAN
  BY DEF LapsedAfter, SweepInv, CalendarTypes
<1>8. CalendarTypes'
  BY <1>2, <1>4, <1>6, <1>7 DEF SweepInv, CalendarTypes
<1>9. Calendar(engine', clock, LapsedAfter)
  <2>1. CASE engine'.cursor = o.cursor
    BY <2>1, <1>3, <1>6 DEF Calendar
  <2>2. CASE /\ engine'.cursor = o.cursor + 1 /\ Behind(o)
             /\ LiveIn(ExpiringSegment(o)) = {}
    <3>1. o.today >= 1 /\ o.cursor # None
      BY <2>2, <1>2, SegmentsFacts DEF Behind
    <3>2. \A h \in Holds : OnBlock(h) => recs[index[h]].day # o.cursor
      <4> SUFFICES ASSUME NEW h \in Holds, OnBlock(h), recs[index[h]].day = o.cursor
                   PROVE  FALSE
        OBVIOUS
      <4>1. h \in LiveIn(ExpiringSegment(o))
        BY DEF LiveIn, SegmentOf, ExpiringSegment
      <4> QED  BY <4>1, <2>2
    <3>3. ASSUME ~LapsedAfter, NEW h \in Holds, OnBlock(h)
          PROVE  engine'.cursor <= recs[index[h]].day /\ recs[index[h]].day <= engine'.today
      <4>1. o.cursor <= recs[index[h]].day /\ recs[index[h]].day <= o.today
        BY <1>3, <3>1, <3>3 DEF Calendar
      <4>2. recs[index[h]].day \in Nat
        BY <3>3, RecordOfHold DEF SweepInv
      <4> QED  BY <4>1, <4>2, <3>2, <3>3, <2>2, <1>2, <1>6
    <3>4. /\ engine'.cursor <= engine'.today /\ engine'.today - engine'.cursor < Segments
          /\ engine'.cursor # None
      BY <1>2, <1>3, <1>6, <2>2, <3>1, SegmentsFacts DEF Calendar, Behind
    <3> QED  BY <3>1, <3>3, <3>4, <1>3, <1>6 DEF Calendar
  <2> QED  BY <2>1, <2>2, <1>6
<1>10. CalendarInv'
  BY <1>4, <1>9 DEF CalendarInv, Calendar, OnBlock
<1> QED  BY <1>8, <1>10 DEF SweepInv

\* A record is carried to the day that is open.
LEMMA CarryKeeps ==
    ASSUME SweepInv, Carry  PROVE SweepInv'
<1>1. PICK h \in Holds :
        /\ index[h] = 0
        /\ recs' = Append(recs, [hold |-> h, day |-> engine.today])
        /\ index' = [index EXCEPT ![h] = Len(recs) + 1]
  BY DEF Carry
<1>2. UNCHANGED <<clock, engine, lapsed>> /\ engine.cursor # None
  BY DEF Carry
<1>3. /\ clock \in Nat /\ recs \in Seq([hold : Holds, day : Nat]) /\ Len(recs) \in Nat
      /\ \A b \in 1..Len(recs) : recs[b].day <= clock
      /\ index \in [Holds -> {None} \cup (0..Len(recs))]
      /\ engine.today \in Nat /\ engine.cursor \in Nat /\ engine.today <= clock
  BY <1>2, LenProperties DEF SweepInv, CalendarTypes, CalendarInv, Calendar
<1>4. [hold |-> h, day |-> engine.today] \in [hold : Holds, day : Nat]
  BY <1>3
<1>5. /\ recs' \in Seq([hold : Holds, day : Nat]) /\ Len(recs') = Len(recs) + 1
      /\ \A b \in 1..Len(recs) : recs'[b] = recs[b]
      /\ recs'[Len(recs) + 1] = [hold |-> h, day |-> engine.today]
  BY <1>1, <1>3, <1>4, AppendProperties
<1>6. recs'[Len(recs) + 1].day = engine.today
  BY <1>5
<1>7. \A b \in 1..Len(recs') : recs'[b].day <= clock
  <2> TAKE b \in 1..Len(recs')
  <2>1. CASE b = Len(recs) + 1
    BY <2>1, <1>3, <1>6
  <2>2. CASE b # Len(recs) + 1
    <3>1. b \in 1..Len(recs)
      BY <2>2, <1>3, <1>5
    <3> QED  BY <3>1, <1>3, <1>5
  <2> QED  BY <2>1, <2>2
<1>8. index' \in [Holds -> {None} \cup (0..Len(recs'))]
  BY <1>1, <1>3, <1>5
<1>9. CalendarTypes'
  BY <1>2, <1>5, <1>7, <1>8 DEF SweepInv, CalendarTypes
<1>10. ASSUME engine.today # 0, ~lapsed, NEW g \in Holds, OnBlock(g)'
       PROVE  engine.cursor <= recs'[index'[g]].day /\ recs'[index'[g]].day <= engine.today
  <2>1. CASE g = h
    <3>1. recs'[index'[g]].day = engine.today
      BY <2>1, <1>1, <1>3, <1>6
    <3>2. engine.cursor <= engine.today
      BY <1>10 DEF SweepInv, CalendarInv, Calendar
    <3> QED  BY <3>1, <3>2, <1>3
  <2>2. CASE g # h
    <3>1. index'[g] = index[g] /\ OnBlock(g)
      BY <2>2, <1>1, <1>3, <1>10 DEF OnBlock
    <3>2. index[g] \in 1..Len(recs)
      BY <3>1, RecordOfHold DEF SweepInv
    <3>3. recs'[index'[g]].day = recs[index[g]].day
      BY <3>1, <3>2, <1>5
    <3> QED  BY <3>1, <3>3, <1>10 DEF SweepInv, CalendarInv, Calendar
  <2> QED  BY <2>1, <2>2
<1>11. CalendarInv'
  BY <1>2, <1>10 DEF SweepInv, CalendarInv, Calendar
<1> QED  BY <1>9, <1>11 DEF SweepInv

\* Steps that take holds off their blocks, or let the clock go on.
LEMMA LeavingKeeps ==
    ASSUME SweepInv, UNCHANGED <<recs, lapsed>>,
           clock' \in Nat, clock <= clock',
           {"today", "cursor"} \subseteq DOMAIN engine',
           engine'.today = engine.today, engine'.cursor = engine.cursor,
           index' \in [Holds -> {None} \cup (0..Len(recs))],
           \A h \in Holds : OnBlock(h)' => index'[h] = index[h]
    PROVE  SweepInv'
<1>1. CalendarTypes'
  <2>1. \A b \in 1..Len(recs) : recs[b].day \in Nat /\ recs[b].day <= clock
    <3>1. \A b \in 1..Len(recs) : recs[b] \in [hold : Holds, day : Nat]
      <4>1. recs \in Seq([hold : Holds, day : Nat])
        BY DEF SweepInv, CalendarTypes
      <4> QED  BY <4>1, ElementOfSeq
    <3>2. \A b \in 1..Len(recs) : recs[b].day \in Nat
      BY <3>1
    <3> QED  BY <3>2 DEF SweepInv, CalendarTypes
  <2>2. clock \in Nat /\ clock >= FirstDay
    BY DEF SweepInv, CalendarTypes
  <2>3. \A b \in 1..Len(recs) : recs[b].day <= clock'
    BY <2>1, <2>2
  <2>4. clock' >= FirstDay
    BY <2>2, SegmentsFacts
  <2> QED  BY <2>3, <2>4 DEF SweepInv, CalendarTypes
<1>2. clock \in Nat /\ engine.today \in Nat /\ engine.cursor \in Nat \cup {None}
  BY DEF SweepInv, CalendarTypes
<1>3. engine.today <= clock'
  BY <1>2 DEF SweepInv, CalendarInv, Calendar
<1>4. engine.cursor # None /\ engine.today = 0 => ~DayHasASegment(engine.cursor, clock')
  <2> SUFFICES ASSUME engine.cursor # None, engine.today = 0
               PROVE  ~DayHasASegment(engine.cursor, clock')
    OBVIOUS
  <2>1. ~DayHasASegment(engine.cursor, clock)
    BY DEF SweepInv, CalendarInv, Calendar
  <2> QED  BY <2>1, <1>2, SegmentsFacts DEF DayHasASegment
<1>5. ASSUME NEW h \in Holds, OnBlock(h)'
      PROVE  OnBlock(h) /\ recs'[index'[h]].day = recs[index[h]].day
  BY <1>5 DEF OnBlock
<1>6. Calendar(engine, clock, lapsed)
  BY DEF SweepInv, CalendarInv
<1>7. CalendarInv'
  BY <1>3, <1>4, <1>5, <1>6 DEF CalendarInv, Calendar
<1> QED  BY <1>1, <1>7 DEF SweepInv

-----------------------------------------------------------------------------
(* Every step, and the theorem.                                            *)

LEMMA InitKeeps ==
    ASSUME Init  PROVE SweepInv
<1>1. /\ clock = FirstDay /\ recs = <<>> /\ lapsed = FALSE
      /\ index = [h \in Holds |-> 0] /\ engine = NewEngine
  BY DEF Init
<1>2. /\ {"today", "cursor"} \subseteq DOMAIN engine
      /\ engine.today = 0 /\ engine.cursor = None
  BY <1>1 DEF NewEngine
<1>3. /\ recs \in Seq([hold : Holds, day : Nat]) /\ Len(recs) = 0
  BY <1>1, EmptySeq
<1>4. CalendarTypes
  <2>1. clock \in Nat /\ clock >= FirstDay
    BY <1>1, SegmentsFacts
  <2>2. \A b \in 1..Len(recs) : recs[b].day <= clock
    BY <1>3
  <2>3. index \in [Holds -> {None} \cup (0..Len(recs))]
    BY <1>1, <1>3
  <2>4. engine.today \in Nat /\ engine.cursor \in Nat \cup {None}
    BY <1>2
  <2>5. lapsed \in BOOLEAN
    BY <1>1
  <2> QED  BY <1>2, <1>3, <2>1, <2>2, <2>3, <2>4, <2>5 DEF CalendarTypes
<1>5. CalendarInv
  BY <1>1, <1>2, SegmentsFacts DEF CalendarInv, Calendar
<1> QED  BY <1>4, <1>5 DEF SweepInv

LEMMA RestartKeeps ==
    ASSUME SweepInv, Restart  PROVE SweepInv'
<1>1. UNCHANGED <<clock, recs, lapsed>> /\ engine' = NewEngine
  BY DEF Restart
<1>2. /\ {"today", "cursor"} \subseteq DOMAIN engine'
      /\ engine'.today = 0 /\ engine'.cursor = None
  BY <1>1 DEF NewEngine
<1>3. index \in [Holds -> {None} \cup (0..Len(recs))] /\ Len(recs) \in Nat
  BY LenProperties DEF SweepInv, CalendarTypes
<1>4. index' \in [Holds -> {None} \cup (0..Len(recs))]
  BY <1>3 DEF Restart
<1>5. CalendarTypes'
  BY <1>1, <1>2, <1>4 DEF SweepInv, CalendarTypes
<1>6. CalendarInv'
  BY <1>1, <1>2, SegmentsFacts DEF SweepInv, CalendarTypes, CalendarInv, Calendar
<1> QED  BY <1>5, <1>6 DEF SweepInv

\* Steps of the sequencer and of the worker that move neither calendar nor index.
LEMMA ElsewhereKeeps ==
    ASSUME SweepInv, UNCHANGED <<clock, recs, index, engine, lapsed>>
    PROVE  SweepInv'
<1>1. CalendarTypes'
  BY DEF SweepInv, CalendarTypes
<1>2. CalendarInv'
  BY DEF SweepInv, CalendarInv, Calendar, OnBlock
<1> QED  BY <1>1, <1>2 DEF SweepInv

LEMMA TakeKeeps ==
    ASSUME SweepInv, Take  PROVE SweepInv'
<1>1. PICK c : c = Head(cmds)
  OBVIOUS
<1>2. UNCHANGED <<clock, recs, lapsed>>
  BY DEF Take
<1>3. \/ /\ engine' = [engine EXCEPT !.declined = @ \cup {c.hold}]
         /\ UNCHANGED index
      \/ /\ index' = [index EXCEPT ![c.hold] = IF @ = None THEN @ ELSE 0]
         /\ UNCHANGED engine
      \/ /\ index' = [index EXCEPT ![c.hold] = None]
         /\ UNCHANGED engine
  BY <1>1 DEF Take
<1>4. /\ clock \in Nat /\ {"today", "cursor"} \subseteq DOMAIN engine
      /\ index \in [Holds -> {None} \cup (0..Len(recs))] /\ Len(recs) \in Nat
  BY LenProperties DEF SweepInv, CalendarTypes
<1>5. /\ {"today", "cursor"} \subseteq DOMAIN engine'
      /\ engine'.today = engine.today /\ engine'.cursor = engine.cursor
  BY <1>3, <1>4
<1>6. /\ index' \in [Holds -> {None} \cup (0..Len(recs))]
      /\ \A h \in Holds : OnBlock(h)' => index'[h] = index[h]
  BY <1>3, <1>4 DEF OnBlock
<1>7. clock' \in Nat /\ clock <= clock'
  BY <1>2, <1>4
<1> QED  BY <1>2, <1>5, <1>6, <1>7, LeavingKeeps

LEMMA HarvestKeeps ==
    ASSUME SweepInv, Harvest  PROVE SweepInv'
<1>1. UNCHANGED <<clock, recs, index, lapsed>>
  BY DEF Harvest
<1>2. \E x, y, z : engine' = [engine EXCEPT !.reading = x, !.outstanding = y, !.arrived = z]
  BY Zenon DEF Harvest
<1>3. clock \in Nat /\ {"today", "cursor"} \subseteq DOMAIN engine
  BY DEF SweepInv, CalendarTypes
<1>4. /\ {"today", "cursor"} \subseteq DOMAIN engine'
      /\ engine'.today = engine.today /\ engine'.cursor = engine.cursor
  BY <1>2, <1>3
<1>5. CalendarTypes'
  BY <1>1, <1>4 DEF SweepInv, CalendarTypes
<1>6. CalendarInv'
  BY <1>1, <1>4 DEF SweepInv, CalendarInv, Calendar, OnBlock
<1> QED  BY <1>5, <1>6 DEF SweepInv

LEMMA NextDayKeeps ==
    ASSUME SweepInv, NextDay  PROVE SweepInv'
<1>1. UNCHANGED <<recs, index, engine, lapsed>> /\ clock' = clock + 1
  BY DEF NextDay
<1>2. /\ clock \in Nat /\ {"today", "cursor"} \subseteq DOMAIN engine
      /\ index \in [Holds -> {None} \cup (0..Len(recs))]
  BY DEF SweepInv, CalendarTypes
<1>3. clock' \in Nat /\ clock <= clock'
  BY <1>1, <1>2
<1> QED  BY <1>1, <1>2, <1>3, LeavingKeeps

LEMMA StepKeeps ==
    ASSUME SweepInv, [Next]_vars  PROVE SweepInv'
<1>1. CASE SweepExpiry
  BY <1>1, SweepKeeps
<1>2. CASE Carry
  BY <1>2, CarryKeeps
<1>3. CASE Take
  BY <1>3, TakeKeeps
<1>4. CASE Harvest
  BY <1>4, HarvestKeeps
<1>5. CASE NextDay
  BY <1>5, NextDayKeeps
<1>6. CASE Restart
  BY <1>6, RestartKeeps
<1>7. CASE HandOverNotices
  BY <1>7, ElsewhereKeeps DEF HandOverNotices
<1>8. CASE Tick
  <2>1. UNCHANGED <<clock, recs, index, engine, lapsed>>
    BY <1>8 DEF Tick, PublishExpiryRoom, DrainNotice, AdmitParkedExpiry, DrainDeclines, JudgeVoid
  <2> QED  BY <2>1, ElsewhereKeeps
<1>9. CASE ClientResolves
  BY <1>9, ElsewhereKeeps DEF ClientResolves
<1>10. CASE Outcome
  BY <1>10, ElsewhereKeeps DEF Outcome
<1>11. CASE UNCHANGED vars
  BY <1>11, ElsewhereKeeps DEF vars
<1> QED
  BY <1>1, <1>2, <1>3, <1>4, <1>5, <1>6, <1>7, <1>8, <1>9, <1>10, <1>11 DEF Next, Worker

\* The sweep's calendar: the cursor leaves no hold behind it and no two days share a
\* segment, for any number of segments, any lifetime, however slow the sweep and
\* however often the node restarts, unless a restart found a hold a cycle behind.
\* (engine.rs open_day, propose_expiry, oldest_unfinished_day, day_has_a_segment.)
THEOREM DaysStayApart == Spec => []DaysKeptApart
<1>1. Init => SweepInv
  BY InitKeeps
<1>2. SweepInv /\ [Next]_vars => SweepInv'
  BY StepKeeps
<1>3. SweepInv => DaysKeptApart
  BY CalendarKeepsDaysApart
<1> QED  BY <1>1, <1>2, <1>3, PTL DEF Spec
===============================================================================
