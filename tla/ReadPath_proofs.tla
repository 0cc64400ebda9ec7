---------------------------- MODULE ReadPath_proofs ----------------------------
(***************************************************************************)
(* A read gives the bytes of its own block, or a fault that the reuse of a *)
(* segment explains: proofs for any segments, readers, cache and bounds.   *)
(***************************************************************************)
EXTENDS ReadPath, FiniteSetTheorems, FunctionTheorems, TLAPS

-----------------------------------------------------------------------------
(* The inductive invariant.                                                *)

\* What the lane is asked, and what is in a file.
Asks == [op : {"write"}, segment : Segs, block : Nat] \cup [op : {"remove"}, segment : Segs]
Files == [of : Segs, blocks : SUBSET Nat]
Places == 0..(CacheBlocks - 1)
Reads == [handle : Handles, file : Nat, block : Nat]
\* A map from some of the things to values.
Maps(m, From, To) == DOMAIN m \subseteq From /\ \A k \in DOMAIN m : m[k] \in To

CacheType(c) ==
  /\ c = [held |-> c.held, slots |-> c.slots, order |-> c.order, ready |-> c.ready,
          issued |-> c.issued, waiting |-> c.waiting]
  /\ Maps(c.held, Keys, Places) /\ c.slots \in [Places -> Nat] /\ c.order \in Seq(Places)
  /\ c.ready \in Seq(Handles) /\ Maps(c.issued, Handles, Keys)
  /\ Maps(c.waiting, Keys, Seq(Handles))
DiskType ==
  /\ lane \in Seq(Asks) /\ file \in Seq(Files) /\ names \in [Segs -> Nat]
  /\ stored \subseteq Keys /\ readfd \in [Segs -> Nat] /\ blocks \in Nat
ReadType ==
  /\ pool \subseteq Reads /\ asked \in [Handles -> Keys \cup {None}]
  /\ fault \in Keys \cup {None}
TypeInv == DiskType /\ CacheType(cache) /\ ReadType

\* A segment's name is that of its newest file, and what the index may name is in it:
\* no removal is on its way.
DiskInv ==
  /\ \A s \in Segs : names[s] # 0 =>
       /\ names[s] \in 1..Len(file) /\ file[names[s]].of = s
       /\ \A f \in 1..Len(file) : file[f].of = s => f <= names[s]
  /\ \A s \in Segs : readfd[s] # 0 => readfd[s] \in 1..Len(file) /\ file[readfd[s]].of = s
  /\ \A key \in stored :
       /\ names[key[1]] # 0 /\ key[2] \in file[names[key[1]]].blocks
       /\ \A i \in 1..Len(lane) : lane[i].segment = key[1] => lane[i].op # "remove"

\* A block that was asked for is in a file of its segment, the one the read side has
\* open or one made later.
Placed(key) ==
  /\ readfd[key[1]] # 0
  /\ \E f \in 1..Len(file) :
       file[f].of = key[1] /\ key[2] \in file[f].blocks /\ readfd[key[1]] <= f
AskedInv ==
  /\ \A h \in Handles : asked[h] # None => Placed(asked[h])
  /\ \A k \in DOMAIN cache.held : readfd[k[1]] # 0

\* A request waits in one place: for its poll, for another's read, or for its own.
WaitInv ==
  LET ready == cache.ready
      waiting == cache.waiting
  IN /\ \A i \in 1..Len(ready) : asked[ready[i]] # None
     /\ \A i, j \in 1..Len(ready) : ready[i] = ready[j] => i = j
     /\ \A k \in DOMAIN waiting :
          /\ readfd[k[1]] # 0
          /\ \A i \in 1..Len(waiting[k]) :
               asked[waiting[k][i]] = k /\ \A j \in 1..Len(ready) : ready[j] # waiting[k][i]
          /\ \A i, j \in 1..Len(waiting[k]) : waiting[k][i] = waiting[k][j] => i = j
     /\ \A p \in pool :
          /\ p.handle \in DOMAIN cache.issued /\ cache.issued[p.handle] = asked[p.handle]
          /\ asked[p.handle] # None
          /\ p.block = asked[p.handle][2] /\ p.file = readfd[asked[p.handle][1]]
          /\ \A j \in 1..Len(ready) : ready[j] # p.handle
          /\ \A k \in DOMAIN waiting : \A i \in 1..Len(waiting[k]) : waiting[k][i] # p.handle

\* What a key has of the cache is its own, and its slot waits to be given away.
HeldBy(c) ==
  /\ \A k \in DOMAIN c.held : c.slots[c.held[k]] = k[2] /\ c.held[k] \in Range(c.order)
  /\ \A k, l \in DOMAIN c.held : c.held[k] = c.held[l] => k = l

IInv ==
  /\ TypeInv /\ DiskInv /\ AskedInv /\ (fault = None => WaitInv)
  /\ (aliased = {} => HeldBy(cache)) /\ RightBytes /\ FaultMeansReused

-----------------------------------------------------------------------------
(* Slots taken out of the order of eviction.                               *)

LEMMA RangeOf ==
  ASSUME NEW S, NEW s \in Seq(S)
  PROVE  /\ \A x : x \in Range(s) <=> \E i \in 1..Len(s) : s[i] = x
         /\ Range(s) \subseteq S /\ Len(s) \in Nat
<1>1. DOMAIN s = 1..Len(s) /\ Len(s) \in Nat
  OBVIOUS
<1> QED
  BY <1>1 DEF Range

WithoutTurn(c, i, acc) == IF c.seq[i] \in c.gone THEN acc ELSE Append(acc, c.seq[i])
FirstOf(S) == CHOOSE x \in S : TRUE
W == INSTANCE FoldTheorems WITH Turn <- WithoutTurn, Pick <- FirstOf

\* What is left of a sequence, element by element.
Leaves(gone, s, f) ==
  /\ f[0] = <<>>
  /\ \A i \in 1..Len(s) : f[i] = IF s[i] \in gone THEN f[i - 1] ELSE Append(f[i - 1], s[i])

LEMMA WithoutExists ==
  ASSUME NEW S, NEW s \in Seq(S), NEW gone
  PROVE  \E f : Leaves(gone, s, f) /\ Without(s, gone) = f[Len(s)]
<1> DEFINE c == [seq |-> s, gone |-> gone]
           Body(f, i) == IF i = 0 THEN <<>>
                         ELSE IF s[i] \in gone THEN f[i - 1] ELSE Append(f[i - 1], s[i])
           kept == CHOOSE f : f = [i \in 0..Len(s) |-> Body(f, i)]
<1>1. PICK g : W!Recurs(Len(s), c, <<>>, g)
  BY Len(s) \in Nat, W!RecursionExists
<1>2. g = [i \in 0..Len(s) |-> Body(g, i)]
  BY <1>1 DEF W!Recurs, WithoutTurn
<1>3. Without(s, gone) = kept[Len(s)]
  BY DEF Without
<1>4. kept = [i \in 0..Len(s) |-> Body(kept, i)]
  <2> HIDE DEF Body
  <2> QED
    BY <1>2
<1> HIDE DEF kept
<1>5. Leaves(gone, s, kept)
  <2>1. kept[0] = <<>>
    BY <1>4, 0 \in 0..Len(s)
  <2>2. \A i \in 1..Len(s) : i \in 0..Len(s) /\ i # 0
    OBVIOUS
  <2> QED
    BY <1>4, <2>1, <2>2 DEF Leaves
<1> QED
  BY <1>3, <1>5

\* Taking slots out of the order keeps every other.
LEMMA WithoutIs ==
  ASSUME NEW S, NEW s \in Seq(S), NEW gone
  PROVE  Without(s, gone) \in Seq(S) /\ Range(Without(s, gone)) = Range(s) \ gone
<1>1. PICK f : Leaves(gone, s, f) /\ Without(s, gone) = f[Len(s)]
  BY WithoutExists
<1> DEFINE Sound(i) ==
             /\ f[i] \in Seq(S)
             /\ \A x : (\E j \in 1..Len(f[i]) : f[i][j] = x)
                         <=> x \notin gone /\ \E j \in 1..i : s[j] = x
           T == {i \in Nat : i <= Len(s) => Sound(i)}
<1>2. 0 \in T
  <2>1. f[0] = <<>>
    BY <1>1 DEF Leaves
  <2>2. Sound(0)
    BY <2>1
  <2> QED
    BY <2>2
<1>3. ASSUME NEW i \in Nat, i \in T PROVE i + 1 \in T
  <2> SUFFICES ASSUME i + 1 <= Len(s) PROVE Sound(i + 1)
    OBVIOUS
  <2> DEFINE t == f[i]
             x == s[i + 1]
             u == f[i + 1]
  <2>1. /\ i + 1 \in 1..Len(s) /\ i <= Len(s) /\ (i + 1) - 1 = i /\ x \in S
        /\ u = IF x \in gone THEN t ELSE Append(t, x)
    BY <1>1 DEF Leaves
  <2>2. Sound(i)
    BY <1>3, <2>1
  <2>3. t \in Seq(S) /\ \A y : (\E j \in 1..Len(t) : t[j] = y) <=> y \notin gone /\ \E j \in 1..i : s[j] = y
    BY <2>2
  <2>4. \A y : (\E j \in 1..(i + 1) : s[j] = y) <=> (\E j \in 1..i : s[j] = y) \/ y = x
    OBVIOUS
  <2>5. CASE x \in gone
    BY <2>1, <2>3, <2>4, <2>5
  <2>6. CASE x \notin gone
    <3>1. u = Append(t, x)
      BY <2>1, <2>6
    <3>2. /\ u \in Seq(S) /\ Len(u) = Len(t) + 1 /\ u[Len(t) + 1] = x
          /\ \A j \in 1..Len(t) : u[j] = t[j]
      BY <2>1, <2>3, <3>1
    <3>3. Len(t) \in Nat /\ \A j : j \in 1..Len(u) <=> j \in 1..Len(t) \/ j = Len(t) + 1
      BY <2>3, <3>2
    <3> HIDE DEF t, u, x
    <3>4. \A y : (\E j \in 1..Len(u) : u[j] = y) <=> (\E j \in 1..Len(t) : t[j] = y) \/ y = x
      BY <3>2, <3>3
    <3>5. \A y : (\E j \in 1..Len(u) : u[j] = y) <=> y \notin gone /\ \E j \in 1..(i + 1) : s[j] = y
      BY <2>3, <2>4, <2>6, <3>4
    <3> QED
      BY <3>2, <3>5 DEF u
  <2> QED
    BY <2>5, <2>6
<1> HIDE DEF T
<1>4. Nat \subseteq T
  BY <1>2, <1>3, W!SetInduction
<1> DEFINE n == Len(s)
<1>5. n \in Nat /\ n <= Len(s)
  OBVIOUS
<1>6. n \in T
  BY <1>4, <1>5
<1> HIDE DEF n
<1>7. Sound(n)
  <2> HIDE DEF Sound
  <2> QED
    BY <1>5, <1>6 DEF T
<1> DEFINE w == Without(s, gone)
<1>8. w \in Seq(S) /\ \A x : (\E j \in 1..Len(w) : w[j] = x) <=> x \notin gone /\ \E j \in 1..Len(s) : s[j] = x
  BY <1>1, <1>7 DEF n
<1> HIDE DEF w
<1>9. \A x : x \in Range(w) <=> x \in Range(s) /\ x \notin gone
  BY <1>8, RangeOf
<1> QED
  BY <1>8, <1>9 DEF w

-----------------------------------------------------------------------------
(* The cache's own operations.                                             *)

\* The rest of the cache, which keeping and forgetting leave alone.
SameQueues(c, d) == d.ready = c.ready /\ d.issued = c.issued /\ d.waiting = c.waiting

LEMMA ForgetIs ==
  ASSUME NEW c, CacheType(c), NEW s
  PROVE  LET d == Forget(c, s)
         IN /\ CacheType(d) /\ SameQueues(c, d) /\ DOMAIN d.held \subseteq DOMAIN c.held
            /\ HeldBy(c) => HeldBy(d)
<1> DEFINE dropped == {k \in DOMAIN c.held : k[1] = s}
           gone == {c.held[k] : k \in dropped}
           left == DOMAIN c.held \ dropped
           d == Forget(c, s)
           o == Without(c.order, gone)
<1>0. /\ c = [held |-> c.held, slots |-> c.slots, order |-> c.order, ready |-> c.ready,
              issued |-> c.issued, waiting |-> c.waiting]
      /\ Maps(c.held, Keys, Places) /\ c.slots \in [Places -> Nat] /\ c.order \in Seq(Places)
      /\ c.ready \in Seq(Handles) /\ Maps(c.issued, Handles, Keys)
      /\ Maps(c.waiting, Keys, Seq(Handles))
  BY DEF CacheType
<1>1. o \in Seq(Places) /\ Range(o) = Range(c.order) \ gone
  BY <1>0, WithoutIs
<1>2. d = [c EXCEPT !.held = Restrict(@, left), !.order = o]
  BY DEF Forget
<1> HIDE DEF d, o, gone
<1>3. d = [held |-> Restrict(c.held, left), slots |-> c.slots, order |-> o, ready |-> c.ready,
           issued |-> c.issued, waiting |-> c.waiting]
  BY <1>0, <1>2
<1> DEFINE m == Restrict(c.held, left)
<1>4. DOMAIN m = left /\ \A k \in left : m[k] = c.held[k]
  BY DEF Restrict
<1> HIDE DEF m
<1>5. /\ d.held = m /\ d.slots = c.slots /\ d.order = o /\ d.ready = c.ready
      /\ d.issued = c.issued /\ d.waiting = c.waiting
  BY <1>3 DEF m
<1>6. Maps(m, Keys, Places)
  BY <1>0, <1>4 DEF Maps
<1>7. CacheType(d)
  BY <1>0, <1>1, <1>3, <1>5, <1>6 DEF CacheType, m
<1>8. HeldBy(c) => HeldBy(d)
  <2> SUFFICES ASSUME HeldBy(c) PROVE HeldBy(d)
    OBVIOUS
  <2>1. ASSUME NEW k \in left PROVE c.slots[m[k]] = k[2] /\ m[k] \in Range(o)
    <3>1. m[k] = c.held[k] /\ c.slots[c.held[k]] = k[2] /\ c.held[k] \in Range(c.order)
      BY <1>4 DEF HeldBy
    <3>2. c.held[k] \notin gone
      BY DEF HeldBy, gone
    <3> QED
      BY <1>1, <3>1, <3>2
  <2>2. \A k, l \in left : m[k] = m[l] => k = l
    BY <1>4 DEF HeldBy
  <2> QED
    BY <1>4, <1>5, <2>1, <2>2 DEF HeldBy
<1> QED
  BY <1>4, <1>5, <1>7, <1>8 DEF SameQueues, d

LEMMA TouchedIs ==
  ASSUME NEW c, CacheType(c), NEW key, Holds(c, key)
  PROVE  LET d == TouchedSlot(c, key)
         IN /\ CacheType(d) /\ SameQueues(c, d) /\ DOMAIN d.held \subseteq DOMAIN c.held
            /\ HeldBy(c) => HeldBy(d)
<1> DEFINE slot == c.held[key]
           d == TouchedSlot(c, key)
           w == Without(c.order, {slot})
           o == IF slot \in Range(c.order) THEN Append(w, slot) ELSE c.order
<1>0. /\ c = [held |-> c.held, slots |-> c.slots, order |-> c.order, ready |-> c.ready,
              issued |-> c.issued, waiting |-> c.waiting]
      /\ Maps(c.held, Keys, Places) /\ c.slots \in [Places -> Nat] /\ c.order \in Seq(Places)
      /\ c.ready \in Seq(Handles) /\ Maps(c.issued, Handles, Keys)
      /\ Maps(c.waiting, Keys, Seq(Handles))
  BY DEF CacheType
<1>1. w \in Seq(Places) /\ Range(w) = Range(c.order) \ {slot} /\ slot \in Places
  BY <1>0, WithoutIs DEF Holds, Maps
<1>2. d = [c EXCEPT !.order = o]
  BY DEF TouchedSlot
<1> HIDE DEF d, w, slot
<1>3. o \in Seq(Places) /\ Range(o) = Range(c.order)
  <2>1. CASE slot \in Range(c.order)
    <3> DEFINE u == Append(w, slot)
    <3>1. u \in Seq(Places) /\ Len(u) = Len(w) + 1 /\ u[Len(w) + 1] = slot /\ Len(w) \in Nat
          /\ \A i \in 1..Len(w) : u[i] = w[i]
      BY <1>1
    <3>2. \A i : i \in 1..Len(u) <=> i \in 1..Len(w) \/ i = Len(w) + 1
      BY <3>1
    <3>3. o = u
      BY <2>1
    <3> HIDE DEF u
    <3>4. \A x : x \in Range(u) <=> x \in Range(w) \/ x = slot
      BY <1>1, <3>1, <3>2, RangeOf
    <3> HIDE DEF o
    <3>5. \A x : x \in Range(o) <=> x \in Range(c.order)
      BY <1>1, <2>1, <3>3, <3>4
    <3> QED
      BY <3>1, <3>3, <3>5
  <2>2. CASE slot \notin Range(c.order)
    BY <1>0, <2>2
  <2> QED
    BY <2>1, <2>2
<1> HIDE DEF o
<1>4. d = [held |-> c.held, slots |-> c.slots, order |-> o, ready |-> c.ready,
           issued |-> c.issued, waiting |-> c.waiting]
  BY <1>0, <1>2
<1>5. /\ d.held = c.held /\ d.slots = c.slots /\ d.order = o /\ d.ready = c.ready
      /\ d.issued = c.issued /\ d.waiting = c.waiting
  BY <1>4
<1>6. CacheType(d)
  BY <1>0, <1>3, <1>4, <1>5 DEF CacheType
<1>7. HeldBy(c) => HeldBy(d)
  BY <1>3, <1>5 DEF HeldBy
<1> QED
  BY <1>5, <1>6, <1>7 DEF SameQueues, d

LEMMA KeptIs ==
  ASSUME NEW c, CacheType(c), NEW key \in Keys, NEW got \in Nat
  PROVE  LET d == Kept(c, key, got)
         IN /\ CacheType(d) /\ SameQueues(c, d) /\ DOMAIN d.held \subseteq DOMAIN c.held \cup {key}
            /\ HeldBy(c) /\ got = key[2] /\ Sharing(c, key) = {} => HeldBy(d)
<1> DEFINE d == Kept(c, key, got)
<1>0. /\ c = [held |-> c.held, slots |-> c.slots, order |-> c.order, ready |-> c.ready,
              issued |-> c.issued, waiting |-> c.waiting]
      /\ Maps(c.held, Keys, Places) /\ c.slots \in [Places -> Nat] /\ c.order \in Seq(Places)
      /\ c.ready \in Seq(Handles) /\ Maps(c.issued, Handles, Keys)
      /\ Maps(c.waiting, Keys, Seq(Handles))
  BY DEF CacheType
<1>1. CASE Holds(c, key)
  BY <1>1 DEF Kept, SameQueues
<1>2. CASE ~Holds(c, key)
  <2> DEFINE slot == KeepSlot(c)
             full == Len(c.order) >= CacheBlocks
             claims == IF full THEN {k \in DOMAIN c.held : c.held[k] # slot} ELSE DOMAIN c.held
             m == With(Restrict(c.held, claims), key, slot)
             t == IF full THEN Tail(c.order) ELSE c.order
             o == Append(t, slot)
             s == [c.slots EXCEPT ![slot] = got]
  <2>1. d = [c EXCEPT !.slots[slot] = got, !.held = m, !.order = o]
    BY <1>2 DEF Kept
  <2>2. CacheBlocks \in Nat /\ CacheBlocks > 0 /\ Len(c.order) \in Nat
    BY <1>0, ReadPathAssumption
  <2>3. slot \in Places /\ t \in Seq(Places) /\ \A x \in Range(c.order) : x = slot \/ x \in Range(t)
    <3>1. CASE full
      <4>1. c.order # <<>> /\ slot = Head(c.order) /\ t = Tail(c.order)
        BY <2>2, <3>1 DEF KeepSlot
      <4>2. /\ slot = c.order[1] /\ slot \in Places /\ t \in Seq(Places) /\ Len(t) = Len(c.order) - 1
            /\ \A i \in 1..Len(t) : t[i] = c.order[i + 1]
        BY <1>0, <4>1
      <4>3. ASSUME NEW x \in Range(c.order), x # slot PROVE x \in Range(t)
        <5>1. PICK i \in 1..Len(c.order) : c.order[i] = x
          BY <1>0, RangeOf
        <5>2. i # 1 /\ i - 1 \in 1..Len(t) /\ (i - 1) + 1 = i
          BY <2>2, <4>2, <4>3, <5>1
        <5>3. t[i - 1] = x
          BY <4>2, <5>1, <5>2
        <5> HIDE DEF t
        <5> QED
          BY <4>2, <5>2, <5>3, RangeOf
      <4> QED
        BY <4>2, <4>3
    <3>2. CASE ~full
      <4>1. slot = Len(c.order) /\ t = c.order
        BY <3>2 DEF KeepSlot
      <4>2. Len(c.order) \in Places
        BY <2>2, <3>2 DEF Places
      <4> QED
        BY <1>0, <4>1, <4>2
    <3> QED
      BY <3>1, <3>2
  <2> HIDE DEF d, slot, t
  <2>4. o \in Seq(Places) /\ slot \in Range(o) /\ \A x \in Range(t) : x \in Range(o)
    <3>1. /\ o \in Seq(Places) /\ Len(o) = Len(t) + 1 /\ o[Len(t) + 1] = slot /\ Len(t) \in Nat
          /\ \A i \in 1..Len(t) : o[i] = t[i]
      BY <2>3
    <3>2. Len(t) + 1 \in 1..Len(o) /\ \A i \in 1..Len(t) : i \in 1..Len(o)
      BY <3>1
    <3> HIDE DEF o
    <3> QED
      BY <2>3, <3>1, <3>2, RangeOf
  <2>5. s \in [Places -> Nat] /\ s[slot] = got /\ \A x \in Places : x # slot => s[x] = c.slots[x]
    BY <1>0, <2>3
  <2>6. /\ claims \subseteq DOMAIN c.held /\ DOMAIN m = claims \cup {key} /\ key \notin claims
        /\ m[key] = slot /\ \A k \in claims : m[k] = c.held[k]
    BY <1>2 DEF With, Restrict, Holds
  <2>7. d = [held |-> m, slots |-> s, order |-> o, ready |-> c.ready, issued |-> c.issued,
             waiting |-> c.waiting]
    <3> HIDE DEF m, o
    <3> QED
      BY <1>0, <2>1
  <2>f. full => \A k \in claims : c.held[k] # slot
    OBVIOUS
  <2>g. ~full => claims = DOMAIN c.held /\ slot = Len(c.order)
    BY DEF slot, KeepSlot
  <2> HIDE DEF m, o, s, claims
  <2>8. /\ d.held = m /\ d.slots = s /\ d.order = o /\ d.ready = c.ready
        /\ d.issued = c.issued /\ d.waiting = c.waiting
    BY <2>7
  <2>9. Maps(m, Keys, Places)
    BY <1>0, <2>3, <2>6 DEF Maps
  <2>10. CacheType(d)
    BY <1>0, <2>4, <2>5, <2>7, <2>8, <2>9 DEF CacheType
  <2>11. ASSUME HeldBy(c), got = key[2], Sharing(c, key) = {} PROVE HeldBy(d)
    <3>1. \A k \in claims : c.held[k] # slot
      <4>1. CASE full
        BY <2>f, <4>1
      <4>2. CASE ~full
        <5>1. {k \in DOMAIN c.held : c.held[k] = Len(c.order)} = {}
          BY <1>2, <2>11, <4>2 DEF Sharing
        <5> QED
          BY <2>g, <4>2, <5>1
      <4> QED
        BY <4>1, <4>2
    <3>2. ASSUME NEW k \in claims PROVE s[m[k]] = k[2] /\ m[k] \in Range(o)
      <4>1. c.slots[c.held[k]] = k[2] /\ c.held[k] \in Range(c.order) /\ c.held[k] \in Places
        BY <1>0, <2>6, <2>11 DEF HeldBy, Maps
      <4> QED
        BY <2>3, <2>4, <2>5, <2>6, <3>1, <4>1
    <3>3. s[m[key]] = key[2] /\ m[key] \in Range(o)
      BY <2>4, <2>5, <2>6, <2>11
    <3>4. \A k, l \in claims \cup {key} : m[k] = m[l] => k = l
      BY <2>6, <2>11, <3>1 DEF HeldBy
    <3> QED
      BY <2>6, <2>8, <3>2, <3>3, <3>4 DEF HeldBy
  <2> QED
    BY <2>6, <2>8, <2>10, <2>11 DEF SameQueues, d
<1> QED
  BY <1>1, <1>2

-----------------------------------------------------------------------------
(* The first state, and the write side.                                    *)

LEMMA InitInv == Init => IInv
<1> SUFFICES ASSUME Init PROVE IInv
  OBVIOUS
<1>0. DOMAIN <<>> = {} /\ CacheBlocks \in Nat
  BY ReadPathAssumption
<1>1. /\ cache = [held |-> <<>>, slots |-> [i \in Places |-> 0], order |-> <<>>, ready |-> <<>>,
                  issued |-> <<>>, waiting |-> <<>>]
      /\ cache.held = <<>> /\ cache.slots = [i \in Places |-> 0] /\ cache.order = <<>>
      /\ cache.ready = <<>> /\ cache.issued = <<>> /\ cache.waiting = <<>>
  BY DEF Init, NewCache, Places
<1>2. /\ Maps(<<>>, Keys, Places) /\ Maps(<<>>, Handles, Keys) /\ Maps(<<>>, Keys, Seq(Handles))
  BY <1>0 DEF Maps
<1>3. CacheType(cache)
  BY <1>1, <1>2 DEF CacheType
<1>4. DiskType
  BY DEF Init, DiskType
<1>5. ReadType
  BY DEF Init, ReadType
<1>6. HeldBy(cache)
  BY <1>0, <1>1 DEF HeldBy
<1>7. DiskInv
  BY DEF Init, DiskInv
<1>8. AskedInv
  BY <1>0, <1>1 DEF Init, AskedInv
<1>9. WaitInv
  BY <1>0, <1>1 DEF Init, WaitInv
<1> QED
  BY <1>3, <1>4, <1>5, <1>6, <1>7, <1>8, <1>9 DEF Init, IInv, TypeInv, RightBytes, FaultMeansReused

\* Files are only made and written into.
FilesGrow ==
  /\ Len(file) <= Len(file')
  /\ \A f \in 1..Len(file) : file'[f].of = file[f].of /\ file[f].blocks \subseteq file'[f].blocks

LEMMA FaultStays ==
  ASSUME FaultMeansReused, file \in Seq(Files), file' \in Seq(Files), FilesGrow, UNCHANGED fault,
         fault # None => readfd'[fault[1]] = readfd[fault[1]]
  PROVE  FaultMeansReused'
<1> SUFFICES ASSUME fault # None PROVE FaultMeansReused'
  BY DEF FaultMeansReused
<1>1. PICK f \in DOMAIN file : /\ file[f].of = fault[1] /\ fault[2] \in file[f].blocks
                               /\ readfd[fault[1]] # 0 /\ readfd[fault[1]] < f
  BY DEF FaultMeansReused
<1>2. f \in DOMAIN file' /\ file'[f].of = file[f].of /\ file[f].blocks \subseteq file'[f].blocks
  BY DEF FilesGrow
<1> QED
  BY <1>1, <1>2 DEF FaultMeansReused

LEMMA PlacedStays ==
  ASSUME NEW key, Placed(key), file \in Seq(Files), file' \in Seq(Files), FilesGrow,
         readfd'[key[1]] = readfd[key[1]]
  PROVE  Placed(key)'
<1>1. PICK f \in 1..Len(file) :
        file[f].of = key[1] /\ key[2] \in file[f].blocks /\ readfd[key[1]] <= f
  BY DEF Placed
<1>2. f \in 1..Len(file') /\ file'[f].of = file[f].of /\ file[f].blocks \subseteq file'[f].blocks
  BY DEF FilesGrow
<1> QED
  BY <1>1, <1>2 DEF Placed

\* The write side disturbs no read: it makes, fills and unlinks files, and the cache drops
\* claims.
LEMMA WriteSide ==
  ASSUME IInv, DiskType', DiskInv', FilesGrow, CacheType(cache'), SameQueues(cache, cache'),
         DOMAIN cache'.held \subseteq DOMAIN cache.held, HeldBy(cache) => HeldBy(cache'),
         UNCHANGED <<readfd, pool, asked, answer, fault, aliased>>
  PROVE  IInv'
<1>1. file \in Seq(Files) /\ file' \in Seq(Files)
  BY DEF IInv, TypeInv, DiskType
<1>2. FaultMeansReused'
  BY <1>1, FaultStays DEF IInv
<1>3. AskedInv'
  <2>1. ASSUME NEW h \in Handles, asked'[h] # None PROVE Placed(asked[h])'
    <3>1. PICK key : key = asked[h]
      OBVIOUS
    <3>2. readfd'[key[1]] = readfd[key[1]] /\ Placed(key)
      BY <2>1, <3>1 DEF IInv, AskedInv
    <3>3. Placed(key)'
      BY <1>1, <3>2, PlacedStays
    <3>4. asked'[h] = key
      BY <3>1
    <3> QED
      BY <3>3, <3>4 DEF Placed
  <2> QED
    BY <2>1 DEF AskedInv, IInv
<1>4. (fault = None => WaitInv)'
  BY DEF IInv, WaitInv, SameQueues
<1>5. ReadType'
  BY DEF IInv, TypeInv, ReadType
<1> QED
  BY <1>2, <1>3, <1>4, <1>5 DEF IInv, TypeInv, RightBytes

LEMMA SealKeeps ==
  ASSUME IInv, NEW s \in Segs, Seal(s)
  PROVE  IInv'
<1> DEFINE one == [op |-> "write", segment |-> s, block |-> blocks']
<1>0. DiskType /\ DiskInv /\ CacheType(cache)
  BY DEF IInv, TypeInv
<1>1. /\ blocks' = blocks + 1 /\ lane' = Append(lane, one) /\ cache' = Forget(cache, s)
      /\ UNCHANGED <<file, names, stored, readfd, pool, asked, answer, fault, aliased>>
  BY DEF Seal
<1>2. /\ CacheType(cache') /\ SameQueues(cache, cache')
      /\ DOMAIN cache'.held \subseteq DOMAIN cache.held /\ (HeldBy(cache) => HeldBy(cache'))
  BY <1>0, <1>1, ForgetIs
<1>3. one \in Asks /\ lane \in Seq(Asks)
  BY <1>0, <1>1 DEF Asks, DiskType
<1>4. DiskType'
  BY <1>0, <1>1, <1>3 DEF DiskType
<1>5. \A i \in 1..Len(lane') : (i \in 1..Len(lane) /\ lane'[i] = lane[i]) \/ lane'[i].op = "write"
  BY <1>1, <1>3
<1>6. DiskInv'
  BY <1>0, <1>1, <1>5 DEF DiskInv
<1>7. FilesGrow
  BY <1>0, <1>1 DEF FilesGrow, DiskType
<1> QED
  BY <1>1, <1>2, <1>4, <1>6, <1>7, WriteSide

LEMMA FreeKeeps ==
  ASSUME IInv, NEW s \in Segs, Free(s)
  PROVE  IInv'
<1> DEFINE one == [op |-> "remove", segment |-> s]
<1>0. DiskType /\ DiskInv /\ CacheType(cache)
  BY DEF IInv, TypeInv
<1>1. /\ lane' = Append(lane, one) /\ cache' = Forget(cache, s)
      /\ stored' = {k \in stored : k[1] # s}
      /\ UNCHANGED <<file, names, readfd, pool, asked, answer, fault, aliased, blocks>>
  BY DEF Free
<1>2. /\ CacheType(cache') /\ SameQueues(cache, cache')
      /\ DOMAIN cache'.held \subseteq DOMAIN cache.held /\ (HeldBy(cache) => HeldBy(cache'))
  BY <1>0, <1>1, ForgetIs
<1>3. one \in Asks /\ lane \in Seq(Asks) /\ one.segment = s
  BY <1>0 DEF Asks, DiskType
<1>4. DiskType'
  BY <1>0, <1>1, <1>3 DEF DiskType
<1>5. \A i \in 1..Len(lane') : (i \in 1..Len(lane) /\ lane'[i] = lane[i]) \/ lane'[i] = one
  BY <1>1, <1>3
<1>6. DiskInv'
  <2> HIDE DEF one
  <2>1. ASSUME NEW key \in stored'
        PROVE  /\ names[key[1]] # 0 /\ key[2] \in file[names[key[1]]].blocks
               /\ \A i \in 1..Len(lane') : lane'[i].segment = key[1] => lane'[i].op # "remove"
    BY <1>0, <1>1, <1>3, <1>5, <2>1 DEF DiskInv
  <2> QED
    BY <1>0, <1>1, <2>1 DEF DiskInv
<1>7. FilesGrow
  BY <1>0, <1>1 DEF FilesGrow, DiskType
<1> QED
  BY <1>1, <1>2, <1>4, <1>6, <1>7, WriteSide

LEMMA ServeKeeps ==
  ASSUME IInv, Serve
  PROVE  IInv'
<1> DEFINE a == Head(lane)
           s == a.segment
           n == Len(file)
           creating == a.op = "write" /\ names[s] = 0
<1>0. DiskType /\ DiskInv /\ CacheType(cache)
  BY DEF IInv, TypeInv
<1>1. /\ lane # <<>> /\ lane' = Tail(lane)
      /\ UNCHANGED <<readfd, cache, pool, asked, answer, fault, aliased, blocks, frees>>
  BY DEF Serve
<1>2. /\ lane \in Seq(Asks) /\ file \in Seq(Files) /\ names \in [Segs -> Nat] /\ stored \subseteq Keys
      /\ readfd \in [Segs -> Nat] /\ blocks \in Nat
  BY <1>0 DEF DiskType
<1>3. /\ a \in Asks /\ a = lane[1] /\ Len(lane) \in Nat /\ 1 \in 1..Len(lane) /\ Tail(lane) \in Seq(Asks)
      /\ \A i \in 1..Len(Tail(lane)) : i + 1 \in 2..Len(lane) /\ Tail(lane)[i] = lane[i + 1]
      /\ \A i \in 2..Len(lane) : i \in 1..Len(lane)
  BY <1>1, <1>2
<1>4. s \in Segs /\ a.op \in {"write", "remove"} /\ (a.op = "write" => a.block \in Nat)
  BY <1>3 DEF Asks
<1>5. SameQueues(cache, cache') /\ CacheType(cache') /\ cache' = cache
  BY <1>0, <1>1 DEF SameQueues
<1> HIDE DEF a
<1>6. CASE a.op = "remove"
  <2>1. names' = [names EXCEPT ![s] = 0] /\ UNCHANGED <<file, stored>>
    BY <1>6 DEF Serve, a
  <2>2. DiskType'
    BY <1>0, <1>1, <1>3, <1>4, <2>1 DEF DiskType
  <2>3. \A key \in stored : key[1] # s
    BY <1>0, <1>3, <1>6 DEF DiskInv
  <2>4. DiskInv'
    <3>1. ASSUME NEW key \in stored
          PROVE  /\ names'[key[1]] # 0 /\ key[2] \in file[names'[key[1]]].blocks
                 /\ \A i \in 1..Len(lane') : lane'[i].segment = key[1] => lane'[i].op # "remove"
      <4>1. key[1] \in Segs /\ names'[key[1]] = names[key[1]]
        BY <1>2, <2>1, <2>3 DEF Keys
      <4> QED
        BY <1>0, <1>1, <1>3, <4>1 DEF DiskInv
    <3>2. \A t \in Segs : names'[t] # 0 => names'[t] = names[t]
      BY <1>2, <2>1
    <3> QED
      BY <1>0, <1>1, <2>1, <3>1, <3>2 DEF DiskInv
  <2>5. FilesGrow
    BY <1>2, <2>1 DEF FilesGrow
  <2> QED
    BY <1>1, <1>5, <2>2, <2>4, <2>5, WriteSide
<1>7. CASE a.op = "write"
  <2> DEFINE removed == \E i \in 2..Len(lane) : lane[i].op = "remove" /\ lane[i].segment = s
             at == IF creating THEN n + 1 ELSE names[s]
  <2>1. /\ file' = IF creating THEN Append(file, [of |-> s, blocks |-> {a.block}])
                   ELSE [file EXCEPT ![names[s]].blocks = @ \cup {a.block}]
        /\ names' = IF creating THEN [names EXCEPT ![s] = n + 1] ELSE names
        /\ stored' = IF removed THEN stored ELSE stored \cup {<<s, a.block>>}
    BY <1>7 DEF Serve, a
  <2>2. /\ file' \in Seq(Files) /\ FilesGrow /\ at \in 1..Len(file') /\ file'[at].of = s
        /\ a.block \in file'[at].blocks /\ names'[s] = at /\ n \in Nat
        /\ \A f \in 1..Len(file') : f \in 1..n \/ f = at
        /\ \A f \in 1..n : file'[f].of = file[f].of /\ f \in 1..Len(file')
        /\ \A f \in 1..n : file[f].of = s => f <= at
    <3>1. CASE creating
      <4> DEFINE one == [of |-> s, blocks |-> {a.block}]
      <4>1. one \in Files /\ one.of = s /\ a.block \in one.blocks /\ n \in Nat
        BY <1>2, <1>4, <1>7 DEF Files
      <4>2. file' = Append(file, one) /\ at = n + 1 /\ names' = [names EXCEPT ![s] = n + 1]
        BY <2>1, <3>1
      <4> HIDE DEF one
      <4>3. /\ file' \in Seq(Files) /\ Len(file') = n + 1 /\ file'[n + 1] = one
            /\ \A f \in 1..n : file'[f] = file[f]
        BY <1>2, <4>1, <4>2
      <4>4. FilesGrow
        BY <4>1, <4>3 DEF FilesGrow
      <4>5. names'[s] = n + 1
        BY <1>2, <1>4, <4>2
      <4> QED
        BY <4>1, <4>2, <4>3, <4>4, <4>5
    <3>2. CASE ~creating
      <4>1. names[s] # 0 /\ at = names[s] /\ names' = names
        BY <1>7, <2>1, <3>2
      <4>2. names[s] \in 1..n /\ file[names[s]].of = s /\ \A f \in 1..n : file[f].of = s => f <= names[s]
        BY <1>0, <1>4, <4>1 DEF DiskInv
      <4> DEFINE f0 == names[s]
                 new == [file[f0] EXCEPT !.blocks = @ \cup {a.block}]
      <4>r. file[f0] \in Files /\ f0 \in 1..n
        BY <1>2, <4>2
      <4>3. /\ new \in Files /\ new.of = file[f0].of /\ file[f0].blocks \subseteq new.blocks
            /\ a.block \in new.blocks
        <5> DEFINE r == file[f0]
        <5>1. r \in Files /\ a.block \in Nat
          BY <1>4, <1>7, <4>r
        <5> HIDE DEF r
        <5>2. /\ [r EXCEPT !.blocks = @ \cup {a.block}] \in Files
              /\ [r EXCEPT !.blocks = @ \cup {a.block}].of = r.of
              /\ [r EXCEPT !.blocks = @ \cup {a.block}].blocks = r.blocks \cup {a.block}
          BY <5>1 DEF Files
        <5> QED
          BY <5>2 DEF r
      <4>4. file' = [file EXCEPT ![f0] = new]
        BY <2>1, <3>2
      <4> HIDE DEF new, f0
      <4>5. /\ file' \in Seq(Files) /\ Len(file') = n /\ n \in Nat
            /\ \A f \in 1..n : file'[f] = IF f = f0 THEN new ELSE file[f]
        BY <1>2, <4>3, <4>4, <4>r
      <4>6. FilesGrow
        BY <4>3, <4>5 DEF FilesGrow
      <4> QED
        BY <4>1, <4>2, <4>3, <4>5, <4>6, <4>r DEF f0
    <3> QED
      BY <3>1, <3>2
  <2>3. \A t \in Segs : t # s => names'[t] = names[t]
    BY <1>2, <2>1
  <2>4. at \in Nat /\ names' \in [Segs -> Nat]
    <3>1. n \in Nat
      BY <2>2
    <3> QED
      BY <1>2, <1>4, <2>1, <3>1
  <2>5. \A t \in Segs : names[t] # 0 => names[t] \in 1..n /\ names'[t] = names[t]
    <3>1. \A t \in Segs : names[t] # 0 => names[t] \in 1..n
      BY <1>0 DEF DiskInv
    <3>2. names[s] # 0 => names'[s] = names[s]
      BY <2>1
    <3> QED
      BY <2>3, <3>1, <3>2
  <2>o. creating => \A t \in Segs : names[t] # 0 => names[t] # at
    BY <2>2, <2>5
  <2> HIDE DEF at, creating
  <2>6. DiskType'
    <3>1. stored' \subseteq Keys
      BY <1>2, <1>4, <1>7, <2>1 DEF Keys
    <3> QED
      BY <1>1, <1>2, <1>3, <2>2, <2>4, <3>1 DEF DiskType
  <2>7. DiskInv'
    <3>1. ASSUME NEW t \in Segs, names'[t] # 0
          PROVE  /\ names'[t] \in 1..Len(file') /\ file'[names'[t]].of = t
                 /\ \A f \in 1..Len(file') : file'[f].of = t => f <= names'[t]
      <4>1. CASE t = s
        BY <2>2, <4>1
      <4>2. CASE t # s
        <5>1. names'[t] = names[t] /\ names[t] # 0
          BY <2>3, <3>1, <4>2
        <5>2. names[t] \in 1..n /\ file[names[t]].of = t /\ \A f \in 1..n : file[f].of = t => f <= names[t]
          BY <1>0, <5>1 DEF DiskInv
        <5> QED
          BY <2>2, <4>2, <5>1, <5>2
      <4> QED
        BY <4>1, <4>2
    <3>2. ASSUME NEW t \in Segs, readfd[t] # 0
          PROVE  readfd[t] \in 1..Len(file') /\ file'[readfd[t]].of = t
      <4>1. readfd[t] \in 1..n /\ file[readfd[t]].of = t
        BY <1>0, <3>2 DEF DiskInv
      <4> QED
        BY <2>2, <4>1
    <3>3. ASSUME NEW key \in stored'
          PROVE  /\ names'[key[1]] # 0 /\ key[2] \in file'[names'[key[1]]].blocks
                 /\ \A i \in 1..Len(lane') : lane'[i].segment = key[1] => lane'[i].op # "remove"
      <4>1. CASE key \in stored
        <5>1. /\ key[1] \in Segs /\ names[key[1]] # 0 /\ key[2] \in file[names[key[1]]].blocks
              /\ \A i \in 1..Len(lane) : lane[i].segment = key[1] => lane[i].op # "remove"
          BY <1>0, <1>2, <4>1 DEF DiskInv, Keys
        <5>2. names[key[1]] \in 1..n /\ names'[key[1]] = names[key[1]]
          BY <2>5, <5>1
        <5>3. file[names[key[1]]].blocks \subseteq file'[names[key[1]]].blocks
          BY <2>2, <5>2 DEF FilesGrow
        <5>4. \A i \in 1..Len(lane') : i + 1 \in 1..Len(lane) /\ lane'[i] = lane[i + 1]
          BY <1>1, <1>3
        <5> QED
          BY <5>1, <5>2, <5>3, <5>4
      <4>2. CASE key \notin stored
        <5>1. key = <<s, a.block>> /\ ~removed
          BY <2>1, <3>3, <4>2
        <5>2. key[1] = s /\ key[2] = a.block
          BY <5>1
        <5>3. \A i \in 1..Len(lane') : i + 1 \in 2..Len(lane) /\ lane'[i] = lane[i + 1]
          BY <1>1, <1>3
        <5>4. at # 0
          BY <2>2
        <5> QED
          BY <2>2, <5>1, <5>2, <5>3, <5>4
      <4> QED
        BY <4>1, <4>2
    <3> QED
      BY <1>1, <3>1, <3>2, <3>3 DEF DiskInv
  <2> QED
    BY <1>1, <1>5, <2>2, <2>6, <2>7, WriteSide
<1> QED
  BY <1>4, <1>6, <1>7

-----------------------------------------------------------------------------
(* A read is asked for.                                                    *)

\* The descriptor the read side has of a segment is the one it keeps.
DescriptorsKept == \A s \in Segs : readfd[s] # 0 => readfd'[s] = readfd[s]

\* A block the index names is in the newest file of its segment, which is what a
\* descriptor opened now, or one opened before, is of at most.
LEMMA NamedIsPlaced ==
  ASSUME TypeInv, DiskInv, NEW key \in stored
  PROVE  /\ key \in Keys /\ key[1] \in Segs /\ key[2] \in Nat /\ names[key[1]] \in 1..Len(file)
         /\ FileOf(key[1]) \in 1..Len(file) /\ file[FileOf(key[1])].of = key[1]
         /\ FileOf(key[1]) <= names[key[1]] /\ file[names[key[1]]].of = key[1]
         /\ key[2] \in file[names[key[1]]].blocks
<1>1. key \in Keys /\ key[1] \in Segs /\ key[2] \in Nat
  BY DEF TypeInv, DiskType, Keys
<1>2. names[key[1]] # 0 /\ key[2] \in file[names[key[1]]].blocks
  BY DEF DiskInv
<1>3. /\ names[key[1]] \in 1..Len(file) /\ file[names[key[1]]].of = key[1]
      /\ \A f \in 1..Len(file) : file[f].of = key[1] => f <= names[key[1]]
  BY <1>1, <1>2 DEF DiskInv
<1>4. CASE readfd[key[1]] # 0
  <2>1. readfd[key[1]] \in 1..Len(file) /\ file[readfd[key[1]]].of = key[1]
    BY <1>1, <1>4 DEF DiskInv
  <2>2. FileOf(key[1]) = readfd[key[1]]
    BY <1>4 DEF FileOf
  <2> QED
    BY <1>1, <1>2, <1>3, <2>1, <2>2
<1>5. CASE readfd[key[1]] = 0
  <2>1. FileOf(key[1]) = names[key[1]]
    BY <1>5 DEF FileOf
  <2> QED
    BY <1>1, <1>2, <1>3, <2>1
<1> QED
  BY <1>4, <1>5

LEMMA StillPlaced ==
  ASSUME IInv, DescriptorsKept, UNCHANGED file, NEW k, k \in Keys, Placed(k)
  PROVE  Placed(k)'
<1>1. file \in Seq(Files) /\ file' \in Seq(Files) /\ FilesGrow
  BY DEF IInv, TypeInv, DiskType, FilesGrow
<1>2. readfd'[k[1]] = readfd[k[1]]
  BY DEF DescriptorsKept, Keys, Placed
<1> QED
  BY <1>1, <1>2, PlacedStays

\* The disk's side of a step that opens a file at most.
LEMMA OpenedIs ==
  ASSUME IInv, NEW s \in Segs, FileOf(s) \in 1..Len(file), file[FileOf(s)].of = s,
         readfd' = [readfd EXCEPT ![s] = FileOf(s)], UNCHANGED <<lane, file, names, stored, blocks>>
  PROVE  DiskType' /\ DiskInv' /\ DescriptorsKept /\ readfd'[s] = FileOf(s)
<1>0. DiskType /\ DiskInv
  BY DEF IInv, TypeInv
<1>1. readfd \in [Segs -> Nat] /\ FileOf(s) \in Nat
  BY <1>0 DEF DiskType
<1>2. readfd' \in [Segs -> Nat] /\ readfd'[s] = FileOf(s) /\ \A t \in Segs : t # s => readfd'[t] = readfd[t]
  BY <1>1
<1>3. DescriptorsKept
  BY <1>2 DEF DescriptorsKept, FileOf
<1>4. DiskType'
  BY <1>0, <1>2 DEF DiskType
<1>5. DiskInv'
  <2>1. ASSUME NEW t \in Segs, readfd'[t] # 0 PROVE readfd'[t] \in 1..Len(file) /\ file[readfd'[t]].of = t
    <3>1. CASE t = s
      BY <1>2, <3>1
    <3>2. CASE t # s
      BY <1>0, <1>2, <2>1, <3>2 DEF DiskInv
    <3> QED
      BY <3>1, <3>2
  <2> QED
    BY <1>0, <2>1 DEF DiskInv
<1> QED
  BY <1>2, <1>3, <1>4, <1>5

\* The parts of the invariant a question leaves alone.
LEMMA AskSide ==
  ASSUME IInv, NEW h \in Handles, NEW key \in stored, asked[h] = None, fault = None,
         asked' = [asked EXCEPT ![h] = key], DescriptorsKept, DiskType', DiskInv',
         readfd'[key[1]] # 0, readfd'[key[1]] <= names[key[1]], CacheType(cache'), WaitInv',
         pool' \subseteq Reads, cache'.held = cache.held, cache'.slots = cache.slots,
         cache'.order = cache.order, UNCHANGED <<file, answer, fault, aliased>>
  PROVE  IInv'
<1>0. TypeInv /\ DiskInv /\ AskedInv /\ asked \in [Handles -> Keys \cup {None}]
  BY DEF IInv, TypeInv, ReadType
<1>1. /\ key \in Keys /\ names[key[1]] \in 1..Len(file) /\ file[names[key[1]]].of = key[1]
      /\ key[2] \in file[names[key[1]]].blocks
  BY <1>0, NamedIsPlaced
<1>2. Placed(key)'
  <2>1. PICK f \in 1..Len(file) : f = names[key[1]]
    BY <1>1
  <2> QED
    BY <1>1, <2>1 DEF Placed
<1>3. AskedInv'
  <2>1. ASSUME NEW g \in Handles, asked'[g] # None PROVE Placed(asked[g])'
    <3>1. CASE g = h
      <4>1. asked'[g] = key
        BY <1>0, <3>1
      <4> QED
        BY <1>2, <4>1 DEF Placed
    <3>2. CASE g # h
      <4>1. PICK k : k = asked[g]
        OBVIOUS
      <4>2. asked'[g] = k /\ k # None
        BY <1>0, <2>1, <3>2, <4>1
      <4>3. Placed(k) /\ k \in Keys
        BY <1>0, <4>1, <4>2 DEF AskedInv
      <4>4. Placed(k)'
        BY <4>3, StillPlaced
      <4> QED
        BY <4>2, <4>4 DEF Placed
    <3> QED
      BY <3>1, <3>2
  <2>2. \A k \in DOMAIN cache'.held : readfd'[k[1]] # 0
    <3>1. \A k \in DOMAIN cache.held : k \in Keys /\ readfd[k[1]] # 0
      BY <1>0 DEF AskedInv, TypeInv, CacheType, Maps
    <3> QED
      BY <3>1 DEF DescriptorsKept, Keys
  <2> QED
    BY <2>1, <2>2 DEF AskedInv
<1>4. ReadType'
  BY <1>0, <1>1 DEF ReadType, TypeInv
<1>5. (aliased = {} => HeldBy(cache))'
  BY DEF IInv, HeldBy
<1>6. RightBytes' /\ FaultMeansReused'
  BY DEF IInv, RightBytes, FaultMeansReused
<1> QED
  BY <1>3, <1>4, <1>5, <1>6 DEF IInv, TypeInv

LEMMA FetchKeeps ==
  ASSUME IInv, NEW h \in Handles, NEW key \in stored, Fetch(h, key)
  PROVE  IInv'
<1> DEFINE c == cache
           d == cache'
<1>0. /\ TypeInv /\ DiskInv /\ AskedInv /\ WaitInv
      /\ asked[h] = None /\ fault = None /\ asked' = [asked EXCEPT ![h] = key]
      /\ asked \in [Handles -> Keys \cup {None}] /\ readfd \in [Segs -> Nat] /\ pool \subseteq Reads
      /\ UNCHANGED <<lane, file, names, stored, answer, fault, aliased, blocks>>
  BY DEF IInv, Fetch, TypeInv, ReadType, DiskType
<1>1. /\ c = [held |-> c.held, slots |-> c.slots, order |-> c.order, ready |-> c.ready,
              issued |-> c.issued, waiting |-> c.waiting]
      /\ Maps(c.held, Keys, Places) /\ c.slots \in [Places -> Nat] /\ c.order \in Seq(Places)
      /\ c.ready \in Seq(Handles) /\ Maps(c.issued, Handles, Keys)
      /\ Maps(c.waiting, Keys, Seq(Handles))
  BY <1>0 DEF TypeInv, CacheType
<1>2. /\ key \in Keys /\ key[1] \in Segs /\ key[2] \in Nat /\ names[key[1]] \in 1..Len(file)
      /\ FileOf(key[1]) \in 1..Len(file) /\ file[FileOf(key[1])].of = key[1]
      /\ FileOf(key[1]) <= names[key[1]]
  BY <1>0, NamedIsPlaced
<1>n. key # None
  BY <1>2, ReadPathAssumption
<1>3. /\ asked'[h] = key /\ \A g \in Handles : g # h => asked'[g] = asked[g]
  BY <1>0
<1>4. /\ \A i \in 1..Len(c.ready) : c.ready[i] # h /\ c.ready[i] \in Handles
      /\ \A k \in DOMAIN c.waiting : \A i \in 1..Len(c.waiting[k]) : c.waiting[k][i] # h /\ c.waiting[k][i] \in Handles
      /\ \A p \in pool : p.handle # h /\ p.handle \in Handles
  <2>1. \A i \in 1..Len(c.ready) : c.ready[i] # h /\ c.ready[i] \in Handles
    BY <1>0, <1>1 DEF WaitInv
  <2>2. ASSUME NEW k \in DOMAIN c.waiting, NEW i \in 1..Len(c.waiting[k])
        PROVE  c.waiting[k][i] # h /\ c.waiting[k][i] \in Handles
    <3>1. k \in Keys /\ c.waiting[k] \in Seq(Handles)
      BY <1>1 DEF Maps
    <3>2. asked[c.waiting[k][i]] = k /\ k # None
      BY <1>0, <3>1, ReadPathAssumption DEF WaitInv
    <3> QED
      BY <1>0, <3>1, <3>2
  <2>3. \A p \in pool : p.handle # h /\ p.handle \in Handles
    BY <1>0 DEF WaitInv, Reads
  <2> QED
    BY <2>1, <2>2, <2>3
<1>5. ASSUME readfd[key[1]] # 0, UNCHANGED <<readfd, pool>>
      PROVE  /\ DescriptorsKept /\ DiskType' /\ DiskInv' /\ readfd'[key[1]] # 0
             /\ readfd'[key[1]] <= names[key[1]] /\ pool' \subseteq Reads
  <2>1. FileOf(key[1]) = readfd[key[1]]
    BY <1>5 DEF FileOf
  <2>2. DescriptorsKept
    BY <1>5 DEF DescriptorsKept
  <2>3. DiskType' /\ DiskInv'
    BY <1>0, <1>5 DEF TypeInv, DiskType, DiskInv
  <2> QED
    BY <1>0, <1>2, <1>5, <2>1, <2>2, <2>3
<1>6. CASE Holds(c, key) /\ d = [c EXCEPT !.ready = Append(@, h)] /\ UNCHANGED <<pool, readfd>>
  <2> DEFINE r == Append(c.ready, h)
  <2>1. readfd[key[1]] # 0
    BY <1>0, <1>6 DEF AskedInv, Holds
  <2>2. d = [held |-> c.held, slots |-> c.slots, order |-> c.order, ready |-> r,
             issued |-> c.issued, waiting |-> c.waiting]
    BY <1>1, <1>6
  <2>3. /\ r \in Seq(Handles) /\ Len(r) = Len(c.ready) + 1 /\ Len(c.ready) \in Nat
        /\ r[Len(c.ready) + 1] = h /\ \A i \in 1..Len(c.ready) : r[i] = c.ready[i]
    BY <1>1
  <2>4. \A i \in 1..Len(r) : \/ i \in 1..Len(c.ready) /\ r[i] = c.ready[i]
                             \/ i = Len(c.ready) + 1 /\ r[i] = h
    BY <2>3
  <2> HIDE DEF r
  <2>5. /\ d.held = c.held /\ d.slots = c.slots /\ d.order = c.order /\ d.ready = r
        /\ d.issued = c.issued /\ d.waiting = c.waiting
    BY <2>2
  <2>6. CacheType(d)
    BY <1>1, <2>2, <2>3, <2>5 DEF CacheType
  <2>7. WaitInv'
    <3>1. \A i \in 1..Len(r) : asked'[r[i]] # None
      BY <1>0, <1>3, <1>4, <1>n, <2>4 DEF WaitInv
    <3>2. \A i, j \in 1..Len(r) : r[i] = r[j] => i = j
      BY <1>0, <1>4, <2>4 DEF WaitInv
    <3>3. ASSUME NEW k \in DOMAIN c.waiting
          PROVE  /\ readfd[k[1]] # 0
                 /\ \A i \in 1..Len(c.waiting[k]) :
                      asked'[c.waiting[k][i]] = k /\ \A j \in 1..Len(r) : r[j] # c.waiting[k][i]
                 /\ \A i, j \in 1..Len(c.waiting[k]) : c.waiting[k][i] = c.waiting[k][j] => i = j
      BY <1>0, <1>3, <1>4, <2>4 DEF WaitInv
    <3>4. ASSUME NEW p \in pool
          PROVE  /\ p.handle \in DOMAIN c.issued /\ c.issued[p.handle] = asked'[p.handle]
                 /\ asked'[p.handle] # None
                 /\ p.block = asked'[p.handle][2] /\ p.file = readfd[asked'[p.handle][1]]
                 /\ \A j \in 1..Len(r) : r[j] # p.handle
                 /\ \A k \in DOMAIN c.waiting : \A i \in 1..Len(c.waiting[k]) : c.waiting[k][i] # p.handle
      BY <1>0, <1>3, <1>4, <2>4 DEF WaitInv
    <3> QED
      BY <1>6, <2>5, <3>1, <3>2, <3>3, <3>4 DEF WaitInv
  <2> QED
    BY <1>0, <1>5, <1>6, <2>1, <2>5, <2>6, <2>7, AskSide
<1>7. CASE /\ Joins(key) /\ d = [c EXCEPT !.waiting[key] = Append(@, h)] /\ UNCHANGED <<pool, readfd>>
  <2> DEFINE old == c.waiting[key]
             w == Append(old, h)
             m == [c.waiting EXCEPT ![key] = w]
  <2>0. key \in DOMAIN c.waiting
    BY <1>7 DEF Joins
  <2>1. readfd[key[1]] # 0
    BY <1>0, <2>0 DEF WaitInv
  <2>2. d = [held |-> c.held, slots |-> c.slots, order |-> c.order, ready |-> c.ready,
             issued |-> c.issued, waiting |-> m]
    BY <1>1, <1>7
  <2>3. old \in Seq(Handles)
    BY <1>1, <2>0 DEF Maps
  <2>4. /\ w \in Seq(Handles) /\ Len(w) = Len(old) + 1 /\ Len(old) \in Nat
        /\ w[Len(old) + 1] = h /\ \A i \in 1..Len(old) : w[i] = old[i]
    BY <2>3
  <2>5. \A i \in 1..Len(w) : \/ i \in 1..Len(old) /\ w[i] = old[i]
                             \/ i = Len(old) + 1 /\ w[i] = h
    BY <2>4
  <2> HIDE DEF w
  <2>6. DOMAIN m = DOMAIN c.waiting /\ m[key] = w /\ \A k \in DOMAIN c.waiting : k # key => m[k] = c.waiting[k]
    BY <2>0
  <2> HIDE DEF m
  <2>7. /\ d.held = c.held /\ d.slots = c.slots /\ d.order = c.order /\ d.ready = c.ready
        /\ d.issued = c.issued /\ d.waiting = m
    BY <2>2
  <2>8. Maps(m, Keys, Seq(Handles))
    BY <1>1, <2>4, <2>6 DEF Maps
  <2>9. CacheType(d)
    BY <1>1, <2>2, <2>7, <2>8 DEF CacheType
  <2>10. WaitInv'
    <3>1. \A i \in 1..Len(c.ready) : asked'[c.ready[i]] # None
      BY <1>0, <1>3, <1>4 DEF WaitInv
    <3>2. ASSUME NEW k \in DOMAIN m
          PROVE  /\ readfd[k[1]] # 0
                 /\ \A i \in 1..Len(m[k]) :
                      asked'[m[k][i]] = k /\ \A j \in 1..Len(c.ready) : c.ready[j] # m[k][i]
                 /\ \A i, j \in 1..Len(m[k]) : m[k][i] = m[k][j] => i = j
      <4>1. CASE k = key
        <5>1. /\ readfd[k[1]] # 0
              /\ \A i \in 1..Len(old) : /\ asked[old[i]] = k /\ old[i] \in Handles /\ old[i] # h
                                        /\ \A j \in 1..Len(c.ready) : c.ready[j] # old[i]
              /\ \A i, j \in 1..Len(old) : old[i] = old[j] => i = j
          BY <1>0, <1>4, <2>0, <4>1 DEF WaitInv
        <5> HIDE DEF old
        <5> QED
          BY <1>3, <1>4, <2>5, <2>6, <4>1, <5>1
      <4>2. CASE k # key
        BY <1>0, <1>3, <1>4, <2>6, <4>2 DEF WaitInv
      <4> QED
        BY <4>1, <4>2
    <3>3. ASSUME NEW p \in pool
          PROVE  /\ p.handle \in DOMAIN c.issued /\ c.issued[p.handle] = asked'[p.handle]
                 /\ asked'[p.handle] # None
                 /\ p.block = asked'[p.handle][2] /\ p.file = readfd[asked'[p.handle][1]]
                 /\ \A j \in 1..Len(c.ready) : c.ready[j] # p.handle
      BY <1>0, <1>3, <1>4 DEF WaitInv
    <3>4. ASSUME NEW p \in pool, NEW k \in DOMAIN m, NEW i \in 1..Len(m[k]) PROVE m[k][i] # p.handle
      <4>1. CASE k = key
        <5>1. \A j \in 1..Len(old) : old[j] # p.handle
          BY <1>0, <2>0 DEF WaitInv
        <5> HIDE DEF old
        <5> QED
          BY <1>4, <2>5, <2>6, <4>1, <5>1
      <4>2. CASE k # key
        BY <1>0, <2>6, <4>2 DEF WaitInv
      <4> QED
        BY <4>1, <4>2
    <3>5. \A i, j \in 1..Len(c.ready) : c.ready[i] = c.ready[j] => i = j
      BY <1>0 DEF WaitInv
    <3> QED
      BY <1>7, <2>7, <3>1, <3>2, <3>3, <3>4, <3>5 DEF WaitInv
  <2> QED
    BY <1>0, <1>5, <1>7, <2>1, <2>7, <2>9, <2>10, AskSide
<1>8. CASE /\ ~Joins(key) /\ readfd' = [readfd EXCEPT ![key[1]] = FileOf(key[1])]
           /\ pool' = pool \cup {[handle |-> h, file |-> FileOf(key[1]), block |-> key[2]]}
           /\ d = [c EXCEPT !.issued = With(@, h, key), !.waiting = With(@, key, <<>>)]
  <2> DEFINE one == [handle |-> h, file |-> FileOf(key[1]), block |-> key[2]]
             q == With(c.issued, h, key)
             m == With(c.waiting, key, <<>>)
  <2>1. DiskType' /\ DiskInv' /\ DescriptorsKept /\ readfd'[key[1]] = FileOf(key[1])
    BY <1>0, <1>2, <1>8, OpenedIs
  <2>2. d = [held |-> c.held, slots |-> c.slots, order |-> c.order, ready |-> c.ready,
             issued |-> q, waiting |-> m]
    BY <1>1, <1>8
  <2>3. DOMAIN q = DOMAIN c.issued \cup {h} /\ q[h] = key /\ \A g \in DOMAIN c.issued : g # h => q[g] = c.issued[g]
    BY DEF With
  <2>4. /\ DOMAIN m = DOMAIN c.waiting \cup {key} /\ m[key] = <<>> /\ key \notin DOMAIN c.waiting
        /\ \A k \in DOMAIN c.waiting : m[k] = c.waiting[k]
    BY <1>8 DEF With, Joins
  <2> HIDE DEF q, m
  <2>5. /\ d.held = c.held /\ d.slots = c.slots /\ d.order = c.order /\ d.ready = c.ready
        /\ d.issued = q /\ d.waiting = m
    BY <2>2
  <2>6. Maps(q, Handles, Keys) /\ Maps(m, Keys, Seq(Handles))
    <3>1. Maps(q, Handles, Keys)
      BY <1>1, <1>2, <2>3 DEF Maps
    <3>2. \A k \in DOMAIN m : m[k] \in Seq(Handles)
      <4>1. <<>> \in Seq(Handles)
        OBVIOUS
      <4> QED
        BY <1>1, <2>4, <4>1 DEF Maps
    <3>3. DOMAIN m \subseteq Keys
      BY <1>1, <1>2, <2>4 DEF Maps
    <3> QED
      BY <3>1, <3>2, <3>3 DEF Maps
  <2>7. CacheType(d)
    BY <1>1, <2>2, <2>5, <2>6 DEF CacheType
  <2>8. /\ one \in Reads /\ one.handle = h /\ one.file = FileOf(key[1]) /\ one.block = key[2]
        /\ pool' = pool \cup {one}
    BY <1>2, <1>8 DEF Reads
  <2> HIDE DEF one
  <2>9. WaitInv'
    <3>1. \A i \in 1..Len(c.ready) : asked'[c.ready[i]] # None
      BY <1>0, <1>3, <1>4 DEF WaitInv
    <3>2. ASSUME NEW k \in DOMAIN m
          PROVE  /\ readfd'[k[1]] # 0
                 /\ \A i \in 1..Len(m[k]) :
                      asked'[m[k][i]] = k /\ \A j \in 1..Len(c.ready) : c.ready[j] # m[k][i]
                 /\ \A i, j \in 1..Len(m[k]) : m[k][i] = m[k][j] => i = j
      <4>1. CASE k = key
        BY <1>2, <2>1, <2>4, <4>1
      <4>2. CASE k # key
        <5>1. k \in DOMAIN c.waiting /\ m[k] = c.waiting[k] /\ k[1] \in Segs /\ readfd[k[1]] # 0
          BY <1>0, <1>1, <2>4, <4>2 DEF WaitInv, Maps, Keys
        <5>2. readfd'[k[1]] # 0
          BY <2>1, <5>1 DEF DescriptorsKept
        <5>3. /\ \A i \in 1..Len(m[k]) :
                   asked'[m[k][i]] = k /\ \A j \in 1..Len(c.ready) : c.ready[j] # m[k][i]
              /\ \A i, j \in 1..Len(m[k]) : m[k][i] = m[k][j] => i = j
          BY <1>0, <1>3, <1>4, <5>1 DEF WaitInv
        <5> QED
          BY <5>2, <5>3
      <4> QED
        BY <4>1, <4>2
    <3>3. ASSUME NEW p \in pool'
          PROVE  /\ p.handle \in DOMAIN q /\ q[p.handle] = asked'[p.handle]
                 /\ asked'[p.handle] # None
                 /\ p.block = asked'[p.handle][2] /\ p.file = readfd'[asked'[p.handle][1]]
                 /\ \A j \in 1..Len(c.ready) : c.ready[j] # p.handle
                 /\ \A k \in DOMAIN m : \A i \in 1..Len(m[k]) : m[k][i] # p.handle
      <4>1. CASE p = one
        <5>1. \A k \in DOMAIN m : \A i \in 1..Len(m[k]) : m[k][i] # h
          BY <1>4, <2>4
        <5> QED
          BY <1>3, <1>4, <1>n, <2>1, <2>3, <2>8, <4>1, <5>1
      <4>2. CASE p # one
        <5>0. p \in pool
          BY <2>8, <4>2
        <5>1. /\ p.handle \in DOMAIN c.issued /\ c.issued[p.handle] = asked[p.handle]
              /\ asked[p.handle] # None /\ p.block = asked[p.handle][2]
              /\ p.file = readfd[asked[p.handle][1]]
              /\ \A j \in 1..Len(c.ready) : c.ready[j] # p.handle
              /\ \A k \in DOMAIN c.waiting : \A i \in 1..Len(c.waiting[k]) : c.waiting[k][i] # p.handle
          BY <1>0, <5>0 DEF WaitInv
        <5>2. p.handle \in Handles /\ p.handle # h /\ asked'[p.handle] = asked[p.handle]
          BY <1>3, <1>4, <5>0
        <5>3. asked[p.handle][1] \in Segs /\ readfd[asked[p.handle][1]] # 0
          BY <1>0, <5>1, <5>2 DEF AskedInv, Placed, Keys
        <5>4. readfd'[asked[p.handle][1]] = readfd[asked[p.handle][1]]
          BY <2>1, <5>3 DEF DescriptorsKept
        <5>5. \A k \in DOMAIN m : \A i \in 1..Len(m[k]) : m[k][i] # p.handle
          BY <2>4, <5>1
        <5> QED
          BY <2>3, <5>1, <5>2, <5>4, <5>5
      <4> QED
        BY <4>1, <4>2
    <3>4. \A i, j \in 1..Len(c.ready) : c.ready[i] = c.ready[j] => i = j
      BY <1>0 DEF WaitInv
    <3> QED
      BY <2>5, <3>1, <3>2, <3>3, <3>4 DEF WaitInv
  <2>10. readfd'[key[1]] # 0 /\ readfd'[key[1]] <= names[key[1]] /\ pool' \subseteq Reads
    BY <1>0, <1>2, <2>1, <2>8
  <2> QED
    BY <1>0, <2>1, <2>5, <2>7, <2>9, <2>10, AskSide
<1> QED
  BY <1>6, <1>7, <1>8 DEF Fetch

-----------------------------------------------------------------------------
(* A read is answered.                                                     *)

\* A read of the file the read side has open gives the block's bytes; when they are not
\* there, the block is in a file made later.
LEMMA BytesAre ==
  ASSUME IInv, NEW k \in Keys, Placed(k), NEW got, got = BytesOf(readfd[k[1]], k[2])
  PROVE  /\ got # None => got = k[2] /\ got \in Nat
         /\ got = None => \E f \in DOMAIN file : /\ file[f].of = k[1] /\ k[2] \in file[f].blocks
                                                 /\ readfd[k[1]] # 0 /\ readfd[k[1]] < f
<1>0. /\ file \in Seq(Files) /\ readfd \in [Segs -> Nat] /\ k[1] \in Segs /\ k[2] \in Nat
      /\ k[2] # None /\ readfd[k[1]] # 0
  BY ReadPathAssumption DEF IInv, TypeInv, DiskType, Keys, Placed
<1>1. CASE k[2] \in file[readfd[k[1]]].blocks
  BY <1>0, <1>1 DEF BytesOf
<1>2. CASE k[2] \notin file[readfd[k[1]]].blocks
  <2>1. got = None
    BY <1>2 DEF BytesOf
  <2>2. PICK f \in 1..Len(file) :
          file[f].of = k[1] /\ k[2] \in file[f].blocks /\ readfd[k[1]] <= f
    BY DEF Placed
  <2>3. f # readfd[k[1]]
    BY <1>2, <2>2
  <2>4. readfd[k[1]] < f /\ f \in DOMAIN file
    BY <1>0, <2>2, <2>3
  <2> QED
    BY <1>0, <2>1, <2>2, <2>4
<1> QED
  BY <1>1, <1>2

\* The parts of the invariant an answer leaves alone.
LEMMA AnswerSide ==
  ASSUME IInv, NEW h \in Handles, NEW k \in Keys, asked[h] = k, fault = None,
         NEW got, answer' = [key |-> asked[h], got |-> got], aliased' = {} => got = k[2],
         asked' = [asked EXCEPT ![h] = None], DescriptorsKept, DiskType', DiskInv',
         CacheType(cache'), WaitInv', pool' \subseteq Reads,
         DOMAIN cache'.held \subseteq DOMAIN cache.held \cup {k},
         aliased' = {} => HeldBy(cache'), UNCHANGED <<file, fault>>
  PROVE  IInv'
<1>0. AskedInv /\ asked \in [Handles -> Keys \cup {None}] /\ CacheType(cache) /\ Placed(k)
  BY ReadPathAssumption DEF IInv, TypeInv, ReadType, AskedInv
<1>1. AskedInv'
  <2>1. ASSUME NEW g \in Handles, asked'[g] # None PROVE Placed(asked[g])'
    <3>1. PICK l : l = asked[g]
      OBVIOUS
    <3>2. asked'[g] = l /\ l # None
      BY <1>0, <2>1, <3>1
    <3>3. Placed(l) /\ l \in Keys
      BY <1>0, <3>1, <3>2 DEF AskedInv
    <3>4. Placed(l)'
      BY <3>3, StillPlaced
    <3> QED
      BY <3>2, <3>4 DEF Placed
  <2>2. \A l \in DOMAIN cache'.held : readfd'[l[1]] # 0
    <3>1. \A l \in DOMAIN cache.held : l \in Keys /\ readfd[l[1]] # 0
      BY <1>0 DEF AskedInv, CacheType, Maps
    <3>2. k \in Keys /\ readfd[k[1]] # 0
      BY <1>0 DEF Placed
    <3> QED
      BY <3>1, <3>2 DEF DescriptorsKept, Keys
  <2> QED
    BY <2>1, <2>2 DEF AskedInv
<1>2. ReadType'
  BY <1>0 DEF ReadType, IInv, TypeInv
<1>3. RightBytes'
  <2>1. answer'.got = got /\ answer'.key = k
    OBVIOUS
  <2> QED
    BY <2>1 DEF RightBytes
<1>4. FaultMeansReused'
  BY DEF FaultMeansReused
<1> QED
  BY <1>1, <1>2, <1>3, <1>4 DEF IInv, TypeInv

\* A read that meets nothing is a fault, and ends all reading.
LEMMA FaultSide ==
  ASSUME IInv, NEW h \in Handles, NEW k \in Keys, asked[h] = k, fault = None,
         BytesOf(readfd[k[1]], k[2]) = None, fault' = k, CacheType(cache'), pool' \subseteq Reads,
         cache'.held = cache.held, cache'.slots = cache.slots, cache'.order = cache.order,
         UNCHANGED <<lane, file, names, stored, readfd, asked, answer, aliased, blocks>>
  PROVE  IInv'
<1>0. AskedInv /\ DiskInv /\ DiskType /\ ReadType /\ Placed(k) /\ k # None
  BY ReadPathAssumption DEF IInv, TypeInv, AskedInv
<1>1. DiskType' /\ DiskInv'
  BY <1>0 DEF DiskType, DiskInv
<1>2. ReadType'
  BY <1>0 DEF ReadType
<1>3. AskedInv'
  BY <1>0 DEF AskedInv, Placed
<1>4. FaultMeansReused'
  <2> DEFINE got == BytesOf(readfd[k[1]], k[2])
  <2>1. PICK f \in DOMAIN file : /\ file[f].of = k[1] /\ k[2] \in file[f].blocks
                                 /\ readfd[k[1]] # 0 /\ readfd[k[1]] < f
    BY <1>0, BytesAre
  <2> QED
    BY <2>1 DEF FaultMeansReused
<1>5. (aliased = {} => HeldBy(cache))' /\ RightBytes'
  BY DEF IInv, HeldBy, RightBytes
<1> QED
  BY <1>0, <1>1, <1>2, <1>3, <1>4, <1>5 DEF IInv, TypeInv

LEMMA PollReadyKeeps ==
  ASSUME IInv, PollReady
  PROVE  IInv'
<1> DEFINE c == cache
           h == Head(c.ready)
           rest == [c EXCEPT !.ready = Tail(@)]
<1>0. /\ TypeInv /\ DiskInv /\ AskedInv /\ WaitInv /\ fault = None /\ c.ready # <<>>
      /\ asked \in [Handles -> Keys \cup {None}] /\ readfd \in [Segs -> Nat] /\ pool \subseteq Reads
      /\ UNCHANGED <<lane, file, names, stored, pool, blocks>>
  BY DEF IInv, PollReady, TypeInv, ReadType, DiskType
<1>1. /\ c = [held |-> c.held, slots |-> c.slots, order |-> c.order, ready |-> c.ready,
              issued |-> c.issued, waiting |-> c.waiting]
      /\ Maps(c.held, Keys, Places) /\ c.slots \in [Places -> Nat] /\ c.order \in Seq(Places)
      /\ c.ready \in Seq(Handles) /\ Maps(c.issued, Handles, Keys)
      /\ Maps(c.waiting, Keys, Seq(Handles))
  BY <1>0 DEF TypeInv, CacheType
<1>2. /\ h = c.ready[1] /\ h \in Handles /\ 1 \in 1..Len(c.ready) /\ Len(c.ready) \in Nat
      /\ Tail(c.ready) \in Seq(Handles)
      /\ \A i \in 1..Len(Tail(c.ready)) : i + 1 \in 1..Len(c.ready) /\ Tail(c.ready)[i] = c.ready[i + 1]
  BY <1>0, <1>1
<1> HIDE DEF h
<1>3. asked[h] # None
  BY <1>0, <1>2 DEF WaitInv
<1>4. PICK k \in Keys : k = asked[h]
  BY <1>0, <1>2, <1>3
<1>5. Placed(k) /\ k[1] \in Segs /\ readfd[k[1]] # 0 /\ FileOf(k[1]) = readfd[k[1]]
  BY <1>0, <1>2, <1>3, <1>4 DEF AskedInv, Placed, Keys, FileOf
<1> DEFINE t == Tail(c.ready)
           got == BytesOf(readfd[k[1]], k[2])
<1>r. rest = [c EXCEPT !.ready = t]
  OBVIOUS
<1> HIDE DEF rest, t
<1>6. rest = [held |-> c.held, slots |-> c.slots, order |-> c.order, ready |-> t,
              issued |-> c.issued, waiting |-> c.waiting]
  BY <1>1, <1>r
<1>7. /\ rest.held = c.held /\ rest.slots = c.slots /\ rest.order = c.order /\ rest.ready = t
      /\ rest.issued = c.issued /\ rest.waiting = c.waiting
  BY <1>6
<1>8. CacheType(rest)
  BY <1>1, <1>2, <1>6, <1>7 DEF CacheType, t
<1>h. HeldBy(c) => HeldBy(rest)
  BY <1>7 DEF HeldBy
\* Whoever else waits still does, and where it did.
<1>9. ASSUME asked' = [asked EXCEPT ![h] = None], UNCHANGED readfd, SameQueues(rest, cache')
      PROVE  WaitInv'
  <2>1. \A g \in Handles : g # h => asked'[g] = asked[g]
    BY <1>0, <1>9
  <2>2. /\ \A i \in 1..Len(t) : /\ t[i] \in Handles /\ t[i] # h /\ asked[t[i]] # None
                                /\ i + 1 \in 1..Len(c.ready) /\ t[i] = c.ready[i + 1]
    <3> SUFFICES ASSUME NEW i \in 1..Len(t)
                 PROVE  /\ t[i] \in Handles /\ t[i] # h /\ asked[t[i]] # None
                        /\ i + 1 \in 1..Len(c.ready) /\ t[i] = c.ready[i + 1]
      OBVIOUS
    <3>1. i + 1 \in 1..Len(c.ready) /\ t[i] = c.ready[i + 1] /\ i \in Nat /\ i >= 1
      BY <1>2 DEF t
    <3>2. i + 1 # 1
      BY <3>1
    <3> QED
      BY <1>0, <1>1, <1>2, <3>1, <3>2 DEF WaitInv
  <2>3. \A i, j \in 1..Len(t) : t[i] = t[j] => i = j
    <3> SUFFICES ASSUME NEW i \in 1..Len(t), NEW j \in 1..Len(t), t[i] = t[j] PROVE i = j
      OBVIOUS
    <3>1. i + 1 = j + 1
      BY <1>0, <2>2 DEF WaitInv
    <3> QED
      BY <3>1
  <2>4. ASSUME NEW l \in DOMAIN c.waiting
        PROVE  /\ readfd[l[1]] # 0
               /\ \A i \in 1..Len(c.waiting[l]) :
                    asked'[c.waiting[l][i]] = l /\ \A j \in 1..Len(t) : t[j] # c.waiting[l][i]
               /\ \A i, j \in 1..Len(c.waiting[l]) : c.waiting[l][i] = c.waiting[l][j] => i = j
    <3>1. c.waiting[l] \in Seq(Handles)
      BY <1>1 DEF Maps
    <3>2. /\ readfd[l[1]] # 0
          /\ \A i \in 1..Len(c.waiting[l]) :
               asked[c.waiting[l][i]] = l /\ \A j \in 1..Len(c.ready) : c.ready[j] # c.waiting[l][i]
          /\ \A i, j \in 1..Len(c.waiting[l]) : c.waiting[l][i] = c.waiting[l][j] => i = j
      BY <1>0 DEF WaitInv
    <3>3. \A i \in 1..Len(c.waiting[l]) : c.waiting[l][i] \in Handles /\ c.waiting[l][i] # h
      BY <1>2, <3>1, <3>2
    <3>4. \A i \in 1..Len(c.waiting[l]) : asked'[c.waiting[l][i]] = l
      BY <2>1, <3>2, <3>3
    <3>5. \A i \in 1..Len(c.waiting[l]) : \A j \in 1..Len(t) : t[j] # c.waiting[l][i]
      BY <2>2, <3>2
    <3> QED
      BY <3>2, <3>4, <3>5
  <2>5. ASSUME NEW p \in pool
        PROVE  /\ p.handle \in DOMAIN c.issued /\ c.issued[p.handle] = asked'[p.handle]
               /\ asked'[p.handle] # None
               /\ p.block = asked'[p.handle][2] /\ p.file = readfd[asked'[p.handle][1]]
               /\ \A j \in 1..Len(t) : t[j] # p.handle
               /\ \A l \in DOMAIN c.waiting : \A i \in 1..Len(c.waiting[l]) : c.waiting[l][i] # p.handle
    <3>1. /\ p.handle \in DOMAIN c.issued /\ c.issued[p.handle] = asked[p.handle]
          /\ asked[p.handle] # None
          /\ p.block = asked[p.handle][2] /\ p.file = readfd[asked[p.handle][1]]
          /\ \A j \in 1..Len(c.ready) : c.ready[j] # p.handle
          /\ \A l \in DOMAIN c.waiting : \A i \in 1..Len(c.waiting[l]) : c.waiting[l][i] # p.handle
      BY <1>0 DEF WaitInv
    <3>2. p.handle \in Handles /\ p.handle # h
      BY <1>0, <1>2, <3>1 DEF Reads
    <3> QED
      BY <2>1, <2>2, <3>1, <3>2
  <2>6. cache'.ready = t /\ cache'.waiting = c.waiting /\ cache'.issued = c.issued
    BY <1>7, <1>9 DEF SameQueues
  <2>7. \A i \in 1..Len(t) : asked'[t[i]] # None
    BY <2>1, <2>2
  <2>8. pool' = pool /\ readfd' = readfd
    BY <1>0, <1>9
  <2> QED
    BY <2>3, <2>4, <2>5, <2>6, <2>7, <2>8 DEF WaitInv
<1>10. ASSUME UNCHANGED readfd PROVE DescriptorsKept /\ DiskType' /\ DiskInv'
  BY <1>0, <1>10 DEF DescriptorsKept, TypeInv, DiskType, DiskInv
<1>11. CASE /\ Holds(c, k) /\ Answer(h, c.slots[c.held[k]]) /\ cache' = TouchedSlot(rest, k)
            /\ UNCHANGED <<readfd, fault, aliased>>
  <2>1. asked' = [asked EXCEPT ![h] = None] /\ answer' = [key |-> asked[h], got |-> c.slots[c.held[k]]]
    BY <1>11 DEF Answer
  <2>2. Holds(rest, k)
    BY <1>7, <1>11 DEF Holds
  <2>3. /\ CacheType(cache') /\ SameQueues(rest, cache') /\ DOMAIN cache'.held \subseteq DOMAIN c.held
        /\ HeldBy(rest) => HeldBy(cache')
    BY <1>7, <1>8, <1>11, <2>2, TouchedIs
  <2>4. aliased' = {} => c.slots[c.held[k]] = k[2] /\ HeldBy(cache')
    BY <1>11, <1>h, <2>3 DEF IInv, HeldBy, Holds
  <2>5. WaitInv'
    BY <1>9, <1>11, <2>1, <2>3
  <2> QED
    BY <1>0, <1>2, <1>4, <1>10, <1>11, <2>1, <2>3, <2>4, <2>5, AnswerSide
<1>12. CASE /\ got # None /\ Answer(h, got) /\ cache' = Kept(rest, k, got)
            /\ aliased' = aliased \cup Sharing(rest, k)
            /\ readfd' = [readfd EXCEPT ![k[1]] = FileOf(k[1])] /\ UNCHANGED fault
  <2>1. asked' = [asked EXCEPT ![h] = None] /\ answer' = [key |-> asked[h], got |-> got]
    BY <1>12 DEF Answer
  <2>2. UNCHANGED readfd
    BY <1>0, <1>5, <1>12
  <2>3. got = k[2] /\ got \in Nat
    BY <1>5, <1>12, BytesAre
  <2> HIDE DEF got
  <2>4. /\ CacheType(cache') /\ SameQueues(rest, cache') /\ DOMAIN cache'.held \subseteq DOMAIN c.held \cup {k}
        /\ HeldBy(rest) /\ got = k[2] /\ Sharing(rest, k) = {} => HeldBy(cache')
    BY <1>7, <1>8, <1>12, <2>3, KeptIs
  <2>5. aliased' = {} => HeldBy(cache')
    BY <1>12, <1>h, <2>3, <2>4 DEF IInv
  <2>6. WaitInv'
    BY <1>9, <2>1, <2>2, <2>4
  <2> QED
    BY <1>0, <1>2, <1>4, <1>10, <1>12, <2>1, <2>2, <2>3, <2>4, <2>5, <2>6, AnswerSide
<1>13. CASE /\ got = None /\ fault' = k /\ cache' = rest /\ UNCHANGED <<asked, answer, readfd, aliased>>
  BY <1>0, <1>2, <1>4, <1>7, <1>8, <1>13, FaultSide
<1> QED
  BY <1>4, <1>5, <1>11, <1>12, <1>13 DEF PollReady, h, rest

\* The maps of the cache with some of their entries taken out.
LEMMA RestrictIs ==
  ASSUME NEW m, NEW From, NEW To, Maps(m, From, To), NEW S, S \subseteq DOMAIN m
  PROVE  /\ Maps(Restrict(m, S), From, To) /\ DOMAIN Restrict(m, S) = S
         /\ \A k \in S : Restrict(m, S)[k] = m[k]
  BY DEF Restrict, Maps

\* A read that a thread has finished is answered, and those that joined it are ready;
\* one that met nothing is a fault.
LEMMA PollStoreKeeps ==
  ASSUME IInv, NEW h \in Handles, PollStore(h)
  PROVE  IInv'
<1> DEFINE c == cache
<1>0. /\ TypeInv /\ DiskInv /\ AskedInv /\ WaitInv /\ fault = None /\ c.ready = <<>>
      /\ asked \in [Handles -> Keys \cup {None}] /\ readfd \in [Segs -> Nat] /\ pool \subseteq Reads
      /\ UNCHANGED <<lane, file, names, stored, readfd, blocks>>
  BY DEF IInv, PollStore, TypeInv, ReadType, DiskType
<1>1. /\ c = [held |-> c.held, slots |-> c.slots, order |-> c.order, ready |-> c.ready,
              issued |-> c.issued, waiting |-> c.waiting]
      /\ Maps(c.held, Keys, Places) /\ c.slots \in [Places -> Nat] /\ c.order \in Seq(Places)
      /\ c.ready \in Seq(Handles) /\ Maps(c.issued, Handles, Keys)
      /\ Maps(c.waiting, Keys, Seq(Handles))
  BY <1>0 DEF TypeInv, CacheType
<1>2. PICK p \in {q \in pool : q.handle = h} :
         LET key == cache.issued[p.handle]
             got == BytesOf(p.file, p.block)
             rest == [cache EXCEPT
                        !.issued = Restrict(@, DOMAIN @ \ {p.handle}),
                        !.waiting = Restrict(@, DOMAIN @ \ {key}),
                        !.ready = @ \o Woken(key)]
         IN /\ pool' = pool \ {p}
            /\ IF got = None
                 THEN /\ fault' = key
                      /\ cache' = [cache EXCEPT !.issued = <<>>, !.waiting = <<>>]
                      /\ UNCHANGED <<asked, answer, aliased>>
                 ELSE /\ Answer(p.handle, got)
                      /\ cache' = Kept(rest, key, got)
                      /\ aliased' = aliased \cup Sharing(rest, key)
                      /\ UNCHANGED fault
  BY DEF PollStore
<1>3. /\ p \in pool /\ p.handle = h /\ h \in DOMAIN c.issued /\ c.issued[h] = asked[h] /\ asked[h] # None
      /\ p.block = asked[h][2] /\ p.file = readfd[asked[h][1]]
      /\ \A l \in DOMAIN c.waiting : \A i \in 1..Len(c.waiting[l]) : c.waiting[l][i] # h
  BY <1>0, <1>2 DEF WaitInv
<1>4. PICK k \in Keys : k = asked[h]
  BY <1>0, <1>3
<1>5. Placed(k) /\ k[1] \in Segs /\ readfd[k[1]] # 0
  BY <1>0, <1>3, <1>4 DEF AskedInv, Placed, Keys
<1> DEFINE got == BytesOf(readfd[k[1]], k[2])
           iss == Restrict(c.issued, DOMAIN c.issued \ {h})
           wai == Restrict(c.waiting, DOMAIN c.waiting \ {k})
           wok == c.ready \o Woken(k)
           rest == [c EXCEPT !.issued = iss, !.waiting = wai, !.ready = wok]
<1>6. /\ pool' = pool \ {p}
      /\ got = None => /\ fault' = k /\ cache' = [c EXCEPT !.issued = <<>>, !.waiting = <<>>]
                       /\ UNCHANGED <<asked, answer, aliased>>
      /\ got # None => /\ Answer(h, got) /\ cache' = Kept(rest, k, got)
                       /\ aliased' = aliased \cup Sharing(rest, k) /\ UNCHANGED fault
  BY <1>2, <1>3, <1>4
<1>7. /\ Maps(iss, Handles, Keys) /\ DOMAIN iss = DOMAIN c.issued \ {h}
      /\ \A g \in DOMAIN c.issued \ {h} : iss[g] = c.issued[g]
  BY <1>1, RestrictIs
<1>8. /\ Maps(wai, Keys, Seq(Handles)) /\ DOMAIN wai = DOMAIN c.waiting \ {k}
      /\ \A l \in DOMAIN c.waiting \ {k} : wai[l] = c.waiting[l]
  BY <1>1, RestrictIs
\* Those that joined the read, each once, none of them waiting elsewhere.
<1>9. /\ wok = Woken(k) /\ wok \in Seq(Handles)
      /\ \A i \in 1..Len(wok) : asked[wok[i]] = k /\ wok[i] # h /\ wok[i] \in Handles
      /\ \A i, j \in 1..Len(wok) : wok[i] = wok[j] => i = j
      /\ \A q \in pool : \A i \in 1..Len(wok) : wok[i] # q.handle
  <2>1. CASE k \in DOMAIN c.waiting
    <3>1. Woken(k) = c.waiting[k] /\ c.waiting[k] \in Seq(Handles)
      BY <1>1, <2>1 DEF Woken, Maps
    <3>2. wok = c.waiting[k]
      BY <1>0, <3>1
    <3>3. \A i \in 1..Len(c.waiting[k]) : c.waiting[k][i] \in Handles
      BY <3>1
    <3> QED
      BY <1>0, <1>3, <2>1, <3>1, <3>2, <3>3 DEF WaitInv
  <2>2. CASE k \notin DOMAIN c.waiting
    <3>1. Woken(k) = <<>> /\ wok = <<>>
      BY <1>0, <2>2 DEF Woken
    <3>2. <<>> \in Seq(Handles) /\ Len(<<>>) = 0 /\ 1..0 = {}
      OBVIOUS
    <3> HIDE DEF wok
    <3>3. 1..Len(wok) = {} /\ wok \in Seq(Handles) /\ wok = Woken(k)
      BY <3>1, <3>2
    <3> QED
      BY <3>3
  <2> QED
    BY <2>1, <2>2
<1>s. pool' \subseteq Reads
  BY <1>0, <1>6
<1> HIDE DEF got, iss, wai, wok
<1>e. rest = [c EXCEPT !.issued = iss, !.waiting = wai, !.ready = wok]
  OBVIOUS
<1> HIDE DEF rest
<1>r. rest = [held |-> c.held, slots |-> c.slots, order |-> c.order, ready |-> wok,
              issued |-> iss, waiting |-> wai]
  BY <1>1, <1>e
<1>10. /\ rest.held = c.held /\ rest.slots = c.slots /\ rest.order = c.order /\ rest.ready = wok
       /\ rest.issued = iss /\ rest.waiting = wai
  BY <1>r
<1>11. CacheType(rest)
  BY <1>1, <1>7, <1>8, <1>9, <1>r, <1>10 DEF CacheType
<1>12. CASE got # None
  <2>1. asked' = [asked EXCEPT ![h] = None] /\ answer' = [key |-> asked[h], got |-> got]
    BY <1>6, <1>12 DEF Answer
  <2>2. got = k[2] /\ got \in Nat
    BY <1>5, <1>12, BytesAre DEF got
  <2>3. cache' = Kept(rest, k, got) /\ aliased' = aliased \cup Sharing(rest, k) /\ UNCHANGED fault
    BY <1>6, <1>12
  <2>4. /\ CacheType(cache') /\ SameQueues(rest, cache') /\ DOMAIN cache'.held \subseteq DOMAIN c.held \cup {k}
        /\ HeldBy(rest) /\ got = k[2] /\ Sharing(rest, k) = {} => HeldBy(cache')
    BY <1>10, <1>11, <2>2, <2>3, KeptIs
  <2>5. aliased' = {} => HeldBy(cache')
    <3>1. HeldBy(c) => HeldBy(rest)
      BY <1>10 DEF HeldBy
    <3> QED
      BY <2>2, <2>3, <2>4, <3>1 DEF IInv
  <2>6. \A g \in Handles : g # h => asked'[g] = asked[g]
    BY <1>0, <2>1
  <2>7. cache'.ready = wok /\ cache'.waiting = wai /\ cache'.issued = iss
    BY <1>10, <2>4 DEF SameQueues
  <2>8. \A i \in 1..Len(wok) : asked'[wok[i]] # None
    BY <1>3, <1>4, <1>9, <2>6
  <2>9. ASSUME NEW l \in DOMAIN wai
        PROVE  /\ readfd[l[1]] # 0
               /\ \A i \in 1..Len(wai[l]) :
                    asked'[wai[l][i]] = l /\ \A j \in 1..Len(wok) : wok[j] # wai[l][i]
               /\ \A i, j \in 1..Len(wai[l]) : wai[l][i] = wai[l][j] => i = j
    <3>1. l \in DOMAIN c.waiting /\ l # k /\ wai[l] = c.waiting[l] /\ c.waiting[l] \in Seq(Handles)
      BY <1>1, <1>8 DEF Maps
    <3>2. /\ readfd[l[1]] # 0
          /\ \A i \in 1..Len(wai[l]) : asked[wai[l][i]] = l /\ wai[l][i] \in Handles /\ wai[l][i] # h
          /\ \A i, j \in 1..Len(wai[l]) : wai[l][i] = wai[l][j] => i = j
      BY <1>0, <1>3, <3>1 DEF WaitInv
    <3>3. \A i \in 1..Len(wai[l]) : asked'[wai[l][i]] = l
      BY <2>6, <3>2
    <3>4. \A i \in 1..Len(wai[l]) : \A j \in 1..Len(wok) : wok[j] # wai[l][i]
      BY <1>9, <3>1, <3>2
    <3> QED
      BY <3>2, <3>3, <3>4
  <2>10. ASSUME NEW q \in pool'
         PROVE  /\ q.handle \in DOMAIN iss /\ iss[q.handle] = asked'[q.handle]
                /\ asked'[q.handle] # None
                /\ q.block = asked'[q.handle][2] /\ q.file = readfd[asked'[q.handle][1]]
                /\ \A j \in 1..Len(wok) : wok[j] # q.handle
                /\ \A l \in DOMAIN wai : \A i \in 1..Len(wai[l]) : wai[l][i] # q.handle
    <3>1. q \in pool /\ q # p
      BY <1>6
    <3>2. /\ q.handle \in DOMAIN c.issued /\ c.issued[q.handle] = asked[q.handle]
          /\ asked[q.handle] # None
          /\ q.block = asked[q.handle][2] /\ q.file = readfd[asked[q.handle][1]]
          /\ \A l \in DOMAIN c.waiting : \A i \in 1..Len(c.waiting[l]) : c.waiting[l][i] # q.handle
      BY <1>0, <3>1 DEF WaitInv
    <3>3. q.handle # h
      <4> SUFFICES ASSUME q.handle = h PROVE FALSE
        OBVIOUS
      <4>1. q.handle = p.handle /\ q.file = p.file /\ q.block = p.block
        BY <1>3, <3>2
      <4>2. q \in Reads /\ p \in Reads
        BY <1>0, <1>3, <3>1
      <4>3. q = p
        BY <4>1, <4>2 DEF Reads
      <4> QED
        BY <3>1, <4>3
    <3>4. q.handle \in Handles
      BY <1>0, <3>1 DEF Reads
    <3>5. \A l \in DOMAIN wai : \A i \in 1..Len(wai[l]) : wai[l][i] # q.handle
      BY <1>8, <3>2
    <3> QED
      BY <1>7, <1>9, <2>6, <3>1, <3>2, <3>3, <3>4, <3>5
  <2>11. WaitInv'
    <3>1. readfd' = readfd
      BY <1>0
    <3> QED
      BY <1>9, <2>7, <2>8, <2>9, <2>10, <3>1 DEF WaitInv
  <2>12. DescriptorsKept /\ DiskType' /\ DiskInv'
    BY <1>0 DEF DescriptorsKept, TypeInv, DiskType, DiskInv
  <2> QED
    BY <1>0, <1>4, <1>s, <2>1, <2>2, <2>3, <2>4, <2>5, <2>11, <2>12, AnswerSide
<1>13. CASE got = None
  <2>1. fault' = k /\ cache' = [c EXCEPT !.issued = <<>>, !.waiting = <<>>] /\ UNCHANGED <<asked, answer, aliased>>
    BY <1>6, <1>13
  <2>2. cache' = [held |-> c.held, slots |-> c.slots, order |-> c.order, ready |-> c.ready,
                  issued |-> <<>>, waiting |-> <<>>]
    BY <1>1, <2>1
  <2>3. Maps(<<>>, Handles, Keys) /\ Maps(<<>>, Keys, Seq(Handles))
    BY DEF Maps
  <2>4. /\ cache'.held = c.held /\ cache'.slots = c.slots /\ cache'.order = c.order
        /\ cache'.ready = c.ready /\ cache'.issued = <<>> /\ cache'.waiting = <<>>
    BY <2>2
  <2>5. CacheType(cache')
    BY <1>1, <2>2, <2>3, <2>4 DEF CacheType
  <2> QED
    BY <1>0, <1>4, <1>13, <1>s, <2>1, <2>4, <2>5, FaultSide DEF got
<1> QED
  BY <1>12, <1>13

-----------------------------------------------------------------------------
(* Every step, and the property.                                           *)

LEMMA StutterKeeps ==
  ASSUME IInv, UNCHANGED vars
  PROVE  IInv'
<1>1. /\ UNCHANGED <<lane, file, names, stored, readfd, cache>>
      /\ UNCHANGED <<pool, asked, answer, fault, aliased, blocks>>
  BY DEF vars
<1>2. TypeInv' /\ DiskInv' /\ AskedInv'
  BY <1>1 DEF IInv, TypeInv, DiskType, ReadType, CacheType, DiskInv, AskedInv, Placed
<1>3. (fault = None => WaitInv)'
  BY <1>1 DEF IInv, WaitInv
<1>4. (aliased = {} => HeldBy(cache))' /\ RightBytes' /\ FaultMeansReused'
  BY <1>1 DEF IInv, HeldBy, RightBytes, FaultMeansReused
<1> QED
  BY <1>2, <1>3, <1>4 DEF IInv

LEMMA NextKeeps ==
  ASSUME IInv, [Next]_vars
  PROVE  IInv'
<1>1. CASE UNCHANGED vars
  BY <1>1, StutterKeeps
<1>2. CASE Next
  <2>1. ASSUME NEW s \in Segs, Seal(s) PROVE IInv'
    BY <2>1, SealKeeps
  <2>2. ASSUME NEW s \in Segs, Free(s) PROVE IInv'
    BY <2>2, FreeKeeps
  <2>3. CASE Serve
    BY <2>3, ServeKeeps
  <2>4. ASSUME NEW h \in Handles, NEW key \in stored, Fetch(h, key) PROVE IInv'
    BY <2>4, FetchKeeps
  <2>5. CASE PollReady
    BY <2>5, PollReadyKeeps
  <2>6. ASSUME NEW h \in Handles, PollStore(h) PROVE IInv'
    BY <2>6, PollStoreKeeps
  <2> QED
    BY <1>2, <2>1, <2>2, <2>3, <2>4, <2>5, <2>6 DEF Next
<1> QED
  BY <1>1, <1>2

\* Claims that no two keys share are no more than there are slots.
LEMMA ClaimsFit ==
  ASSUME TypeInv, HeldBy(cache)
  PROVE  /\ Cardinality(DOMAIN cache.held) <= CacheBlocks
         /\ Cardinality({cache.held[k] : k \in DOMAIN cache.held}) = Cardinality(DOMAIN cache.held)
<1> DEFINE D == DOMAIN cache.held
           claim == [k \in D |-> cache.held[k]]
           taken == {cache.held[k] : k \in D}
<1>1. \A k \in D : cache.held[k] \in Places
  BY DEF TypeInv, CacheType, Maps
<1>2. CacheBlocks \in Nat
  BY ReadPathAssumption
<1>3. IsFiniteSet(Places) /\ Cardinality(Places) = CacheBlocks
  <2>1. 0 \in Int /\ CacheBlocks - 1 \in Int
    BY <1>2
  <2>2. IsFiniteSet(Places) /\ Cardinality(Places) =
          (IF 0 > CacheBlocks - 1 THEN 0 ELSE (CacheBlocks - 1) - 0 + 1)
    BY <2>1, FS_Interval DEF Places
  <2> QED
    BY <1>2, <2>2
<1>4. taken \subseteq Places
  BY <1>1
<1>5. IsFiniteSet(taken) /\ Cardinality(taken) <= CacheBlocks
  BY <1>3, <1>4, FS_Subset
<1>6. claim \in Bijection(D, taken)
  <2>1. claim \in [D -> taken]
    OBVIOUS
  <2>2. \A k, l \in D : claim[k] = claim[l] => k = l
    BY DEF HeldBy
  <2>3. \A t \in taken : \E k \in D : claim[k] = t
    OBVIOUS
  <2> HIDE DEF claim, taken, D
  <2> QED
    BY <2>1, <2>2, <2>3 DEF Bijection, Injection, Surjection, IsInjective
<1> HIDE DEF claim
<1>7. ExistsBijection(taken, D)
  <2>1. ExistsBijection(D, taken)
    BY <1>6 DEF ExistsBijection
  <2> QED
    BY <2>1, Fun_ExistsBijSymmetric
<1>8. IsFiniteSet(D) /\ Cardinality(D) = Cardinality(taken)
  <2> HIDE DEF D, taken
  <2> QED
    BY <1>5, <1>7, FS_Bijection
<1> QED
  BY <1>5, <1>8

LEMMA InvReads == IInv => ReadsAreTrue
<1> SUFFICES ASSUME IInv PROVE ReadsAreTrue
  OBVIOUS
<1>1. ClaimsOrdered
  <2> SUFFICES ASSUME aliased = {} PROVE ClaimsOrdered
    BY DEF ClaimsOrdered
  <2>1. HeldBy(cache) /\ TypeInv
    BY DEF IInv
  <2> QED
    BY <2>1, ClaimsFit DEF ClaimsOrdered, HeldBy
<1> QED
  BY <1>1 DEF ReadsAreTrue, IInv

\* Every state the read side and the lane reach has the inductive invariant: names and
\* descriptors are of files of their segment, what was asked for is in one of them, a
\* request waits in one place, and a claim's slot is its own.
\* (cache.rs submit, poll, keep, forget; files.rs file_of, submit_read.)
THEOREM ReadPathInvariant == Spec => []IInv
<1>1. Init => IInv
  BY InitInv
<1>2. IInv /\ [Next]_vars => IInv'
  BY NextKeeps
<1> QED
  BY <1>1, <1>2, PTL DEF Spec

\* For any segments, requests, cache and pool: a read gives its own block's bytes, the
\* claims on the cache's slots are within its size and in the order of eviction, and a
\* fault means that the segment was freed and made again under an open descriptor.
\* (cache.rs take_from_cache, keep, poll; files.rs file_of, read_block.)
THEOREM ReadsTrue == Spec => []ReadsAreTrue
  BY ReadPathInvariant, InvReads, PTL

===============================================================================
