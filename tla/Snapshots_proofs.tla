--------------------------- MODULE Snapshots_proofs ---------------------------
(***************************************************************************)
(* The name "current" always points at a whole dump on the disk, and a dump *)
(* that was counted as written is not lost: proofs for any stream length,  *)
(* queue depth, number of dumps, faults and crashes.                       *)
(***************************************************************************)
EXTENDS Snapshots, FiniteSetTheorems, TLAPS

-----------------------------------------------------------------------------
(* The inductive invariant.                                                *)

Owners == {"log", "snapshot"}
OpNames == {"write", "barrier", "remove", "rename", "dirsync"}
Plain == [owner : {"log"}, op : {"write", "barrier"}]
           \cup [owner : {"snapshot"}, op : OpNames \ {"write"}]
Write == [owner : {"snapshot"}, op : {"write"}, dump : Nat, offset : Nat, chunk : Nat,
          creating : BOOLEAN]
LaneOps == Plain \cup Write
Answers == [owner : Owners, op : OpNames, ok : BOOLEAN]
Phases == {"filling", "sealing", "publishing", "draining"}
Blocks == Nat \X Nat \X Nat
Files == [wrote : SUBSET Blocks, synced : SUBSET Blocks]
Names == [partial : 0..Len(file), current : 0..Len(file)]

VolumeType ==
  /\ file \in Seq(Files)
  /\ \A f \in 1..Len(file) : file[f].synced \subseteq file[f].wrote
  /\ names \in Names /\ dnames \in Names
  /\ owned \in [handle : Nat, dirty : BOOLEAN, created : BOOLEAN]
TypeInv ==
  /\ lane \in Seq(LaneOps)
  /\ done \in Seq(Answers)
  /\ VolumeType
  /\ unsubmitted \in BOOLEAN /\ dumps \in Nat /\ finished \in 0..dumps
  /\ run \in InFlight \cup {None}

\* A file that is new is under neither durable name, and a handle is of the file
\* that has the partial's name.
NamesInv ==
  /\ names.partial # 0 => names.partial \notin {names.current, dnames.current}
  /\ dnames.partial # 0 => dnames.partial # dnames.current
  /\ owned.handle \in {0, names.partial}

\* File f is the whole of dump d, on the disk.
Whole(f, d) == file[f].wrote = Stream(d) /\ file[f].synced = Stream(d)
CurrentInv ==
  \A f \in {names.current, dnames.current} :
    /\ f # 0 => \E d \in 1..dumps : d >= finished /\ Whole(f, d)
    /\ f = 0 => finished = 0

\* The run in flight: which dump, and what it has handed over.
RunInv ==
  run # None =>
    /\ run.dump = dumps /\ dumps > 0
    /\ run.phase = "filling" =>
         /\ run.blocks < Chunks /\ ~run.asked
         /\ run.produced = run.blocks + (IF unsubmitted THEN 1 ELSE 0)
    /\ run.phase = "sealing" => run.blocks = Chunks
    /\ run.phase # "filling" => ~unsubmitted

\* What the dump has in the lane, in order.
Mine == OwnedBy("snapshot", lane)
\* Every buffer it has out is counted, and without a run it has none.
CountInv ==
  /\ run # None => run.outstanding = Len(Mine) + Len(Own)
  /\ run = None => Mine = <<>> /\ Own = <<>>

\* The operations of a dump up to its barrier, in the order it asks for them:
\* the j-th one of them.
AskedLen == 1 + run.blocks + (IF run.asked THEN 1 ELSE 0)
AskedAt(a, j) ==
  IF j = 1 THEN a.op = "remove"
  ELSE IF j <= run.blocks + 1
         THEN /\ a.op = "write" /\ a.dump = run.dump /\ a.offset = j - 1 /\ a.chunk = j - 1
              /\ a.creating = (j = 2)
         ELSE a.op = "barrier"
\* m of them are served: the lane has the others, and the file has the writes
\* among them, synced by the barrier.
Written(k) == {<<run.dump, c, c>> : c \in 1..k}
Served(m) == IF m > run.blocks + 1 THEN run.blocks ELSE m - 1
Progress(m) ==
  /\ Len(Mine) = AskedLen - m
  /\ \A j \in 1..Len(Mine) : AskedAt(Mine[j], m + j)
  /\ m = 1 => names.partial = 0
  /\ m > 1 => /\ names.partial # 0 /\ owned.handle = names.partial
              /\ file[names.partial].wrote = Written(Served(m))
              /\ ~owned.dirty => file[names.partial].synced = file[names.partial].wrote
  /\ m > run.blocks + 1 => file[names.partial].synced = file[names.partial].wrote
  /\ (\E d \in ToSet(Own) : d.op = "barrier") => m > run.blocks + 1
Sound == \A d \in ToSet(Own) : d.ok
ProgressInv ==
  run # None /\ run.phase \in {"filling", "sealing"} =>
    /\ \A j \in 1..Len(Mine) : Mine[j].op \in {"remove", "write", "barrier"}
    /\ \A d \in ToSet(Own) : d.op \in {"remove", "write", "barrier"}
    /\ Sound => \E m \in 0..AskedLen : Progress(m)

\* Behind the barrier's answer there is a whole dump under the partial's name
\* until the rename gives it the other one, and only a removal follows.
Ready == names.partial # 0 => Whole(names.partial, dumps)
PublishInv ==
  /\ \A j \in 1..Len(Mine) :
       Mine[j].op \in {"rename", "dirsync"} =>
         /\ j = 1
         /\ \A i \in 2..Len(Mine) : Mine[i].op = "remove"
         /\ \A d \in ToSet(Own) : d.op # "dirsync"
  /\ \A j \in 1..Len(Mine) : Mine[j].op = "rename" => Ready
  /\ \A j \in 1..Len(Mine) :
       Mine[j].op = "dirsync" => names.current # 0 /\ Whole(names.current, dumps)
  /\ \A d \in ToSet(Own) : d.op = "dirsync" /\ d.ok =>
       \A f \in {names.current, dnames.current} : f # 0 /\ Whole(f, dumps)
  /\ run # None /\ run.phase = "publishing" /\ ~run.asked => Mine = <<>> /\ Own = <<>> /\ Ready

IInv ==
  /\ TypeInv /\ NamesInv /\ CurrentInv /\ RunInv /\ CountInv /\ ProgressInv /\ PublishInv

-----------------------------------------------------------------------------
(* What the dispatch by owner keeps.                                       *)

KeepTurn(c, i, kept) ==
  IF c.s[i].owner = c.who THEN Append(kept, c.s[i]) ELSE kept
K == INSTANCE FoldTheorems WITH Turn <- KeepTurn, Pick <- Max

\* f is what is kept of every prefix of s.
Kept(who, s, f) ==
  /\ f[0] = <<>>
  /\ \A i \in 1..Len(s) : f[i] = IF s[i].owner = who THEN Append(f[i - 1], s[i]) ELSE f[i - 1]

LEMMA KeptExists ==
  ASSUME NEW S, NEW s \in Seq(S), NEW who
  PROVE  \E f : Kept(who, s, f) /\ OwnedBy(who, s) = f[Len(s)]
<1> DEFINE c == [who |-> who, s |-> s]
           Body(f, i) == IF i = 0 THEN <<>>
                         ELSE IF s[i].owner = who THEN Append(f[i - 1], s[i]) ELSE f[i - 1]
           kept == CHOOSE f : f = [i \in 0..Len(s) |-> Body(f, i)]
<1>1. PICK g : K!Recurs(Len(s), c, <<>>, g)
  BY Len(s) \in Nat, K!RecursionExists
<1>2. g = [i \in 0..Len(s) |-> Body(g, i)]
  BY <1>1 DEF K!Recurs, KeepTurn
<1>3. OwnedBy(who, s) = kept[Len(s)]
  BY DEF OwnedBy
<1>4. kept = [i \in 0..Len(s) |-> Body(kept, i)]
  <2> HIDE DEF Body
  <2> QED
    BY <1>2
<1> HIDE DEF kept
<1>5. Kept(who, s, kept)
  <2>1. kept[0] = <<>>
    BY <1>4, 0 \in 0..Len(s)
  <2>2. \A i \in 1..Len(s) : i \in 0..Len(s) /\ i # 0
    OBVIOUS
  <2> QED
    BY <1>4, <2>1, <2>2 DEF Kept
<1> QED
  BY <1>3, <1>5

\* What is kept is of s, and of that owner.
LEMMA KeptType ==
  ASSUME NEW S, NEW s \in Seq(S), NEW who
  PROVE  /\ OwnedBy(who, s) \in Seq(S)
         /\ \A j \in 1..Len(OwnedBy(who, s)) : OwnedBy(who, s)[j].owner = who
<1>1. PICK f : Kept(who, s, f) /\ OwnedBy(who, s) = f[Len(s)]
  BY KeptExists
<1> DEFINE P(i) == f[i] \in Seq(S) /\ \A j \in 1..Len(f[i]) : f[i][j].owner = who
           G == {i \in Nat : i <= Len(s) => P(i)}
<1>2. 0 \in G
  <2>1. f[0] = <<>>
    BY <1>1 DEF Kept
  <2>2. P(0)
    BY <2>1
  <2> QED
    BY <2>2
<1>3. ASSUME NEW i \in Nat, i \in G PROVE i + 1 \in G
  <2> SUFFICES ASSUME i + 1 <= Len(s) PROVE P(i + 1)
    OBVIOUS
  <2>1. i + 1 \in 1..Len(s) /\ P(i) /\ s[i + 1] \in S
    BY <1>3
  <2>2. f[i + 1] = IF s[i + 1].owner = who THEN Append(f[i], s[i + 1]) ELSE f[i]
    BY <1>1, <2>1, (i + 1) - 1 = i DEF Kept
  <2> QED
    BY <2>1, <2>2
<1> HIDE DEF G
<1>4. Nat \subseteq G
  BY <1>2, <1>3, K!SetInduction
<1> QED
  BY <1>1, <1>4, Len(s) \in Nat DEF G

\* One more element at the end.
LEMMA KeptAppend ==
  ASSUME NEW S, NEW s \in Seq(S), NEW x \in S, NEW who
  PROVE  OwnedBy(who, Append(s, x)) =
           IF x.owner = who THEN Append(OwnedBy(who, s), x) ELSE OwnedBy(who, s)
<1> DEFINE t == Append(s, x)
<1>0. t \in Seq(S) /\ Len(t) = Len(s) + 1 /\ t[Len(s) + 1] = x
        /\ \A i \in 1..Len(s) : t[i] = s[i]
  OBVIOUS
<1> HIDE DEF t
<1>1. PICK f : Kept(who, s, f) /\ OwnedBy(who, s) = f[Len(s)]
  BY KeptExists
<1>2. PICK g : Kept(who, t, g) /\ OwnedBy(who, t) = g[Len(t)]
  BY <1>0, KeptExists
<1> DEFINE G == {i \in Nat : i <= Len(s) => f[i] = g[i]}
<1>3. 0 \in G
  BY <1>1, <1>2 DEF Kept
<1>4. ASSUME NEW i \in Nat, i \in G PROVE i + 1 \in G
  <2> SUFFICES ASSUME i + 1 <= Len(s) PROVE f[i + 1] = g[i + 1]
    OBVIOUS
  <2>1. i + 1 \in 1..Len(s) /\ i + 1 \in 1..Len(t) /\ f[i] = g[i] /\ (i + 1) - 1 = i
    BY <1>0, <1>4
  <2> QED
    BY <1>0, <1>1, <1>2, <2>1, SMTT(30) DEF Kept
<1> HIDE DEF G
<1>5. Nat \subseteq G
  BY <1>3, <1>4, K!SetInduction
<1>6. f[Len(s)] = g[Len(s)]
  BY <1>5, Len(s) \in Nat DEF G
<1>7. g[Len(s) + 1] = IF x.owner = who THEN Append(g[Len(s)], x) ELSE g[Len(s)]
  BY <1>0, <1>2, (Len(s) + 1) - 1 = Len(s), Len(s) + 1 \in 1..Len(t) DEF Kept
<1> QED
  BY <1>0, <1>1, <1>2, <1>6, <1>7 DEF t

LEMMA KeptEmpty == \A who : OwnedBy(who, <<>>) = <<>>
<1> TAKE who
<1>1. <<>> \in Seq({}) /\ Len(<<>>) = 0
  OBVIOUS
<1>2. PICK f : Kept(who, <<>>, f) /\ OwnedBy(who, <<>>) = f[0]
  BY <1>1, KeptExists
<1> QED
  BY <1>2 DEF Kept

\* The prefixes of a sequence, one element at a time.
LEMMA PrefixSteps ==
  ASSUME NEW S, NEW t \in Seq(S)
  PROVE  /\ SubSeq(t, 1, 0) = <<>> /\ SubSeq(t, 1, Len(t)) = t
         /\ \A i \in 0..Len(t) : SubSeq(t, 1, i) \in Seq(S)
         /\ \A i \in Nat : i + 1 <= Len(t) =>
              /\ t[i + 1] \in S
              /\ SubSeq(t, 1, i + 1) = Append(SubSeq(t, 1, i), t[i + 1])
<1>1. SubSeq(t, 1, 0) = <<>> /\ SubSeq(t, 1, Len(t)) = t
  OBVIOUS
<1>2. \A i \in 0..Len(t) : SubSeq(t, 1, i) \in Seq(S)
  OBVIOUS
<1>3. ASSUME NEW i \in Nat, i + 1 <= Len(t)
      PROVE  t[i + 1] \in S /\ SubSeq(t, 1, i + 1) = Append(SubSeq(t, 1, i), t[i + 1])
  <2>1. i + 1 \in 1..Len(t) /\ i \in 0..Len(t)
    BY <1>3
  <2> QED
    BY <2>1
<1> QED
  BY <1>1, <1>2, <1>3

\* One more element in front.
LEMMA KeptCons ==
  ASSUME NEW S, NEW t \in Seq(S), NEW x \in S, NEW who
  PROVE  OwnedBy(who, <<x>> \o t) =
           IF x.owner = who THEN <<x>> \o OwnedBy(who, t) ELSE OwnedBy(who, t)
<1> DEFINE pre == IF x.owner = who THEN <<x>> ELSE <<>>
           u(i) == SubSeq(t, 1, i)
           G == {i \in Nat : i <= Len(t) =>
                   OwnedBy(who, <<x>> \o u(i)) = pre \o OwnedBy(who, u(i))}
<1>1. 0 \in G
  <2>1. <<x>> \o <<>> = Append(<<>>, x) /\ pre \o <<>> = pre /\ <<>> \in Seq(S)
    OBVIOUS
  <2>2. OwnedBy(who, Append(<<>>, x)) = pre
    <3> DEFINE e == <<>>
    <3>1. e \in Seq(S) /\ OwnedBy(who, e) = <<>>
      BY KeptEmpty
    <3> HIDE DEF e
    <3>2. OwnedBy(who, Append(e, x)) =
            IF x.owner = who THEN Append(OwnedBy(who, e), x) ELSE OwnedBy(who, e)
      BY <3>1, KeptAppend
    <3>3. Append(<<>>, x) = <<x>>
      OBVIOUS
    <3> QED
      BY <3>1, <3>2, <3>3 DEF e
  <2> QED
    BY <2>1, <2>2, KeptEmpty, PrefixSteps
<1>2. ASSUME NEW i \in Nat, i \in G PROVE i + 1 \in G
  <2> SUFFICES ASSUME i + 1 <= Len(t)
               PROVE  OwnedBy(who, <<x>> \o u(i + 1)) = pre \o OwnedBy(who, u(i + 1))
    OBVIOUS
  <2>1. /\ u(i) \in Seq(S) /\ t[i + 1] \in S /\ u(i + 1) = Append(u(i), t[i + 1])
        /\ OwnedBy(who, <<x>> \o u(i)) = pre \o OwnedBy(who, u(i))
    BY <1>2, PrefixSteps, i \in 0..Len(t)
  <2> DEFINE y == t[i + 1]
             v == u(i)
  <2>2. v \in Seq(S) /\ y \in S /\ u(i + 1) = Append(v, y)
        /\ OwnedBy(who, <<x>> \o v) = pre \o OwnedBy(who, v)
    BY <2>1
  <2> HIDE DEF y, v
  <2>3. <<x>> \o Append(v, y) = Append(<<x>> \o v, y) /\ <<x>> \o v \in Seq(S)
    BY <2>2
  <2>4. OwnedBy(who, v) \in Seq(S) /\ pre \in Seq(S)
    BY <2>2, KeptType
  <2>5. OwnedBy(who, Append(<<x>> \o v, y)) =
          IF y.owner = who THEN Append(pre \o OwnedBy(who, v), y) ELSE pre \o OwnedBy(who, v)
    <3> DEFINE w == <<x>> \o v
    <3>1. w \in Seq(S) /\ OwnedBy(who, w) = pre \o OwnedBy(who, v)
      BY <2>2, <2>3
    <3> HIDE DEF w, pre
    <3>2. OwnedBy(who, Append(w, y)) =
            IF y.owner = who THEN Append(OwnedBy(who, w), y) ELSE OwnedBy(who, w)
      BY <2>2, <3>1, KeptAppend
    <3> QED
      BY <3>1, <3>2 DEF w
  <2>6. OwnedBy(who, Append(v, y)) =
          IF y.owner = who THEN Append(OwnedBy(who, v), y) ELSE OwnedBy(who, v)
    BY <2>2, KeptAppend
  <2>7. pre \o Append(OwnedBy(who, v), y) = Append(pre \o OwnedBy(who, v), y)
    BY <2>2, <2>4, SMTT(30)
  <2> QED
    BY <2>2, <2>3, <2>5, <2>6, <2>7
<1> HIDE DEF G
<1>3. Nat \subseteq G
  BY <1>1, <1>2, K!SetInduction
<1>4. OwnedBy(who, <<x>> \o t) = pre \o OwnedBy(who, t)
  <2>1. Len(t) \in G /\ Len(t) \in Nat
    BY <1>3
  <2>2. OwnedBy(who, <<x>> \o u(Len(t))) = pre \o OwnedBy(who, u(Len(t)))
    BY <2>1 DEF G
  <2> QED
    BY <2>2, PrefixSteps
<1>5. OwnedBy(who, t) \in Seq(S) /\ <<>> \o OwnedBy(who, t) = OwnedBy(who, t)
  BY KeptType
<1> QED
  BY <1>4, <1>5

LEMMA KeptTail ==
  ASSUME NEW S, NEW s \in Seq(S), s # <<>>, NEW who
  PROVE  OwnedBy(who, s) = IF Head(s).owner = who THEN <<Head(s)>> \o OwnedBy(who, Tail(s))
                           ELSE OwnedBy(who, Tail(s))
<1> DEFINE h == Head(s)
           w == Tail(s)
<1>1. s = <<h>> \o w /\ w \in Seq(S) /\ h \in S
  OBVIOUS
<1> HIDE DEF h, w
<1>2. OwnedBy(who, <<h>> \o w) = IF h.owner = who THEN <<h>> \o OwnedBy(who, w)
                                 ELSE OwnedBy(who, w)
  BY <1>1, KeptCons
<1> QED
  BY <1>1, <1>2 DEF h, w

\* What one owner adds is all kept.
LEMMA KeptConcat ==
  ASSUME NEW S, NEW s \in Seq(S), NEW t \in Seq(S), NEW who,
         \A i \in 1..Len(t) : t[i].owner = who
  PROVE  OwnedBy(who, s \o t) = OwnedBy(who, s) \o t
<1> DEFINE u(i) == SubSeq(t, 1, i)
           G == {i \in Nat : i <= Len(t) =>
                   OwnedBy(who, s \o u(i)) = OwnedBy(who, s) \o u(i)}
<1>0. OwnedBy(who, s) \in Seq(S)
  BY KeptType
<1>1. 0 \in G
  <2>1. s \o <<>> = s /\ OwnedBy(who, s) \o <<>> = OwnedBy(who, s)
    BY <1>0
  <2> QED
    BY <2>1, PrefixSteps
<1>2. ASSUME NEW i \in Nat, i \in G PROVE i + 1 \in G
  <2> SUFFICES ASSUME i + 1 <= Len(t)
               PROVE  OwnedBy(who, s \o u(i + 1)) = OwnedBy(who, s) \o u(i + 1)
    OBVIOUS
  <2> DEFINE y == t[i + 1]
             v == u(i)
  <2>2. v \in Seq(S) /\ y \in S /\ y.owner = who /\ u(i + 1) = Append(v, y)
        /\ OwnedBy(who, s \o v) = OwnedBy(who, s) \o v
    BY <1>2, PrefixSteps, i \in 0..Len(t), i + 1 \in 1..Len(t)
  <2> HIDE DEF y, v
  <2>3. s \o Append(v, y) = Append(s \o v, y) /\ s \o v \in Seq(S)
    BY <2>2, SMTT(30)
  <2>5. OwnedBy(who, Append(s \o v, y)) = Append(OwnedBy(who, s) \o v, y)
    <3> DEFINE w == s \o v
    <3>1. w \in Seq(S) /\ OwnedBy(who, w) = OwnedBy(who, s) \o v
      BY <2>2, <2>3
    <3> HIDE DEF w
    <3>2. OwnedBy(who, Append(w, y)) = Append(OwnedBy(who, w), y)
      BY <2>2, <3>1, KeptAppend
    <3> QED
      BY <3>1, <3>2 DEF w
  <2>7. OwnedBy(who, s) \o Append(v, y) = Append(OwnedBy(who, s) \o v, y)
    BY <1>0, <2>2
  <2> QED
    BY <2>2, <2>3, <2>5, <2>7
<1> HIDE DEF G
<1>3. Nat \subseteq G
  BY <1>1, <1>2, K!SetInduction
<1>4. Len(t) \in G /\ Len(t) \in Nat
  BY <1>3
<1>5. OwnedBy(who, s \o u(Len(t))) = OwnedBy(who, s) \o u(Len(t))
  BY <1>4 DEF G
<1> QED
  BY <1>5, PrefixSteps

\* Nothing is kept for an owner that has nothing there.
LEMMA KeptNone ==
  ASSUME NEW S, NEW s \in Seq(S), NEW who, \A i \in 1..Len(s) : s[i].owner # who
  PROVE  OwnedBy(who, s) = <<>>
<1>1. PICK f : Kept(who, s, f) /\ OwnedBy(who, s) = f[Len(s)]
  BY KeptExists
<1> DEFINE G == {i \in Nat : i <= Len(s) => f[i] = <<>>}
<1>2. 0 \in G
  BY <1>1 DEF Kept
<1>3. ASSUME NEW i \in Nat, i \in G PROVE i + 1 \in G
  <2> SUFFICES ASSUME i + 1 <= Len(s) PROVE f[i + 1] = <<>>
    OBVIOUS
  <2>1. i + 1 \in 1..Len(s) /\ f[i] = <<>> /\ (i + 1) - 1 = i
    BY <1>3
  <2> QED
    BY <1>1, <2>1 DEF Kept
<1> HIDE DEF G
<1>4. Nat \subseteq G
  BY <1>2, <1>3, K!SetInduction
<1> QED
  BY <1>1, <1>4, Len(s) \in Nat DEF G

-----------------------------------------------------------------------------
(* The lane's operations on the volume.                                    *)

\* The files that have the current name, now or on the disk, keep their bytes.
CurrentKept ==
  /\ names'.current = names.current
  /\ dnames'.current \in {names.current, dnames.current}
  /\ \A f \in {names.current, dnames.current} \ {0} : file'[f] = file[f]
\* No write: the partial's file keeps its bytes, and is at most synced.
PartialKept ==
  /\ names'.partial \in {0, names.partial}
  /\ names.partial # 0 =>
       /\ file'[names.partial].wrote = file[names.partial].wrote
       /\ file'[names.partial].synced \in
            {file[names.partial].synced, file[names.partial].wrote}

LEMMA OtherVolume ==
  ASSUME VolumeType, NamesInv, LaneOther
  PROVE  VolumeType' /\ NamesInv' /\ CurrentKept /\ PartialKept
BY DEF VolumeType, NamesInv, LaneOther, CurrentKept, PartialKept, Names

LEMMA SeqUpdate ==
  ASSUME NEW S, NEW s \in Seq(S), NEW i \in 1..Len(s), NEW x \in S
  PROVE  /\ [s EXCEPT ![i] = x] \in Seq(S)
         /\ Len([s EXCEPT ![i] = x]) = Len(s)
         /\ [s EXCEPT ![i] = x][i] = x
         /\ \A j \in 1..Len(s) : j # i => [s EXCEPT ![i] = x][j] = s[j]
OBVIOUS

LEMMA FileUpdates ==
  ASSUME NEW f \in Files, NEW b \in Blocks
  PROVE  /\ Synced(f) \in Files /\ Synced(f).wrote = f.wrote /\ Synced(f).synced = f.wrote
         /\ [f EXCEPT !.wrote = f.wrote \cup {b}] \in Files
         /\ [f EXCEPT !.wrote = f.wrote \cup {b}].wrote = f.wrote \cup {b}
         /\ [f EXCEPT !.wrote = f.wrote \cup {b}].synced = f.synced
BY DEF Files, Synced

LEMMA SyncVolume ==
  ASSUME VolumeType, NamesInv, owned.handle # 0,
         file' = [file EXCEPT ![owned.handle] = Synced(@)],
         names' = names, dnames' \in {names, dnames},
         owned' \in [handle : {owned.handle}, dirty : BOOLEAN, created : BOOLEAN]
  PROVE  /\ VolumeType' /\ NamesInv' /\ CurrentKept /\ PartialKept
         /\ file'[names.partial].synced = file[names.partial].wrote
<1> DEFINE p == owned.handle
           now == Synced(file[p])
<1>1. p = names.partial /\ p \in 1..Len(file)
  BY DEF VolumeType, NamesInv, Names
<1>2. file \in Seq(Files) /\ file[p] \in Files
  BY <1>1 DEF VolumeType
<1>3. now \in Files /\ now.wrote = file[p].wrote /\ now.synced = file[p].wrote
  <2>1. <<0, 0, 0>> \in Blocks
    BY DEF Blocks
  <2> QED
    BY <1>2, <2>1, FileUpdates
<1> HIDE DEF p, now
<1>4. /\ file' \in Seq(Files) /\ Len(file') = Len(file) /\ file'[p] = now
      /\ \A f \in 1..Len(file) : f # p => file'[f] = file[f]
  BY <1>1, <1>2, <1>3, SeqUpdate DEF p, now
<1>5. VolumeType'
  <2>1. \A f \in 1..Len(file) : file'[f].synced \subseteq file'[f].wrote
    BY <1>1, <1>3, <1>4 DEF VolumeType
  <2>2. owned' \in [handle : Nat, dirty : BOOLEAN, created : BOOLEAN]
    BY DEF VolumeType
  <2>3. names' \in Names' /\ dnames' \in Names'
    BY <1>4 DEF VolumeType, Names
  <2> QED
    BY <1>4, <2>1, <2>2, <2>3 DEF VolumeType
<1>6. NamesInv'
  BY DEF NamesInv, VolumeType, Names
<1>7. CurrentKept
  BY <1>1, <1>4 DEF CurrentKept, NamesInv, VolumeType, Names
<1>8. PartialKept /\ file'[names.partial].synced = file[names.partial].wrote
  BY <1>1, <1>3, <1>4 DEF PartialKept
<1> QED
  BY <1>5, <1>6, <1>7, <1>8

LEMMA BarrierVolume ==
  ASSUME VolumeType, NamesInv, LaneBarrier
  PROVE  VolumeType' /\ NamesInv' /\ CurrentKept /\ PartialKept
<1>1. /\ names' = names /\ dnames' \in {names, dnames}
      /\ owned' \in [handle : {owned.handle}, dirty : BOOLEAN, created : BOOLEAN]
  BY DEF LaneBarrier, VolumeType
<1>2. CASE owned.dirty /\ owned.handle # 0
  BY <1>1, <1>2, SyncVolume DEF LaneBarrier
<1>3. CASE ~(owned.dirty /\ owned.handle # 0)
  <2>1. file' = file
    BY <1>3 DEF LaneBarrier
  <2> QED
    BY <1>1, <2>1 DEF VolumeType, NamesInv, CurrentKept, PartialKept, Names
<1> QED
  BY <1>2, <1>3

LEMMA RemoveVolume ==
  ASSUME VolumeType, NamesInv, owned' = [owned EXCEPT !.handle = 0],
         names' \in {names, [names EXCEPT !.partial = 0]}, file' = file, dnames' = dnames
  PROVE  VolumeType' /\ NamesInv' /\ CurrentKept /\ PartialKept
<1>1. VolumeType'
  BY DEF VolumeType, Names
<1>2. NamesInv' /\ CurrentKept /\ PartialKept
  BY DEF VolumeType, Names, NamesInv, CurrentKept, PartialKept
<1> QED
  BY <1>1, <1>2

\* A new file, under the partial's name.
LEMMA CreateVolume ==
  ASSUME VolumeType, NamesInv, NEW f \in Files,
         f.synced \subseteq f.wrote, file' = Append(file, f),
         names' = [names EXCEPT !.partial = Len(file) + 1], dnames' = dnames,
         owned' = [owned EXCEPT !.handle = Len(file) + 1, !.dirty = TRUE, !.created = TRUE]
  PROVE  VolumeType' /\ NamesInv' /\ CurrentKept
<1>1. /\ Len(file') = Len(file) + 1 /\ file'[Len(file) + 1] = f
      /\ \A g \in 1..Len(file) : file'[g] = file[g]
      /\ file' \in Seq(Files)
  BY DEF VolumeType
<1>2. VolumeType'
  <2>1. names' \in Names' /\ dnames' \in Names'
    BY <1>1 DEF VolumeType, Names
  <2>2. owned' \in [handle : Nat, dirty : BOOLEAN, created : BOOLEAN]
    <3>1. Len(file) + 1 \in Nat
      BY DEF VolumeType
    <3> DEFINE n == Len(file) + 1
    <3> HIDE DEF n
    <3>2. [owned EXCEPT !.handle = n, !.dirty = TRUE, !.created = TRUE]
            \in [handle : Nat, dirty : BOOLEAN, created : BOOLEAN]
      BY <3>1 DEF VolumeType, n
    <3> QED
      BY <3>2 DEF n
  <2>3. \A g \in 1..Len(file') : file'[g].synced \subseteq file'[g].wrote
    BY <1>1 DEF VolumeType
  <2> QED
    BY <1>1, <2>1, <2>2, <2>3 DEF VolumeType
<1>3. NamesInv'
  BY DEF NamesInv, VolumeType, Names
<1>4. CurrentKept
  BY <1>1 DEF CurrentKept, VolumeType, Names
<1> QED
  BY <1>2, <1>3, <1>4

\* A block into the partial's file.
LEMMA ExtendVolume ==
  ASSUME VolumeType, NamesInv, NEW b \in Blocks, names.partial # 0,
         file' = [file EXCEPT ![names.partial] = [file[names.partial] EXCEPT
                                          !.wrote = file[names.partial].wrote \cup {b}]],
         names' = names, dnames' = dnames,
         owned' = [owned EXCEPT !.handle = names.partial, !.dirty = TRUE]
  PROVE  /\ VolumeType' /\ NamesInv' /\ CurrentKept
         /\ file'[names.partial].wrote = file[names.partial].wrote \cup {b}
<1> DEFINE p == names.partial
           now == [file[p] EXCEPT !.wrote = file[p].wrote \cup {b}]
<1>1. p \in 1..Len(file) /\ p \in Nat /\ p = names.partial
  BY DEF VolumeType, Names
<1>2. file \in Seq(Files) /\ file[p] \in Files
  BY <1>1 DEF VolumeType
<1>3. now \in Files /\ now.wrote = file[p].wrote \cup {b} /\ now.synced = file[p].synced
  BY <1>2, FileUpdates
<1>9. file' = [file EXCEPT ![p] = now]
  OBVIOUS
<1> HIDE DEF p, now
<1>4. /\ file' \in Seq(Files) /\ Len(file') = Len(file) /\ file'[p] = now
      /\ \A f \in 1..Len(file) : f # p => file'[f] = file[f]
  BY <1>1, <1>2, <1>3, <1>9, SeqUpdate
<1>5. VolumeType'
  <2>1. \A f \in 1..Len(file) : file'[f].synced \subseteq file'[f].wrote
    BY <1>1, <1>3, <1>4 DEF VolumeType
  <2>2. owned' \in [handle : Nat, dirty : BOOLEAN, created : BOOLEAN]
    BY <1>1 DEF VolumeType
  <2>3. names' \in Names' /\ dnames' \in Names'
    BY <1>4 DEF VolumeType, Names
  <2> QED
    BY <1>4, <2>1, <2>2, <2>3 DEF VolumeType
<1>6. NamesInv'
  BY <1>1 DEF NamesInv, VolumeType, Names
<1>7. CurrentKept
  BY <1>1, <1>4 DEF CurrentKept, NamesInv, VolumeType, Names
<1>8. /\ file'[names.partial].wrote = file[names.partial].wrote \cup {b}
  BY <1>1, <1>3, <1>4
<1> QED
  BY <1>5, <1>6, <1>7, <1>8

LEMMA CurrentCarries ==
  ASSUME VolumeType, CurrentInv, CurrentKept, dumps' = dumps, finished' = finished
  PROVE  CurrentInv'
<1> SUFFICES ASSUME NEW f \in {names'.current, dnames'.current}
             PROVE  /\ f # 0 => \E d \in 1..dumps : d >= finished /\ Whole(f, d)'
                    /\ f = 0 => finished = 0
  BY DEF CurrentInv, Whole
<1>1. f \in {names.current, dnames.current}
  BY DEF CurrentKept
<1>2. f # 0 => file'[f] = file[f]
  BY <1>1 DEF CurrentKept
<1> QED
  BY <1>1, <1>2 DEF CurrentInv, Whole, Stream

\* LaneFiles::write: the partial's file, new or opened by name, has the block.
LEMMA WriteVolume ==
  ASSUME VolumeType, NamesInv, NEW a \in Write, LaneWrite(a)
  PROVE  /\ VolumeType' /\ NamesInv' /\ CurrentKept
         /\ names'.partial # 0 /\ owned'.handle = names'.partial /\ owned'.dirty
         /\ a.creating => file'[names'.partial].wrote = {<<a.dump, a.offset, a.chunk>>}
         /\ ~a.creating => /\ names.partial # 0
                           /\ file'[names'.partial].wrote =
                                file[names.partial].wrote \cup {<<a.dump, a.offset, a.chunk>>}
<1> DEFINE b == <<a.dump, a.offset, a.chunk>>
<1>0. b \in Blocks /\ a.creating \in BOOLEAN
  BY DEF Write, Blocks
<1>1. CASE a.creating
  <2> DEFINE f == [wrote |-> {b}, synced |-> {}]
  <2>1. f \in Files /\ f.synced \subseteq f.wrote
    BY <1>0 DEF Files
  <2>2. /\ file' = Append(file, f) /\ dnames' = dnames
        /\ names' = [names EXCEPT !.partial = Len(file) + 1]
        /\ owned' = [owned EXCEPT !.handle = Len(file) + 1, !.dirty = TRUE, !.created = TRUE]
    <3> DEFINE e == [wrote |-> {}, synced |-> {}]
               now == [e EXCEPT !.wrote = e.wrote \cup {b}]
    <3>1. now = f
      OBVIOUS
    <3>2. file' = Append(file, now)
      BY <1>1 DEF LaneWrite
    <3>3. Opened(a) /\ dnames' = dnames /\ Target(a) = Len(file) + 1
      BY <1>1 DEF LaneWrite, Target
    <3> HIDE DEF f, now
    <3> QED
      BY <3>1, <3>2, <3>3 DEF Opened
  <2> HIDE DEF f
  <2>3. VolumeType' /\ NamesInv' /\ CurrentKept
    BY <2>1, <2>2, CreateVolume
  <2>4. Len(file) \in Nat /\ names'.partial = Len(file) + 1 /\ owned'.handle = Len(file) + 1
          /\ owned'.dirty
    BY <2>2 DEF VolumeType, Names
  <2>5. file'[Len(file) + 1] = f
    BY <2>2 DEF VolumeType
  <2>6. file'[names'.partial].wrote = {b}
    BY <2>4, <2>5 DEF f
  <2> QED
    BY <1>1, <2>3, <2>4, <2>6
<1>2. CASE ~a.creating
  <2>1. Target(a) = names.partial /\ names.partial # 0
    BY <1>2 DEF LaneWrite, CanWrite, Target, NamesInv
  <2>2. /\ file' = [file EXCEPT ![names.partial] =
                     [file[names.partial] EXCEPT !.wrote = file[names.partial].wrote \cup {b}]]
        /\ names' = names /\ dnames' = dnames
        /\ owned' = [owned EXCEPT !.handle = names.partial, !.dirty = TRUE]
    BY <1>2, <2>1 DEF LaneWrite
  <2> HIDE DEF b
  <2>3. /\ VolumeType' /\ NamesInv' /\ CurrentKept
        /\ file'[names.partial].wrote = file[names.partial].wrote \cup {b}
    BY <1>0, <2>1, <2>2, ExtendVolume
  <2>4. owned'.handle = names.partial /\ owned'.dirty
    BY <2>2 DEF VolumeType
  <2> QED
    BY <1>2, <2>1, <2>2, <2>3, <2>4 DEF b
<1> QED
  BY <1>0, <1>1, <1>2

-----------------------------------------------------------------------------
(* The dump's part of the lane and of the answers.                         *)

LEMMA MineType ==
  ASSUME TypeInv
  PROVE  /\ Mine \in Seq(LaneOps) /\ Own \in Seq(Answers)
         /\ \A j \in 1..Len(Mine) : Mine[j].owner = "snapshot"
BY KeptType DEF TypeInv, Mine, Own

LEMMA MineServed ==
  ASSUME TypeInv, lane # <<>>, lane' = Tail(lane)
  PROVE  /\ lane' \in Seq(LaneOps) /\ Head(lane) \in LaneOps
         /\ Head(lane).owner # "snapshot" => Mine' = Mine
         /\ Head(lane).owner = "snapshot" =>
              /\ Mine # <<>> /\ Mine[1] = Head(lane) /\ Len(Mine) \in Nat \ {0}
              /\ Len(Mine') = Len(Mine) - 1
              /\ \A j \in 1..Len(Mine') : Mine'[j] = Mine[j + 1]
<1>1. lane \in Seq(LaneOps) /\ lane' \in Seq(LaneOps) /\ Head(lane) \in LaneOps
  BY DEF TypeInv
<1> DEFINE h == Head(lane)
           w == Tail(lane)
           o == OwnedBy("snapshot", w)
<1>2. Mine = IF h.owner = "snapshot" THEN <<h>> \o o ELSE o
  BY <1>1, KeptTail DEF Mine
<1>3. Mine' = o /\ o \in Seq(LaneOps)
  BY <1>1, KeptType DEF Mine
<1> HIDE DEF h, o
<1>4. CASE h.owner = "snapshot"
  BY <1>1, <1>2, <1>3, <1>4 DEF h
<1> QED
  BY <1>1, <1>2, <1>3, <1>4 DEF h

LEMMA OwnAnswered ==
  ASSUME TypeInv, NEW a \in LaneOps, NEW ok \in BOOLEAN, Answered(a, ok)
  PROVE  /\ done' \in Seq(Answers)
         /\ a.owner # "snapshot" => Own' = Own
         /\ a.owner = "snapshot" =>
              /\ Len(Own') = Len(Own) + 1
              /\ \E d : d.op = a.op /\ d.ok = ok /\ ToSet(Own') = ToSet(Own) \cup {d}
<1> DEFINE d == [owner |-> a.owner, op |-> a.op, ok |-> ok]
<1>1. d \in Answers /\ d.op = a.op /\ d.ok = ok /\ d.owner = a.owner
  BY DEF LaneOps, Plain, Write, Answers, Owners, OpNames
<1>2. done' = Append(done, d) /\ done \in Seq(Answers)
  BY DEF Answered, TypeInv
<1> HIDE DEF d
<1>3. done' \in Seq(Answers)
  BY <1>1, <1>2
<1>4. Own' = IF d.owner = "snapshot" THEN Append(Own, d) ELSE Own
  BY <1>1, <1>2, KeptAppend DEF Own
<1>5. CASE a.owner = "snapshot"
  <2>1. Own' = Append(Own, d) /\ Own \in Seq(Answers)
    BY <1>1, <1>4, <1>5, MineType
  <2>2. ToSet(Own') = ToSet(Own) \cup {d}
    BY <1>1, <2>1 DEF ToSet
  <2>3. Len(Own') = Len(Own) + 1
    BY <1>1, <2>1
  <2> QED
    BY <1>1, <1>3, <1>5, <2>2, <2>3
<1> QED
  BY <1>1, <1>3, <1>4, <1>5

-----------------------------------------------------------------------------
(* Serve, one operation of the lane.                                       *)

ServeFrame ==
  run' = run /\ unsubmitted' = unsubmitted /\ dumps' = dumps /\ finished' = finished

\* What stands as long as the stage does nothing and the buffers it has out are
\* neither more nor fewer.
LEMMA FrameKeeps ==
  ASSUME IInv, ServeFrame, lane' \in Seq(LaneOps), done' \in Seq(Answers), VolumeType',
         Len(Mine') + Len(Own') = Len(Mine) + Len(Own),
         run = None => Mine' = <<>> /\ Own' = <<>>
  PROVE  TypeInv' /\ RunInv' /\ CountInv'
<1>1. TypeInv'
  BY DEF IInv, TypeInv, ServeFrame
<1>2. RunInv'
  BY DEF IInv, RunInv, ServeFrame
<1>3. CountInv'
  BY DEF IInv, CountInv, ServeFrame
<1> QED
  BY <1>1, <1>2, <1>3

\* An operation of the log's: it may sync, and it changes nothing of the dump's.
LEMMA LogServed ==
  ASSUME IInv, ServeFrame, Mine' = Mine, Own' = Own,
         lane' \in Seq(LaneOps), done' \in Seq(Answers), VolumeType', NamesInv', CurrentKept,
         PartialKept, names'.partial = names.partial, owned'.handle = owned.handle,
         ~owned'.dirty /\ owned.handle # 0 =>
           file'[names.partial].synced = file[names.partial].wrote \/ ~owned.dirty
  PROVE  IInv'
<1>1. TypeInv' /\ RunInv' /\ CountInv'
  BY FrameKeeps DEF IInv, CountInv
<1>2. CurrentInv'
  BY CurrentCarries DEF IInv, TypeInv, ServeFrame
<1>3. ProgressInv'
  <2> SUFFICES ASSUME run # None, run.phase \in {"filling", "sealing"}
               PROVE  /\ \A j \in 1..Len(Mine) : Mine[j].op \in {"remove", "write", "barrier"}
                      /\ \A d \in ToSet(Own) : d.op \in {"remove", "write", "barrier"}
                      /\ Sound => \E m \in 0..AskedLen : Progress(m)'
    BY DEF ProgressInv, ServeFrame, Sound, AskedLen
  <2>1. ASSUME NEW m \in 0..AskedLen, Progress(m) PROVE Progress(m)'
    <3>1. Len(Mine') = AskedLen' - m /\ \A j \in 1..Len(Mine') : AskedAt(Mine[j], m + j)'
      BY <2>1 DEF Progress, AskedLen, AskedAt, ServeFrame
    <3>2. run.blocks \in Nat /\ Written(Served(m))' = Written(Served(m))
      BY DEF IInv, TypeInv, InFlight, ServeFrame, Written, Served
    <3>3. m > 1 => /\ file'[names'.partial].wrote = Written(Served(m))'
                   /\ ~owned'.dirty => file'[names'.partial].synced = file'[names'.partial].wrote
      BY <2>1, <3>2 DEF Progress, PartialKept
    <3>4. m > run.blocks + 1 => file'[names'.partial].synced = file'[names'.partial].wrote
      BY <2>1, <3>2 DEF Progress, PartialKept
    <3> QED
      BY <2>1, <3>1, <3>3, <3>4 DEF Progress, ServeFrame
  <2> QED
    BY <2>1 DEF IInv, ProgressInv
<1>4. Ready => Ready'
  BY DEF Ready, Whole, PartialKept, ServeFrame, Stream
<1>5. \A f \in {names.current, dnames.current} : f # 0 /\ Whole(f, dumps) => Whole(f, dumps)'
  BY DEF CurrentKept, Whole, ServeFrame, Stream
<1>6. PublishInv'
  BY <1>4, <1>5 DEF IInv, PublishInv, ServeFrame, CurrentKept
<1> QED
  BY <1>1, <1>2, <1>3, <1>6 DEF IInv

\* The answer d of the dump's operation a, the first it has in the lane.
OwnTaken(a, d) ==
  /\ Mine # <<>> /\ Mine[1] = a /\ Len(Mine) \in Nat \ {0}
  /\ Len(Mine') = Len(Mine) - 1 /\ \A j \in 1..Len(Mine') : Mine'[j] = Mine[j + 1]
  /\ Len(Own') = Len(Own) + 1 /\ ToSet(Own') = ToSet(Own) \cup {d}
  /\ d.op = a.op

LEMMA OwnFrame ==
  ASSUME IInv, ServeFrame, NEW a, NEW d, OwnTaken(a, d),
         lane' \in Seq(LaneOps), done' \in Seq(Answers), VolumeType'
  PROVE  TypeInv' /\ RunInv' /\ CountInv' /\ run # None
<1>1. run # None
  BY DEF IInv, CountInv, OwnTaken
<1>2. Len(Mine') + Len(Own') = Len(Mine) + Len(Own)
  BY MineType DEF OwnTaken, IInv
<1> QED
  BY <1>1, <1>2, FrameKeeps

LEMMA OwnPublish ==
  ASSUME IInv, ServeFrame, NEW a, NEW d, OwnTaken(a, d), CurrentKept,
         d.op = "dirsync" /\ d.ok => dnames' = names
  PROVE  PublishInv'
<1>1. \A j \in 1..Len(Mine') : Mine'[j].op \notin {"rename", "dirsync"}
  BY DEF IInv, PublishInv, OwnTaken
<1>2. ASSUME NEW e \in ToSet(Own'), e.op = "dirsync", e.ok,
             NEW f \in {names'.current, dnames'.current}
      PROVE  f # 0 /\ Whole(f, dumps)'
  <2>1. f \in {names.current, dnames.current} /\ (f # 0 => file'[f] = file[f])
    BY DEF CurrentKept
  <2>2. CASE e \in ToSet(Own)
    BY <1>2, <2>1, <2>2 DEF IInv, PublishInv, Whole, Stream, ServeFrame
  <2>3. CASE e = d
    <3>1. f = names.current
      BY <1>2, <2>3 DEF CurrentKept
    <3>2. Mine[1].op = "dirsync" /\ 1 \in 1..Len(Mine)
      BY <1>2, <2>3 DEF OwnTaken
    <3> QED
      BY <2>1, <3>1, <3>2 DEF IInv, PublishInv, Whole, Stream, ServeFrame
  <2> QED
    BY <1>2, <2>2, <2>3 DEF OwnTaken
<1>3. ~(run.phase = "publishing" /\ ~run.asked /\ run # None)
  BY DEF IInv, PublishInv, OwnTaken
<1> QED
  BY <1>1, <1>2, <1>3 DEF PublishInv, ServeFrame

\* Whatever fails, the dump is given up at its next step.
LEMMA OwnFailed ==
  ASSUME IInv, ServeFrame, NEW a, NEW d, OwnTaken(a, d), ~d.ok
  PROVE  ProgressInv'
<1>1. ~Sound'
  BY DEF Sound, OwnTaken
<1>2. 1 \in 1..Len(Mine) /\ \A j \in 1..Len(Mine') : j + 1 \in 1..Len(Mine)
  BY DEF OwnTaken
<1> QED
  BY <1>1, <1>2 DEF IInv, ProgressInv, ServeFrame, OwnTaken

\* Whatever works is the next one of its operations.
LEMMA OwnAdvances ==
  ASSUME IInv, ServeFrame, NEW a, NEW d, OwnTaken(a, d),
         \A m \in 0..AskedLen :
           /\ run # None /\ run.phase \in {"filling", "sealing"} /\ Progress(m)
           /\ m + 1 <= AskedLen /\ AskedAt(a, m + 1) /\ run.blocks \in Nat
           => /\ m + 1 = 1 => names'.partial = 0
              /\ m + 1 > 1 =>
                   /\ names'.partial # 0 /\ owned'.handle = names'.partial
                   /\ file'[names'.partial].wrote = Written(Served(m + 1))
                   /\ ~owned'.dirty => file'[names'.partial].synced = file'[names'.partial].wrote
              /\ m + 1 > run.blocks + 1 =>
                   file'[names'.partial].synced = file'[names'.partial].wrote
  PROVE  ProgressInv'
<1> SUFFICES ASSUME run # None, run.phase \in {"filling", "sealing"}
             PROVE  /\ \A j \in 1..Len(Mine') : Mine'[j].op \in {"remove", "write", "barrier"}
                    /\ \A e \in ToSet(Own') : e.op \in {"remove", "write", "barrier"}
                    /\ Sound' => \E m \in 0..AskedLen' : Progress(m)'
  BY DEF ProgressInv, ServeFrame
<1>0. run.blocks \in Nat /\ AskedLen \in Nat /\ AskedLen' = AskedLen
  BY DEF IInv, TypeInv, InFlight, AskedLen, ServeFrame
<1>1. 1 \in 1..Len(Mine) /\ \A j \in 1..Len(Mine') : j + 1 \in 1..Len(Mine)
  BY DEF OwnTaken
<1>2. /\ \A j \in 1..Len(Mine') : Mine'[j].op \in {"remove", "write", "barrier"}
      /\ \A e \in ToSet(Own') : e.op \in {"remove", "write", "barrier"}
  BY <1>1 DEF IInv, ProgressInv, OwnTaken
<1>3. ASSUME Sound' PROVE \E m \in 0..AskedLen : Progress(m)'
  <2>1. Sound
    BY <1>3 DEF Sound, OwnTaken
  <2>2. PICK m \in 0..AskedLen : Progress(m)
    BY <2>1 DEF IInv, ProgressInv
  <2>3. m + 1 \in 0..AskedLen /\ AskedAt(a, m + 1)
    BY <1>0, <1>1, <2>2 DEF Progress, OwnTaken
  <2>4. Len(Mine') = AskedLen' - (m + 1)
    BY <1>0, <2>2 DEF Progress, OwnTaken
  <2>5. \A j \in 1..Len(Mine') : AskedAt(Mine[j], (m + 1) + j)'
    <3> SUFFICES ASSUME NEW j \in 1..Len(Mine') PROVE AskedAt(Mine[j], (m + 1) + j)'
      OBVIOUS
    <3>1. j + 1 \in 1..Len(Mine) /\ Mine'[j] = Mine[j + 1] /\ (m + 1) + j = m + (j + 1)
      BY <1>1, <2>3, SMTT(30) DEF OwnTaken
    <3>2. AskedAt(Mine[j + 1], m + (j + 1))
      BY <2>2, <3>1 DEF Progress
    <3> QED
      BY <3>1, <3>2 DEF AskedAt, ServeFrame
  <2>6. Written(Served(m + 1))' = Written(Served(m + 1))
    BY DEF Written, Served, ServeFrame
  <2>7. (\E e \in ToSet(Own') : e.op = "barrier") => m + 1 > run.blocks + 1
    <3>1. d.op = "barrier" => m + 1 > run.blocks + 1
      BY <2>3, <1>0 DEF OwnTaken, AskedAt
    <3>2. (\E e \in ToSet(Own) : e.op = "barrier") => m > run.blocks + 1
      BY <2>2 DEF Progress
    <3> QED
      BY <1>0, <3>1, <3>2 DEF OwnTaken
  <2>8. Progress(m + 1)'
    BY <1>0, <2>2, <2>3, <2>4, <2>5, <2>6, <2>7 DEF Progress, ServeFrame
  <2> QED
    BY <2>3, <2>8
<1> QED
  BY <1>0, <1>2, <1>3

LEMMA OpShapes ==
  ASSUME NEW a \in LaneOps
  PROVE  /\ a.owner \in Owners /\ a.op \in OpNames
         /\ a.owner = "log" => a.op \in {"write", "barrier"}
         /\ a.owner = "snapshot" /\ a.op = "write" => a \in Write
BY DEF LaneOps, Plain, Write, Owners, OpNames

\* What an operation of the dump's that works does to the volume.
LEMMA WorksVolume ==
  ASSUME VolumeType, NamesInv, NEW a \in LaneOps, a.owner = "snapshot", a.op # "rename", Works(a)
  PROVE  /\ VolumeType' /\ NamesInv' /\ CurrentKept
         /\ a.op = "dirsync" => dnames' = names
         /\ a.op = "remove" => names'.partial = 0
<1>0. a.op \in {"write", "barrier", "remove", "dirsync"}
  BY OpShapes DEF OpNames
<1>1. CASE a.op = "write"
  <2>1. a \in Write /\ LaneWrite(a)
    BY <1>1, OpShapes DEF Works
  <2> QED
    BY <1>1, <2>1, WriteVolume
<1>2. CASE a.op = "barrier"
  <2>1. LaneBarrier
    BY <1>2 DEF Works
  <2> QED
    BY <1>2, <2>1, BarrierVolume
<1>3. CASE a.op = "remove"
  <2>1. LaneRemove
    BY <1>3 DEF Works
  <2>2. names'.partial = 0
    BY <2>1 DEF LaneRemove, VolumeType, Names
  <2> QED
    BY <1>3, <2>1, <2>2, RemoveVolume DEF LaneRemove
<1>4. CASE a.op = "dirsync"
  <2>1. LaneDirSync
    BY <1>4 DEF Works
  <2> QED
    BY <1>4, <2>1 DEF LaneDirSync, VolumeType, NamesInv, CurrentKept, Names
<1> QED
  BY <1>0, <1>1, <1>2, <1>3, <1>4

\* What one that fails may have done by then.
LEMMA FailsVolume ==
  ASSUME VolumeType, NamesInv, NEW a \in LaneOps, Fails(a)
  PROVE  VolumeType' /\ NamesInv' /\ CurrentKept
<1>1. CASE LaneOther
  BY <1>1, OtherVolume
<1>2. CASE owned' = [owned EXCEPT !.handle = 0] /\ UNCHANGED <<file, names, dnames>>
  BY <1>2, RemoveVolume
<1>3. CASE /\ a.op = "write" /\ a.owner = "snapshot" /\ Creates(a)
           /\ Opened(a) /\ file' = Append(file, [wrote |-> {}, synced |-> {}])
           /\ UNCHANGED dnames
  <2> DEFINE f == [wrote |-> {}, synced |-> {}]
  <2>1. f \in Files /\ f.synced \subseteq f.wrote /\ file' = Append(file, f)
    BY <1>3 DEF Files
  <2>2. Target(a) = Len(file) + 1
    BY <1>3 DEF Target, Creates
  <2> HIDE DEF f
  <2> QED
    BY <1>3, <2>1, <2>2, CreateVolume DEF Opened
<1>4. CASE /\ owned.dirty /\ owned.handle # 0
           /\ file' = [file EXCEPT ![owned.handle] = Synced(@)]
           /\ UNCHANGED <<names, dnames, owned>>
  <2>1. owned' \in [handle : {owned.handle}, dirty : BOOLEAN, created : BOOLEAN]
    BY <1>4 DEF VolumeType
  <2> QED
    BY <1>4, <2>1, SyncVolume
<1> QED
  BY <1>1, <1>2, <1>3, <1>4 DEF Fails

LEMMA ServeLog ==
  ASSUME IInv, Serve, Head(lane).owner = "log"
  PROVE  IInv'
<1> DEFINE a == Head(lane)
<1>0. lane # <<>> /\ ServeFrame
  BY DEF Serve, ServeFrame
<1>1. a \in LaneOps /\ a.op \in {"write", "barrier"} /\ a.owner = "log"
  BY <1>0, OpShapes DEF IInv, TypeInv
<1> HIDE DEF a
<1>2. lane' = Tail(lane) /\ \E ok \in BOOLEAN : Answered(a, ok)
  BY <1>1 DEF Serve, a
<1>3. LaneOther \/ LaneBarrier \/ (/\ owned.dirty /\ owned.handle # 0
                                  /\ file' = [file EXCEPT ![owned.handle] = Synced(@)]
                                  /\ UNCHANGED <<names, dnames, owned>>)
  <2>1. (a.op # "rename" /\ Works(a)) \/ Fails(a) \/ LaneOther
    BY <1>1 DEF Serve, a
  <2>2. Works(a) => LaneOther \/ LaneBarrier
    BY <1>1 DEF Works
  <2> QED
    BY <1>1, <2>1, <2>2 DEF Fails
<1>4. /\ lane' \in Seq(LaneOps) /\ Mine' = Mine /\ done' \in Seq(Answers) /\ Own' = Own
  BY <1>0, <1>1, <1>2, MineServed, OwnAnswered DEF IInv, a
<1>5. VolumeType /\ NamesInv
  BY DEF IInv, TypeInv
<1>6. /\ VolumeType' /\ NamesInv' /\ CurrentKept /\ PartialKept
      /\ names'.partial = names.partial /\ owned'.handle = owned.handle
      /\ ~owned'.dirty /\ owned.handle # 0 =>
           file'[names.partial].synced = file[names.partial].wrote \/ ~owned.dirty
  <2>1. CASE LaneOther
    BY <1>5, <2>1, OtherVolume DEF LaneOther
  <2>2. CASE LaneBarrier
    <3>1. names'.partial = names.partial /\ owned'.handle = owned.handle
      BY <1>5, <2>2 DEF LaneBarrier, VolumeType
    <3>2. ASSUME owned.handle # 0, owned.dirty
          PROVE  file'[names.partial].synced = file[names.partial].wrote
      <4>1. /\ names' = names /\ dnames' \in {names, dnames}
            /\ owned' \in [handle : {owned.handle}, dirty : BOOLEAN, created : BOOLEAN]
            /\ file' = [file EXCEPT ![owned.handle] = Synced(@)]
        BY <1>5, <2>2, <3>2 DEF LaneBarrier, VolumeType
      <4> QED
        BY <1>5, <3>2, <4>1, SyncVolume
    <3> QED
      BY <1>5, <2>2, <3>1, <3>2, BarrierVolume
  <2>3. CASE /\ owned.dirty /\ owned.handle # 0
             /\ file' = [file EXCEPT ![owned.handle] = Synced(@)]
             /\ UNCHANGED <<names, dnames, owned>>
    <3>1. owned' \in [handle : {owned.handle}, dirty : BOOLEAN, created : BOOLEAN]
      BY <1>5, <2>3 DEF VolumeType
    <3> QED
      BY <1>5, <2>3, <3>1, SyncVolume
  <2> QED
    BY <1>3, <2>1, <2>2, <2>3
<1> QED
  BY <1>0, <1>4, <1>6, LogServed

LEMMA OwnIsTaken ==
  ASSUME IInv, lane # <<>>, lane' = Tail(lane), Head(lane).owner = "snapshot",
         NEW ok \in BOOLEAN, Answered(Head(lane), ok)
  PROVE  /\ Head(lane) \in LaneOps /\ lane' \in Seq(LaneOps) /\ done' \in Seq(Answers)
         /\ \E d : d.ok = ok /\ OwnTaken(Head(lane), d)
<1> DEFINE a == Head(lane)
<1>1. TypeInv
  BY DEF IInv
<1>2. /\ lane' \in Seq(LaneOps) /\ a \in LaneOps
      /\ Mine # <<>> /\ Mine[1] = a /\ Len(Mine) \in Nat \ {0}
      /\ Len(Mine') = Len(Mine) - 1 /\ \A j \in 1..Len(Mine') : Mine'[j] = Mine[j + 1]
  BY <1>1, MineServed
<1> HIDE DEF a
<1>3. /\ done' \in Seq(Answers) /\ Len(Own') = Len(Own) + 1
      /\ \E d : d.op = a.op /\ d.ok = ok /\ ToSet(Own') = ToSet(Own) \cup {d}
  BY <1>1, <1>2, OwnAnswered DEF a
<1> QED
  BY <1>2, <1>3 DEF OwnTaken, a

\* An operation of the dump's that fails, or that the volume refuses.
LEMMA ServeOwnFails ==
  ASSUME IInv, ServeFrame, lane # <<>>, lane' = Tail(lane), Head(lane).owner = "snapshot",
         Answered(Head(lane), FALSE), Fails(Head(lane)) \/ LaneOther
  PROVE  IInv'
<1> DEFINE a == Head(lane)
<1>1. /\ a \in LaneOps /\ lane' \in Seq(LaneOps) /\ done' \in Seq(Answers)
      /\ \E d : d.ok = FALSE /\ OwnTaken(a, d)
  BY OwnIsTaken
<1> HIDE DEF a
<1>2. PICK d : d.ok = FALSE /\ OwnTaken(a, d)
  BY <1>1
<1>3. VolumeType' /\ NamesInv' /\ CurrentKept
  BY <1>1, FailsVolume, OtherVolume DEF IInv, TypeInv, a
<1>4. TypeInv' /\ RunInv' /\ CountInv'
  BY <1>1, <1>2, <1>3, OwnFrame
<1>5. CurrentInv'
  BY <1>3, CurrentCarries DEF IInv, TypeInv, ServeFrame
<1>6. ProgressInv' /\ PublishInv'
  BY <1>2, <1>3, OwnFailed, OwnPublish
<1> QED
  BY <1>3, <1>4, <1>5, <1>6 DEF IInv

\* The blocks written so far, and one more.
LEMMA WrittenNext ==
  /\ Written(1) = {<<run.dump, 1, 1>>}
  /\ \A k \in Nat : Written(k + 1) = Written(k) \cup {<<run.dump, k + 1, k + 1>>}
<1>1. 1..1 = {1} /\ \A k \in Nat : 1..(k + 1) = (1..k) \cup {k + 1}
  OBVIOUS
<1> QED
  BY <1>1 DEF Written

\* One that works, up to the barrier, is the next step of the dump's progress.
LEMMA WorksAdvances ==
  ASSUME IInv, NEW a \in LaneOps, a.owner = "snapshot", a.op # "rename", Works(a),
         run # None, run.phase \in {"filling", "sealing"},
         NEW m \in 0..AskedLen, Progress(m), m + 1 <= AskedLen, AskedAt(a, m + 1),
         run.blocks \in Nat
  PROVE  /\ m + 1 = 1 => names'.partial = 0
         /\ m + 1 > 1 =>
              /\ names'.partial # 0 /\ owned'.handle = names'.partial
              /\ file'[names'.partial].wrote = Written(Served(m + 1))
              /\ ~owned'.dirty => file'[names'.partial].synced = file'[names'.partial].wrote
         /\ m + 1 > run.blocks + 1 =>
              file'[names'.partial].synced = file'[names'.partial].wrote
<1>0. VolumeType /\ NamesInv /\ m \in Nat
  BY DEF IInv, TypeInv, AskedLen
<1>1. CASE m = 0
  <2>1. a.op = "remove"
    BY <1>1 DEF AskedAt
  <2>2. names'.partial = 0
    BY <1>0, <2>1, WorksVolume
  <2> QED
    BY <1>1, <2>2
<1>2. CASE m # 0 /\ m + 1 <= run.blocks + 1
  <2>1. /\ a.op = "write" /\ a.dump = run.dump /\ a.offset = m /\ a.chunk = m
        /\ a.creating = (m = 1)
    BY <1>0, <1>2 DEF AskedAt
  <2>2. a \in Write /\ LaneWrite(a)
    BY <2>1, OpShapes DEF Works
  <2>3. /\ names'.partial # 0 /\ owned'.handle = names'.partial /\ owned'.dirty
        /\ a.creating => file'[names'.partial].wrote = {<<a.dump, a.offset, a.chunk>>}
        /\ ~a.creating => file'[names'.partial].wrote =
                            file[names.partial].wrote \cup {<<a.dump, a.offset, a.chunk>>}
    BY <1>0, <2>2, WriteVolume
  <2>4. Served(m + 1) = m
    BY <1>0, <1>2 DEF Served
  <2>5. file'[names'.partial].wrote = Written(m)
    <3>1. CASE m = 1
      <4>1. a.creating /\ a.dump = run.dump /\ a.offset = 1 /\ a.chunk = 1
        BY <2>1, <3>1
      <4>2. file'[names'.partial].wrote = {<<run.dump, 1, 1>>}
        BY <2>3, <4>1
      <4>3. Written(1) = {<<run.dump, 1, 1>>}
        BY WrittenNext, Zenon
      <4> QED
        BY <3>1, <4>2, <4>3
    <3>2. CASE m # 1
      <4>1. m > 1 /\ m - 1 \in Nat /\ (m - 1) + 1 = m /\ Served(m) = m - 1
        BY <1>0, <1>2, <3>2 DEF Served
      <4>2. file[names.partial].wrote = Written(m - 1)
        BY <4>1 DEF Progress
      <4>3. Written(m) = Written(m - 1) \cup {<<run.dump, m, m>>}
        BY <4>1, WrittenNext
      <4> QED
        BY <2>1, <2>3, <3>2, <4>2, <4>3
    <3> QED
      BY <3>1, <3>2
  <2> QED
    BY <1>0, <1>2, <2>3, <2>4, <2>5
<1>3. CASE m + 1 > run.blocks + 1
  <2>1. run.asked /\ m = run.blocks + 1 /\ run.blocks = Chunks /\ m > 1
    <3>1. run.asked /\ m = run.blocks + 1
      BY <1>0, <1>3 DEF AskedLen
    <3>2. run.blocks = Chunks
      BY <3>1 DEF IInv, RunInv
    <3>3. Chunks \in Nat \ {0}
      BY SnapshotsAssumption
    <3> QED
      BY <3>1, <3>2, <3>3
  <2>2. LaneBarrier
    <3>1. m + 1 # 1 /\ ~(m + 1 <= run.blocks + 1)
      BY <1>0, <1>3, <2>1
    <3>2. a.op = "barrier"
      BY <3>1 DEF AskedAt
    <3> QED
      BY <3>2 DEF Works
  <2>3. /\ names.partial # 0 /\ owned.handle = names.partial
        /\ file[names.partial].wrote = Written(Served(m))
        /\ ~owned.dirty => file[names.partial].synced = file[names.partial].wrote
    BY <2>1 DEF Progress
  <2>4. names' = names /\ owned'.handle = owned.handle
    BY <1>0, <2>2 DEF LaneBarrier, VolumeType
  <2>5. CurrentKept /\ PartialKept
    BY <1>0, <2>2, BarrierVolume
  <2>6. file'[names.partial].synced = file[names.partial].wrote
    <3>1. CASE owned.dirty
      <4>1. /\ names' = names /\ dnames' \in {names, dnames}
            /\ owned' \in [handle : {owned.handle}, dirty : BOOLEAN, created : BOOLEAN]
            /\ file' = [file EXCEPT ![owned.handle] = Synced(@)]
        BY <1>0, <2>2, <2>3, <3>1 DEF LaneBarrier, VolumeType
      <4> QED
        BY <1>0, <2>3, <4>1, SyncVolume
    <3>2. CASE ~owned.dirty
      BY <2>3, <2>5, <3>2 DEF PartialKept
    <3> QED
      BY <3>1, <3>2
  <2>7. Served(m + 1) = run.blocks /\ Served(m) = run.blocks
    BY <1>0, <2>1 DEF Served
  <2>8. file'[names.partial].wrote = file[names.partial].wrote
    BY <2>3, <2>5 DEF PartialKept
  <2> QED
    BY <1>3, <2>1, <2>3, <2>4, <2>6, <2>7, <2>8
<1> QED
  BY <1>0, <1>1, <1>2, <1>3

LEMMA ServeOwnWorks ==
  ASSUME IInv, ServeFrame, lane # <<>>, lane' = Tail(lane), Head(lane).owner = "snapshot",
         Head(lane).op # "rename", Answered(Head(lane), TRUE), Works(Head(lane))
  PROVE  IInv'
<1> DEFINE a == Head(lane)
<1>1. /\ a \in LaneOps /\ lane' \in Seq(LaneOps) /\ done' \in Seq(Answers)
      /\ \E d : d.ok = TRUE /\ OwnTaken(a, d)
  BY OwnIsTaken
<1>0. a.owner = "snapshot" /\ a.op # "rename" /\ Works(a)
  OBVIOUS
<1> HIDE DEF a
<1>2. PICK d : d.ok = TRUE /\ OwnTaken(a, d)
  BY <1>1
<1>3. VolumeType' /\ NamesInv' /\ CurrentKept /\ (a.op = "dirsync" => dnames' = names)
  BY <1>0, <1>1, WorksVolume DEF IInv, TypeInv
<1>4. TypeInv' /\ RunInv' /\ CountInv'
  BY <1>1, <1>2, <1>3, OwnFrame
<1>5. CurrentInv'
  BY <1>3, CurrentCarries DEF IInv, TypeInv, ServeFrame
<1>6. PublishInv'
  BY <1>2, <1>3, OwnPublish DEF OwnTaken
<1>7. ProgressInv'
  BY <1>0, <1>1, <1>2, WorksAdvances, OwnAdvances
<1> QED
  BY <1>3, <1>4, <1>5, <1>6, <1>7 DEF IInv

\* The rename: the partial's file, whole, gets the other name.
LEMMA RenameVolume ==
  ASSUME VolumeType, NamesInv, LaneRename
  PROVE  /\ VolumeType' /\ NamesInv' /\ names.partial # 0
         /\ names'.current = names.partial /\ names'.partial = 0 /\ dnames' = dnames
         /\ file' = file /\ names.partial \in 1..Len(file)
<1>1. /\ names.partial # 0 /\ file' = file /\ dnames' = dnames
      /\ names' = [partial |-> 0, current |-> names.partial]
      /\ owned' = [owned EXCEPT !.handle = 0]
  BY DEF LaneRename
<1>2. names.partial \in 1..Len(file) /\ names.partial \in 0..Len(file) /\ 0 \in 0..Len(file)
  BY <1>1 DEF VolumeType, Names
<1>3. names' \in Names' /\ dnames' \in Names'
  BY <1>1, <1>2 DEF VolumeType, Names
<1>4. owned' \in [handle : Nat, dirty : BOOLEAN, created : BOOLEAN] /\ owned'.handle = 0
  BY <1>1 DEF VolumeType
<1>5. VolumeType'
  BY <1>1, <1>3, <1>4 DEF VolumeType
<1>6. NamesInv'
  BY <1>1, <1>4 DEF NamesInv
<1> QED
  BY <1>1, <1>2, <1>5, <1>6

LEMMA MineRenamed ==
  ASSUME TypeInv, lane # <<>>, Head(lane).op = "rename",
         lane' = [lane EXCEPT ![1].op = "dirsync"]
  PROVE  /\ lane' \in Seq(LaneOps) /\ Mine # <<>> /\ Mine[1].op = "rename"
         /\ Len(Mine') = Len(Mine) /\ Len(Mine) \in Nat \ {0} /\ Mine'[1].op = "dirsync"
         /\ \A j \in 2..Len(Mine) : Mine'[j] = Mine[j]
<1> DEFINE h == Head(lane)
           w == Tail(lane)
           g == [h EXCEPT !.op = "dirsync"]
           o == OwnedBy("snapshot", w)
<1>1. lane \in Seq(LaneOps) /\ h \in LaneOps /\ w \in Seq(LaneOps) /\ lane[1] = h
  BY DEF TypeInv
<1>2. h \in [owner : {"snapshot"}, op : OpNames \ {"write"}]
  BY <1>1 DEF LaneOps, Plain, Write
<1>3. g \in LaneOps /\ g.owner = "snapshot" /\ g.op = "dirsync" /\ h.owner = "snapshot"
  BY <1>2 DEF LaneOps, Plain, OpNames
<1>4. lane' = [lane EXCEPT ![1] = g]
  BY <1>1
<1> HIDE DEF g
<1>5. lane' = <<g>> \o w /\ lane' \in Seq(LaneOps)
  BY <1>1, <1>3, <1>4, SMTT(30)
<1>6. Mine = <<h>> \o o
  BY <1>1, <1>3, KeptTail DEF Mine
<1> HIDE DEF h, w
<1>7. OwnedBy("snapshot", <<g>> \o w) = <<g>> \o o
  <2>1. g \in LaneOps /\ w \in Seq(LaneOps) /\ g.owner = "snapshot"
    BY <1>1, <1>3
  <2>2. OwnedBy("snapshot", <<g>> \o w) =
          IF g.owner = "snapshot" THEN <<g>> \o OwnedBy("snapshot", w) ELSE OwnedBy("snapshot", w)
    <3> DEFINE who == "snapshot"
    <3> HIDE DEF who
    <3>1. OwnedBy(who, <<g>> \o w) =
            IF g.owner = who THEN <<g>> \o OwnedBy(who, w) ELSE OwnedBy(who, w)
      BY <2>1, KeptCons
    <3> QED
      BY <3>1 DEF who
  <2> QED
    BY <2>1, <2>2
<1>8. Mine' = <<g>> \o o
  BY <1>5, <1>7 DEF Mine
<1>9. o \in Seq(LaneOps)
  BY <1>1, KeptType
<1> HIDE DEF o
<1>10. h.op = "rename"
  BY DEF h
<1> QED
  BY <1>1, <1>3, <1>5, <1>6, <1>8, <1>9, <1>10

LEMMA ServeRename ==
  ASSUME IInv, ServeFrame, lane # <<>>, Head(lane).op = "rename", LaneRename,
         lane' = [lane EXCEPT ![1].op = "dirsync"], done' = done
  PROVE  IInv'
<1>1. /\ lane' \in Seq(LaneOps) /\ Mine # <<>> /\ Mine[1].op = "rename"
      /\ Len(Mine') = Len(Mine) /\ Len(Mine) \in Nat \ {0} /\ Mine'[1].op = "dirsync"
      /\ \A j \in 2..Len(Mine) : Mine'[j] = Mine[j]
  BY MineRenamed DEF IInv
<1>2. /\ VolumeType' /\ NamesInv' /\ names.partial # 0
      /\ names'.current = names.partial /\ names'.partial = 0 /\ dnames' = dnames
      /\ file' = file /\ names.partial \in 1..Len(file)
  BY RenameVolume DEF IInv, TypeInv
<1>3. Own' = Own /\ done' \in Seq(Answers)
  BY DEF Own, IInv, TypeInv
<1>4. run # None /\ 1 \in 1..Len(Mine)
  BY <1>1 DEF IInv, CountInv
<1>5. TypeInv' /\ RunInv' /\ CountInv'
  BY <1>1, <1>2, <1>3, <1>4, FrameKeeps
<1>6. Whole(names.partial, dumps) /\ dumps > 0 /\ dumps \in Nat /\ finished \in 0..dumps
  BY <1>1, <1>2, <1>4 DEF IInv, PublishInv, Ready, RunInv, TypeInv
<1>7. \A f, d : Whole(f, d)' = Whole(f, d)
  BY <1>2 DEF Whole, Stream
<1>8. CurrentInv'
  <2> SUFFICES ASSUME NEW f \in {names'.current, dnames'.current}
               PROVE  /\ f # 0 => \E d \in 1..dumps : d >= finished /\ Whole(f, d)
                      /\ f = 0 => finished = 0
    BY <1>7 DEF CurrentInv, ServeFrame
  <2>1. CASE f = names.partial
    BY <1>2, <1>6, <2>1
  <2>2. CASE f = dnames.current
    BY <2>2 DEF IInv, CurrentInv
  <2> QED
    BY <1>2, <2>1, <2>2
<1>9. ProgressInv'
  BY <1>1, <1>4 DEF IInv, ProgressInv, ServeFrame
<1>10. PublishInv'
  <2>1. /\ \A i \in 2..Len(Mine) : Mine[i].op = "remove"
        /\ \A d \in ToSet(Own) : d.op # "dirsync"
    BY <1>1, <1>4 DEF IInv, PublishInv
  <2>2. \A j \in 1..Len(Mine') : Mine'[j].op \in {"rename", "dirsync"} => j = 1
    <3> SUFFICES ASSUME NEW j \in 2..Len(Mine) PROVE Mine'[j].op = "remove"
      BY <1>1
    <3> QED
      BY <1>1, <2>1
  <2>3. run.phase = "publishing" => run.asked
    BY <1>1, <1>4 DEF IInv, PublishInv
  <2>4. names'.current # 0 /\ Whole(names'.current, dumps)
    BY <1>2, <1>6
  <2>5. \A i \in 2..Len(Mine') : Mine'[i].op = "remove"
    BY <1>1, <2>1
  <2> QED
    BY <1>1, <1>3, <1>7, <2>1, <2>2, <2>3, <2>4, <2>5 DEF PublishInv, ServeFrame
<1> QED
  BY <1>2, <1>5, <1>8, <1>9, <1>10 DEF IInv

LEMMA ServeInv ==
  ASSUME IInv, Serve
  PROVE  IInv'
<1> DEFINE a == Head(lane)
<1>0. lane # <<>> /\ ServeFrame
  BY DEF Serve, ServeFrame
<1>1. a \in LaneOps /\ a.owner \in Owners
  BY <1>0, OpShapes DEF IInv, TypeInv
<1>2. CASE a.owner = "log"
  BY <1>2, ServeLog
<1>3. CASE a.owner = "snapshot"
  <2>1. CASE a.op # "rename" /\ Works(a) /\ Answered(a, TRUE) /\ lane' = Tail(lane)
    BY <1>0, <1>3, <2>1, ServeOwnWorks
  <2>2. CASE a.op = "rename" /\ LaneRename /\ lane' = [lane EXCEPT ![1].op = "dirsync"] /\ done' = done
    BY <1>0, <2>2, ServeRename
  <2>3. CASE (Fails(a) \/ LaneOther) /\ Answered(a, FALSE) /\ lane' = Tail(lane)
    BY <1>0, <1>3, <2>3, ServeOwnFails
  <2> QED
    BY <2>1, <2>2, <2>3 DEF Serve
<1> QED
  BY <1>1, <1>2, <1>3 DEF Owners

-----------------------------------------------------------------------------
(* The directory's own commit, the log's use of the lane, and a fault.     *)

\* What the stage is given of its own answers is its own.
LEMMA OwnAgain ==
  ASSUME TypeInv, done' = Own
  PROVE  done' \in Seq(Answers) /\ Own' = Own
<1> DEFINE who == "snapshot"
<1>1. Own \in Seq(Answers) /\ \A i \in 1..Len(Own) : Own[i].owner = who
  BY KeptType DEF TypeInv, Own
<1> DEFINE t == Own
           e == <<>>
<1>2. e \in Seq(Answers) /\ OwnedBy(who, e) = e /\ e \o t = t /\ t \in Seq(Answers)
  BY <1>1, KeptEmpty
<1>3. Own' = OwnedBy(who, t)
  BY DEF Own
<1> HIDE DEF t, e, who
<1>4. OwnedBy(who, e \o t) = OwnedBy(who, e) \o t
  BY <1>1, <1>2, KeptConcat DEF t
<1> QED
  BY <1>1, <1>2, <1>3, <1>4 DEF t

LEMMA CommitInv ==
  ASSUME IInv, Commit
  PROVE  IInv'
<1>1. ServeFrame /\ Mine' = Mine /\ Own' = Own
  BY DEF Commit, ServeFrame, Mine, Own
<1>2. lane' \in Seq(LaneOps) /\ done' \in Seq(Answers)
  BY DEF Commit, IInv, TypeInv
<1>3. VolumeType' /\ NamesInv' /\ CurrentKept /\ PartialKept
  BY DEF Commit, IInv, TypeInv, VolumeType, NamesInv, CurrentKept, PartialKept, Names
<1> QED
  BY <1>1, <1>2, <1>3, LogServed DEF Commit

\* The log's buffers are not the dump's.
LEMMA LogInv ==
  ASSUME IInv, LogSubmit \/ LogCollect
  PROVE  IInv'
<1>1. ServeFrame /\ LaneOther
  BY DEF LogSubmit, LogCollect, ServeFrame, LaneOther
<1>2. VolumeType' /\ NamesInv' /\ CurrentKept /\ PartialKept
  BY <1>1, OtherVolume DEF IInv, TypeInv
<1>3. lane' \in Seq(LaneOps) /\ Mine' = Mine /\ done' \in Seq(Answers) /\ Own' = Own
  <2>1. CASE LogCollect
    BY <2>1, OwnAgain DEF LogCollect, IInv, TypeInv, Mine
  <2>2. CASE LogSubmit
    <3>1. PICK a \in Plain : a.owner = "log" /\ lane' = Append(lane, a)
      BY <2>2 DEF LogSubmit, Plain
    <3>2. a \in LaneOps /\ lane \in Seq(LaneOps) /\ done \in Seq(Answers) /\ done' = done
      BY <2>2 DEF LaneOps, IInv, TypeInv, LogSubmit
    <3>3. OwnedBy("snapshot", Append(lane, a)) = OwnedBy("snapshot", lane)
      BY <3>1, <3>2, KeptAppend
    <3> QED
      BY <3>1, <3>2, <3>3 DEF Mine, Own
  <2> QED
    BY <2>1, <2>2
<1> QED
  BY <1>1, <1>2, <1>3, LogServed DEF LaneOther

\* Giving up leaves what is out to be collected.
LEMMA GivenUpRun ==
  ASSUME NEW r \in InFlight
  PROVE  /\ GivenUp(r) \in InFlight /\ GivenUp(r).phase = "draining"
         /\ GivenUp(r).dump = r.dump /\ GivenUp(r).outstanding = r.outstanding
         /\ GivenUp(r).blocks = r.blocks /\ GivenUp(r).produced = r.produced
<1>1. CASE r.phase = "draining"
  BY <1>1 DEF GivenUp
<1>2. CASE r.phase # "draining"
  <2> DEFINE g == [r EXCEPT !.phase = "draining", !.asked = FALSE]
  <2>1. GivenUp(r) = g
    BY <1>2 DEF GivenUp
  <2>2. /\ g.phase = "draining" /\ g.dump = r.dump /\ g.outstanding = r.outstanding
        /\ g.blocks = r.blocks /\ g.produced = r.produced /\ g \in InFlight
    BY DEF InFlight
  <2> QED
    BY <2>1, <2>2
<1> QED
  BY <1>1, <1>2

LEMMA InFlightIsNot == None \notin InFlight /\ None \notin Nat
BY SnapshotsAssumption

LEMMA AbandonInv ==
  ASSUME IInv, Abandon
  PROVE  IInv'
<1>1. /\ run # None /\ run \in InFlight /\ run' = GivenUp(run) /\ unsubmitted' = FALSE
      /\ done' = Own /\ lane' = lane /\ dumps' = dumps /\ finished' = finished
  BY DEF Abandon, IInv, TypeInv
<1>2. LaneOther
  BY DEF Abandon, LaneOther
<1>3. VolumeType' /\ NamesInv' /\ CurrentKept /\ PartialKept
  BY <1>2, OtherVolume DEF IInv, TypeInv
<1>4. done' \in Seq(Answers) /\ Own' = Own /\ Mine' = Mine
  BY <1>1, OwnAgain DEF IInv, Mine
<1>5. /\ run' \in InFlight /\ run'.phase = "draining" /\ run' # None
      /\ run'.dump = run.dump /\ run'.outstanding = run.outstanding
  BY <1>1, GivenUpRun, InFlightIsNot
<1>6. TypeInv'
  BY <1>1, <1>3, <1>4, <1>5 DEF IInv, TypeInv
<1>7. CurrentInv'
  BY <1>1, <1>3, CurrentCarries DEF IInv, TypeInv
<1>8. RunInv' /\ CountInv' /\ ProgressInv'
  BY <1>1, <1>4, <1>5 DEF IInv, RunInv, CountInv, ProgressInv
<1>9. PublishInv'
  <2>1. \A f, d : Whole(f, d)' = Whole(f, d)
    BY <1>2 DEF Whole, Stream, LaneOther
  <2>2. Ready' = Ready
    BY <1>1, <1>2, <2>1 DEF Ready, LaneOther
  <2> QED
    BY <1>1, <1>2, <1>4, <1>5, <2>1, <2>2 DEF IInv, PublishInv, LaneOther
<1> QED
  BY <1>3, <1>6, <1>7, <1>8, <1>9 DEF IInv

-----------------------------------------------------------------------------
(* A crash, and the beginning of a dump.                                   *)

LEMMA CrashInv ==
  ASSUME IInv, Crash
  PROVE  IInv'
<1>1. /\ names' = dnames /\ dnames' = dnames /\ owned' = Fresh /\ lane' = <<>> /\ done' = <<>>
      /\ run' = None /\ unsubmitted' = FALSE /\ dumps' = dumps /\ finished' = finished
  BY DEF Crash
<1>2. PICK kept \in [DOMAIN file -> SUBSET UNION {file[f].wrote : f \in DOMAIN file}] :
        /\ \A f \in DOMAIN file :
             file[f].synced \subseteq kept[f] /\ kept[f] \subseteq file[f].wrote
        /\ file' = [f \in DOMAIN file |-> [wrote |-> kept[f], synced |-> kept[f]]]
  BY DEF Crash
<1>3. file \in Seq(Files) /\ DOMAIN file = 1..Len(file) /\ Len(file) \in Nat
  BY DEF IInv, TypeInv, VolumeType
<1>4. \A f \in 1..Len(file) : /\ file'[f] = [wrote |-> kept[f], synced |-> kept[f]]
                              /\ file'[f] \in Files /\ file'[f].synced = kept[f]
                              /\ file'[f].wrote = kept[f]
                              /\ file[f].synced \subseteq kept[f] /\ kept[f] \subseteq file[f].wrote
  <2> SUFFICES ASSUME NEW f \in 1..Len(file)
               PROVE  /\ file'[f] = [wrote |-> kept[f], synced |-> kept[f]]
                      /\ file'[f] \in Files
                      /\ file[f].synced \subseteq kept[f] /\ kept[f] \subseteq file[f].wrote
    OBVIOUS
  <2>1. /\ file'[f] = [wrote |-> kept[f], synced |-> kept[f]]
        /\ file[f].synced \subseteq kept[f] /\ kept[f] \subseteq file[f].wrote
    BY <1>2, <1>3
  <2>2. file[f].wrote \subseteq Blocks
    <3>1. file[f] \in Files
      BY <1>3
    <3>2. file[f].wrote \in SUBSET Blocks
      BY <3>1 DEF Files
    <3> QED
      BY <3>2
  <2>3. kept[f] \in SUBSET Blocks
    BY <2>1, <2>2
  <2> QED
    BY <2>1, <2>3 DEF Files
<1>5. file' \in Seq(Files) /\ Len(file') = Len(file)
  <2>1. file' \in [1..Len(file) -> Files]
    BY <1>2, <1>3, <1>4
  <2> QED
    BY <1>3, <2>1
<1>6. VolumeType'
  <2>1. names' \in Names' /\ dnames' \in Names'
    BY <1>1, <1>5 DEF IInv, TypeInv, VolumeType, Names
  <2>2. owned' \in [handle : Nat, dirty : BOOLEAN, created : BOOLEAN]
    BY <1>1 DEF Fresh
  <2>3. \A f \in 1..Len(file') : file'[f].synced \subseteq file'[f].wrote
    BY <1>4, <1>5
  <2> QED
    BY <1>5, <2>1, <2>2, <2>3 DEF VolumeType
<1>7. NamesInv'
  BY <1>1 DEF Fresh, IInv, NamesInv
<1>8. CurrentInv'
  <2> DEFINE f == dnames.current
  <2>1. f \in 0..Len(file)
    BY DEF IInv, TypeInv, VolumeType, Names
  <2>2. /\ f # 0 => \E d \in 1..dumps : d >= finished /\ Whole(f, d)
        /\ f = 0 => finished = 0
    BY DEF IInv, CurrentInv
  <2>3. \A g \in 1..Len(file) : \A d : Whole(g, d) => Whole(g, d)'
    BY <1>4 DEF Whole, Stream
  <2>4. f # 0 => \E d \in 1..dumps : d >= finished /\ Whole(f, d)'
    BY <1>1, <2>1, <2>2, <2>3
  <2> QED
    BY <1>1, <2>2, <2>4 DEF CurrentInv
<1>9. Mine' = <<>> /\ Own' = <<>>
  BY <1>1, KeptEmpty DEF Mine, Own
<1>10. TypeInv'
  <2>1. lane' \in Seq(LaneOps) /\ done' \in Seq(Answers)
    BY <1>1
  <2> QED
    BY <1>1, <1>6, <2>1 DEF IInv, TypeInv
<1>11. RunInv' /\ CountInv' /\ ProgressInv' /\ PublishInv'
  <2>1. 1..Len(Mine') = {} /\ ToSet(Own') = {}
    BY <1>9 DEF ToSet
  <2> QED
    BY <1>1, <1>9, <2>1 DEF RunInv, CountInv, ProgressInv, PublishInv
<1> QED
  BY <1>7, <1>8, <1>10, <1>11 DEF IInv

LEMMA BeginInv ==
  ASSUME IInv, Begin
  PROVE  IInv'
<1> DEFINE a == Op("remove")
<1>1. /\ run = None /\ dumps' = dumps + 1 /\ lane' = Append(lane, a) /\ done' = done
      /\ run' = [dump |-> dumps + 1, produced |-> 0, blocks |-> 0, outstanding |-> 1,
                 phase |-> "filling", asked |-> FALSE]
      /\ unsubmitted' = FALSE /\ finished' = finished
  BY DEF Begin
<1>2. LaneOther
  BY DEF Begin, LaneOther
<1>3. VolumeType' /\ NamesInv'
  BY <1>2, OtherVolume DEF IInv, TypeInv
<1>4. a \in LaneOps /\ a.owner = "snapshot" /\ a.op = "remove"
  BY DEF Op, LaneOps, Plain, OpNames
<1> HIDE DEF a
<1>5. lane \in Seq(LaneOps) /\ done \in Seq(Answers) /\ dumps \in Nat /\ finished \in 0..dumps
  BY DEF IInv, TypeInv
<1>6. Mine = <<>> /\ Own = <<>>
  BY <1>1 DEF IInv, CountInv
<1>7. OwnedBy("snapshot", Append(lane, a)) = Append(OwnedBy("snapshot", lane), a)
  BY <1>4, <1>5, KeptAppend
<1>8. Mine' = <<a>> /\ Own' = <<>>
  <2>1. Append(<<>>, a) = <<a>>
    OBVIOUS
  <2>2. Own' = Own
    BY <1>1 DEF Own
  <2>3. Mine' = Append(Mine, a)
    BY <1>1, <1>7 DEF Mine
  <2> QED
    BY <1>6, <2>1, <2>2, <2>3
<1>9. run' \in InFlight /\ run' # None
  <2>1. run' \in InFlight
    BY <1>1, <1>5 DEF InFlight
  <2> QED
    BY <2>1, InFlightIsNot
<1>10. TypeInv'
  <2>1. lane' \in Seq(LaneOps) /\ done' \in Seq(Answers)
    BY <1>1, <1>4, <1>5
  <2>2. unsubmitted' \in BOOLEAN
    BY <1>1
  <2>3. dumps' \in Nat /\ finished' \in 0..dumps'
    <3> DEFINE n == dumps'
    <3>1. n = dumps + 1 /\ finished' = finished
      BY <1>1
    <3> HIDE DEF n
    <3>2. n \in Nat /\ finished' \in 0..n
      BY <1>5, <3>1
    <3> QED
      BY <3>2 DEF n
  <2> QED
    BY <1>3, <1>9, <2>1, <2>2, <2>3 DEF TypeInv
<1>11. \A f, d : Whole(f, d)' = Whole(f, d)
  BY <1>2 DEF Whole, Stream, LaneOther
<1>12. CurrentInv'
  <2>1. 1..dumps \subseteq 1..(dumps + 1)
    BY <1>5
  <2> QED
    BY <1>1, <1>2, <1>11, <2>1 DEF IInv, CurrentInv, LaneOther
<1>13. RunInv'
  <2>1. Chunks \in Nat \ {0}
    BY SnapshotsAssumption
  <2> QED
    BY <1>1, <1>5, <2>1 DEF RunInv
<1>14. Len(Mine') = 1 /\ Mine'[1].op = "remove" /\ Len(Own') = 0 /\ ToSet(Own') = {}
  BY <1>4, <1>8 DEF ToSet
<1>15. CountInv'
  BY <1>1, <1>9, <1>14 DEF CountInv
<1>16. ProgressInv'
  <2>1. AskedLen' = 1
    BY <1>1 DEF AskedLen
  <2>2. Progress(0)'
    BY <1>1, <1>14, <2>1 DEF Progress, AskedAt
  <2>3. \A j \in 1..Len(Mine') : Mine'[j].op = "remove"
    BY <1>14
  <2> QED
    BY <1>14, <2>1, <2>2, <2>3 DEF ProgressInv
<1>17. PublishInv'
  <2>1. \A j \in 1..Len(Mine') : Mine'[j].op = "remove"
    BY <1>14
  <2> QED
    BY <1>1, <1>14, <2>1 DEF PublishInv
<1> QED
  BY <1>3, <1>10, <1>12, <1>13, <1>15, <1>16, <1>17 DEF IInv

-----------------------------------------------------------------------------
(* The folds of a step, as traces.                                         *)

HeardTurn(c, i, acc) == Heard(acc, c[i])
H == INSTANCE FoldTheorems WITH Turn <- HeardTurn, Pick <- Max
FillTurn(c, i, acc) == Fill(acc, c[i])
L == INSTANCE FoldTheorems WITH Turn <- FillTurn, Pick <- Max

LEMMA MaxIn ==
  ASSUME NEW k \in Nat
  PROVE  \A t \in SUBSET (1..k) : t # {} => Max(t) \in t /\ \A y \in t : Max(t) >= y
<1> SUFFICES ASSUME NEW t \in SUBSET (1..k), t # {}
             PROVE  Max(t) \in t /\ \A y \in t : Max(t) >= y
  OBVIOUS
<1>1. t \in SUBSET (0..k)
  <2>1. \A x \in t : x \in 0..k
    OBVIOUS
  <2> QED
    BY <2>1
<1>2. \E m \in t : \A y \in t : m >= y
  BY <1>1, H!MaxUpTo
<1> QED
  BY <1>2 DEF Max

LEMMA HeardTrace ==
  ASSUME NEW S, NEW s \in Seq(S), NEW b
  PROVE  \E f : /\ f[0] = b
                /\ \A i \in 1..Len(s) : f[i] = Heard(f[i - 1], s[i])
                /\ FoldLeft(Heard, b, s) = f[Len(s)]
<1> DEFINE Body(g, t) == IF t = {} THEN b ELSE HeardTurn(s, Max(t), g[t \ {Max(t)}])
           iter == CHOOSE g : g = [t \in SUBSET (1..Len(s)) |-> Body(g, t)]
<1>0. Len(s) \in Nat /\ DOMAIN s = 1..Len(s)
  OBVIOUS
<1>1. FoldLeft(Heard, b, s) = iter[1..Len(s)]
  BY <1>0 DEF FoldLeft, MapThenFoldSet, HeardTurn
<1>2. H!PicksLast(Len(s)) /\ H!Picks(1..Len(s))
  BY <1>0, MaxIn DEF H!PicksLast, H!Picks
<1>3. H!Folds(1..Len(s), s, b, iter)
  <2>1. IsFiniteSet(1..Len(s))
    BY <1>0, FS_Interval, 1 \in Int
  <2>2. H!IsFiniteSet(1..Len(s))
    BY <2>1 DEF IsFiniteSet, H!IsFiniteSet
  <2>3. PICK g : H!Folds(1..Len(s), s, b, g)
    BY <1>2, <2>2, H!FoldExists
  <2>4. g = [t \in SUBSET (1..Len(s)) |-> Body(g, t)]
    BY <2>3 DEF H!Folds
  <2> HIDE DEF Body
  <2>5. iter = [t \in SUBSET (1..Len(s)) |-> Body(iter, t)]
    BY <2>4
  <2> HIDE DEF iter
  <2> QED
    BY <2>5 DEF H!Folds, Body
<1> HIDE DEF iter
<1>4. \E f : /\ f[0] = b
             /\ \A i \in 1..Len(s) : f[i] = HeardTurn(s, i, f[i - 1])
             /\ iter[1..Len(s)] = f[Len(s)]
  BY <1>0, <1>2, <1>3, H!FoldTrace
<1> QED
  BY <1>1, <1>4 DEF HeardTurn

LEMMA FillTrace ==
  ASSUME NEW n \in Nat, NEW b
  PROVE  \E f : /\ f[0] = b
                /\ \A i \in 1..n : f[i] = Fill(f[i - 1], i)
                /\ FoldLeft(Fill, b, [i \in 1..n |-> i]) = f[n]
<1> DEFINE s == [i \in 1..n |-> i]
           Body(g, t) == IF t = {} THEN b ELSE FillTurn(s, Max(t), g[t \ {Max(t)}])
           iter == CHOOSE g : g = [t \in SUBSET (1..n) |-> Body(g, t)]
<1>0. DOMAIN s = 1..n /\ \A i \in 1..n : s[i] = i
  OBVIOUS
<1> HIDE DEF s
<1>1. FoldLeft(Fill, b, s) = iter[1..n]
  BY <1>0 DEF FoldLeft, MapThenFoldSet, FillTurn
<1>2. L!PicksLast(n) /\ L!Picks(1..n)
  BY <1>0, MaxIn DEF L!PicksLast, L!Picks
<1>3. L!Folds(1..n, s, b, iter)
  <2>1. IsFiniteSet(1..n)
    BY <1>0, FS_Interval, 1 \in Int
  <2>2. L!IsFiniteSet(1..n)
    BY <2>1 DEF IsFiniteSet, L!IsFiniteSet
  <2>3. PICK g : L!Folds(1..n, s, b, g)
    BY <1>2, <2>2, L!FoldExists
  <2>4. g = [t \in SUBSET (1..n) |-> Body(g, t)]
    BY <2>3 DEF L!Folds
  <2> HIDE DEF Body
  <2>5. iter = [t \in SUBSET (1..n) |-> Body(iter, t)]
    BY <2>4
  <2> HIDE DEF iter
  <2> QED
    BY <2>5 DEF L!Folds, Body
<1> HIDE DEF iter
<1>4. \E f : /\ f[0] = b
             /\ \A i \in 1..n : f[i] = FillTurn(s, i, f[i - 1])
             /\ iter[1..n] = f[n]
  BY <1>0, <1>2, <1>3, L!FoldTrace
<1> QED
  BY <1>0, <1>1, <1>4 DEF FillTurn, s

\* One answer: one buffer fewer, and the barrier's ends the sealing.
LEMMA HeardOne ==
  ASSUME NEW r \in InFlight, NEW d \in Answers
  PROVE  /\ Heard(r, d) \in InFlight
         /\ Heard(r, d).dump = r.dump /\ Heard(r, d).produced = r.produced
         /\ Heard(r, d).blocks = r.blocks /\ Heard(r, d).outstanding = r.outstanding - 1
         /\ \/ Heard(r, d).phase = r.phase /\ Heard(r, d).asked = r.asked
            \/ /\ Heard(r, d).phase = "publishing" /\ ~Heard(r, d).asked
               /\ r.phase = "sealing" /\ r.asked /\ d.op = "barrier"
<1> DEFINE last == d.ok /\ d.op = "barrier" /\ r.phase = "sealing"
           ph == IF d.ok /\ d.op = "barrier" /\ r.phase = "sealing" /\ r.asked
                   THEN "publishing" ELSE r.phase
           as == IF last THEN FALSE ELSE r.asked
           h == [r EXCEPT !.outstanding = r.outstanding - 1, !.phase = ph, !.asked = as]
<1>1. Heard(r, d) = h
  BY DEF Heard
<1>2. /\ r.outstanding \in Int /\ r.asked \in BOOLEAN /\ r.phase \in Phases /\ d.ok \in BOOLEAN
  BY DEF InFlight, Phases, Answers
<1>3. ph \in Phases /\ as \in BOOLEAN /\ r.outstanding - 1 \in Int
  <2>1. ph \in Phases
    BY <1>2 DEF Phases
  <2>2. as \in BOOLEAN
    BY <1>2
  <2>3. r.outstanding - 1 \in Int
    BY <1>2
  <2> HIDE DEF ph, as
  <2> QED
    BY <2>1, <2>2, <2>3
<1>4. \/ ph = r.phase /\ as = r.asked
      \/ ph = "publishing" /\ ~as /\ r.phase = "sealing" /\ r.asked /\ d.op = "barrier"
  BY <1>2
<1> HIDE DEF ph, as
<1>5. /\ h \in InFlight /\ h.dump = r.dump /\ h.produced = r.produced /\ h.blocks = r.blocks
      /\ h.outstanding = r.outstanding - 1 /\ h.phase = ph /\ h.asked = as
  BY <1>3 DEF InFlight, Phases
<1> QED
  BY <1>1, <1>4, <1>5

\* The run behind all the answers of a step.
Collected(r) ==
  /\ r \in InFlight /\ r.dump = run.dump /\ r.blocks = run.blocks /\ r.produced = run.produced
  /\ r.outstanding = Len(Mine)
  /\ ~Sound => r.phase = "draining"
  /\ Sound => \/ r.phase = run.phase /\ r.asked = run.asked
              \/ /\ r.phase = "publishing" /\ ~r.asked /\ run.phase = "sealing" /\ run.asked
                 /\ \E d \in ToSet(Own) : d.op = "barrier"

LEMMA HeardAll ==
  ASSUME TypeInv, run # None
  PROVE  LET h == FoldLeft(Heard, run, Own) IN
         /\ h \in InFlight /\ h.dump = run.dump /\ h.blocks = run.blocks
         /\ h.produced = run.produced /\ h.outstanding = run.outstanding - Len(Own)
         /\ \/ h.phase = run.phase /\ h.asked = run.asked
            \/ /\ h.phase = "publishing" /\ ~h.asked /\ run.phase = "sealing" /\ run.asked
               /\ \E d \in ToSet(Own) : d.op = "barrier"
<1> DEFINE n == Len(Own)
<1>0. Own \in Seq(Answers) /\ run \in InFlight /\ n \in Nat
  BY MineType DEF TypeInv
<1>1. PICK f : /\ f[0] = run
               /\ \A i \in 1..n : f[i] = Heard(f[i - 1], Own[i])
               /\ FoldLeft(Heard, run, Own) = f[n]
  BY <1>0, HeardTrace
<1> DEFINE P(i) ==
             /\ f[i] \in InFlight /\ f[i].dump = run.dump /\ f[i].blocks = run.blocks
             /\ f[i].produced = run.produced /\ f[i].outstanding = run.outstanding - i
             /\ \/ f[i].phase = run.phase /\ f[i].asked = run.asked
                \/ /\ f[i].phase = "publishing" /\ ~f[i].asked
                   /\ run.phase = "sealing" /\ run.asked
                   /\ \E d \in ToSet(Own) : d.op = "barrier"
           G == {i \in Nat : i <= n => P(i)}
<1>2. 0 \in G
  BY <1>0, <1>1 DEF InFlight
<1>3. ASSUME NEW i \in Nat, i \in G PROVE i + 1 \in G
  <2> SUFFICES ASSUME i + 1 <= n PROVE P(i + 1)
    OBVIOUS
  <2>1. P(i) /\ i + 1 \in 1..n /\ (i + 1) - 1 = i
    BY <1>0, <1>3
  <2>2. f[i + 1] = Heard(f[i], Own[i + 1])
    BY <1>1, <2>1
  <2> DEFINE r == f[i]
             d == Own[i + 1]
  <2>3. r \in InFlight /\ d \in Answers /\ d \in ToSet(Own) /\ run.outstanding \in Int
    BY <1>0, <2>1 DEF ToSet, InFlight
  <2>4. f[i + 1] = Heard(r, d)
    BY <2>2
  <2> HIDE DEF r, d
  <2>5. /\ Heard(r, d) \in InFlight
        /\ Heard(r, d).dump = r.dump /\ Heard(r, d).produced = r.produced
        /\ Heard(r, d).blocks = r.blocks /\ Heard(r, d).outstanding = r.outstanding - 1
        /\ \/ Heard(r, d).phase = r.phase /\ Heard(r, d).asked = r.asked
           \/ /\ Heard(r, d).phase = "publishing" /\ ~Heard(r, d).asked
              /\ r.phase = "sealing" /\ r.asked /\ d.op = "barrier"
    BY <2>3, HeardOne
  <2>6. /\ r.dump = run.dump /\ r.blocks = run.blocks
        /\ r.produced = run.produced /\ r.outstanding = run.outstanding - i
        /\ \/ r.phase = run.phase /\ r.asked = run.asked
           \/ /\ r.phase = "publishing" /\ ~r.asked /\ run.phase = "sealing" /\ run.asked
              /\ \E e \in ToSet(Own) : e.op = "barrier"
    BY <2>1 DEF r
  <2> QED
    BY <2>3, <2>4, <2>5, <2>6
<1> HIDE DEF G
<1>4. Nat \subseteq G
  BY <1>2, <1>3, H!SetInduction
<1>5. P(n)
  BY <1>0, <1>4 DEF G
<1> QED
  BY <1>1, <1>5

LEMMA CollectedRun ==
  ASSUME IInv, run # None
  PROVE  /\ Broken = ~Sound
         /\ Collected(IF Broken THEN GivenUp(FoldLeft(Heard, run, Own))
                      ELSE FoldLeft(Heard, run, Own))
<1> DEFINE h == FoldLeft(Heard, run, Own)
<1>1. /\ h \in InFlight /\ h.dump = run.dump /\ h.blocks = run.blocks
      /\ h.produced = run.produced /\ h.outstanding = run.outstanding - Len(Own)
      /\ \/ h.phase = run.phase /\ h.asked = run.asked
         \/ /\ h.phase = "publishing" /\ ~h.asked /\ run.phase = "sealing" /\ run.asked
            /\ \E d \in ToSet(Own) : d.op = "barrier"
  BY HeardAll DEF IInv
<1> HIDE DEF h
<1>2. Broken = ~Sound
  BY DEF Broken, Sound
<1>3. h.outstanding = Len(Mine)
  <2>1. run.outstanding = Len(Mine) + Len(Own)
    BY DEF IInv, CountInv
  <2>2. Len(Mine) \in Nat /\ Len(Own) \in Nat
    BY MineType DEF IInv
  <2> QED
    BY <1>1, <2>1, <2>2
<1>4. CASE Broken
  <2>1. /\ GivenUp(h) \in InFlight /\ GivenUp(h).phase = "draining"
        /\ GivenUp(h).dump = h.dump /\ GivenUp(h).outstanding = h.outstanding
        /\ GivenUp(h).blocks = h.blocks /\ GivenUp(h).produced = h.produced
    BY <1>1, GivenUpRun
  <2> QED
    BY <1>1, <1>2, <1>3, <1>4, <2>1 DEF Collected, h
<1>5. CASE ~Broken
  BY <1>1, <1>2, <1>3, <1>5 DEF Collected, h
<1> QED
  BY <1>2, <1>4, <1>5

-----------------------------------------------------------------------------
(* fill: the blocks handed over in one round.                              *)

\* The state of a round, behind which ops are asked for.
Rounds == [r : InFlight, held : BOOLEAN, stop : BOOLEAN, room : Int, ops : Seq(LaneOps)]

\* The i-th block handed over behind the first b of them.
BlockAt(a, b, i) ==
  /\ a \in Write /\ a.dump = run.dump /\ a.offset = b + i /\ a.chunk = b + i
  /\ a.creating = (b + i = 1)
Filled(st) ==
  /\ st \in Rounds
  /\ st.r.dump = run.dump /\ ~st.r.asked
  /\ st.r.blocks = run.blocks + Len(st.ops)
  /\ st.r.outstanding = Len(Mine) + Len(st.ops)
  /\ st.r.phase \in {"filling", "sealing"}
  /\ st.r.phase = "filling" => /\ st.r.blocks < Chunks
                               /\ st.r.produced = st.r.blocks + (IF st.held THEN 1 ELSE 0)
  /\ st.r.phase = "sealing" => st.r.blocks = Chunks /\ ~st.held
  /\ \A i \in 1..Len(st.ops) : BlockAt(st.ops[i], run.blocks, i)

LEMMA FilledTaken ==
  ASSUME TypeInv, run # None, NEW st, Filled(st), st.r.phase = "filling",
         NEW chunk \in Nat, chunk = st.r.blocks + 1
  PROVE  Filled(Offered(st, chunk))
<1> DEFINE r == st.r
<1>0. /\ st \in Rounds /\ r \in InFlight /\ st.ops \in Seq(LaneOps) /\ Len(st.ops) \in Nat
      /\ st.room \in Int /\ st.stop \in BOOLEAN /\ st.held \in BOOLEAN
  BY DEF Filled, Rounds
<1>1. /\ r.dump = run.dump /\ ~r.asked /\ r.blocks = run.blocks + Len(st.ops)
      /\ r.outstanding = Len(Mine) + Len(st.ops) /\ r.blocks < Chunks /\ r.phase = "filling"
      /\ \A i \in 1..Len(st.ops) : BlockAt(st.ops[i], run.blocks, i)
  BY DEF Filled
<1>2. /\ r.dump \in Nat /\ r.blocks \in Nat /\ r.outstanding \in Int /\ r.asked \in BOOLEAN
      /\ run.blocks \in Nat /\ Chunks \in Nat /\ Len(Mine) \in Nat /\ chunk = r.blocks + 1
  <2>1. r.dump \in Nat /\ r.blocks \in Nat /\ r.outstanding \in Int /\ r.asked \in BOOLEAN
    BY <1>0 DEF InFlight
  <2>2. run.blocks \in Nat
    BY DEF InFlight, TypeInv
  <2>3. Chunks \in Nat
    BY SnapshotsAssumption
  <2>4. Len(Mine) \in Nat
    BY MineType
  <2> QED
    BY <2>1, <2>2, <2>3, <2>4
<1> DEFINE ask == [owner |-> "snapshot", op |-> "write", dump |-> r.dump, offset |-> r.blocks + 1,
                   chunk |-> chunk, creating |-> r.blocks = 0]
           ph == IF chunk >= Chunks THEN "sealing" ELSE r.phase
           kept == [r EXCEPT !.produced = chunk]
           taken == [r EXCEPT !.produced = chunk, !.blocks = r.blocks + 1,
                              !.outstanding = r.outstanding + 1, !.phase = ph]
           sk == [st EXCEPT !.r = kept, !.held = TRUE, !.stop = TRUE]
           su == [st EXCEPT !.r = taken, !.held = FALSE, !.room = st.room - 1,
                            !.ops = Append(st.ops, ask)]
<1>3. Offered(st, chunk) = IF st.room = 0 THEN sk ELSE su
  BY DEF Offered
<1>4. CASE st.room = 0
  <2>1. /\ kept \in InFlight /\ kept.dump = r.dump /\ kept.asked = r.asked
        /\ kept.blocks = r.blocks /\ kept.outstanding = r.outstanding /\ kept.phase = r.phase
        /\ kept.produced = chunk
    BY <1>0 DEF InFlight
  <2> HIDE DEF kept, r
  <2>2. sk \in Rounds /\ sk.r = kept /\ sk.ops = st.ops /\ sk.held
    BY <1>0, <2>1 DEF Rounds
  <2> HIDE DEF sk
  <2>3. Filled(sk)
    BY <1>1, <1>2, <2>1, <2>2 DEF Filled
  <2> QED
    BY <1>3, <1>4, <2>3
<1>5. CASE st.room # 0
  <2>1. ph \in {"filling", "sealing"} /\ ph \in Phases
    BY <1>1 DEF Phases
  <2>2. ph = "filling" => r.blocks + 1 < Chunks
    BY <1>2
  <2>3. ph = "sealing" => r.blocks + 1 = Chunks
    BY <1>1, <1>2
  <2>4. /\ r.blocks + 1 \in Nat /\ r.outstanding + 1 \in Int
    BY <1>2
  <2>5. ask \in Write /\ ask.dump = run.dump /\ ask.offset = r.blocks + 1 /\ ask.chunk = r.blocks + 1
        /\ ask.creating = (r.blocks = 0)
    <3>1. (r.blocks = 0) \in BOOLEAN
      OBVIOUS
    <3> QED
      BY <1>1, <1>2, <2>4, <3>1 DEF Write
  <2> HIDE DEF ph, ask
  <2>6. /\ taken \in InFlight /\ taken.dump = r.dump /\ taken.asked = r.asked
        /\ taken.blocks = r.blocks + 1 /\ taken.outstanding = r.outstanding + 1
        /\ taken.phase = ph /\ taken.produced = chunk
    BY <1>0, <2>1, <2>4 DEF InFlight, Phases
  <2> HIDE DEF taken
  <2> DEFINE k == Len(st.ops)
  <2>7. /\ Append(st.ops, ask) \in Seq(LaneOps) /\ Len(Append(st.ops, ask)) = k + 1
        /\ Append(st.ops, ask)[k + 1] = ask /\ \A i \in 1..k : Append(st.ops, ask)[i] = st.ops[i]
    <3>1. ask \in LaneOps
      BY <2>5 DEF LaneOps
    <3> QED
      BY <1>0, <3>1
  <2> DEFINE ops == Append(st.ops, ask)
             room == st.room - 1
  <2>8. su \in Rounds /\ su.r = taken /\ su.ops = ops /\ su.held = FALSE
    <3>1. room \in Int /\ ops \in Seq(LaneOps)
      BY <1>0, <2>7
    <3> HIDE DEF ops, r, room
    <3>2. su = [st EXCEPT !.r = taken, !.held = FALSE, !.room = room, !.ops = ops]
      BY DEF ops, room
    <3> HIDE DEF su
    <3> QED
      BY <1>0, <2>6, <3>1, <3>2 DEF Rounds
  <2> HIDE DEF su, ops, r
  <2>9. \A i \in 1..Len(su.ops) : BlockAt(su.ops[i], run.blocks, i)
    <3> SUFFICES ASSUME NEW i \in 1..(k + 1) PROVE BlockAt(ops[i], run.blocks, i)
      BY <2>7, <2>8 DEF ops
    <3>1. CASE i \in 1..k
      BY <1>1, <2>7, <3>1 DEF ops
    <3>2. CASE i = k + 1
      <4>1. ops[i] = ask /\ run.blocks + i = r.blocks + 1
        BY <1>0, <1>1, <1>2, <2>7, <3>2, SMTT(30) DEF ops
      <4> QED
        BY <1>2, <2>5, <4>1 DEF BlockAt
    <3> QED
      BY <1>0, <3>1, <3>2
  <2>10. Len(ops) = k + 1 /\ k \in Nat
    BY <1>0, <2>7 DEF ops
  <2>11. /\ su.r.dump = run.dump /\ ~su.r.asked
         /\ su.r.blocks = run.blocks + Len(su.ops)
         /\ su.r.outstanding = Len(Mine) + Len(su.ops)
         /\ su.r.phase \in {"filling", "sealing"}
    <3>1. /\ taken.blocks = run.blocks + Len(ops)
          /\ taken.outstanding = Len(Mine) + Len(ops)
      BY <1>1, <1>2, <2>6, <2>10, SMTT(30)
    <3>2. taken.dump = run.dump /\ ~taken.asked /\ taken.phase \in {"filling", "sealing"}
      BY <1>1, <2>1, <2>6
    <3> QED
      BY <2>8, <3>1, <3>2
  <2>12. /\ su.r.phase = "filling" => /\ su.r.blocks < Chunks
                                      /\ su.r.produced = su.r.blocks + (IF su.held THEN 1 ELSE 0)
         /\ su.r.phase = "sealing" => su.r.blocks = Chunks /\ ~su.held
    BY <1>2, <2>2, <2>3, <2>6, <2>8
  <2>13. Filled(su)
    BY <2>8, <2>9, <2>11, <2>12 DEF Filled
  <2> QED
    BY <1>3, <1>5, <2>13
<1> QED
  BY <1>4, <1>5

LEMMA FillKeeps ==
  ASSUME TypeInv, run # None, NEW st, Filled(st), NEW i
  PROVE  Filled(Fill(st, i))
<1>0. /\ st \in Rounds /\ st.held \in BOOLEAN /\ st.r \in InFlight
  BY DEF Filled, Rounds
<1>1. CASE st.r.phase # "filling" \/ st.stop \/ st.r.outstanding >= Share
  <2> DEFINE so == [st EXCEPT !.stop = TRUE]
  <2>1. Fill(st, i) = so
    BY <1>1 DEF Fill
  <2>2. so \in Rounds /\ so.r = st.r /\ so.held = st.held /\ so.ops = st.ops
    BY <1>0 DEF Rounds
  <2> HIDE DEF so
  <2> QED
    BY <2>1, <2>2 DEF Filled
<1>2. CASE ~(st.r.phase # "filling" \/ st.stop \/ st.r.outstanding >= Share)
  <2> DEFINE chunk == IF st.held THEN st.r.produced ELSE st.r.produced + 1
  <2>1. Fill(st, i) = Offered(st, chunk)
    BY <1>2 DEF Fill
  <2>2. st.r.produced = st.r.blocks + (IF st.held THEN 1 ELSE 0) /\ st.r.blocks \in Nat
    BY <1>0, <1>2 DEF Filled, InFlight
  <2>3. chunk = st.r.blocks + 1 /\ chunk \in Nat
    BY <2>2
  <2> HIDE DEF chunk
  <2> QED
    BY <1>2, <2>1, <2>3, FilledTaken
<1> QED
  BY <1>1, <1>2

LEMMA FillAll ==
  ASSUME TypeInv, run # None, NEW st, Filled(st)
  PROVE  Filled(FoldLeft(Fill, st, [i \in 1..PerRound |-> i]))
<1>0. PerRound \in Nat
  BY SnapshotsAssumption
<1>1. PICK f : /\ f[0] = st
               /\ \A i \in 1..PerRound : f[i] = Fill(f[i - 1], i)
               /\ FoldLeft(Fill, st, [i \in 1..PerRound |-> i]) = f[PerRound]
  BY <1>0, FillTrace
<1> DEFINE G == {i \in Nat : i <= PerRound => Filled(f[i])}
<1>2. 0 \in G
  BY <1>1
<1>3. ASSUME NEW i \in Nat, i \in G PROVE i + 1 \in G
  <2> SUFFICES ASSUME i + 1 <= PerRound PROVE Filled(f[i + 1])
    OBVIOUS
  <2>1. Filled(f[i]) /\ i + 1 \in 1..PerRound /\ (i + 1) - 1 = i
    BY <1>0, <1>3
  <2>2. f[i + 1] = Fill(f[i], i + 1)
    BY <1>1, <2>1
  <2> QED
    BY <2>1, <2>2, FillKeeps
<1> HIDE DEF G
<1>4. Nat \subseteq G
  BY <1>2, <1>3, H!SetInduction
<1> QED
  BY <1>0, <1>1, <1>4 DEF G

-----------------------------------------------------------------------------
(* step: what becomes of the run, of the block in hand and of the lane.    *)

\* The rename may be asked for: the barrier was answered.
AtRename ==
  \/ run.phase = "publishing" /\ ~run.asked
  \/ run.phase = "sealing" /\ run.asked /\ Sound /\ \E d \in ToSet(Own) : d.op = "barrier"
OutDraining(r, held, ops) ==
  /\ r.phase = "draining" /\ ~held
  /\ \/ \A i \in 1..Len(ops) : ops[i].op = "remove"
     \/ run.phase = "filling" /\ \A i \in 1..Len(ops) : ops[i].op = "write"
OutFilling(r, held, ops) ==
  /\ Sound /\ run.phase = "filling" /\ r.phase \in {"filling", "sealing"} /\ ~r.asked
  /\ r.blocks = run.blocks + Len(ops)
  /\ r.phase = "filling" => r.blocks < Chunks /\ r.produced = r.blocks + (IF held THEN 1 ELSE 0)
  /\ r.phase = "sealing" => r.blocks = Chunks /\ ~held
  /\ \A i \in 1..Len(ops) : BlockAt(ops[i], run.blocks, i)
OutSealing(r, held, ops) ==
  /\ Sound /\ run.phase = "sealing" /\ r.phase = "sealing" /\ r.blocks = run.blocks /\ ~held
  /\ \/ r.asked = run.asked /\ ops = <<>>
     \/ ~run.asked /\ r.asked /\ Len(ops) = 1 /\ ops[1].op = "barrier"
OutAsked(r, held, ops) ==
  /\ r.phase = "publishing" /\ run.phase = "publishing" /\ run.asked /\ r.asked
  /\ ~held /\ ops = <<>>
OutPublish(r, held, ops) ==
  /\ r.phase = "publishing" /\ AtRename /\ ~held
  /\ \/ ~r.asked /\ ops = <<>>
     \/ r.asked /\ Len(ops) = 1 /\ ops[1].op = "rename"
Outcome(r, held, ops) ==
  /\ r \in InFlight /\ r.dump = run.dump /\ held \in BOOLEAN
  /\ ops \in Seq(LaneOps) /\ \A i \in 1..Len(ops) : ops[i].owner = "snapshot"
  /\ r.outstanding = Len(Mine) + Len(ops)
  /\ \/ OutDraining(r, held, ops) \/ OutFilling(r, held, ops) \/ OutSealing(r, held, ops)
     \/ OutAsked(r, held, ops) \/ OutPublish(r, held, ops)

\* The state a round starts from, behind the answers.
Start(k) == [r |-> k, held |-> unsubmitted /\ ~Broken, stop |-> FALSE,
             room |-> Room + Len(Own), ops |-> <<>>]

\* What is asked of the lane and what is not, by phase.
LEMMA OutOfFilling ==
  ASSUME IInv, run # None, NEW k, Collected(k), k.phase = "filling", NEW st,
         st = Start(k)
  PROVE  Outcome(Asking(st).r, Asking(st).held, Asking(st).ops)
<1>1. Sound /\ run.phase = "filling" /\ k.asked = run.asked /\ Broken = FALSE
  BY DEF Collected, Sound, Broken
<1>2. /\ k \in InFlight /\ k.dump = run.dump /\ k.blocks = run.blocks /\ k.produced = run.produced
      /\ k.outstanding = Len(Mine)
  BY DEF Collected
<1>3. Room + Len(Own) \in Int
  <2>1. Len(lane) \in Int /\ Len(done) \in Int /\ Depth \in Int /\ Len(Own) \in Int
    BY SnapshotsAssumption, MineType DEF IInv, TypeInv
  <2> QED
    BY <2>1 DEF Room
<1>4. unsubmitted \in BOOLEAN /\ ~run.asked /\ run.blocks < Chunks
      /\ run.produced = run.blocks + (IF unsubmitted THEN 1 ELSE 0)
  BY <1>1 DEF IInv, TypeInv, RunInv
<1>5. Filled(st)
  <2> DEFINE room == Room + Len(Own)
             held == unsubmitted /\ ~Broken
  <2>1. held = unsubmitted /\ held \in BOOLEAN /\ room \in Int
    BY <1>1, <1>3, <1>4
  <2>2. st = [r |-> k, held |-> held, stop |-> FALSE, room |-> room, ops |-> <<>>]
    BY Zenon DEF Start
  <2> HIDE DEF room, held
  <2>3. st \in Rounds
    BY <1>2, <2>1, <2>2 DEF Rounds
  <2>4. st.r = k /\ st.held = unsubmitted /\ st.ops = <<>>
    BY <2>1, <2>2
  <2>5. Len(st.ops) = 0 /\ Len(Mine) \in Nat /\ run.blocks \in Nat
    BY <1>2, <2>4, MineType DEF IInv, InFlight
  <2> QED
    BY <1>1, <1>2, <1>4, <2>3, <2>4, <2>5 DEF Filled
<1> DEFINE s == Asking(st)
<1>6. Filled(s)
  <2>1. st.r.phase = "filling"
    BY DEF Start
  <2> QED
    BY <1>5, <2>1, FillAll DEF Asking, IInv
<1> HIDE DEF s
<1>7. /\ s.r \in InFlight /\ s.held \in BOOLEAN /\ s.ops \in Seq(LaneOps)
  BY <1>6 DEF Filled, Rounds
<1>8. \A i \in 1..Len(s.ops) : s.ops[i].owner = "snapshot"
  BY <1>6 DEF Filled, BlockAt, Write
<1>9. OutFilling(s.r, s.held, s.ops)
  BY <1>1, <1>6 DEF Filled, OutFilling
<1>10. s.r.dump = run.dump /\ s.r.outstanding = Len(Mine) + Len(s.ops)
  BY <1>6 DEF Filled
<1> QED
  BY <1>7, <1>8, <1>9, <1>10 DEF Outcome, s

LEMMA OutOfOthers ==
  ASSUME IInv, run # None, NEW k, Collected(k), k.phase # "filling", NEW st,
         st = Start(k)
  PROVE  Outcome(Asking(st).r, Asking(st).held, Asking(st).ops)
<1>0. /\ k \in InFlight /\ k.dump = run.dump /\ k.blocks = run.blocks
      /\ k.outstanding = Len(Mine) /\ Len(Mine) \in Nat /\ k.asked \in BOOLEAN
  BY MineType DEF Collected, IInv, InFlight
<1>1. (unsubmitted /\ ~Broken) = FALSE
  <2>1. Broken = ~Sound
    BY DEF Broken, Sound
  <2>2. Sound => run.phase # "filling"
    BY DEF Collected
  <2>3. run.phase # "filling" => ~unsubmitted
    BY DEF IInv, RunInv
  <2> QED
    BY <2>1, <2>2, <2>3
<1> DEFINE no == FALSE
           room == Room + Len(Own)
           op == Op(Wanted(k.phase))
           made == [k EXCEPT !.asked = TRUE, !.outstanding = k.outstanding + 1]
<1>2. st = [r |-> k, held |-> no, stop |-> FALSE, room |-> room, ops |-> <<>>]
  BY <1>1 DEF Start
<1>11. no \in BOOLEAN /\ ~no
  OBVIOUS
<1>12. room \in Int
  <2>1. Len(lane) \in Int /\ Len(done) \in Int /\ Depth \in Int /\ Len(Own) \in Int
    BY SnapshotsAssumption, MineType DEF IInv, TypeInv
  <2> QED
    BY <2>1 DEF Room
<1> HIDE DEF room, no
<1>13. st \in Rounds
  BY <1>0, <1>2, <1>11, <1>12 DEF Rounds
<1>3. st.r = k /\ st.held = no /\ st.ops = <<>> /\ st.room = room
  BY <1>2
<1>4. k.phase \in {"sealing", "publishing", "draining"}
  BY <1>0 DEF InFlight
<1>5. /\ op \in LaneOps /\ op.owner = "snapshot"
      /\ k.phase = "sealing" => op.op = "barrier"
      /\ k.phase = "publishing" => op.op = "rename"
      /\ k.phase = "draining" => op.op = "remove"
  <2>1. /\ op.owner = "snapshot" /\ op.op = Wanted(k.phase)
        /\ op = [owner |-> "snapshot", op |-> Wanted(k.phase)]
    BY DEF Op
  <2>2. /\ k.phase = "sealing" => Wanted(k.phase) = "barrier"
        /\ k.phase = "publishing" => Wanted(k.phase) = "rename"
        /\ k.phase = "draining" => Wanted(k.phase) = "remove"
    BY DEF Wanted
  <2>3. Wanted(k.phase) \in OpNames \ {"write"}
    BY <1>4, <2>2 DEF OpNames
  <2> HIDE DEF op
  <2>4. op \in LaneOps
    BY <2>1, <2>3 DEF LaneOps, Plain
  <2> QED
    BY <2>1, <2>2, <2>4
<1>6. /\ made \in InFlight /\ made.dump = k.dump /\ made.blocks = k.blocks
      /\ made.phase = k.phase /\ made.asked = TRUE /\ made.outstanding = k.outstanding + 1
  <2> DEFINE n == k.outstanding + 1
  <2>1. n \in Int
    BY <1>0
  <2> HIDE DEF n
  <2>2. made = [k EXCEPT !.asked = TRUE, !.outstanding = n]
    BY DEF n
  <2> HIDE DEF made
  <2>3. /\ made \in InFlight /\ made.dump = k.dump /\ made.blocks = k.blocks
        /\ made.phase = k.phase /\ made.asked = TRUE /\ made.outstanding = n
    BY <1>0, <2>1, <2>2 DEF InFlight
  <2> QED
    BY <2>3 DEF n
<1> HIDE DEF op, made
<1>7. <<op>> \in Seq(LaneOps) /\ Len(<<op>>) = 1 /\ <<op>>[1] = op /\ Append(<<>>, op) = <<op>>
  BY <1>5
<1>8. /\ Made(st).r = made /\ Made(st).held = no /\ Made(st).ops = <<op>>
  <2>1. Made(st) = [st EXCEPT !.r = [k EXCEPT !.asked = TRUE, !.outstanding = k.outstanding + 1],
                              !.room = st.room - 1, !.ops = Append(st.ops, op)]
    BY <1>3 DEF Made, op
  <2>2. Made(st) = [st EXCEPT !.r = made, !.room = st.room - 1, !.ops = Append(st.ops, op)]
    BY <2>1 DEF made
  <2> DEFINE left == st.room - 1
             ops == Append(st.ops, op)
  <2>3. ops = <<op>>
    BY <1>3, <1>7
  <2> HIDE DEF left, ops
  <2>4. Made(st) = [st EXCEPT !.r = made, !.room = left, !.ops = ops]
    BY <2>2 DEF left, ops
  <2>5. Made(st).r = made /\ Made(st).held = no /\ Made(st).ops = ops
    BY <1>3, <1>13, <2>4 DEF Rounds
  <2> QED
    BY <2>3, <2>5
<1>9. CASE k.asked \/ room = 0
  <2>1. Asking(st) = st
    BY <1>3, <1>9 DEF Asking
  <2>2. \/ OutDraining(k, no, <<>>) \/ OutSealing(k, no, <<>>)
        \/ OutAsked(k, no, <<>>) \/ OutPublish(k, no, <<>>)
    <3>1. CASE k.phase = "draining"
      BY <1>11, <3>1 DEF OutDraining
    <3>2. CASE k.phase = "sealing"
      BY <1>0, <1>11, <3>2 DEF OutSealing, Collected
    <3>3. CASE k.phase = "publishing"
      BY <1>0, <1>11, <3>3 DEF OutAsked, OutPublish, Collected, AtRename
    <3> QED
      BY <1>4, <3>1, <3>2, <3>3
  <2>3. <<>> \in Seq(LaneOps) /\ Len(<<>>) = 0
    OBVIOUS
  <2>4. Outcome(k, no, <<>>)
    BY <1>0, <1>11, <2>2, <2>3 DEF Outcome
  <2> QED
    BY <1>3, <2>1, <2>4
<1>10. CASE ~(k.asked \/ room = 0)
  <2>1. Asking(st) = Made(st)
    BY <1>3, <1>10 DEF Asking
  <2> DEFINE ops == <<op>>
  <2>2. ops \in Seq(LaneOps) /\ Len(ops) = 1 /\ ops[1] = op
    BY <1>7
  <2> HIDE DEF ops
  <2>3. \/ OutDraining(made, no, ops) \/ OutSealing(made, no, ops)
        \/ OutPublish(made, no, ops)
    <3>1. CASE k.phase = "draining"
      BY <1>5, <1>6, <1>11, <2>2, <3>1 DEF OutDraining
    <3>2. CASE k.phase = "sealing"
      BY <1>0, <1>5, <1>6, <1>10, <1>11, <2>2, <3>2 DEF OutSealing, Collected
    <3>3. CASE k.phase = "publishing"
      BY <1>0, <1>5, <1>6, <1>10, <1>11, <2>2, <3>3 DEF OutPublish, Collected, AtRename
    <3> QED
      BY <1>4, <3>1, <3>2, <3>3
  <2>4. Outcome(made, no, ops)
    BY <1>0, <1>5, <1>6, <1>11, <2>2, <2>3 DEF Outcome
  <2> QED
    BY <1>8, <2>1, <2>4 DEF ops
<1> QED
  BY <1>9, <1>10

\* The shadow past its budget: what was asked for in this round is out as well.
LEMMA OutOver ==
  ASSUME NEW r, NEW held, NEW ops, Outcome(r, held, ops), r.phase = "filling"
  PROVE  Outcome(GivenUp(r), FALSE, ops)
<1>1. r \in InFlight
  BY DEF Outcome
<1>2. /\ GivenUp(r) \in InFlight /\ GivenUp(r).phase = "draining"
      /\ GivenUp(r).dump = r.dump /\ GivenUp(r).outstanding = r.outstanding
  BY <1>1, GivenUpRun
<1>3. OutFilling(r, held, ops)
  BY DEF Outcome, OutDraining, OutSealing, OutAsked, OutPublish
<1>4. run.phase = "filling" /\ \A i \in 1..Len(ops) : ops[i].op = "write"
  BY <1>3 DEF OutFilling, BlockAt, Write
<1>5. OutDraining(GivenUp(r), FALSE, ops)
  BY <1>2, <1>4 DEF OutDraining
<1> QED
  BY <1>2, <1>5 DEF Outcome

\* A step in terms of its outcome.
Stepped(r, held, ops) ==
  /\ lane' = lane \o ops /\ unsubmitted' = held
  /\ \/ run' = r /\ finished' = finished
     \/ run' = None /\ r.outstanding = 0 /\ finished' = finished
     \/ run' = None /\ r.outstanding = 0 /\ Published(run) /\ finished' = r.dump

LEMMA StepOutcome ==
  ASSUME IInv, Step
  PROVE  \E r, held, ops : Outcome(r, held, ops) /\ Stepped(r, held, ops)
<1> DEFINE k == IF Broken THEN GivenUp(FoldLeft(Heard, run, Own))
                ELSE FoldLeft(Heard, run, Own)
           s0 == [r |-> k, held |-> unsubmitted /\ ~Broken, stop |-> FALSE,
                  room |-> Room + Len(Own), ops |-> <<>>]
           st == Asking(s0)
           pub == Published(run)
<1>0. run # None
  BY DEF Step
<1>1. Collected(k)
  BY <1>0, CollectedRun
<1>2. \E over \in {FALSE, st.r.phase = "filling" /\ st.r.produced < Chunks} :
        LET r == IF over THEN GivenUp(st.r) ELSE st.r
            ends == r.outstanding = 0 /\ (pub \/ (r.phase = "draining" /\ r.asked))
        IN /\ run' = IF ends THEN None ELSE r
           /\ unsubmitted' = (st.held /\ ~over)
           /\ lane' = lane \o st.ops
           /\ finished' = IF ends /\ pub THEN r.dump ELSE finished
  BY DEF Step
<1> HIDE DEF k, pub
<1>3. Outcome(st.r, st.held, st.ops)
  <2> DEFINE s == s0
  <2>1. s = Start(k)
    BY DEF Start
  <2> HIDE DEF s
  <2>2. Outcome(Asking(s).r, Asking(s).held, Asking(s).ops)
    BY <1>0, <1>1, <2>1, OutOfFilling, OutOfOthers
  <2> QED
    BY <2>2 DEF s
<1> HIDE DEF st, s0
<1>4. PICK over \in {FALSE, st.r.phase = "filling" /\ st.r.produced < Chunks} :
        LET r == IF over THEN GivenUp(st.r) ELSE st.r
            ends == r.outstanding = 0 /\ (pub \/ (r.phase = "draining" /\ r.asked))
        IN /\ run' = IF ends THEN None ELSE r
           /\ unsubmitted' = (st.held /\ ~over)
           /\ lane' = lane \o st.ops
           /\ finished' = IF ends /\ pub THEN r.dump ELSE finished
  BY <1>2
<1> DEFINE r == IF over THEN GivenUp(st.r) ELSE st.r
           held == st.held /\ ~over
<1>5. Outcome(r, held, st.ops)
  <2>1. CASE over
    <3>1. st.r.phase = "filling"
      BY <2>1
    <3>2. Outcome(GivenUp(st.r), FALSE, st.ops)
      BY <1>3, <3>1, OutOver
    <3>3. r = GivenUp(st.r) /\ held = FALSE
      BY <2>1
    <3> QED
      BY <3>2, <3>3
  <2>2. CASE ~over
    <3>1. st.held \in BOOLEAN
      BY <1>3 DEF Outcome
    <3>2. r = st.r /\ held = st.held
      BY <2>2, <3>1
    <3> QED
      BY <1>3, <3>2
  <2> QED
    BY <2>1, <2>2
<1>6. Stepped(r, held, st.ops)
  <2>1. /\ run' = IF r.outstanding = 0 /\ (pub \/ (r.phase = "draining" /\ r.asked))
                    THEN None ELSE r
        /\ unsubmitted' = held /\ lane' = lane \o st.ops
        /\ finished' = IF /\ r.outstanding = 0 /\ (pub \/ (r.phase = "draining" /\ r.asked))
                          /\ pub
                         THEN r.dump ELSE finished
    BY <1>4
  <2> HIDE DEF r, held
  <2> QED
    BY <2>1 DEF Stepped, pub
<1> QED
  BY <1>5, <1>6

\* A step's asks are behind what the dump has in the lane, and its answers are
\* taken.
Grown(ops) ==
  /\ Len(Mine) \in Nat /\ Len(ops) \in Nat
  /\ Own' = <<>> /\ Len(Own') = 0 /\ ToSet(Own') = {}
  /\ Mine' = Mine \o ops /\ Len(Mine') = Len(Mine) + Len(ops)
  /\ \A j \in 1..Len(Mine) : Mine'[j] = Mine[j]
  /\ \A i \in 1..Len(ops) : Mine'[Len(Mine) + i] = ops[i]

LEMMA GrownAt ==
  ASSUME NEW ops, Grown(ops), NEW j \in 1..Len(Mine')
  PROVE  \/ j \in 1..Len(Mine) /\ Mine'[j] = Mine[j]
         \/ \E i \in 1..Len(ops) : j = Len(Mine) + i /\ Mine'[j] = ops[i]
<1> SUFFICES ASSUME j \notin 1..Len(Mine)
             PROVE  \E i \in 1..Len(ops) : j = Len(Mine) + i /\ Mine'[j] = ops[i]
  BY DEF Grown
<1>1. j - Len(Mine) \in 1..Len(ops) /\ j = Len(Mine) + (j - Len(Mine))
  BY DEF Grown
<1> QED
  BY <1>1 DEF Grown

LEMMA StepQueues ==
  ASSUME TypeInv, NEW ops \in Seq(LaneOps), \A i \in 1..Len(ops) : ops[i].owner = "snapshot",
         lane' = lane \o ops, done' = OwnedBy("log", done)
  PROVE  lane' \in Seq(LaneOps) /\ done' \in Seq(Answers) /\ Grown(ops)
<1>1. lane \in Seq(LaneOps) /\ done \in Seq(Answers) /\ Mine \in Seq(LaneOps)
  BY MineType DEF TypeInv
<1>2. OwnedBy("snapshot", lane \o ops) = OwnedBy("snapshot", lane) \o ops
  BY <1>1, KeptConcat
<1>3. Mine' = Mine \o ops
  BY <1>2 DEF Mine
<1>4. done' \in Seq(Answers) /\ \A i \in 1..Len(done') : done'[i].owner = "log"
  BY <1>1, KeptType
<1>5. Own' = <<>>
  <2> DEFINE t == done'
  <2>1. t \in Seq(Answers) /\ \A i \in 1..Len(t) : t[i].owner # "snapshot"
    BY <1>4
  <2> HIDE DEF t
  <2>2. OwnedBy("snapshot", t) = <<>>
    BY <2>1, KeptNone
  <2> QED
    BY <2>2 DEF Own, t
<1>6. Len(Own') = 0 /\ ToSet(Own') = {}
  BY <1>5 DEF ToSet
<1>7. /\ Len(Mine \o ops) = Len(Mine) + Len(ops)
      /\ \A j \in 1..Len(Mine) : (Mine \o ops)[j] = Mine[j]
      /\ \A i \in 1..Len(ops) : (Mine \o ops)[Len(Mine) + i] = ops[i]
  BY <1>1
<1> QED
  BY <1>1, <1>3, <1>4, <1>5, <1>6, <1>7 DEF Grown

\* The blocks and the barrier a step asks for are the next of the dump's operations.
LEMMA StepProgress ==
  ASSUME IInv, run # None, run \in InFlight,
         NEW r, NEW held, NEW ops, Outcome(r, held, ops), run' = r, r.phase \in {"filling", "sealing"},
         LaneOther, Grown(ops)
  PROVE  /\ \A j \in 1..Len(Mine') : Mine'[j].op \in {"remove", "write", "barrier"}
         /\ \E m \in 0..AskedLen' : Progress(m)'
<1>0. OutFilling(r, held, ops) \/ OutSealing(r, held, ops)
  BY DEF Outcome, OutDraining, OutAsked, OutPublish
<1>1. Sound /\ run.phase \in {"filling", "sealing"}
  BY <1>0 DEF OutFilling, OutSealing
<1>2. /\ \A j \in 1..Len(Mine) : Mine[j].op \in {"remove", "write", "barrier"}
      /\ \E m \in 0..AskedLen : Progress(m)
  BY <1>1 DEF IInv, ProgressInv
<1>3. PICK m \in 0..AskedLen : Progress(m)
  BY <1>2
<1>4. run.blocks \in Nat /\ r.blocks \in Nat /\ r.dump = run.dump
  BY DEF Outcome, InFlight
<1> DEFINE n == AskedLen
           q == AskedLen'
           mine == Mine
           k == Len(Mine)
<1>5. /\ m \in Nat /\ n \in Nat /\ q \in Nat /\ m <= n
      /\ n = 1 + run.blocks + (IF run.asked THEN 1 ELSE 0)
      /\ q = 1 + r.blocks + (IF r.asked THEN 1 ELSE 0)
  BY <1>4 DEF AskedLen
<1>16. k \in Nat /\ Len(ops) \in Nat
  BY DEF Grown
<1>6. k = n - m /\ \A j \in 1..k : AskedAt(mine[j], m + j)
  BY <1>3 DEF Progress
<1> DEFINE At(a, j) ==
             IF j = 1 THEN a.op = "remove"
             ELSE IF j <= r.blocks + 1
                    THEN /\ a.op = "write" /\ a.dump = r.dump /\ a.offset = j - 1 /\ a.chunk = j - 1
                         /\ a.creating = (j = 2)
                    ELSE a.op = "barrier"
<1> HIDE DEF n, q, k, mine
\* The two ways it goes, said of the operations asked for.
<1>7. /\ q = n + Len(ops)
      /\ run.blocks <= r.blocks
      /\ \A j \in 1..k : At(mine[j], m + j)
      /\ \A i \in 1..Len(ops) : At(ops[i], n + i)
      /\ \A i \in 1..Len(ops) : ops[i].op \in {"write", "barrier"}
      /\ r.blocks # run.blocks => m <= run.blocks + 1
  <2>1. CASE OutFilling(r, held, ops)
    <3>0. ~run.asked /\ ~r.asked
      BY <2>1 DEF OutFilling, IInv, RunInv
    <3>1. r.blocks = run.blocks + Len(ops)
      BY <2>1 DEF OutFilling
    <3>2. n = 1 + run.blocks /\ q = 1 + r.blocks
      BY <1>4, <1>5, <3>0
    <3>3. ASSUME NEW j \in 1..k PROVE At(mine[j], m + j)
      <4>1. m + j <= run.blocks + 1 /\ m + j <= r.blocks + 1 /\ AskedAt(mine[j], m + j)
        BY <1>4, <1>5, <1>6, <1>16, <3>1, <3>2, SMTT(30)
      <4> QED
        BY <1>4, <4>1 DEF AskedAt
    <3>4. ASSUME NEW i \in 1..Len(ops)
          PROVE  At(ops[i], n + i) /\ ops[i].op = "write"
      <4>1. BlockAt(ops[i], run.blocks, i)
        BY <2>1 DEF OutFilling
      <4>2. /\ ops[i].op = "write" /\ ops[i].dump = r.dump /\ ops[i].offset = run.blocks + i
            /\ ops[i].chunk = run.blocks + i /\ ops[i].creating = (run.blocks + i = 1)
        BY <1>4, <4>1 DEF BlockAt, Write
      <4> DEFINE p == n + i
      <4>3. p # 1 /\ p <= r.blocks + 1 /\ p - 1 = run.blocks + i /\ (p = 2 <=> run.blocks + i = 1)
        <5> DEFINE z == run.blocks
                   y == Len(ops)
                   x == r.blocks
        <5>1. i \in Nat /\ i >= 1 /\ i <= y /\ y \in Nat /\ z \in Nat /\ x = z + y
          BY <1>4, <1>16, <3>1
        <5>2. p = (1 + z) + i
          BY <3>2
        <5> HIDE DEF p, z, y, x
        <5>3. p # 1 /\ p <= x + 1 /\ p - 1 = z + i /\ (p = 2 <=> z + i = 1)
          BY <5>1, <5>2
        <5> QED
          BY <5>3 DEF z, x
      <4> HIDE DEF p
      <4>4. At(ops[i], p)
        BY <4>2, <4>3
      <4> QED
        BY <4>2, <4>4 DEF p
    <3> HIDE DEF At
    <3>5. q = n + Len(ops) /\ run.blocks <= r.blocks /\ m <= run.blocks + 1
      BY <1>4, <1>5, <1>16, <3>1, <3>2
    <3>6. /\ \A j \in 1..k : At(mine[j], m + j)
          /\ \A i \in 1..Len(ops) : At(ops[i], n + i)
          /\ \A i \in 1..Len(ops) : ops[i].op \in {"write", "barrier"}
      BY <3>3, <3>4
    <3> QED
      BY <3>5, <3>6
  <2>2. CASE OutSealing(r, held, ops)
    <3>1. r.blocks = run.blocks
      BY <2>2 DEF OutSealing
    <3>2. \A j \in 1..k : At(mine[j], m + j)
      BY <1>4, <1>6, <3>1 DEF AskedAt
    <3>3. CASE r.asked = run.asked /\ ops = <<>>
      <4>1. q = n + 0 /\ Len(ops) = 0
        BY <1>4, <1>5, <3>1, <3>3
      <4> HIDE DEF At
      <4> QED
        BY <1>4, <3>1, <3>2, <4>1
    <3>4. CASE ~run.asked /\ r.asked /\ Len(ops) = 1 /\ ops[1].op = "barrier"
      <4>1. n = 1 + run.blocks /\ q = 2 + run.blocks
        BY <1>4, <1>5, <3>1, <3>4
      <4>2. At(ops[1], n + 1)
        BY <1>4, <3>1, <3>4, <4>1
      <4> HIDE DEF At
      <4> QED
        BY <1>4, <3>1, <3>2, <3>4, <4>1, <4>2
    <3> QED
      BY <2>2, <3>3, <3>4 DEF OutSealing
  <2> QED
    BY <1>0, <2>1, <2>2
<1>8. ASSUME NEW j \in 1..Len(Mine')
      PROVE  Mine'[j].op \in {"remove", "write", "barrier"} /\ At(Mine'[j], m + j)
  <2> HIDE DEF At
  <2>1. CASE j \in 1..Len(Mine) /\ Mine'[j] = Mine[j]
    BY <1>2, <1>7, <2>1 DEF k, mine
  <2>2. ASSUME NEW i \in 1..Len(ops), j = Len(Mine) + i, Mine'[j] = ops[i]
        PROVE  Mine'[j].op \in {"remove", "write", "barrier"} /\ At(Mine'[j], m + j)
    <3>1. m + j = n + i
      BY <1>5, <1>6, <1>16, <2>2, SMTT(30) DEF k
    <3> QED
      BY <1>7, <2>2, <3>1
  <2> QED
    BY <2>1, <2>2, GrownAt
<1>11. \A j \in 1..Len(Mine') : AskedAt(Mine[j], m + j)'
  BY <1>8 DEF AskedAt
<1>12. Len(Mine') = AskedLen' - m /\ m \in 0..AskedLen'
  <2>1. Len(Mine') = k + Len(ops)
    BY DEF Grown, k
  <2>2. k + Len(ops) = q - m /\ m \in 0..q
    BY <1>5, <1>6, <1>7, <1>16, SMTT(30)
  <2> QED
    BY <2>1, <2>2 DEF q
<1>13. Served(m)' = Served(m) /\ (m > r.blocks + 1 => m > run.blocks + 1)
  BY <1>4, <1>5, <1>7 DEF Served
<1>14. Written(Served(m))' = Written(Served(m))
  BY <1>4, <1>13 DEF Written
<1>15. Progress(m)'
  BY <1>3, <1>11, <1>12, <1>13, <1>14 DEF Progress, LaneOther, Grown
<1> QED
  BY <1>8, <1>12, <1>15

\* The barrier's answer: all the blocks are written and synced.
LEMMA AtRenameReady ==
  ASSUME IInv, run # None, AtRename
  PROVE  Mine = <<>> /\ Ready
<1>1. CASE run.phase = "publishing" /\ ~run.asked
  BY <1>1 DEF IInv, PublishInv
<1>2. CASE /\ run.phase = "sealing" /\ run.asked /\ Sound
           /\ \E d \in ToSet(Own) : d.op = "barrier"
  <2>1. PICK m \in 0..AskedLen : Progress(m)
    BY <1>2 DEF IInv, ProgressInv
  <2>2. run.blocks \in Nat /\ run.blocks = Chunks /\ run.dump = dumps /\ Chunks \in Nat \ {0}
    BY <1>2, SnapshotsAssumption DEF IInv, TypeInv, RunInv, InFlight
  <2>3. AskedLen = run.blocks + 2
    BY <1>2, <2>2 DEF AskedLen
  <2>4. m > run.blocks + 1
    BY <1>2, <2>1 DEF Progress
  <2>5. m = AskedLen /\ m > 1
    BY <2>2, <2>3, <2>4
  <2>6. Len(Mine) = AskedLen - m
    BY <2>1 DEF Progress
  <2>7. Mine = <<>>
    <3>1. Len(Mine) = 0 /\ Mine \in Seq(LaneOps)
      BY <2>2, <2>3, <2>5, <2>6, MineType DEF IInv
    <3> QED
      BY <3>1
  <2>8. Served(m) = Chunks
    BY <2>2, <2>4 DEF Served
  <2>9. file[names.partial].wrote = Written(Chunks)
    BY <2>1, <2>5, <2>8 DEF Progress
  <2>10. file[names.partial].synced = file[names.partial].wrote
    BY <2>1, <2>4 DEF Progress
  <2>11. Written(Chunks) = Stream(dumps)
    BY <2>2 DEF Written, Stream
  <2> QED
    BY <2>7, <2>9, <2>10, <2>11 DEF Ready, Whole
<1> QED
  BY <1>1, <1>2 DEF AtRename

LEMMA StepPublish ==
  ASSUME IInv, run # None, run \in InFlight, NEW r, NEW held, NEW ops, Outcome(r, held, ops),
         run' = r, LaneOther, Grown(ops), dumps' = dumps
  PROVE  PublishInv'
<1> DEFINE Settles(j) == Mine'[j].op \in {"rename", "dirsync"}
<1>1. \A f, d : Whole(f, d)' = Whole(f, d)
  BY DEF Whole, Stream, LaneOther
<1>2. Ready' = Ready /\ names' = names /\ dnames' = dnames
  BY <1>1 DEF Ready, LaneOther
<1>3. ToSet(Own') = {} /\ Own' = <<>> /\ Mine' = Mine \o ops /\ Len(Mine) \in Nat
  BY DEF Grown
<1>4. /\ \A j \in 1..Len(Mine') : Settles(j) =>
           /\ j = 1 /\ \A i \in 2..Len(Mine') : Mine'[i].op = "remove"
           /\ Mine'[j].op = "rename" => Ready
           /\ Mine'[j].op = "dirsync" => names.current # 0 /\ Whole(names.current, dumps)
      /\ r.phase = "publishing" /\ ~r.asked => Mine' = <<>> /\ Ready
  <2>1. CASE OutFilling(r, held, ops) \/ OutSealing(r, held, ops)
    <3>1. r.phase \in {"filling", "sealing"}
      BY <2>1 DEF OutFilling, OutSealing
    <3>2. \A j \in 1..Len(Mine') : Mine'[j].op \in {"remove", "write", "barrier"}
      BY <3>1, StepProgress
    <3> QED
      BY <3>1, <3>2
  <2>2. CASE OutDraining(r, held, ops) /\ run.phase = "filling"
    <3>1. \A i \in 1..Len(ops) : ops[i].op \in {"write", "remove"}
      BY <2>2 DEF OutDraining
    <3>2. \A j \in 1..Len(Mine) : Mine[j].op \in {"remove", "write", "barrier"}
      BY <2>2 DEF IInv, ProgressInv
    <3>3. \A j \in 1..Len(Mine') : ~Settles(j)
      <4> SUFFICES ASSUME NEW j \in 1..Len(Mine')
                   PROVE  Mine'[j].op \in {"remove", "write", "barrier"}
        OBVIOUS
      <4>1. \/ j \in 1..Len(Mine) /\ Mine'[j] = Mine[j]
            \/ \E i \in 1..Len(ops) : j = Len(Mine) + i /\ Mine'[j] = ops[i]
        BY GrownAt
      <4> QED
        BY <3>1, <3>2, <4>1
    <3> QED
      BY <2>2, <3>3 DEF OutDraining
  <2>3. CASE OutDraining(r, held, ops) /\ run.phase # "filling"
    <3>1. \A i \in 1..Len(ops) : ops[i].op = "remove"
      BY <2>3 DEF OutDraining
    <3>2. ASSUME NEW j \in 1..Len(Mine'), Settles(j)
          PROVE  /\ j = 1 /\ \A i \in 2..Len(Mine') : Mine'[i].op = "remove"
                 /\ Mine'[j].op = "rename" => Ready
                 /\ Mine'[j].op = "dirsync" => names.current # 0 /\ Whole(names.current, dumps)
      <4>1. j \in 1..Len(Mine) /\ Mine'[j] = Mine[j]
        BY <3>1, <3>2, GrownAt
      <4>2. /\ j = 1 /\ \A i \in 2..Len(Mine) : Mine[i].op = "remove"
            /\ Mine[j].op = "rename" => Ready
            /\ Mine[j].op = "dirsync" => names.current # 0 /\ Whole(names.current, dumps)
        BY <3>2, <4>1 DEF IInv, PublishInv
      <4>3. ASSUME NEW i \in 2..Len(Mine') PROVE Mine'[i].op = "remove"
        <5>1. i \in 1..Len(Mine') /\ (i \in 1..Len(Mine) => i \in 2..Len(Mine))
          OBVIOUS
        <5> QED
          BY <3>1, <4>2, <5>1, GrownAt
      <4> QED
        BY <4>1, <4>2, <4>3
    <3> QED
      BY <2>3, <3>2 DEF OutDraining
  <2>4. CASE OutAsked(r, held, ops)
    <3>1. ops = <<>> /\ r.asked
      BY <2>4 DEF OutAsked
    <3>2. Mine' = Mine
      BY <1>3, <3>1, MineType DEF IInv
    <3> QED
      BY <3>1, <3>2 DEF IInv, PublishInv
  <2>5. CASE OutPublish(r, held, ops)
    <3>1. Mine = <<>> /\ Ready
      BY <2>5, AtRenameReady DEF OutPublish
    <3>2. ops \in Seq(LaneOps)
      BY DEF Outcome
    <3>3. Mine' = ops
      BY <1>3, <3>1, <3>2
    <3>4. CASE ~r.asked /\ ops = <<>>
      BY <3>1, <3>3, <3>4
    <3>5. CASE r.asked /\ Len(ops) = 1 /\ ops[1].op = "rename"
      <4>1. Len(Mine') = 1 /\ Mine'[1].op = "rename"
        BY <3>3, <3>5
      <4> QED
        BY <3>1, <3>5, <4>1
    <3> QED
      BY <2>5, <3>4, <3>5 DEF OutPublish
  <2> QED
    BY <2>1, <2>2, <2>3, <2>4, <2>5 DEF Outcome
<1> HIDE DEF Settles
<1>5. /\ \A j \in 1..Len(Mine') : Mine'[j].op \in {"rename", "dirsync"} =>
           /\ j = 1 /\ \A i \in 2..Len(Mine') : Mine'[i].op = "remove"
      /\ \A j \in 1..Len(Mine') : Mine'[j].op = "rename" => Ready
      /\ \A j \in 1..Len(Mine') :
           Mine'[j].op = "dirsync" => names.current # 0 /\ Whole(names.current, dumps)
  BY <1>4 DEF Settles
<1> QED
  BY <1>1, <1>2, <1>3, <1>4, <1>5 DEF PublishInv

LEMMA StepInv ==
  ASSUME IInv, Step
  PROVE  IInv'
<1>0. /\ run # None /\ run \in InFlight /\ dumps' = dumps /\ LaneOther
      /\ done' = OwnedBy("log", done)
  BY DEF Step, IInv, TypeInv, LaneOther
<1>1. PICK r, held, ops : Outcome(r, held, ops) /\ Stepped(r, held, ops)
  BY StepOutcome
<1>2. /\ r \in InFlight /\ r.dump = run.dump /\ held \in BOOLEAN /\ ops \in Seq(LaneOps)
      /\ \A i \in 1..Len(ops) : ops[i].owner = "snapshot"
      /\ r.outstanding = Len(Mine) + Len(ops) /\ r # None
  BY <1>1, InFlightIsNot DEF Outcome
<1>3. lane' = lane \o ops /\ unsubmitted' = held
  BY <1>1 DEF Stepped
<1>4. lane' \in Seq(LaneOps) /\ done' \in Seq(Answers) /\ Grown(ops)
  BY <1>0, <1>2, <1>3, StepQueues DEF IInv
<1>5. VolumeType' /\ NamesInv' /\ CurrentKept
  BY <1>0, OtherVolume DEF IInv, TypeInv
<1>6. /\ dumps \in Nat /\ dumps > 0 /\ finished \in 0..dumps /\ r.dump = dumps
  BY <1>0, <1>2 DEF IInv, TypeInv, RunInv
<1>7. \A f, d : Whole(f, d)' = Whole(f, d)
  BY <1>0 DEF Whole, Stream, LaneOther
<1>8. CASE run' = r /\ finished' = finished
  <2>1. TypeInv'
    BY <1>0, <1>2, <1>3, <1>4, <1>5, <1>6, <1>8 DEF TypeInv
  <2>2. CurrentInv'
    BY <1>0, <1>5, <1>8, CurrentCarries DEF IInv, TypeInv
  <2>3. RunInv'
    <3>1. OutFilling(r, held, ops) \/ (r.phase # "filling" /\ ~held)
      BY <1>1 DEF Outcome, OutDraining, OutSealing, OutAsked, OutPublish
    <3>2. /\ r.phase = "filling" => /\ r.blocks < Chunks /\ ~r.asked
                                    /\ r.produced = r.blocks + (IF held THEN 1 ELSE 0)
      BY <3>1 DEF OutFilling
    <3>3. r.phase # "filling" => ~held
      BY <3>1 DEF OutFilling
    <3>4. r.phase = "sealing" => r.blocks = Chunks
      BY <1>0, <1>1 DEF Outcome, OutFilling, OutDraining, OutSealing, OutAsked, OutPublish, IInv, RunInv
    <3> QED
      BY <1>0, <1>3, <1>6, <1>8, <3>2, <3>3, <3>4 DEF RunInv
  <2>4. CountInv'
    BY <1>2, <1>4, <1>8 DEF CountInv, Grown
  <2>5. ProgressInv'
    <3> SUFFICES ASSUME r.phase \in {"filling", "sealing"}
                 PROVE  ProgressInv'
      BY <1>8 DEF ProgressInv
    <3>1. /\ \A j \in 1..Len(Mine') : Mine'[j].op \in {"remove", "write", "barrier"}
          /\ \E m \in 0..AskedLen' : Progress(m)'
      BY <1>0, <1>1, <1>4, <1>8, StepProgress
    <3> QED
      BY <1>4, <3>1 DEF ProgressInv, Grown
  <2>6. PublishInv'
    BY <1>0, <1>1, <1>4, <1>8, StepPublish
  <2> QED
    BY <1>5, <2>1, <2>2, <2>3, <2>4, <2>5, <2>6 DEF IInv
<1>9. CASE /\ run' = None /\ r.outstanding = 0
           /\ finished' = finished \/ (Published(run) /\ finished' = r.dump)
  <2>1. Len(Mine') = 0 /\ Mine' = <<>> /\ Own' = <<>> /\ ToSet(Own') = {}
    <3>1. Len(Mine') = 0
      BY <1>2, <1>4, <1>9 DEF Grown
    <3>2. Mine' \in Seq(LaneOps)
      BY <1>4, KeptType DEF Mine
    <3> QED
      BY <1>4, <3>1, <3>2 DEF Grown
  <2>2. TypeInv'
    <3>1. finished' \in 0..dumps'
      BY <1>0, <1>6, <1>9
    <3>2. dumps' \in Nat /\ unsubmitted' \in BOOLEAN /\ run' = None
      BY <1>0, <1>2, <1>3, <1>6, <1>9
    <3> QED
      BY <1>4, <1>5, <3>1, <3>2 DEF TypeInv
  <2>3. CurrentInv'
    <3>1. CASE finished' = finished
      BY <1>0, <1>5, <3>1, CurrentCarries DEF IInv, TypeInv
    <3>2. CASE Published(run) /\ finished' = r.dump
      <4>1. \A f \in {names.current, dnames.current} : f # 0 /\ Whole(f, dumps)
        BY <3>2 DEF Published, IInv, PublishInv
      <4>2. dumps \in 1..dumps /\ dumps >= finished' /\ names' = names /\ dnames' = dnames
        BY <1>0, <1>6, <3>2 DEF LaneOther
      <4> QED
        BY <1>0, <1>7, <4>1, <4>2 DEF CurrentInv
    <3> QED
      BY <1>9, <3>1, <3>2
  <2>4. RunInv' /\ CountInv' /\ ProgressInv' /\ PublishInv'
    <3>1. 1..Len(Mine') = {}
      BY <2>1
    <3> QED
      BY <1>9, <2>1, <3>1 DEF RunInv, CountInv, ProgressInv, PublishInv
  <2> QED
    BY <1>5, <2>2, <2>3, <2>4 DEF IInv
<1> QED
  BY <1>1, <1>8, <1>9 DEF Stepped

-----------------------------------------------------------------------------
(* The invariant, and what a restart reads.                                *)

LEMMA InitInv ==
  ASSUME Init
  PROVE  IInv
<1>1. /\ lane = <<>> /\ done = <<>> /\ file = <<>> /\ names = [partial |-> 0, current |-> 0]
      /\ dnames = names /\ owned = Fresh /\ run = None /\ unsubmitted = FALSE
      /\ dumps = 0 /\ finished = 0
  BY DEF Init
<1>2. Len(file) = 0 /\ file \in Seq(Files) /\ lane \in Seq(LaneOps) /\ done \in Seq(Answers)
  BY <1>1
<1>3. VolumeType
  <2>1. names \in Names /\ dnames \in Names
    BY <1>1, <1>2 DEF Names
  <2>2. owned \in [handle : Nat, dirty : BOOLEAN, created : BOOLEAN]
    BY <1>1 DEF Fresh
  <2> QED
    BY <1>2, <2>1, <2>2 DEF VolumeType
<1>4. TypeInv
  <2>1. unsubmitted \in BOOLEAN
    BY <1>1
  <2>2. dumps \in Nat /\ finished \in 0..dumps
    BY <1>1
  <2> QED
    BY <1>1, <1>2, <1>3, <2>1, <2>2 DEF TypeInv
<1>5. NamesInv /\ CurrentInv
  BY <1>1 DEF NamesInv, CurrentInv, Fresh
<1>6. Mine = <<>> /\ Own = <<>>
  BY <1>1, KeptEmpty DEF Mine, Own
<1>7. RunInv /\ CountInv /\ ProgressInv /\ PublishInv
  <2>1. 1..Len(Mine) = {} /\ ToSet(Own) = {}
    BY <1>6 DEF ToSet
  <2> QED
    BY <1>1, <1>6, <2>1 DEF RunInv, CountInv, ProgressInv, PublishInv
<1> QED
  BY <1>4, <1>5, <1>7 DEF IInv

LEMMA NextInv ==
  ASSUME IInv, [Next]_vars
  PROVE  IInv'
<1>1. CASE UNCHANGED vars
  <2>1. ServeFrame /\ Mine' = Mine /\ Own' = Own /\ LaneOther
    BY <1>1 DEF vars, volume, ServeFrame, Mine, Own, LaneOther
  <2>2. lane' \in Seq(LaneOps) /\ done' \in Seq(Answers)
    BY <1>1 DEF vars, volume, IInv, TypeInv
  <2>3. VolumeType' /\ NamesInv' /\ CurrentKept /\ PartialKept
    BY <2>1, OtherVolume DEF IInv, TypeInv
  <2> QED
    BY <2>1, <2>2, <2>3, LogServed DEF LaneOther
<1>2. CASE Next
  BY <1>2, ServeInv, CommitInv, BeginInv, StepInv, AbandonInv, LogInv, CrashInv DEF Next
<1> QED
  BY <1>1, <1>2

\* The volume, the lane and the run in flight agree, whatever fails and whenever
\* the process dies (snapshots.rs Snapshots::round, files.rs WriteLane::serve).
THEOREM SnapshotsInvariant == Spec => []IInv
<1>1. Init => IInv
  BY InitInv
<1>2. IInv /\ [Next]_vars => IInv'
  BY NextInv
<1> QED
  BY <1>1, <1>2, PTL DEF Spec

\* Of a file that is one whole dump a restart gets that dump.
LEMMA ReadsWhole ==
  ASSUME NEW d \in 1..dumps, dumps \in Nat
  PROVE  ReadInto(Stream(d)) = d
<1> DEFINE whole == {e \in 1..dumps : Stream(e) \subseteq Stream(d)}
<1>1. Chunks \in Nat \ {0}
  BY SnapshotsAssumption
<1>2. ASSUME NEW e \in 1..dumps, Stream(e) \subseteq Stream(d) PROVE e = d
  <2>1. <<e, 1, 1>> \in Stream(e)
    BY <1>1 DEF Stream
  <2>2. <<e, 1, 1>> \in Stream(d)
    BY <1>2, <2>1
  <2>3. PICK c \in 1..Chunks : <<e, 1, 1>> = <<d, c, c>>
    BY <2>2 DEF Stream
  <2> QED
    BY <2>3
<1>3. whole = {d}
  BY <1>2
<1>4. Max({d}) = d
  <2>1. d \in {d} /\ \A y \in {d} : d >= y
    OBVIOUS
  <2> QED
    BY <2>1 DEF Max
<1> HIDE DEF whole
<1>5. ReadInto(Stream(d)) = IF whole = {} THEN None ELSE Max(whole)
  BY DEF ReadInto, whole
<1> QED
  BY <1>3, <1>4, <1>5

LEMMA CurrentReads ==
  ASSUME IInv, NEW f \in {names.current, dnames.current}, f # 0
  PROVE  \E d \in 1..dumps : /\ d >= finished /\ ReadInto(file[f].synced) = d
                             /\ file[f].wrote = Stream(d)
<1>1. PICK d \in 1..dumps : d >= finished /\ Whole(f, d)
  BY DEF IInv, CurrentInv
<1>2. dumps \in Nat
  BY DEF IInv, TypeInv
<1>3. file[f].wrote = Stream(d) /\ file[f].synced = Stream(d)
  BY <1>1 DEF Whole
<1>4. ReadInto(Stream(d)) = d
  BY <1>2, ReadsWhole
<1> QED
  BY <1>1, <1>3, <1>4

\* Whatever has the current name, now or after a crash, is a whole dump on the
\* disk: never a stream short of a chunk, nor bytes no barrier covered, for any
\* length of stream, number of buffers, of faults and of crashes.  (snapshots.rs
\* step: the rename waits for the barrier's answer, and every operation before it
\* was answered well.)
THEOREM CurrentWhole == Spec => []CurrentIsWhole
<1>1. ASSUME IInv PROVE CurrentIsWhole
  <2> SUFFICES ASSUME NEW f \in {names.current, dnames.current}, f # 0
               PROVE  /\ ReadInto(file[f].synced) # None
                      /\ file[f].wrote \subseteq Stream(ReadInto(file[f].synced))
    BY DEF CurrentIsWhole
  <2>1. PICK d \in 1..dumps : ReadInto(file[f].synced) = d /\ file[f].wrote = Stream(d)
    BY <1>1, CurrentReads
  <2>2. d \in Nat
    BY <1>1 DEF IInv, TypeInv
  <2> QED
    BY <2>1, <2>2, InFlightIsNot
<1> QED
  BY <1>1, SnapshotsInvariant, PTL

\* A dump the stage has counted as written is what a restart reads, or a later
\* one is: no crash brings back the one before.  (snapshots.rs finish, behind the
\* directory sync of LaneFiles::rename.)
THEOREM FinishedKept == Spec => []FinishedStays
<1>1. ASSUME IInv PROVE FinishedStays
  <2> SUFFICES ASSUME finished # 0
               PROVE  dnames.current # 0 /\ ReadInto(file[dnames.current].synced) >= finished
    BY DEF FinishedStays
  <2>1. dnames.current # 0
    BY <1>1 DEF IInv, CurrentInv
  <2> QED
    BY <1>1, <2>1, CurrentReads
<1> QED
  BY <1>1, SnapshotsInvariant, PTL
===============================================================================
