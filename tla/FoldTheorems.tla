----------------------------- MODULE FoldTheorems -----------------------------
(***************************************************************************)
(* What a fold of the community modules computes, for the proofs of the    *)
(* modules that are written with FoldLeft and MapThenSumSet.               *)
(*                                                                         *)
(* Both are MapThenFoldSet: a function iter on the subsets of a set, chosen *)
(* as the one that satisfies its own recursion.  That there is one is the  *)
(* induction below; it is stated about sets of numbers, SetInduction, which *)
(* the provers can instantiate, and not about a predicate, which they      *)
(* cannot.  A module that folds an operator instantiates this one with it: *)
(* Turn(c, x, acc) is the fold's step at x, c whatever else it depends on  *)
(* (for a sequence, the sequence itself), and Pick the element it takes    *)
(* off the set: Max for a sequence.                                        *)
(***************************************************************************)
EXTENDS Integers, FiniteSets, FiniteSetTheorems, WellFoundedInduction, TLAPS

CONSTANTS Turn(_, _, _), Pick(_)

-----------------------------------------------------------------------------
(* Induction over the naturals, as a fact about sets.                      *)

\* A set of naturals that is not empty has a least member.
LEMMA NatOrder ==
  \A T \in SUBSET Nat : T # {} => \E x \in T : \A y \in T : ~(y < x)
<1> SUFFICES ASSUME NEW T \in SUBSET Nat, T # {}
             PROVE  \E x \in T : \A y \in T : ~(y < x)
  OBVIOUS
<1> DEFINE R == OpToRel(<, Nat)
<1>1. IsWellFoundedOn(R, Nat)
  BY NatLessThanWellFounded
<1>2. \A x, y \in Nat : y < x => <<y, x>> \in R
  BY DEF OpToRel
<1> HIDE DEF R
<1>3. \E x \in T : \A y \in T : ~ (<<y, x>> \in R)
  BY <1>1, WFMin
<1> QED
  BY <1>2, <1>3

\* A set that holds 0 and, with a number, the next one, holds every natural.
LEMMA SetInduction ==
  ASSUME NEW S, 0 \in S, \A n \in Nat : n \in S => n + 1 \in S
  PROVE  Nat \subseteq S
<1> DEFINE T == Nat \ S
<1> SUFFICES ASSUME T # {} PROVE FALSE
  OBVIOUS
<1>1. PICK x \in T : \A y \in T : ~(y < x)
  BY NatOrder
<1>2. x # 0 /\ x - 1 \in Nat
  OBVIOUS
<1>3. x - 1 \notin T
  BY <1>1, <1>2
<1> QED
  BY <1>2, <1>3

\* A set of numbers up to k that is not empty has a greatest member.
LEMMA MaxUpTo ==
  ASSUME NEW k \in Nat, NEW t \in SUBSET (0..k), t # {}
  PROVE  \E m \in t : \A y \in t : m >= y
<1> DEFINE U == {k - x : x \in t}
<1>1. U \in SUBSET Nat /\ U # {}
  <2>1. \A x \in t : k - x \in Nat
    OBVIOUS
  <2> QED
    BY <2>1
<1>2. PICK u \in U : \A y \in U : ~(y < u)
  BY <1>1, NatOrder
<1>3. PICK m \in t : u = k - m
  OBVIOUS
<1>4. ASSUME NEW y \in t PROVE m >= y
  <2>1. ~(k - y < k - m)
    BY <1>2, <1>3
  <2>2. y \in 0..k /\ m \in 0..k
    OBVIOUS
  <2> QED
    BY <2>1, <2>2
<1> QED
  BY <1>3, <1>4

-----------------------------------------------------------------------------
(* The function a fold chooses.                                            *)

\* g satisfies the fold's recursion on the subsets of S.
Folds(S, c, b, g) ==
  /\ g = [t \in SUBSET S |-> g[t]]
  /\ \A t \in SUBSET S :
       g[t] = IF t = {} THEN b ELSE Turn(c, Pick(t), g[t \ {Pick(t)}])

\* What a fold may take off a set: a member of it, and of a sequence's indices
\* the greatest.
Picks(S) == \A t \in SUBSET S : t # {} => Pick(t) \in t
PicksLast(n) ==
  \A t \in SUBSET (1..n) : t # {} => Pick(t) \in t /\ \A y \in t : Pick(t) >= y

\* On a finite set, for any way to pick, there is a function that satisfies the
\* recursion, so the one that is chosen does.
LEMMA FoldExists ==
  ASSUME NEW S, IsFiniteSet(S), Picks(S), NEW c, NEW b
  PROVE  \E g : Folds(S, c, b, g)
<1> DEFINE Body(g, t) == IF t = {} THEN b ELSE Turn(c, Pick(t), g[t \ {Pick(t)}])
           UpTo(k) == {t \in SUBSET S : Cardinality(t) <= k}
           Good(k) == \E g : \A t \in UpTo(k) : g[t] = Body(g, t)
<1> USE DEF Picks
<1>0. \A t \in SUBSET S :
        /\ Cardinality(t) \in Nat
        /\ Cardinality(t) = 0 <=> t = {}
        /\ Cardinality(t) <= Cardinality(S)
        /\ \A x \in t : Cardinality(t \ {x}) = Cardinality(t) - 1
  BY FS_Subset, FS_CardinalityType, FS_EmptySet, FS_RemoveElement
<1>1. Good(0)
  <2> DEFINE g == [t \in SUBSET S |-> b]
  <2>1. \A t \in UpTo(0) : g[t] = Body(g, t)
    BY <1>0
  <2> QED
    BY <2>1
<1>2. ASSUME NEW k \in Nat, Good(k) PROVE Good(k + 1)
  <2>1. PICK g : \A t \in UpTo(k) : g[t] = Body(g, t)
    BY <1>2
  <2> DEFINE h == [t \in SUBSET S |-> IF t \in UpTo(k) THEN g[t] ELSE Body(g, t)]
  <2>2. ASSUME NEW t \in UpTo(k + 1) PROVE h[t] = Body(h, t)
    <3>1. h[t] = Body(g, t)
      BY <2>1
    <3>2. CASE t = {}
      BY <3>1, <3>2
    <3>3. CASE t # {}
      <4>1. Pick(t) \in t
        BY <3>3
      <4>2. t \ {Pick(t)} \in UpTo(k)
        BY <1>0, <4>1
      <4>3. h[t \ {Pick(t)}] = g[t \ {Pick(t)}]
        BY <4>2
      <4> QED
        BY <3>1, <3>3, <4>3
    <3> QED
      BY <3>2, <3>3
  <2> QED
    BY <2>2
<1> HIDE DEF Good
<1>3. Good(Cardinality(S))
  <2> DEFINE G == {k \in Nat : Good(k)}
  <2>1. 0 \in G
    BY <1>1
  <2>2. \A n \in Nat : n \in G => n + 1 \in G
    BY <1>2
  <2> HIDE DEF G
  <2>3. Nat \subseteq G
    BY <2>1, <2>2, SetInduction
  <2> QED
    BY <2>3, <1>0 DEF G
<1>4. PICK g : \A t \in SUBSET S : g[t] = Body(g, t)
  BY <1>0, <1>3 DEF Good
<1> DEFINE h == [t \in SUBSET S |-> g[t]]
<1>5. ASSUME NEW t \in SUBSET S PROVE h[t] = Body(h, t)
  <2>1. h[t] = Body(g, t) /\ h[t \ {Pick(t)}] = g[t \ {Pick(t)}]
    BY <1>4
  <2> QED
    BY <2>1
<1>6. h = [t \in SUBSET S |-> h[t]]
  OBVIOUS
<1> HIDE DEF h
<1> QED
  BY <1>5, <1>6 DEF Folds

\* A fold that picks the greatest index goes through a sequence from its first
\* element: f[i] is what it has after i of them.
LEMMA FoldTrace ==
  ASSUME NEW n \in Nat, PicksLast(n), NEW c, NEW b, NEW g, Folds(1..n, c, b, g)
  PROVE  \E f : /\ f[0] = b
                /\ \A i \in 1..n : f[i] = Turn(c, i, f[i - 1])
                /\ g[1..n] = f[n]
<1> USE DEF Folds, PicksLast
<1> DEFINE f == [i \in 0..n |-> g[1..i]]
<1>1. f[0] = b
  <2>1. 1..0 = {} /\ {} \in SUBSET (1..n) /\ 0 \in 0..n
    OBVIOUS
  <2>2. g[{}] = b
    BY <2>1
  <2> QED
    BY <2>1, <2>2
<1>2. ASSUME NEW i \in 1..n PROVE f[i] = Turn(c, i, f[i - 1])
  <2>1. 1..i \in SUBSET (1..n) /\ 1..i # {}
    <3>1. \A j \in 1..i : j \in 1..n
      OBVIOUS
    <3>2. 1 \in 1..i
      OBVIOUS
    <3> QED
      BY <3>1, <3>2
  <2>2. Pick(1..i) \in 1..i /\ \A y \in 1..i : Pick(1..i) >= y
    BY <2>1
  <2>3. Pick(1..i) = i
    BY <2>2
  <2>4. (1..i) \ {i} = 1..(i - 1)
    OBVIOUS
  <2>5. g[1..i] = Turn(c, i, g[1..(i - 1)])
    BY <2>1, <2>3, <2>4
  <2>6. i - 1 \in 0..n /\ i \in 0..n
    OBVIOUS
  <2> QED
    BY <2>5, <2>6
<1>3. g[1..n] = f[n]
  BY n \in 0..n
<1> HIDE DEF f
<1> QED
  BY <1>1, <1>2, <1>3

-----------------------------------------------------------------------------
(* Functions defined by recursion on their index.                          *)

\* g satisfies the recursion f[i] == IF i = 0 THEN b ELSE Turn(c, i, f[i - 1]).
Recurs(n, c, b, g) ==
  /\ g = [i \in 0..n |-> g[i]]
  /\ \A i \in 0..n : g[i] = IF i = 0 THEN b ELSE Turn(c, i, g[i - 1])

LEMMA RecursionExists ==
  ASSUME NEW n \in Nat, NEW c, NEW b
  PROVE  \E g : Recurs(n, c, b, g)
<1> DEFINE Good(k) == \E g : Recurs(k, c, b, g)
           G == {k \in Nat : Good(k)}
<1>1. Good(0)
  <2> DEFINE g == [i \in 0..0 |-> b]
  <2>1. Recurs(0, c, b, g)
    BY DEF Recurs
  <2> QED
    BY <2>1
<1>2. ASSUME NEW k \in Nat, Good(k) PROVE Good(k + 1)
  <2>1. PICK g : Recurs(k, c, b, g)
    BY <1>2
  <2> DEFINE h == [i \in 0..(k + 1) |-> IF i = k + 1 THEN Turn(c, k + 1, g[k]) ELSE g[i]]
  <2>2. ASSUME NEW i \in 0..(k + 1)
        PROVE  h[i] = IF i = 0 THEN b ELSE Turn(c, i, h[i - 1])
    <3>1. CASE i = k + 1
      BY <3>1
    <3>2. CASE i # k + 1
      <4>1. i \in 0..k /\ (i # 0 => i - 1 \in 0..k /\ i - 1 # k + 1)
        BY <3>2
      <4>2. g[i] = IF i = 0 THEN b ELSE Turn(c, i, g[i - 1])
        BY <2>1, <4>1 DEF Recurs
      <4>3. h[i] = g[i] /\ (i # 0 => h[i - 1] = g[i - 1])
        BY <3>2, <4>1
      <4> HIDE DEF h
      <4> QED
        BY <4>2, <4>3
    <3> QED
      BY <3>1, <3>2
  <2>3. h = [i \in 0..(k + 1) |-> h[i]]
    OBVIOUS
  <2> HIDE DEF h
  <2>4. Recurs(k + 1, c, b, h)
    BY <2>2, <2>3 DEF Recurs
  <2> QED
    BY <2>4
<1> HIDE DEF Good
<1>3. 0 \in G /\ \A k \in Nat : k \in G => k + 1 \in G
  BY <1>1, <1>2
<1> HIDE DEF G
<1>4. Nat \subseteq G
  BY <1>3, SetInduction
<1> QED
  BY <1>4 DEF G, Good

-----------------------------------------------------------------------------
(* Folds whose steps commute: sums.                                        *)

\* The step of the fold stays in D, and two of them may change places.
Commutes(S, c, D) ==
  /\ \A x \in S, a \in D : Turn(c, x, a) \in D
  /\ \A x, y \in S, a \in D : Turn(c, x, Turn(c, y, a)) = Turn(c, y, Turn(c, x, a))

\* Then any member may be the one that is taken last.
LEMMA FoldAnyOrder ==
  ASSUME NEW S, IsFiniteSet(S), Picks(S), NEW c, NEW D, NEW b \in D, Commutes(S, c, D),
         NEW g, Folds(S, c, b, g)
  PROVE  \A t \in SUBSET S : g[t] \in D /\ \A x \in t : g[t] = Turn(c, x, g[t \ {x}])
<1>b. \A t \in SUBSET S : t # {} => Pick(t) \in t /\ g[t] = Turn(c, Pick(t), g[t \ {Pick(t)}])
  BY DEF Picks, Folds
<1>c. g[{}] = b
  BY {} \in SUBSET S DEF Folds
<1>d. \A x \in S, a \in D : Turn(c, x, a) \in D
  BY DEF Commutes
<1>e. \A x, y \in S, a \in D : Turn(c, x, Turn(c, y, a)) = Turn(c, y, Turn(c, x, a))
  BY DEF Commutes
<1> DEFINE Good(t) == g[t] \in D /\ \A x \in t : g[t] = Turn(c, x, g[t \ {x}])
           G == {k \in Nat : \A t \in SUBSET S : Cardinality(t) <= k => Good(t)}
<1>0. \A t \in SUBSET S :
        /\ Cardinality(t) \in Nat
        /\ Cardinality(t) = 0 <=> t = {}
        /\ \A x \in t : Cardinality(t \ {x}) = Cardinality(t) - 1
  BY FS_Subset, FS_CardinalityType, FS_EmptySet, FS_RemoveElement
<1>1. 0 \in G
  <2> SUFFICES ASSUME NEW t \in SUBSET S, Cardinality(t) <= 0 PROVE Good(t)
    OBVIOUS
  <2>1. t = {}
    BY <1>0
  <2> QED
    BY <1>c, <2>1
<1>2. ASSUME NEW k \in Nat, k \in G PROVE k + 1 \in G
  <2> SUFFICES ASSUME NEW t \in SUBSET S, Cardinality(t) = k + 1 PROVE Good(t)
    <3>1. \A t \in SUBSET S : Cardinality(t) <= k => Good(t)
      BY <1>2
    <3> HIDE DEF Good
    <3>2. \A t \in SUBSET S : Cardinality(t) <= k + 1 => Cardinality(t) <= k \/ Cardinality(t) = k + 1
      BY <1>0
    <3> QED
      BY <3>1, <3>2
  <2> DEFINE p == Pick(t)
  <2>1. t # {} /\ p \in t
    BY <1>0, <1>b
  <2>2. g[t] = Turn(c, p, g[t \ {p}])
    BY <1>b, <2>1
  <2>3. \A x \in t : t \ {x} \in SUBSET S /\ Cardinality(t \ {x}) = k
    BY <1>0
  <2> HIDE DEF p
  <2>4. \A x \in t : Good(t \ {x})
    <3> HIDE DEF Good
    <3> QED
      BY <1>2, <2>3
  <2>5. g[t] \in D
    <3>1. g[t \ {p}] \in D /\ p \in S
      BY <2>1, <2>4
    <3> QED
      BY <1>d, <2>2, <3>1
  <2>6. ASSUME NEW x \in t, x # p PROVE g[t] = Turn(c, x, g[t \ {x}])
    <3> DEFINE rest == (t \ {x}) \ {p}
    <3>1. rest = (t \ {p}) \ {x} /\ x \in t \ {p} /\ p \in t \ {x}
      BY <2>1, <2>6
    <3>2. g[t \ {p}] = Turn(c, x, g[rest])
      BY <2>1, <2>4, <3>1
    <3>3. g[t \ {x}] = Turn(c, p, g[rest])
      BY <2>4, <3>1
    <3>4. g[rest] \in D
      <4>1. rest \in SUBSET S /\ Cardinality(rest) = k - 1
        BY <1>0, <2>3, <3>1
      <4>2. k \in Nat /\ k - 1 <= k
        OBVIOUS
      <4> QED
        BY <1>2, <4>1, <4>2
    <3> HIDE DEF rest
    <3> QED
      BY <1>e, <2>1, <2>2, <3>2, <3>3, <3>4
  <2> QED
    BY <2>2, <2>5, <2>6
<1> HIDE DEF G
<1>3. Nat \subseteq G
  BY <1>1, <1>2, SetInduction
<1> QED
  BY <1>0, <1>3 DEF G

\* Two folds that agree on the members of S agree on its subsets.
LEMMA FoldSame ==
  ASSUME NEW S, IsFiniteSet(S), Picks(S), NEW T, S \subseteq T, NEW c, NEW d, NEW b,
         \A x \in S : \A a : Turn(c, x, a) = Turn(d, x, a),
         NEW g, Folds(T, c, b, g), NEW h, Folds(S, d, b, h)
  PROVE  \A t \in SUBSET S : g[t] = h[t]
<1>b. \A t \in SUBSET S : t # {} => Pick(t) \in t /\ h[t] = Turn(d, Pick(t), h[t \ {Pick(t)}])
  BY DEF Picks, Folds
<1>c. \A t \in SUBSET T : t # {} => g[t] = Turn(c, Pick(t), g[t \ {Pick(t)}])
  BY DEF Folds
<1>d. g[{}] = b /\ h[{}] = b
  BY {} \in SUBSET S, {} \in SUBSET T DEF Folds
<1> DEFINE G == {k \in Nat : \A t \in SUBSET S : Cardinality(t) = k => g[t] = h[t]}
<1>0. \A t \in SUBSET S :
        /\ Cardinality(t) \in Nat
        /\ Cardinality(t) = 0 <=> t = {}
        /\ \A x \in t : Cardinality(t \ {x}) = Cardinality(t) - 1
  BY FS_Subset, FS_CardinalityType, FS_EmptySet, FS_RemoveElement
<1>1. 0 \in G
  BY <1>0, <1>d
<1>2. ASSUME NEW k \in Nat, k \in G PROVE k + 1 \in G
  <2> SUFFICES ASSUME NEW t \in SUBSET S, Cardinality(t) = k + 1 PROVE g[t] = h[t]
    BY <1>2
  <2> DEFINE p == Pick(t)
  <2>1. t # {} /\ p \in t /\ t \in SUBSET T
    <3>1. t # {}
      BY <1>0
    <3> QED
      BY <1>b, <3>1
  <2>2. g[t] = Turn(c, p, g[t \ {p}]) /\ h[t] = Turn(d, p, h[t \ {p}])
    BY <1>b, <1>c, <2>1
  <2> HIDE DEF p
  <2>3. t \ {p} \in SUBSET S /\ Cardinality(t \ {p}) = k
    BY <1>0, <2>1
  <2> QED
    BY <1>2, <2>1, <2>2, <2>3
<1> HIDE DEF G
<1>3. Nat \subseteq G
  BY <1>1, <1>2, SetInduction
<1> QED
  BY <1>0, <1>3 DEF G
===============================================================================
