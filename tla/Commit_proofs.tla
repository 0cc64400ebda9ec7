----------------------------- MODULE Commit_proofs -----------------------------
(***************************************************************************)
(* No account that may not be overdrawn is, the books of a node are its    *)
(* log's, double entry balances, a client is told what is so, and nothing  *)
(* is promised when nothing is in flight: for any accounts, requests,      *)
(* chains and bounds.  First the inductive invariant and that every step   *)
(* but the judge's keeps it; then the judge's step, which decides by what  *)
(* others will bring in; then the theorems.                                *)
(***************************************************************************)
EXTENDS Commit, FiniteSetTheorems, TLAPS

-----------------------------------------------------------------------------
(* The inductive invariant.                                                *)

Kinds == {"post", "hold", "settle", "void"}
EffectSet == [tx : Reqs, kind : Kinds, debit : Accounts, credit : Accounts, amount : Nat,
              ref : Reqs \cup {None}]
AckSet == [tx : Reqs, outcome : {"committed", "failed", "rejected"}]
Flights == [id : Nat, slots : Seq(Reqs)]
Proposals == [id : Nat, effects : Seq(EffectSet)]
Decisions == [id : Nat, effects : Seq(EffectSet), outcome : {"committed", "failed"}]
Outboxes == [ring : Seq(AckSet), backlog : Seq(AckSet)]

ClientType == left \subseteq Units /\ script \in Seq(Reqs) /\ queue \in Seq(Reqs)
SlotType == slots \subseteq Reqs /\ IsFiniteSet(slots) /\ ready \in Seq(Reqs)
MoneyType ==
  /\ columns \in [Accounts -> Book]
  /\ speculative \in [Accounts -> Int]
  /\ remaining \in [Reqs -> Nat \cup {None}]
BatchType ==
  /\ open \in Seq(EffectSet) /\ inflight \in Seq(Flights) /\ batch \in Nat
  /\ proposals \in Seq(Proposals) /\ held \in Seq(Decisions) /\ commits \in Seq(Decisions)
  /\ log \in Seq(EffectSet)
AnswerType == outbox \in Outboxes /\ taken \subseteq AckSet
CountType == judged \in Nat /\ committed \in Nat /\ applied \in Nat /\ sealed \in BOOLEAN
TypeInv == ClientType /\ SlotType /\ MoneyType /\ BatchType /\ AnswerType /\ CountType

Distinct(s) == \A i, j \in 1..Len(s) : s[i] = s[j] => i = j
Unsent == {r \in Reqs : r \in Range(script) \/ \E u \in left : r \in Range(u)}
Told == {ack.tx : ack \in Answers}
\* The requests whose verdict waits for consensus.
Decided == slots \ Range(ready)

\* A request is in one place: with the client, in a slot, or answered.
PlaceInv ==
  /\ Distinct(script) /\ Distinct(queue) /\ Distinct(ready)
  /\ Range(script) \cap Range(queue) = {}
  /\ \A u \in left : Range(u) \cap (Range(script) \cup Range(queue)) = {}
  /\ (Unsent \cup Range(queue)) \cap slots = {}
  /\ (Unsent \cup Range(queue)) \cap Told = {}
  /\ slots \cap Told = {}
  /\ Range(ready) \subseteq slots

\* Every effect of the sequence is a leg of a unit that is there from end to end.
Spans(q, u, s) ==
  s \in 0..(Len(q) - Len(u)) /\ \A p \in 1..Len(u) : q[s + p].tx = u[p]
WholeUnits(q) ==
  \A k \in 1..Len(q) :
    \E u \in Units : \E s \in 0..(k - 1) : Spans(q, u, s) /\ k <= s + Len(u)
OpenInv ==
  /\ \A i \in 1..Len(open) : open[i].tx \in Decided
  /\ \A i, j \in 1..Len(open) : open[i].tx = open[j].tx => i = j
  /\ WholeUnits(open)

\* The batches proposed have consecutive numbers, something in them, and no
\* request in common with each other or with the open one.
FlightInv ==
  /\ Len(inflight) < batch /\ Len(inflight) <= InFlightMax
  /\ \A k \in 1..Len(inflight) :
       /\ inflight[k].id = batch - Len(inflight) + k - 1
       /\ inflight[k].slots # <<>>
  /\ \A k \in 1..Len(inflight) : \A i \in 1..Len(inflight[k].slots) :
       /\ inflight[k].slots[i] \in Decided
       /\ \A j \in 1..Len(open) : open[j].tx # inflight[k].slots[i]
  /\ \A k, m \in 1..Len(inflight) :
       \A i \in 1..Len(inflight[k].slots), j \in 1..Len(inflight[m].slots) :
         inflight[k].slots[i] = inflight[m].slots[j] => k = m /\ i = j

\* What consensus has taken and the node has not, in the order it will answer.
Mid == commits \o held
\* A batch's effects are those of the slots it was proposed with.
Matches(x) ==
  \A k \in 1..Len(inflight) :
    inflight[k].id = x.id =>
      /\ Len(x.effects) = Len(inflight[k].slots)
      /\ \A i \in 1..Len(x.effects) : x.effects[i].tx = inflight[k].slots[i]
\* Until the apply path is sealed, consensus has the batches that are in flight, each
\* once: the proposals are the newest.
RaftInv ==
  /\ Len(proposals) <= Len(inflight)
  /\ \A k \in 1..Len(proposals) :
       proposals[k].id = batch - Len(proposals) + k - 1 /\ Matches(proposals[k])
  /\ \A k \in 1..Len(Mid) :
       /\ Mid[k].id \in (batch - Len(inflight))..(batch - Len(proposals) - 1)
       /\ Matches(Mid[k])
  /\ \A k, m \in 1..Len(Mid) : Mid[k].id = Mid[m].id => k = m

\* The effect each request was decided with, and what the lanes' overlays promise of it.
Share(eff, a) == [r \in Reqs |-> IF eff[r].debit = a THEN Reservation(eff[r]) ELSE 0]
EffectsOf(eff, q) == \A i \in 1..Len(q) : q[i] = eff[q[i].tx]
Promises(eff) ==
  /\ eff \in [Reqs -> EffectSet] /\ \A r \in Reqs : eff[r].tx = r
  /\ EffectsOf(eff, open)
  /\ ~sealed => /\ \A k \in 1..Len(proposals) : EffectsOf(eff, proposals[k].effects)
                /\ \A k \in 1..Len(Mid) : EffectsOf(eff, Mid[k].effects)
  /\ \A r \in Decided : Resolves(eff[r]) => eff[r].ref \in Reqs /\ remaining[eff[r].ref] # None
  /\ \A a \in Accounts : speculative[a] = -SumFunctionOnSet(Share(eff, a), Decided)

\* What of its reservation a decided request has to find in its account: the rest
\* comes in with the legs of its chain before it.
NeedShare(eff, need, a) == [r \in Reqs |-> IF eff[r].debit = a THEN need[r] ELSE 0]
Debited(e, a) == IF e.debit = a THEN Reservation(e) ELSE 0
Surplus(eff, need, a, r) == NeedShare(eff, need, a)[r] + Gain(eff[r], a) - Debited(eff[r], a)
\* How an account rises above what is needed of it as a sequence is applied.
Levels(eff, need, a, q, f) ==
  f \in [0..Len(q) -> Int]
    /\ \A i \in 1..Len(q) : f[i] = f[i - 1] + Surplus(eff, need, a, q[i])
\* A place where no chain crosses.
Cut(q, k) ==
  k = 0 \/ k = Len(q) \/ ChainOf(q[k]) = None \/ ChainOf(q[k]) # ChainOf(q[k + 1])
Txs(q) == [i \in 1..Len(q) |-> q[i].tx]
Rises(eff, need, a, q) ==
  \E f : Levels(eff, need, a, q, f) /\ \A i \in 0..Len(q) : f[i] >= f[0]
RisesFromCuts(eff, need, a, q) ==
  \E f : /\ Levels(eff, need, a, q, f)
         /\ \A i, k \in 0..Len(q) : Cut(q, i) /\ i <= k => f[k] >= f[i]
\* Every account that may not be overdrawn has what is needed of it.
Covered(eff, need) ==
  /\ need \in [Reqs -> Nat] /\ \A r \in Reqs : need[r] <= Reservation(eff[r])
  /\ \A a \in Constrained :
       Available(columns[a]) >= SumFunctionOnSet(NeedShare(eff, need, a), Decided)
  /\ \A a \in Accounts : \A k \in 1..Len(inflight) : Rises(eff, need, a, inflight[k].slots)
  /\ \A a \in Accounts : RisesFromCuts(eff, need, a, Txs(open))
PromiseInv == \E eff, need : Promises(eff) /\ Covered(eff, need)

\* Where in the log each commit that waits to be applied begins.
Offsets(off) ==
  /\ off \in [0..Len(commits) -> 0..Len(log)]
  /\ off[0] = committed /\ off[Len(commits)] = Len(log)
  /\ \A k \in 1..Len(commits) :
       /\ commits[k].outcome = "failed" => off[k] = off[k - 1]
       /\ commits[k].outcome = "committed" =>
            /\ off[k] = off[k - 1] + Len(commits[k].effects)
            /\ \A i \in 1..Len(commits[k].effects) : log[off[k - 1] + i] = commits[k].effects[i]
LogInv == StateFollowsLog /\ (~sealed => \E off : Offsets(off))

AckInv == AcksAreTrue /\ \A i \in 1..committed : log[i].tx \in Told

CountInv ==
  /\ applied = committed /\ committed + Cardinality(Decided) <= judged
  /\ sealed => Decided # {}

IInv ==
  /\ TypeInv /\ PlaceInv /\ OpenInv /\ FlightInv /\ (~sealed => RaftInv) /\ PromiseInv
  /\ LogInv /\ AckInv /\ CountInv /\ Balanced

-----------------------------------------------------------------------------
(* Sums.                                                                   *)

AnyOf(S) == CHOOSE x \in S : TRUE
SumTurn(f, x, acc) == f[x] + acc
A == INSTANCE FoldTheorems WITH Turn <- SumTurn, Pick <- AnyOf

Ints(f, S) == \A x \in S : f[x] \in Int

\* The function a sum is taken with, and its recursion.
LEMMA SumFolds ==
  ASSUME NEW S, IsFiniteSet(S), NEW f
  PROVE  \E g : A!Folds(S, f, 0, g) /\ SumFunctionOnSet(f, S) = g[S]
<1> DEFINE Body(g, t) == IF t = {} THEN 0 ELSE SumTurn(f, AnyOf(t), g[t \ {AnyOf(t)}])
           iter == CHOOSE g : g = [t \in SUBSET S |-> Body(g, t)]
<1>1. SumFunctionOnSet(f, S) = iter[S]
  BY DEF SumFunctionOnSet, FoldFunctionOnSet, MapThenFoldSet, SumTurn, AnyOf
<1>2. A!Picks(S)
  BY DEF A!Picks, AnyOf
<1>3. A!IsFiniteSet(S)
  BY DEF IsFiniteSet, A!IsFiniteSet
<1>4. PICK g : A!Folds(S, f, 0, g)
  BY <1>2, <1>3, A!FoldExists
<1>5. g = [t \in SUBSET S |-> Body(g, t)]
  BY <1>4 DEF A!Folds
<1>6. iter = [t \in SUBSET S |-> Body(iter, t)]
  <2> HIDE DEF Body
  <2> QED
    BY <1>5
<1> HIDE DEF iter
<1>7. A!Folds(S, f, 0, iter)
  BY <1>6 DEF A!Folds, Body
<1> QED
  BY <1>1, <1>7

LEMMA SumAnyOrder ==
  ASSUME NEW S, IsFiniteSet(S), NEW f, Ints(f, S), NEW g, A!Folds(S, f, 0, g)
  PROVE  \A t \in SUBSET S : g[t] \in Int /\ \A x \in t : g[t] = f[x] + g[t \ {x}]
<1>1. A!Picks(S) /\ A!IsFiniteSet(S)
  BY DEF A!Picks, AnyOf, IsFiniteSet, A!IsFiniteSet
<1>2. A!Commutes(S, f, Int)
  BY DEF A!Commutes, SumTurn, Ints
<1> DEFINE zero == 0  D == Int
<1>3. zero \in D /\ A!Commutes(S, f, D) /\ A!Folds(S, f, zero, g)
  BY <1>2
<1> HIDE DEF zero, D
<1>4. \A t \in SUBSET S : g[t] \in D /\ \A x \in t : g[t] = SumTurn(f, x, g[t \ {x}])
  BY <1>1, <1>3, A!FoldAnyOrder
<1> QED
  BY <1>4 DEF SumTurn, D

\* A sum over a subset is what the larger one's fold has there.
LEMMA SumSame ==
  ASSUME NEW T, IsFiniteSet(T), NEW S, S \subseteq T, NEW f, NEW e, NEW g,
         A!Folds(T, f, 0, g), \A x \in S : e[x] = f[x]
  PROVE  SumFunctionOnSet(e, S) = g[S]
<1>1. IsFiniteSet(S)
  BY FS_Subset
<1>2. A!Picks(S) /\ A!IsFiniteSet(S)
  BY <1>1 DEF A!Picks, AnyOf, IsFiniteSet, A!IsFiniteSet
<1>3. PICK h : A!Folds(S, e, 0, h) /\ SumFunctionOnSet(e, S) = h[S]
  BY <1>1, SumFolds
<1>4. \A x \in S : \A a : SumTurn(f, x, a) = SumTurn(e, x, a)
  BY DEF SumTurn
<1> DEFINE zero == 0
<1>0. A!Folds(T, f, zero, g) /\ A!Folds(S, e, zero, h)
  BY <1>3
<1> HIDE DEF zero
<1>5. \A t \in SUBSET S : g[t] = h[t]
  BY <1>0, <1>2, <1>4, A!FoldSame
<1> QED
  BY <1>3, <1>5

LEMMA SumEmpty == \A f : SumFunctionOnSet(f, {}) = 0
<1> TAKE f
<1>1. IsFiniteSet({})
  BY FS_EmptySet
<1>2. PICK g : A!Folds({}, f, 0, g) /\ SumFunctionOnSet(f, {}) = g[{}]
  BY <1>1, SumFolds
<1> QED
  BY <1>2 DEF A!Folds

LEMMA SumType ==
  ASSUME NEW S, IsFiniteSet(S), NEW f, Ints(f, S)
  PROVE  SumFunctionOnSet(f, S) \in Int
<1>1. PICK g : A!Folds(S, f, 0, g) /\ SumFunctionOnSet(f, S) = g[S]
  BY SumFolds
<1> QED
  BY <1>1, SumAnyOrder, S \in SUBSET S

\* Only what is summed matters.
LEMMA SumCong ==
  ASSUME NEW S, IsFiniteSet(S), NEW f, NEW e, \A x \in S : e[x] = f[x]
  PROVE  SumFunctionOnSet(e, S) = SumFunctionOnSet(f, S)
<1>1. PICK g : A!Folds(S, f, 0, g) /\ SumFunctionOnSet(f, S) = g[S]
  BY SumFolds
<1> QED
  BY <1>1, SumSame

\* One member is taken out.
LEMMA SumRemove ==
  ASSUME NEW S, IsFiniteSet(S), NEW f, Ints(f, S), NEW x \in S
  PROVE  SumFunctionOnSet(f, S) = f[x] + SumFunctionOnSet(f, S \ {x})
<1>1. PICK g : A!Folds(S, f, 0, g) /\ SumFunctionOnSet(f, S) = g[S]
  BY SumFolds
<1>2. S \in SUBSET S /\ S \ {x} \subseteq S
  OBVIOUS
<1>3. SumFunctionOnSet(f, S \ {x}) = g[S \ {x}]
  BY <1>1, <1>2, SumSame
<1>4. g[S] = f[x] + g[S \ {x}]
  BY <1>1, <1>2, SumAnyOrder
<1> QED
  BY <1>1, <1>3, <1>4

\* One member is put in.
LEMMA SumInsert ==
  ASSUME NEW S, IsFiniteSet(S), NEW x, x \notin S, NEW f, Ints(f, S \cup {x})
  PROVE  SumFunctionOnSet(f, S \cup {x}) = f[x] + SumFunctionOnSet(f, S)
<1> DEFINE T == S \cup {x}
<1>1. IsFiniteSet(T) /\ x \in T /\ T \ {x} = S
  BY FS_AddElement
<1> HIDE DEF T
<1>2. SumFunctionOnSet(f, T) = f[x] + SumFunctionOnSet(f, T \ {x})
  BY <1>1, SumRemove DEF T
<1> QED
  BY <1>1, <1>2 DEF T

\* One member's value is changed.
LEMMA SumChange ==
  ASSUME NEW S, IsFiniteSet(S), NEW x \in S, NEW f, Ints(f, S), NEW e, Ints(e, S),
         \A y \in S \ {x} : e[y] = f[y]
  PROVE  SumFunctionOnSet(e, S) = SumFunctionOnSet(f, S) + (e[x] - f[x])
<1>1. SumFunctionOnSet(e, S) = e[x] + SumFunctionOnSet(e, S \ {x})
  BY SumRemove
<1>2. SumFunctionOnSet(f, S) = f[x] + SumFunctionOnSet(f, S \ {x})
  BY SumRemove
<1>3. IsFiniteSet(S \ {x}) /\ Ints(f, S \ {x})
  BY FS_RemoveElement DEF Ints
<1>4. SumFunctionOnSet(e, S \ {x}) = SumFunctionOnSet(f, S \ {x})
  BY <1>3, SumCong
<1>5. SumFunctionOnSet(f, S \ {x}) \in Int /\ e[x] \in Int /\ f[x] \in Int
  BY <1>3, SumType DEF Ints
<1> QED
  BY <1>1, <1>2, <1>4, <1>5

-----------------------------------------------------------------------------
(* Columns.                                                                *)

BookCols == {"dposted", "cposted", "dpending", "cpending"}

LEMMA ColumnsType ==
  ASSUME NEW e \in EffectSet
  PROVE  /\ Columns(e).posted \in Int /\ Columns(e).pending \in Int
         /\ Reservation(e) \in Nat /\ \A a : Gain(e, a) \in Nat /\ Debited(e, a) \in Nat
<1>1. e.kind \in Kinds /\ e.amount \in Nat
  BY DEF EffectSet
<1>2. Columns(e).posted \in Int /\ Columns(e).pending \in Int
  BY <1>1 DEF Columns, Kinds
<1> QED
  BY <1>1, <1>2 DEF Reservation, Gain, Debited, Resolves

\* What move_columns does to each column, when it does anything.
LEMMA MovedColumns ==
  ASSUME NEW cols \in [Accounts -> Book], NEW e \in EffectSet, MoveColumns(cols, e).ok
  PROVE  LET new == MoveColumns(cols, e).cols
             d == Columns(e)
         IN /\ new \in [Accounts -> Book]
            /\ \A a \in Accounts :
                 /\ new[a].dposted = cols[a].dposted + (IF a = e.debit THEN d.posted ELSE 0)
                 /\ new[a].dpending = cols[a].dpending + (IF a = e.debit THEN d.pending ELSE 0)
                 /\ new[a].cposted = cols[a].cposted + (IF a = e.credit THEN d.posted ELSE 0)
                 /\ new[a].cpending = cols[a].cpending + (IF a = e.credit THEN d.pending ELSE 0)
<1> DEFINE d == Columns(e)
           near == [cols EXCEPT ![e.debit] = ApplyDebit(cols[e.debit], d)]
           new == [near EXCEPT ![e.credit] = ApplyCredit(near[e.credit], d)]
<1>0. e.debit \in Accounts /\ e.credit \in Accounts
  BY DEF EffectSet
<1>1. d.posted \in Int /\ d.pending \in Int
  BY ColumnsType
<1>2. CanCredit(cols[e.credit], d) /\ CanDebit(cols[e.debit], d)
        /\ MoveColumns(cols, e).cols = new
  BY DEF MoveColumns
<1> HIDE DEF d
<1>3. \A a \in Accounts : cols[a] \in Book
  OBVIOUS
<1>4. /\ ApplyDebit(cols[e.debit], d) \in Book
      /\ ApplyDebit(cols[e.debit], d).dposted = cols[e.debit].dposted + d.posted
      /\ ApplyDebit(cols[e.debit], d).dpending = cols[e.debit].dpending + d.pending
      /\ ApplyDebit(cols[e.debit], d).cposted = cols[e.debit].cposted
      /\ ApplyDebit(cols[e.debit], d).cpending = cols[e.debit].cpending
  BY <1>0, <1>1, <1>2, <1>3 DEF ApplyDebit, CanDebit, Check, Book
<1>5. near \in [Accounts -> Book]
  BY <1>0, <1>4
<1>6. near[e.credit] \in Book /\ near[e.credit].cposted = cols[e.credit].cposted
        /\ near[e.credit].cpending = cols[e.credit].cpending
  BY <1>0, <1>4, <1>5
<1>7. /\ ApplyCredit(near[e.credit], d) \in Book
      /\ ApplyCredit(near[e.credit], d).cposted = cols[e.credit].cposted + d.posted
      /\ ApplyCredit(near[e.credit], d).cpending = cols[e.credit].cpending + d.pending
      /\ ApplyCredit(near[e.credit], d).dposted = near[e.credit].dposted
      /\ ApplyCredit(near[e.credit], d).dpending = near[e.credit].dpending
  <2> HIDE DEF near
  <2> QED
    BY <1>0, <1>1, <1>2, <1>6 DEF ApplyCredit, CanCredit, Check, Book
<1>8. new \in [Accounts -> Book]
  <2> HIDE DEF near
  <2> QED
    BY <1>0, <1>5, <1>7
<1>9. ASSUME NEW a \in Accounts
      PROVE  /\ new[a].dposted = cols[a].dposted + (IF a = e.debit THEN d.posted ELSE 0)
             /\ new[a].dpending = cols[a].dpending + (IF a = e.debit THEN d.pending ELSE 0)
             /\ new[a].cposted = cols[a].cposted + (IF a = e.credit THEN d.posted ELSE 0)
             /\ new[a].cpending = cols[a].cpending + (IF a = e.credit THEN d.pending ELSE 0)
  <2>0. cols[a] \in Book /\ cols[e.debit] \in Book
    BY <1>0, <1>3
  <2>1. /\ near[a].dposted = cols[a].dposted + (IF a = e.debit THEN d.posted ELSE 0)
        /\ near[a].dpending = cols[a].dpending + (IF a = e.debit THEN d.pending ELSE 0)
        /\ near[a].cposted = cols[a].cposted /\ near[a].cpending = cols[a].cpending
    <3>1. CASE a = e.debit
      BY <1>0, <1>4, <3>1
    <3>2. CASE a # e.debit
      BY <1>0, <2>0, <3>2 DEF Book
    <3> QED
      BY <3>1, <3>2
  <2>2. CASE a = e.credit
    <3>1. new[a] = ApplyCredit(near[e.credit], d)
      BY <1>5, <2>2
    <3> HIDE DEF near, new
    <3> QED
      BY <1>7, <2>1, <2>2, <3>1
  <2>3. CASE a # e.credit
    <3>1. new[a] = near[a]
      BY <1>0, <1>5, <2>3
    <3> HIDE DEF near, new
    <3> QED
      BY <2>0, <2>1, <2>3, <3>1 DEF Book
  <2> QED
    BY <2>2, <2>3
<1> HIDE DEF new
<1> QED
  BY <1>2, <1>8, <1>9 DEF d

\* One column after a change to one account.
LEMMA SumMoved ==
  ASSUME NEW cols \in [Accounts -> Book], NEW new \in [Accounts -> Book], NEW col \in BookCols,
         NEW x \in Accounts, NEW delta \in Int,
         \A a \in Accounts : new[a][col] = cols[a][col] + (IF a = x THEN delta ELSE 0)
  PROVE  ColumnSum(new, col) = ColumnSum(cols, col) + delta /\ ColumnSum(cols, col) \in Int
<1> DEFINE f == [a \in Accounts |-> cols[a][col]]
           h == [a \in Accounts |-> new[a][col]]
<1>0. IsFiniteSet(Accounts)
  BY CommitAssumption
<1>1. \A a \in Accounts : cols[a][col] \in Int /\ new[a][col] \in Int
  <2> SUFFICES ASSUME NEW a \in Accounts PROVE cols[a][col] \in Int /\ new[a][col] \in Int
    OBVIOUS
  <2>1. cols[a] \in Book /\ new[a] \in Book
    OBVIOUS
  <2> QED
    BY <2>1 DEF Book, BookCols
<1>2. Ints(f, Accounts) /\ Ints(h, Accounts)
  BY <1>1 DEF Ints
<1>3. \A y \in Accounts \ {x} : h[y] = f[y]
  BY <1>1
<1>4. h[x] - f[x] = delta
  BY <1>1
<1>5. ColumnSum(cols, col) = SumFunctionOnSet(f, Accounts) /\ ColumnSum(new, col) = SumFunctionOnSet(h, Accounts)
  BY DEF ColumnSum, SumFunction
<1> HIDE DEF f, h
<1> QED
  BY <1>0, <1>2, <1>3, <1>4, <1>5, SumChange, SumType

LEMMA MovedBalance ==
  ASSUME NEW cols \in [Accounts -> Book], NEW e \in EffectSet, DoubleEntry(cols)
  PROVE  DoubleEntry(MoveColumns(cols, e).cols)
<1>1. CASE ~MoveColumns(cols, e).ok
  <2>1. MoveColumns(cols, e).cols = cols
    BY <1>1 DEF MoveColumns
  <2> QED
    BY <2>1
<1>2. CASE MoveColumns(cols, e).ok
  <2> DEFINE new == MoveColumns(cols, e).cols
             d == Columns(e)
  <2>0. e.debit \in Accounts /\ e.credit \in Accounts /\ d.posted \in Int /\ d.pending \in Int
    BY ColumnsType DEF EffectSet
  <2>1. /\ new \in [Accounts -> Book]
        /\ \A a \in Accounts :
             /\ new[a].dposted = cols[a].dposted + (IF a = e.debit THEN d.posted ELSE 0)
             /\ new[a].dpending = cols[a].dpending + (IF a = e.debit THEN d.pending ELSE 0)
             /\ new[a].cposted = cols[a].cposted + (IF a = e.credit THEN d.posted ELSE 0)
             /\ new[a].cpending = cols[a].cpending + (IF a = e.credit THEN d.pending ELSE 0)
    BY <1>2, MovedColumns
  <2> HIDE DEF new, d
  <2>2. ColumnSum(new, "dposted") = ColumnSum(cols, "dposted") + d.posted /\ ColumnSum(cols, "dposted") \in Int
    <3> DEFINE c == "dposted"  x == e.debit  n == d.posted
    <3>1. c \in BookCols /\ x \in Accounts /\ n \in Int
      BY <2>0 DEF BookCols
    <3>2. \A a \in Accounts : new[a][c] = cols[a][c] + (IF a = x THEN n ELSE 0)
      BY <2>1
    <3> HIDE DEF c, x, n
    <3>3. ColumnSum(new, c) = ColumnSum(cols, c) + n /\ ColumnSum(cols, c) \in Int
      BY <2>1, <3>1, <3>2, SumMoved
    <3> QED
      BY <3>3 DEF c, n
  <2>3. ColumnSum(new, "dpending") = ColumnSum(cols, "dpending") + d.pending /\ ColumnSum(cols, "dpending") \in Int
    <3> DEFINE c == "dpending"  x == e.debit  n == d.pending
    <3>1. c \in BookCols /\ x \in Accounts /\ n \in Int
      BY <2>0 DEF BookCols
    <3>2. \A a \in Accounts : new[a][c] = cols[a][c] + (IF a = x THEN n ELSE 0)
      BY <2>1
    <3> HIDE DEF c, x, n
    <3>3. ColumnSum(new, c) = ColumnSum(cols, c) + n /\ ColumnSum(cols, c) \in Int
      BY <2>1, <3>1, <3>2, SumMoved
    <3> QED
      BY <3>3 DEF c, n
  <2>4. ColumnSum(new, "cposted") = ColumnSum(cols, "cposted") + d.posted /\ ColumnSum(cols, "cposted") \in Int
    <3> DEFINE c == "cposted"  x == e.credit  n == d.posted
    <3>1. c \in BookCols /\ x \in Accounts /\ n \in Int
      BY <2>0 DEF BookCols
    <3>2. \A a \in Accounts : new[a][c] = cols[a][c] + (IF a = x THEN n ELSE 0)
      BY <2>1
    <3> HIDE DEF c, x, n
    <3>3. ColumnSum(new, c) = ColumnSum(cols, c) + n /\ ColumnSum(cols, c) \in Int
      BY <2>1, <3>1, <3>2, SumMoved
    <3> QED
      BY <3>3 DEF c, n
  <2>5. ColumnSum(new, "cpending") = ColumnSum(cols, "cpending") + d.pending /\ ColumnSum(cols, "cpending") \in Int
    <3> DEFINE c == "cpending"  x == e.credit  n == d.pending
    <3>1. c \in BookCols /\ x \in Accounts /\ n \in Int
      BY <2>0 DEF BookCols
    <3>2. \A a \in Accounts : new[a][c] = cols[a][c] + (IF a = x THEN n ELSE 0)
      BY <2>1
    <3> HIDE DEF c, x, n
    <3>3. ColumnSum(new, c) = ColumnSum(cols, c) + n /\ ColumnSum(cols, c) \in Int
      BY <2>1, <3>1, <3>2, SumMoved
    <3> QED
      BY <3>3 DEF c, n
  <2>6. DoubleEntry(new)
    BY <2>2, <2>3, <2>4, <2>5 DEF DoubleEntry
  <2> QED
    BY <2>6 DEF new
<1> QED
  BY <1>1, <1>2

\* What an account has to spend changes by what the effect brings it and takes from it.
LEMMA MovedAvailable ==
  ASSUME NEW cols \in [Accounts -> Book], NEW e \in EffectSet, MoveColumns(cols, e).ok,
         NEW a \in Accounts
  PROVE  /\ Available(cols[a]) \in Int
         /\ Available(MoveColumns(cols, e).cols[a]) = Available(cols[a]) + Gain(e, a) - Debited(e, a)
<1> DEFINE new == MoveColumns(cols, e).cols
           d == Columns(e)
<1>1. /\ new[a].dposted = cols[a].dposted + (IF a = e.debit THEN d.posted ELSE 0)
      /\ new[a].dpending = cols[a].dpending + (IF a = e.debit THEN d.pending ELSE 0)
      /\ new[a].cposted = cols[a].cposted + (IF a = e.credit THEN d.posted ELSE 0)
  BY MovedColumns
<1> HIDE DEF new
<1>2. cols[a] \in Book
  OBVIOUS
<1>3. cols[a].dposted \in Int /\ cols[a].dpending \in Int /\ cols[a].cposted \in Int
  BY <1>2 DEF Book
<1>4. e.kind \in Kinds /\ e.amount \in Nat
  BY DEF EffectSet
<1>5. Available(new[a]) = Available(cols[a]) + Gain(e, a) - Debited(e, a)
  <2>1. CASE e.kind = "post"
    BY <1>1, <1>3, <1>4, <2>1 DEF Available, Gain, Debited, Reservation, Resolves, Columns
  <2>2. CASE e.kind = "hold"
    BY <1>1, <1>3, <1>4, <2>2 DEF Available, Gain, Debited, Reservation, Resolves, Columns
  <2>3. CASE e.kind = "settle"
    BY <1>1, <1>3, <1>4, <2>3 DEF Available, Gain, Debited, Reservation, Resolves, Columns
  <2>4. CASE e.kind = "void"
    BY <1>1, <1>3, <1>4, <2>4 DEF Available, Gain, Debited, Reservation, Resolves, Columns
  <2> QED
    BY <1>4, <2>1, <2>2, <2>3, <2>4 DEF Kinds
<1> QED
  BY <1>3, <1>5 DEF new, Available

-----------------------------------------------------------------------------
(* The folds, step by step.                                                *)

ReplayTurn(s, i, cols) == MoveColumns(cols, s[i]).cols
R == INSTANCE FoldTheorems WITH Turn <- ReplayTurn, Pick <- Max
CommitTurn(s, i, acc) == CommitOne(acc, s[i])
C == INSTANCE FoldTheorems WITH Turn <- CommitTurn, Pick <- Max
RollBackTurn(s, i, acc) == RollBackOne(acc, s[i])
B == INSTANCE FoldTheorems WITH Turn <- RollBackTurn, Pick <- Max
LegTurn(s, i, acc) == Leg(acc, s[i])
G == INSTANCE FoldTheorems WITH Turn <- LegTurn, Pick <- Max
EmitTurn(c, i, out) == Emit(out, Ack(c.rs[i], c.outcome))
E == INSTANCE FoldTheorems WITH Turn <- EmitTurn, Pick <- Max
WithoutTurn(c, i, kept) == IF c.seq[i] \in Range(c.unit) THEN kept ELSE Append(kept, c.seq[i])
W == INSTANCE FoldTheorems WITH Turn <- WithoutTurn, Pick <- Max

\* The greatest of a set of numbers that has a bound.
LEMMA MaxOf ==
  ASSUME NEW k \in Nat, NEW t \in SUBSET (0..k), t # {}
  PROVE  Max(t) \in t /\ \A y \in t : Max(t) >= y
<1>1. \E m \in t : \A y \in t : m >= y
  BY A!MaxUpTo
<1> QED
  BY <1>1 DEF Max

LEMMA MaxIn ==
  ASSUME NEW k \in Nat
  PROVE  \A t \in SUBSET (1..k) : t # {} => Max(t) \in t /\ \A y \in t : Max(t) >= y
<1> SUFFICES ASSUME NEW t \in SUBSET (1..k), t # {}
             PROVE  Max(t) \in t /\ \A y \in t : Max(t) >= y
  OBVIOUS
<1>1. t \in SUBSET (0..k)
  <2>1. \A x \in t : x \in 0..k
    OBVIOUS
  <2> QED
    BY <2>1
<1> QED
  BY <1>1, MaxOf

LEMMA ReplayTrace ==
  ASSUME NEW S, NEW s \in Seq(S)
  PROVE  \E f : /\ f[0] = Opening
                /\ \A i \in 1..Len(s) : f[i] = MoveColumns(f[i - 1], s[i]).cols
                /\ Replayed(s) = f[Len(s)]
<1> DEFINE Body(g, t) == IF t = {} THEN Opening ELSE ReplayTurn(s, Max(t), g[t \ {Max(t)}])
           iter == CHOOSE g : g = [t \in SUBSET (1..Len(s)) |-> Body(g, t)]
<1>0. Len(s) \in Nat /\ DOMAIN s = 1..Len(s)
  OBVIOUS
<1>1. Replayed(s) = iter[1..Len(s)]
  BY <1>0 DEF Replayed, FoldLeft, MapThenFoldSet, ReplayTurn
<1>2. R!PicksLast(Len(s)) /\ R!Picks(1..Len(s))
  BY <1>0, MaxIn DEF R!PicksLast, R!Picks
<1>3. R!Folds(1..Len(s), s, Opening, iter)
  <2>1. IsFiniteSet(1..Len(s))
    BY <1>0, FS_Interval, 1 \in Int
  <2>2. R!IsFiniteSet(1..Len(s))
    BY <2>1 DEF IsFiniteSet, R!IsFiniteSet
  <2>3. PICK g : R!Folds(1..Len(s), s, Opening, g)
    BY <1>2, <2>2, R!FoldExists
  <2>4. g = [t \in SUBSET (1..Len(s)) |-> Body(g, t)]
    BY <2>3 DEF R!Folds
  <2> HIDE DEF Body
  <2>5. iter = [t \in SUBSET (1..Len(s)) |-> Body(iter, t)]
    BY <2>4
  <2> HIDE DEF iter
  <2> QED
    BY <2>5 DEF R!Folds, Body
<1> HIDE DEF iter
<1>4. \E f : /\ f[0] = Opening
             /\ \A i \in 1..Len(s) : f[i] = ReplayTurn(s, i, f[i - 1])
             /\ iter[1..Len(s)] = f[Len(s)]
  BY <1>0, <1>2, <1>3, R!FoldTrace
<1> QED
  BY <1>1, <1>4 DEF ReplayTurn

LEMMA CommitTrace ==
  ASSUME NEW S, NEW s \in Seq(S), NEW b
  PROVE  \E f : /\ f[0] = b
                /\ \A i \in 1..Len(s) : f[i] = CommitOne(f[i - 1], s[i])
                /\ FoldLeft(CommitOne, b, s) = f[Len(s)]
<1> DEFINE Body(g, t) == IF t = {} THEN b ELSE CommitTurn(s, Max(t), g[t \ {Max(t)}])
           iter == CHOOSE g : g = [t \in SUBSET (1..Len(s)) |-> Body(g, t)]
<1>0. Len(s) \in Nat /\ DOMAIN s = 1..Len(s)
  OBVIOUS
<1>1. FoldLeft(CommitOne, b, s) = iter[1..Len(s)]
  BY <1>0 DEF FoldLeft, MapThenFoldSet, CommitTurn
<1>2. C!PicksLast(Len(s)) /\ C!Picks(1..Len(s))
  BY <1>0, MaxIn DEF C!PicksLast, C!Picks
<1>3. C!Folds(1..Len(s), s, b, iter)
  <2>1. IsFiniteSet(1..Len(s))
    BY <1>0, FS_Interval, 1 \in Int
  <2>2. C!IsFiniteSet(1..Len(s))
    BY <2>1 DEF IsFiniteSet, C!IsFiniteSet
  <2>3. PICK g : C!Folds(1..Len(s), s, b, g)
    BY <1>2, <2>2, C!FoldExists
  <2>4. g = [t \in SUBSET (1..Len(s)) |-> Body(g, t)]
    BY <2>3 DEF C!Folds
  <2> HIDE DEF Body
  <2>5. iter = [t \in SUBSET (1..Len(s)) |-> Body(iter, t)]
    BY <2>4
  <2> HIDE DEF iter
  <2> QED
    BY <2>5 DEF C!Folds, Body
<1> HIDE DEF iter
<1>4. \E f : /\ f[0] = b
             /\ \A i \in 1..Len(s) : f[i] = CommitTurn(s, i, f[i - 1])
             /\ iter[1..Len(s)] = f[Len(s)]
  BY <1>0, <1>2, <1>3, C!FoldTrace
<1> QED
  BY <1>1, <1>4 DEF CommitTurn

LEMMA RollBackTrace ==
  ASSUME NEW S, NEW s \in Seq(S), NEW b
  PROVE  \E f : /\ f[0] = b
                /\ \A i \in 1..Len(s) : f[i] = RollBackOne(f[i - 1], s[i])
                /\ FoldLeft(RollBackOne, b, s) = f[Len(s)]
<1> DEFINE Body(g, t) == IF t = {} THEN b ELSE RollBackTurn(s, Max(t), g[t \ {Max(t)}])
           iter == CHOOSE g : g = [t \in SUBSET (1..Len(s)) |-> Body(g, t)]
<1>0. Len(s) \in Nat /\ DOMAIN s = 1..Len(s)
  OBVIOUS
<1>1. FoldLeft(RollBackOne, b, s) = iter[1..Len(s)]
  BY <1>0 DEF FoldLeft, MapThenFoldSet, RollBackTurn
<1>2. B!PicksLast(Len(s)) /\ B!Picks(1..Len(s))
  BY <1>0, MaxIn DEF B!PicksLast, B!Picks
<1>3. B!Folds(1..Len(s), s, b, iter)
  <2>1. IsFiniteSet(1..Len(s))
    BY <1>0, FS_Interval, 1 \in Int
  <2>2. B!IsFiniteSet(1..Len(s))
    BY <2>1 DEF IsFiniteSet, B!IsFiniteSet
  <2>3. PICK g : B!Folds(1..Len(s), s, b, g)
    BY <1>2, <2>2, B!FoldExists
  <2>4. g = [t \in SUBSET (1..Len(s)) |-> Body(g, t)]
    BY <2>3 DEF B!Folds
  <2> HIDE DEF Body
  <2>5. iter = [t \in SUBSET (1..Len(s)) |-> Body(iter, t)]
    BY <2>4
  <2> HIDE DEF iter
  <2> QED
    BY <2>5 DEF B!Folds, Body
<1> HIDE DEF iter
<1>4. \E f : /\ f[0] = b
             /\ \A i \in 1..Len(s) : f[i] = RollBackTurn(s, i, f[i - 1])
             /\ iter[1..Len(s)] = f[Len(s)]
  BY <1>0, <1>2, <1>3, B!FoldTrace
<1> QED
  BY <1>1, <1>4 DEF RollBackTurn

LEMMA LegTrace ==
  ASSUME NEW S, NEW s \in Seq(S), NEW b
  PROVE  \E f : /\ f[0] = b
                /\ \A i \in 1..Len(s) : f[i] = Leg(f[i - 1], s[i])
                /\ FoldLeft(Leg, b, s) = f[Len(s)]
<1> DEFINE Body(g, t) == IF t = {} THEN b ELSE LegTurn(s, Max(t), g[t \ {Max(t)}])
           iter == CHOOSE g : g = [t \in SUBSET (1..Len(s)) |-> Body(g, t)]
<1>0. Len(s) \in Nat /\ DOMAIN s = 1..Len(s)
  OBVIOUS
<1>1. FoldLeft(Leg, b, s) = iter[1..Len(s)]
  BY <1>0 DEF FoldLeft, MapThenFoldSet, LegTurn
<1>2. G!PicksLast(Len(s)) /\ G!Picks(1..Len(s))
  BY <1>0, MaxIn DEF G!PicksLast, G!Picks
<1>3. G!Folds(1..Len(s), s, b, iter)
  <2>1. IsFiniteSet(1..Len(s))
    BY <1>0, FS_Interval, 1 \in Int
  <2>2. G!IsFiniteSet(1..Len(s))
    BY <2>1 DEF IsFiniteSet, G!IsFiniteSet
  <2>3. PICK g : G!Folds(1..Len(s), s, b, g)
    BY <1>2, <2>2, G!FoldExists
  <2>4. g = [t \in SUBSET (1..Len(s)) |-> Body(g, t)]
    BY <2>3 DEF G!Folds
  <2> HIDE DEF Body
  <2>5. iter = [t \in SUBSET (1..Len(s)) |-> Body(iter, t)]
    BY <2>4
  <2> HIDE DEF iter
  <2> QED
    BY <2>5 DEF G!Folds, Body
<1> HIDE DEF iter
<1>4. \E f : /\ f[0] = b
             /\ \A i \in 1..Len(s) : f[i] = LegTurn(s, i, f[i - 1])
             /\ iter[1..Len(s)] = f[Len(s)]
  BY <1>0, <1>2, <1>3, G!FoldTrace
<1> QED
  BY <1>1, <1>4 DEF LegTurn

LEMMA EmitTrace ==
  ASSUME NEW S, NEW s \in Seq(S), NEW b, NEW outcome
  PROVE  \E f : /\ f[0] = b
                /\ \A i \in 1..Len(s) : f[i] = Emit(f[i - 1], Ack(s[i], outcome))
                /\ EmitAll(b, s, outcome) = f[Len(s)]
<1> DEFINE c == [rs |-> s, outcome |-> outcome]
           Body(g, t) == IF t = {} THEN b ELSE EmitTurn(c, Max(t), g[t \ {Max(t)}])
           iter == CHOOSE g : g = [t \in SUBSET (1..Len(s)) |-> Body(g, t)]
<1>0. Len(s) \in Nat /\ DOMAIN s = 1..Len(s)
  OBVIOUS
<1>1. EmitAll(b, s, outcome) = iter[1..Len(s)]
  BY <1>0 DEF EmitAll, FoldLeft, MapThenFoldSet, EmitTurn
<1>2. E!PicksLast(Len(s)) /\ E!Picks(1..Len(s))
  BY <1>0, MaxIn DEF E!PicksLast, E!Picks
<1>3. E!Folds(1..Len(s), c, b, iter)
  <2>1. IsFiniteSet(1..Len(s))
    BY <1>0, FS_Interval, 1 \in Int
  <2>2. E!IsFiniteSet(1..Len(s))
    BY <2>1 DEF IsFiniteSet, E!IsFiniteSet
  <2>3. PICK g : E!Folds(1..Len(s), c, b, g)
    BY <1>2, <2>2, E!FoldExists
  <2>4. g = [t \in SUBSET (1..Len(s)) |-> Body(g, t)]
    BY <2>3 DEF E!Folds
  <2> HIDE DEF Body
  <2>5. iter = [t \in SUBSET (1..Len(s)) |-> Body(iter, t)]
    BY <2>4
  <2> HIDE DEF iter
  <2> QED
    BY <2>5 DEF E!Folds, Body
<1> HIDE DEF iter
<1>4. \E f : /\ f[0] = b
             /\ \A i \in 1..Len(s) : f[i] = EmitTurn(c, i, f[i - 1])
             /\ iter[1..Len(s)] = f[Len(s)]
  BY <1>0, <1>2, <1>3, E!FoldTrace
<1> QED
  BY <1>1, <1>4 DEF EmitTurn

\* What is left of a sequence, element by element.
Leaves(unit, s, f) ==
  /\ f[0] = <<>>
  /\ \A i \in 1..Len(s) :
       f[i] = IF s[i] \in Range(unit) THEN f[i - 1] ELSE Append(f[i - 1], s[i])

LEMMA WithoutExists ==
  ASSUME NEW S, NEW s \in Seq(S), NEW unit
  PROVE  \E f : Leaves(unit, s, f) /\ Without(s, unit) = f[Len(s)]
<1> DEFINE c == [seq |-> s, unit |-> unit]
           Body(f, i) == IF i = 0 THEN <<>>
                         ELSE IF s[i] \in Range(unit) THEN f[i - 1] ELSE Append(f[i - 1], s[i])
           kept == CHOOSE f : f = [i \in 0..Len(s) |-> Body(f, i)]
<1>1. PICK g : W!Recurs(Len(s), c, <<>>, g)
  BY Len(s) \in Nat, W!RecursionExists
<1>2. g = [i \in 0..Len(s) |-> Body(g, i)]
  BY <1>1 DEF W!Recurs, WithoutTurn
<1>3. Without(s, unit) = kept[Len(s)]
  BY DEF Without
<1>4. kept = [i \in 0..Len(s) |-> Body(kept, i)]
  <2> HIDE DEF Body
  <2> QED
    BY <1>2
<1> HIDE DEF kept
<1>5. Leaves(unit, s, kept)
  <2>1. kept[0] = <<>>
    BY <1>4, 0 \in 0..Len(s)
  <2>2. \A i \in 1..Len(s) : i \in 0..Len(s) /\ i # 0
    OBVIOUS
  <2> QED
    BY <1>4, <2>1, <2>2 DEF Leaves
<1> QED
  BY <1>3, <1>5

\* Taking a unit out of the order keeps everything else, once each.
LEMMA WithoutIs ==
  ASSUME NEW S, NEW s \in Seq(S), NEW unit, Distinct(s)
  PROVE  /\ Without(s, unit) \in Seq(S)
         /\ Range(Without(s, unit)) = Range(s) \ Range(unit)
         /\ Distinct(Without(s, unit))
<1>1. PICK f : Leaves(unit, s, f) /\ Without(s, unit) = f[Len(s)]
  BY WithoutExists
<1> DEFINE Sound(i) ==
             /\ f[i] \in Seq(S) /\ Distinct(f[i])
             /\ \A x : (\E j \in 1..Len(f[i]) : f[i][j] = x)
                         <=> x \notin Range(unit) /\ \E j \in 1..i : s[j] = x
           T == {i \in Nat : i <= Len(s) => Sound(i)}
<1>2. 0 \in T
  <2>1. f[0] = <<>>
    BY <1>1 DEF Leaves
  <2>2. Sound(0)
    BY <2>1 DEF Distinct
  <2> QED
    BY <2>2
<1>3. ASSUME NEW i \in Nat, i \in T PROVE i + 1 \in T
  <2> SUFFICES ASSUME i + 1 <= Len(s) PROVE Sound(i + 1)
    OBVIOUS
  <2>1. i + 1 \in 1..Len(s) /\ Sound(i) /\ s[i + 1] \in S
    <3>1. i + 1 \in 1..Len(s) /\ s[i + 1] \in S /\ i <= Len(s)
      OBVIOUS
    <3> HIDE DEF Sound
    <3> QED
      BY <1>3, <3>1
  <2>2. f[i + 1] = IF s[i + 1] \in Range(unit) THEN f[i] ELSE Append(f[i], s[i + 1])
    BY <1>1, <2>1, (i + 1) - 1 = i DEF Leaves
  <2>3. CASE s[i + 1] \in Range(unit)
    BY <2>1, <2>2, <2>3
  <2>4. CASE s[i + 1] \notin Range(unit)
    <3> DEFINE t == f[i]  x == s[i + 1]  u == Append(f[i], x)
    <3>0. t \in Seq(S) /\ x \in S /\ f[i + 1] = u
      BY <2>1, <2>2, <2>4
    <3>1. /\ u \in Seq(S) /\ Len(u) = Len(t) + 1 /\ u[Len(t) + 1] = x
          /\ \A j \in 1..Len(t) : u[j] = t[j]
      BY <3>0
    <3>2. \A j \in 1..Len(t) : t[j] # x
      <4> SUFFICES ASSUME NEW j \in 1..Len(t), t[j] = x PROVE FALSE
        OBVIOUS
      <4>1. PICK m \in 1..i : s[m] = x
        BY <2>1
      <4>2. m \in 1..Len(s) /\ m # i + 1
        BY <2>1
      <4> QED
        BY <2>1, <4>1, <4>2 DEF Distinct
    <3> HIDE DEF u
    <3>3. Distinct(u)
      <4>1. Distinct(t) /\ Len(t) \in Nat
        BY <2>1, <3>0
      <4>2. \A j : j \in 1..Len(u) <=> j \in 1..Len(t) \/ j = Len(t) + 1
        BY <3>1, <4>1
      <4>3. ASSUME NEW k \in 1..Len(u), NEW j \in 1..Len(u), u[k] = u[j] PROVE k = j
        <5>1. CASE k \in 1..Len(t) /\ j \in 1..Len(t)
          BY <3>1, <4>1, <4>3, <5>1 DEF Distinct
        <5>2. CASE k = Len(t) + 1 \/ j = Len(t) + 1
          BY <3>1, <3>2, <4>2, <4>3, <5>2
        <5> QED
          BY <4>2, <5>1, <5>2
      <4> QED
        BY <4>3 DEF Distinct
    <3>4. ASSUME NEW y
          PROVE  (\E j \in 1..Len(u) : u[j] = y)
                   <=> y \notin Range(unit) /\ \E j \in 1..(i + 1) : s[j] = y
      <4>1. (\E j \in 1..Len(u) : u[j] = y) <=> (\E j \in 1..Len(t) : t[j] = y) \/ y = x
        <5>1. Len(t) \in Nat /\ \A j : j \in 1..Len(u) <=> j \in 1..Len(t) \/ j = Len(t) + 1
          BY <3>0, <3>1
        <5> HIDE DEF t, x
        <5> QED
          BY <3>1, <5>1
      <4>2. (\E j \in 1..(i + 1) : s[j] = y) <=> (\E j \in 1..i : s[j] = y) \/ y = x
        OBVIOUS
      <4> QED
        BY <2>1, <2>4, <4>1, <4>2
    <3> QED
      BY <3>0, <3>1, <3>3, <3>4
  <2> QED
    BY <2>3, <2>4
<1> HIDE DEF T
<1>4. Nat \subseteq T
  BY <1>2, <1>3, W!SetInduction
<1>5. Sound(Len(s))
  <2> DEFINE n == Len(s)
  <2>1. n \in Nat /\ n <= Len(s)
    OBVIOUS
  <2>2. n \in T
    BY <1>4, <2>1
  <2> HIDE DEF n
  <2>3. Sound(n)
    <3> HIDE DEF Sound
    <3> QED
      BY <2>1, <2>2 DEF T
  <2> QED
    BY <2>3 DEF n
<1>6. Without(s, unit) \in Seq(S) /\ Distinct(Without(s, unit))
  BY <1>1, <1>5
<1>7. \A x : x \in Range(Without(s, unit)) <=> x \in Range(s) /\ x \notin Range(unit)
  <2> DEFINE w == Without(s, unit)
  <2>1. DOMAIN w = 1..Len(w) /\ DOMAIN s = 1..Len(s)
    BY <1>6
  <2>2. \A x : (\E j \in 1..Len(w) : w[j] = x)
                <=> x \notin Range(unit) /\ \E j \in 1..Len(s) : s[j] = x
    BY <1>1, <1>5
  <2> HIDE DEF w
  <2>3. \A x : x \in Range(w) <=> \E j \in 1..Len(w) : w[j] = x
    BY <2>1 DEF Range
  <2>4. \A x : x \in Range(s) <=> \E j \in 1..Len(s) : s[j] = x
    BY <2>1 DEF Range
  <2> QED
    BY <2>2, <2>3, <2>4 DEF w
<1> QED
  BY <1>6, <1>7

-----------------------------------------------------------------------------
(* Answers.                                                                *)

Said(out) == Range(out.ring) \cup Range(out.backlog)

LEMMA RangeAppend ==
  ASSUME NEW S, NEW s \in Seq(S), NEW x \in S
  PROVE  Append(s, x) \in Seq(S) /\ Range(Append(s, x)) = Range(s) \cup {x}
<1>1. /\ Append(s, x) \in Seq(S) /\ DOMAIN Append(s, x) = 1..(Len(s) + 1)
      /\ DOMAIN s = 1..Len(s) /\ Len(s) \in Nat
      /\ \A i \in 1..Len(s) : Append(s, x)[i] = s[i]
      /\ Append(s, x)[Len(s) + 1] = x
  OBVIOUS
<1>2. \A i : i \in 1..(Len(s) + 1) <=> i \in 1..Len(s) \/ i = Len(s) + 1
  BY <1>1
<1> QED
  BY <1>1, <1>2 DEF Range

LEMMA RangeTail ==
  ASSUME NEW S, NEW s \in Seq(S), s # <<>>
  PROVE  /\ Head(s) \in S /\ Tail(s) \in Seq(S) /\ Head(s) = s[1]
         /\ Len(Tail(s)) = Len(s) - 1 /\ Len(s) \in Nat \ {0}
         /\ \A i \in 1..(Len(s) - 1) : Tail(s)[i] = s[i + 1]
         /\ Range(s) = {Head(s)} \cup Range(Tail(s))
<1>1. /\ Head(s) \in S /\ Tail(s) \in Seq(S) /\ Head(s) = s[1]
      /\ Len(Tail(s)) = Len(s) - 1 /\ Len(s) \in Nat \ {0}
      /\ \A i \in 1..(Len(s) - 1) : Tail(s)[i] = s[i + 1]
  OBVIOUS
<1>2. DOMAIN Tail(s) = 1..(Len(s) - 1) /\ DOMAIN s = 1..Len(s)
  BY <1>1
<1>3. \A i \in 1..Len(s) : i # 1 => i - 1 \in 1..(Len(s) - 1) /\ Tail(s)[i - 1] = s[i]
  <2> SUFFICES ASSUME NEW i \in 1..Len(s), i # 1
               PROVE  i - 1 \in 1..(Len(s) - 1) /\ Tail(s)[i - 1] = s[i]
    OBVIOUS
  <2>1. i - 1 \in 1..(Len(s) - 1) /\ (i - 1) + 1 = i
    BY <1>1
  <2> QED
    BY <1>1, <2>1
<1>4. \A j \in 1..(Len(s) - 1) : j + 1 \in 1..Len(s) /\ 1 \in 1..Len(s)
  BY <1>1
<1>5. \A x \in Range(s) : x = Head(s) \/ x \in Range(Tail(s))
  <2> SUFFICES ASSUME NEW i \in 1..Len(s) PROVE s[i] = Head(s) \/ s[i] \in Range(Tail(s))
    BY <1>2 DEF Range
  <2> QED
    BY <1>1, <1>2, <1>3 DEF Range
<1>6. Range(Tail(s)) \subseteq Range(s)
  <2> SUFFICES ASSUME NEW j \in 1..(Len(s) - 1) PROVE Tail(s)[j] \in Range(s)
    BY <1>2 DEF Range
  <2> QED
    BY <1>1, <1>2, <1>4 DEF Range
<1>7. Head(s) \in Range(s)
  BY <1>1, <1>2, 1 \in 1..Len(s) DEF Range
<1> QED
  BY <1>1, <1>5, <1>6, <1>7

LEMMA RangeOf ==
  ASSUME NEW S, NEW s \in Seq(S)
  PROVE  /\ Range(s) = {s[i] : i \in 1..Len(s)} /\ Range(s) \subseteq S
         /\ Len(s) \in Nat /\ (Range(s) = {} => s = <<>>)
<1>1. DOMAIN s = 1..Len(s) /\ Len(s) \in Nat
  OBVIOUS
<1>2. Range(s) = {s[i] : i \in 1..Len(s)}
  BY <1>1 DEF Range
<1>3. ASSUME Range(s) = {} PROVE s = <<>>
  <2>1. Len(s) # 0 => s[1] \in Range(s)
    BY <1>1, <1>2
  <2> QED
    BY <1>1, <1>3, <2>1
<1>4. Range(s) \subseteq S
  BY <1>2
<1> QED
  BY <1>1, <1>2, <1>3, <1>4

LEMMA EmitSays ==
  ASSUME NEW out \in Outboxes, NEW ack \in AckSet
  PROVE  Emit(out, ack) \in Outboxes /\ Said(Emit(out, ack)) = Said(out) \cup {ack}
<1>1. out.ring \in Seq(AckSet) /\ out.backlog \in Seq(AckSet)
  BY DEF Outboxes
<1>2. CASE out.backlog = <<>> /\ Len(out.ring) < AckCap
  <2>1. Emit(out, ack) = [out EXCEPT !.ring = Append(out.ring, ack)]
    BY <1>2 DEF Emit
  <2>2. Emit(out, ack).ring = Append(out.ring, ack) /\ Emit(out, ack).backlog = out.backlog
          /\ Emit(out, ack) \in Outboxes
    <3>1. out \in Outboxes /\ Append(out.ring, ack) \in Seq(AckSet)
      BY <1>1
    <3> QED
      BY <2>1, <3>1 DEF Outboxes
  <2>3. Range(Append(out.ring, ack)) = Range(out.ring) \cup {ack}
    BY <1>1, RangeAppend
  <2> QED
    BY <2>2, <2>3 DEF Said
<1>3. CASE ~(out.backlog = <<>> /\ Len(out.ring) < AckCap)
  <2>1. Emit(out, ack) = [out EXCEPT !.backlog = Append(out.backlog, ack)]
    BY <1>3 DEF Emit
  <2>2. Emit(out, ack).backlog = Append(out.backlog, ack) /\ Emit(out, ack).ring = out.ring
          /\ Emit(out, ack) \in Outboxes
    BY <1>1, <2>1 DEF Outboxes
  <2>3. Range(Append(out.backlog, ack)) = Range(out.backlog) \cup {ack}
    BY <1>1, RangeAppend
  <2> QED
    BY <2>2, <2>3 DEF Said
<1> QED
  BY <1>2, <1>3

LEMMA EmitAllSays ==
  ASSUME NEW out \in Outboxes, NEW rs \in Seq(Reqs),
         NEW outcome \in {"committed", "failed", "rejected"}
  PROVE  /\ EmitAll(out, rs, outcome) \in Outboxes
         /\ Said(EmitAll(out, rs, outcome)) = Said(out) \cup {Ack(r, outcome) : r \in Range(rs)}
<1>1. PICK f : /\ f[0] = out
               /\ \A i \in 1..Len(rs) : f[i] = Emit(f[i - 1], Ack(rs[i], outcome))
               /\ EmitAll(out, rs, outcome) = f[Len(rs)]
  <2> DEFINE b == out  o == outcome
  <2> HIDE DEF b, o
  <2>1. \E f : /\ f[0] = b
               /\ \A i \in 1..Len(rs) : f[i] = Emit(f[i - 1], Ack(rs[i], o))
               /\ EmitAll(b, rs, o) = f[Len(rs)]
    BY EmitTrace
  <2> QED
    BY <2>1 DEF b, o
<1> DEFINE Sound(i) ==
             f[i] \in Outboxes
               /\ Said(f[i]) = Said(out) \cup {Ack(rs[j], outcome) : j \in 1..i}
           T == {i \in Nat : i <= Len(rs) => Sound(i)}
<1>2. 0 \in T
  BY <1>1
<1>3. ASSUME NEW i \in Nat, i \in T PROVE i + 1 \in T
  <2> SUFFICES ASSUME i + 1 <= Len(rs) PROVE Sound(i + 1)
    OBVIOUS
  <2>0. i + 1 \in 1..Len(rs) /\ rs[i + 1] \in Reqs /\ i <= Len(rs) /\ (i + 1) - 1 = i
    OBVIOUS
  <2>1. Sound(i)
    <3> HIDE DEF Sound
    <3> QED
      BY <1>3, <2>0
  <2> DEFINE ack == Ack(rs[i + 1], outcome)
  <2>2. ack \in AckSet
    BY <2>0 DEF Ack, AckSet
  <2>3. f[i + 1] = Emit(f[i], ack)
    BY <1>1, <2>0
  <2>4. {Ack(rs[j], outcome) : j \in 1..(i + 1)} = {Ack(rs[j], outcome) : j \in 1..i} \cup {ack}
    <3>1. \A j : j \in 1..(i + 1) <=> j \in 1..i \/ j = i + 1
      OBVIOUS
    <3> QED
      BY <3>1
  <2> HIDE DEF ack
  <2> QED
    BY <2>1, <2>2, <2>3, <2>4, EmitSays
<1> HIDE DEF T
<1>4. Nat \subseteq T
  BY <1>2, <1>3, E!SetInduction
<1>5. Len(rs) \in Nat /\ Sound(Len(rs))
  BY <1>4 DEF T
<1>6. {Ack(rs[j], outcome) : j \in 1..Len(rs)} = {Ack(r, outcome) : r \in Range(rs)}
  BY RangeOf
<1> QED
  BY <1>1, <1>5, <1>6

-----------------------------------------------------------------------------
(* What the invariant's parts depend on.                                   *)

LEMMA PlaceFrame ==
  ASSUME PlaceInv, UNCHANGED <<left, script, queue, slots, ready>>, Answers' = Answers
  PROVE  PlaceInv'
BY DEF PlaceInv, Distinct, Unsent, Told

LEMMA OpenFrame ==
  ASSUME OpenInv, UNCHANGED open, Decided' = Decided
  PROVE  OpenInv'
BY DEF OpenInv, WholeUnits, Spans

LEMMA FlightFrame ==
  ASSUME FlightInv, UNCHANGED <<inflight, batch, open>>, Decided' = Decided
  PROVE  FlightInv'
BY DEF FlightInv

LEMMA RaftFrame ==
  ASSUME ~sealed => RaftInv, UNCHANGED <<proposals, inflight, batch, Mid, sealed>>
  PROVE  (~sealed => RaftInv)'
<1> SUFFICES ASSUME ~sealed, RaftInv PROVE RaftInv'
  OBVIOUS
<1>1. \A x : Matches(x)' <=> Matches(x)
  BY DEF Matches
<1> HIDE DEF Mid
<1> QED
  BY <1>1 DEF RaftInv

LEMMA PromiseFrame ==
  ASSUME NEW eff, Promises(eff), Decided' = Decided,
         UNCHANGED <<open, proposals, Mid, sealed, remaining, speculative>>
  PROVE  Promises(eff)'
<1> HIDE DEF Mid
<1> QED
  BY DEF Promises, EffectsOf

LEMMA CoverFrame ==
  ASSUME NEW eff, NEW need, Covered(eff, need), Decided' = Decided,
         UNCHANGED <<columns, open, inflight>>
  PROVE  Covered(eff, need)'
BY DEF Covered

LEMMA LogFrame ==
  ASSUME LogInv, UNCHANGED <<columns, log, committed, commits, sealed>>
  PROVE  LogInv'
BY DEF LogInv, StateFollowsLog, Offsets

LEMMA AckFrame ==
  ASSUME AckInv, UNCHANGED <<log, committed>>, Answers' = Answers
  PROVE  AckInv'
BY DEF AckInv, AcksAreTrue, Told

LEMMA CountFrame ==
  ASSUME CountInv, UNCHANGED <<applied, committed, judged, sealed>>, Decided' = Decided
  PROVE  CountInv'
BY DEF CountInv

\* The money's side of the invariant, left alone.
MoneyVars == <<columns, speculative, remaining, open, inflight, batch, proposals, commits, held,
               log, judged, committed, applied, sealed>>
LEMMA MoneyFrame ==
  ASSUME IInv, UNCHANGED MoneyVars, Decided' = Decided
  PROVE  /\ OpenInv' /\ FlightInv' /\ (~sealed => RaftInv)' /\ PromiseInv' /\ LogInv'
         /\ CountInv' /\ Balanced' /\ MoneyType' /\ BatchType' /\ CountType'
<1> USE DEF IInv, MoneyVars
<1>1. Mid' = Mid
  BY DEF Mid
<1>2. OpenInv' /\ FlightInv' /\ LogInv' /\ CountInv'
  BY OpenFrame, FlightFrame, LogFrame, CountFrame
<1>3. (~sealed => RaftInv)'
  BY <1>1, RaftFrame
<1>4. PromiseInv'
  <2>1. PICK eff, need : Promises(eff) /\ Covered(eff, need)
    BY DEF PromiseInv
  <2>2. Promises(eff)' /\ Covered(eff, need)'
    BY <1>1, <2>1, PromiseFrame, CoverFrame
  <2> QED
    BY <2>2 DEF PromiseInv
<1>5. MoneyType' /\ BatchType' /\ CountType'
  BY DEF TypeInv, MoneyType, BatchType, CountType
<1>6. Balanced'
  BY DEF Balanced
<1> QED
  BY <1>2, <1>3, <1>4, <1>5, <1>6

LEMMA QuietStep ==
  ASSUME IInv, UNCHANGED <<left, script, queue, slots, ready, outbox, taken>>, UNCHANGED MoneyVars
  PROVE  IInv'
<1>1. Decided' = Decided /\ Answers' = Answers
  BY DEF Decided, Answers
<1>2. PlaceInv' /\ AckInv'
  BY <1>1, PlaceFrame, AckFrame DEF IInv, MoneyVars
<1>3. ClientType' /\ SlotType' /\ AnswerType'
  BY DEF IInv, TypeInv, ClientType, SlotType, AnswerType
<1> QED
  BY <1>1, <1>2, <1>3, MoneyFrame DEF IInv, TypeInv

-----------------------------------------------------------------------------
(* The first state.                                                        *)

FirstEffects == [r \in Reqs |-> Effect(r, Transfer[r].amount)]

LEMMA FirstEffectsType ==
  /\ FirstEffects \in [Reqs -> EffectSet] /\ \A r \in Reqs : FirstEffects[r].tx = r
  /\ \A r \in Reqs, n \in Nat : Effect(r, n) \in EffectSet /\ Effect(r, n).tx = r
<1>1. \A r \in Reqs : Transfer[r] \in [kind : Kinds, debit : Accounts, credit : Accounts,
                                       amount : Nat, ref : Reqs \cup {None}]
  BY ClientAssumption DEF Kinds
<1>2. \A r \in Reqs, n \in Nat : Effect(r, n) \in EffectSet /\ Effect(r, n).tx = r
  BY <1>1 DEF Effect, EffectSet
<1>3. \A r \in Reqs : Transfer[r].amount \in Nat
  BY <1>1
<1> QED
  BY <1>2, <1>3 DEF FirstEffects

LEMMA ReplayNothing == Replayed(<<>>) = Opening
<1> DEFINE s == <<>>
<1>1. s \in Seq({}) /\ Len(s) = 0
  OBVIOUS
<1> HIDE DEF s
<1>2. PICK f : f[0] = Opening /\ Replayed(s) = f[Len(s)]
  BY <1>1, ReplayTrace
<1> QED
  BY <1>1, <1>2 DEF s

LEMMA InitInv == Init => IInv
<1> SUFFICES ASSUME Init PROVE IInv
  OBVIOUS
<1> USE DEF Init
<1>0. Decided = {} /\ Answers = {} /\ Told = {} /\ Mid = <<>>
  BY DEF Decided, Answers, Told, Mid, Range
<1>1. TypeInv
  <2>1. IsFiniteSet(slots)
    BY FS_EmptySet
  <2>2. MoneyType
    BY CommitAssumption DEF MoneyType
  <2>3. AnswerType
    BY DEF AnswerType, Outboxes
  <2>4. ClientType /\ CountType
    <3>1. ClientType
      BY DEF ClientType
    <3>2. judged \in Nat /\ committed \in Nat /\ applied \in Nat
      OBVIOUS
    <3>3. sealed \in BOOLEAN
      OBVIOUS
    <3> QED
      BY <3>1, <3>2, <3>3 DEF CountType
  <2>5. SlotType
    BY <2>1 DEF SlotType
  <2>6. BatchType
    BY DEF BatchType
  <2> QED
    BY <2>2, <2>3, <2>4, <2>5, <2>6 DEF TypeInv
<1>2. PlaceInv
  <2>1. Range(<<>>) = {}
    BY DEF Range
  <2> QED
    BY <1>0, <2>1 DEF PlaceInv, Distinct
<1>3. OpenInv /\ FlightInv /\ RaftInv
  <2>1. InFlightMax \in Nat
    BY CommitAssumption
  <2> QED
    BY <1>0, <2>1 DEF OpenInv, WholeUnits, FlightInv, RaftInv
<1>4. PromiseInv
  <2> DEFINE eff == FirstEffects
             need == [r \in Reqs |-> 0]
  <2>1. \A f : SumFunctionOnSet(f, Decided) = 0
    BY <1>0, SumEmpty
  <2>2. Promises(eff)
    BY <1>0, <2>1, FirstEffectsType DEF Promises, EffectsOf
  <2>3. \A r \in Reqs : Reservation(eff[r]) \in Nat
    BY FirstEffectsType, ColumnsType
  <2>4. \A a \in Constrained : Available(columns[a]) >= 0
    BY CommitAssumption
  <2>5. \A a \in Accounts : RisesFromCuts(eff, need, a, Txs(open))
    <3> SUFFICES ASSUME NEW a \in Accounts PROVE RisesFromCuts(eff, need, a, Txs(open))
      OBVIOUS
    <3> HIDE DEF eff, need
    <3>1. Txs(open) = <<>>
      BY DEF Txs
    <3>2. Levels(eff, need, a, <<>>, [i \in 0..0 |-> 0])
      BY DEF Levels
    <3>3. \A i, k \in 0..Len(<<>>) : [j \in 0..0 |-> 0][k] >= [j \in 0..0 |-> 0][i]
      OBVIOUS
    <3> QED
      BY <3>1, <3>2, <3>3 DEF RisesFromCuts
  <2>6. need \in [Reqs -> Nat] /\ \A r \in Reqs : need[r] <= Reservation(eff[r])
    BY <2>3
  <2> HIDE DEF eff, need
  <2>7. Covered(eff, need)
    BY <2>1, <2>4, <2>5, <2>6 DEF Covered
  <2> QED
    BY <2>2, <2>7 DEF PromiseInv
<1>5. LogInv
  <2>1. SubSeq(log, 1, committed) = <<>>
    OBVIOUS
  <2>2. StateFollowsLog
    <3>1. committed <= Len(log)
      OBVIOUS
    <3>2. columns = Replayed(SubSeq(log, 1, committed))
      BY <2>1, ReplayNothing
    <3> QED
      BY <3>1, <3>2 DEF StateFollowsLog
  <2>3. Offsets([i \in 0..0 |-> 0])
    BY DEF Offsets
  <2> QED
    BY <2>2, <2>3 DEF LogInv
<1>6. AckInv
  BY <1>0 DEF AckInv, AcksAreTrue
<1>7. CountInv
  BY <1>0, FS_EmptySet DEF CountInv
<1>8. Balanced
  BY CommitAssumption DEF Balanced
<1> QED
  BY <1>1, <1>2, <1>3, <1>4, <1>5, <1>6, <1>7, <1>8 DEF IInv

-----------------------------------------------------------------------------
(* The client, intake and the outbox.                                      *)

LEMMA DistinctTail ==
  ASSUME NEW S, NEW s \in Seq(S), s # <<>>, Distinct(s)
  PROVE  Distinct(Tail(s)) /\ Head(s) \notin Range(Tail(s))
<1>1. /\ Len(Tail(s)) = Len(s) - 1 /\ Len(s) \in Nat \ {0} /\ Tail(s) \in Seq(S)
      /\ Head(s) = s[1] /\ \A i \in 1..(Len(s) - 1) : Tail(s)[i] = s[i + 1]
  BY RangeTail
<1>2. \A i \in 1..(Len(s) - 1) : i + 1 \in 1..Len(s) /\ i + 1 # 1 /\ 1 \in 1..Len(s)
  BY <1>1
<1>3. Distinct(Tail(s))
  <2> SUFFICES ASSUME NEW i \in 1..(Len(s) - 1), NEW j \in 1..(Len(s) - 1),
                      Tail(s)[i] = Tail(s)[j]
               PROVE  i = j
    BY <1>1 DEF Distinct
  <2>1. i + 1 = j + 1
    BY <1>1, <1>2 DEF Distinct
  <2> QED
    BY <2>1
<1>4. \A i \in 1..(Len(s) - 1) : Tail(s)[i] # Head(s)
  BY <1>1, <1>2 DEF Distinct
<1>5. Range(Tail(s)) = {Tail(s)[i] : i \in 1..(Len(s) - 1)}
  <2>1. DOMAIN Tail(s) = 1..(Len(s) - 1)
    BY <1>1
  <2> QED
    BY <2>1 DEF Range
<1> QED
  BY <1>3, <1>4, <1>5

LEMMA DistinctAppend ==
  ASSUME NEW S, NEW s \in Seq(S), NEW x \in S, x \notin Range(s), Distinct(s)
  PROVE  Distinct(Append(s, x))
<1>1. /\ Len(Append(s, x)) = Len(s) + 1 /\ Append(s, x)[Len(s) + 1] = x /\ Len(s) \in Nat
      /\ \A i \in 1..Len(s) : Append(s, x)[i] = s[i]
  OBVIOUS
<1>2. \A i \in 1..Len(s) : s[i] # x
  BY RangeOf
<1>3. \A i : i \in 1..(Len(s) + 1) <=> i \in 1..Len(s) \/ i = Len(s) + 1
  BY <1>1
<1> QED
  BY <1>1, <1>2, <1>3 DEF Distinct

\* A unit's legs are its own, once each.
LEMMA UnitFacts ==
  ASSUME NEW u \in Units
  PROVE  /\ u \in Seq(Reqs) /\ u # <<>> /\ Distinct(u) /\ Range(u) \subseteq Reqs
         /\ Len(u) \in Nat \ {0} /\ Len(u) <= BatchMax
         /\ \A v \in Units : v # u => Range(u) \cap Range(v) = {}
<1>1. u \in Seq(Reqs) /\ Len(u) \in 1..BatchMax /\ BatchMax \in Nat
  BY ClientAssumption, CommitAssumption
<1>2. Distinct(u)
  <2>1. \A i, j \in DOMAIN u : u[i] = u[j] => i = j
    BY ClientAssumption
  <2>2. DOMAIN u = 1..Len(u)
    BY <1>1
  <2> QED
    BY <2>1, <2>2 DEF Distinct
<1>3. \A v \in Units : v # u => Range(u) \cap Range(v) = {}
  BY ClientAssumption
<1>4. u # <<>>
  BY <1>1
<1> QED
  BY <1>1, <1>2, <1>3, <1>4, RangeOf

LEMMA ClientKeeps == ASSUME IInv, ClientStep PROVE IInv'
<1>0. TypeInv /\ PlaceInv /\ AckInv
  BY DEF IInv
<1>1. UNCHANGED <<slots, ready>> /\ UNCHANGED MoneyVars /\ Client
  BY DEF ClientStep, MoneyVars, money, batcher, raft, counters
<1>2. Decided' = Decided /\ SlotType'
  BY <1>0, <1>1 DEF Decided, TypeInv, SlotType
<1>3. MoneyType' /\ BatchType' /\ CountType'
  BY <1>1, <1>2, MoneyFrame
<1>4. SUFFICES ClientType' /\ AnswerType' /\ PlaceInv' /\ AckInv'
  BY <1>1, <1>2, MoneyFrame DEF IInv, TypeInv
<1>t. left \subseteq Units /\ script \in Seq(Reqs) /\ queue \in Seq(Reqs)
  BY <1>0 DEF TypeInv, ClientType
<1>5. CASE script = <<>> /\ \E u \in left : left' = left \ {u} /\ script' = Tail(u)
                                             /\ queue' = Append(queue, Head(u))
           /\ UNCHANGED <<outbox, taken>>
  <2>0. PICK u \in left : left' = left \ {u} /\ script' = Tail(u) /\ queue' = Append(queue, Head(u))
    BY <1>5
  <2>a. Answers' = Answers
    BY <1>5 DEF Answers
  <2>1. AckInv' /\ AnswerType'
    BY <1>0, <1>1, <1>5, <2>a, AckFrame DEF MoneyVars, TypeInv, AnswerType
  <2>2. /\ u \in Seq(Reqs) /\ u # <<>> /\ Distinct(u) /\ Range(u) \subseteq Reqs
        /\ \A v \in Units : v # u => Range(u) \cap Range(v) = {}
    BY <1>t, UnitFacts
  <2>3. Head(u) \in Reqs /\ Tail(u) \in Seq(Reqs) /\ Range(u) = {Head(u)} \cup Range(Tail(u))
    BY <2>2, RangeTail
  <2>4. Distinct(Tail(u)) /\ Head(u) \notin Range(Tail(u))
    BY <2>2, DistinctTail
  <2>5. Range(script) = {}
    BY <1>5 DEF Range
  <2>6. queue' \in Seq(Reqs) /\ Range(queue') = Range(queue) \cup {Head(u)}
    BY <1>t, <2>0, <2>3, RangeAppend
  <2>7. Range(u) \cap Range(queue) = {}
    BY <1>0 DEF PlaceInv
  <2>8. Distinct(queue')
    BY <1>0, <1>t, <2>0, <2>3, <2>7, DistinctAppend DEF PlaceInv
  <2>9. ClientType'
    BY <1>t, <2>0, <2>3, <2>6 DEF ClientType
  <2>10. Unsent' \cup Range(queue') \subseteq Unsent \cup Range(queue)
    <3>1. Range(u) \subseteq Unsent
      BY <2>2 DEF Unsent
    <3>2. Unsent' \subseteq Unsent
      BY <2>0, <2>3 DEF Unsent
    <3> QED
      BY <2>3, <2>6, <3>1, <3>2
  <2>11. Told' = Told
    BY <2>a DEF Told
  <2>12. Range(script') \cap Range(queue') = {}
    BY <2>0, <2>3, <2>4, <2>6, <2>7
  <2>13. \A v \in left' : Range(v) \cap (Range(script') \cup Range(queue')) = {}
    BY <1>0, <1>t, <2>0, <2>2, <2>3, <2>6 DEF PlaceInv
  <2>14. Distinct(script')
    BY <2>0, <2>4
  <2>15. Distinct(ready)' /\ Range(ready') \subseteq slots' /\ slots' \cap Told' = {}
    BY <1>0, <1>1, <2>11 DEF PlaceInv, Distinct
  <2>16. (Unsent' \cup Range(queue')) \cap slots' = {} /\ (Unsent' \cup Range(queue')) \cap Told' = {}
    BY <1>0, <1>1, <2>10, <2>11 DEF PlaceInv
  <2>17. PlaceInv'
    BY <2>8, <2>12, <2>13, <2>14, <2>15, <2>16 DEF PlaceInv, Distinct
  <2> QED
    BY <2>1, <2>9, <2>17
<1>6. CASE script # <<>> /\ queue' = Append(queue, Head(script)) /\ script' = Tail(script)
           /\ UNCHANGED <<left, outbox, taken>>
  <2>a. Answers' = Answers
    BY <1>6 DEF Answers
  <2>1. AckInv' /\ AnswerType'
    BY <1>0, <1>1, <1>6, <2>a, AckFrame DEF MoneyVars, TypeInv, AnswerType
  <2>3. Head(script) \in Reqs /\ Tail(script) \in Seq(Reqs)
          /\ Range(script) = {Head(script)} \cup Range(Tail(script))
    BY <1>t, <1>6, RangeTail
  <2>4. Distinct(Tail(script)) /\ Head(script) \notin Range(Tail(script))
    BY <1>0, <1>t, <1>6, DistinctTail DEF PlaceInv
  <2>6. queue' \in Seq(Reqs) /\ Range(queue') = Range(queue) \cup {Head(script)}
    BY <1>t, <1>6, <2>3, RangeAppend
  <2>7. Range(script) \cap Range(queue) = {}
    BY <1>0 DEF PlaceInv
  <2>8. Distinct(queue')
    BY <1>0, <1>t, <1>6, <2>3, <2>7, DistinctAppend DEF PlaceInv
  <2>9. ClientType'
    BY <1>t, <1>6, <2>3, <2>6 DEF ClientType
  <2>10. Unsent' \cup Range(queue') \subseteq Unsent \cup Range(queue)
    <3>1. Unsent' \subseteq Unsent /\ Head(script) \in Unsent
      BY <1>6, <2>3 DEF Unsent
    <3> QED
      BY <2>6, <3>1
  <2>11. Told' = Told
    BY <2>a DEF Told
  <2>12. Range(script') \cap Range(queue') = {}
    BY <1>6, <2>3, <2>4, <2>6, <2>7
  <2>13. \A v \in left' : Range(v) \cap (Range(script') \cup Range(queue')) = {}
    BY <1>0, <1>6, <2>3, <2>6 DEF PlaceInv
  <2>14. Distinct(script')
    BY <1>6, <2>4
  <2>15. Distinct(ready)' /\ Range(ready') \subseteq slots' /\ slots' \cap Told' = {}
    BY <1>0, <1>1, <2>11 DEF PlaceInv, Distinct
  <2>16. (Unsent' \cup Range(queue')) \cap slots' = {} /\ (Unsent' \cup Range(queue')) \cap Told' = {}
    BY <1>0, <1>1, <2>10, <2>11 DEF PlaceInv
  <2>17. PlaceInv'
    BY <2>8, <2>12, <2>13, <2>14, <2>15, <2>16 DEF PlaceInv, Distinct
  <2> QED
    BY <2>1, <2>9, <2>17
<1>7. CASE /\ outbox.ring # <<>>
           /\ taken' = taken \cup {Head(outbox.ring)}
           /\ outbox' = [outbox EXCEPT !.ring = Tail(outbox.ring)]
           /\ UNCHANGED client
  <2>0. outbox \in Outboxes /\ outbox.ring \in Seq(AckSet) /\ taken \subseteq AckSet
    BY <1>0 DEF TypeInv, AnswerType, Outboxes
  <2>1. Head(outbox.ring) \in AckSet /\ Tail(outbox.ring) \in Seq(AckSet)
          /\ Range(outbox.ring) = {Head(outbox.ring)} \cup Range(Tail(outbox.ring))
    BY <1>7, <2>0, RangeTail
  <2>2. outbox' \in Outboxes /\ outbox'.ring = Tail(outbox.ring) /\ outbox'.backlog = outbox.backlog
    BY <1>7, <2>0, <2>1 DEF Outboxes
  <2>3. Answers' = Answers
    BY <1>7, <2>1, <2>2 DEF Answers
  <2>4. AnswerType'
    BY <1>7, <2>0, <2>1, <2>2 DEF AnswerType
  <2>5. UNCHANGED <<left, script, queue>>
    BY <1>7 DEF client
  <2>6. ClientType'
    BY <1>t, <2>5 DEF ClientType
  <2> QED
    BY <1>0, <1>1, <2>3, <2>4, <2>5, <2>6, PlaceFrame, AckFrame DEF MoneyVars
<1> QED
  BY <1>1, <1>5, <1>6, <1>7 DEF Client

LEMMA FlushKeeps == ASSUME IInv, Flush PROVE IInv'
<1>0. outbox \in Outboxes /\ outbox.ring \in Seq(AckSet) /\ outbox.backlog \in Seq(AckSet)
        /\ outbox.backlog # <<>>
  BY DEF IInv, TypeInv, AnswerType, Outboxes, Flush
<1>1. Head(outbox.backlog) \in AckSet /\ Tail(outbox.backlog) \in Seq(AckSet)
        /\ Range(outbox.backlog) = {Head(outbox.backlog)} \cup Range(Tail(outbox.backlog))
  BY <1>0, RangeTail
<1>2. outbox' = [ring |-> Append(outbox.ring, Head(outbox.backlog)), backlog |-> Tail(outbox.backlog)]
        /\ UNCHANGED <<left, script, queue, slots, ready, taken>> /\ UNCHANGED MoneyVars
  BY DEF Flush, client, money, batcher, raft, counters, MoneyVars
<1>3. Range(Append(outbox.ring, Head(outbox.backlog))) = Range(outbox.ring) \cup {Head(outbox.backlog)}
        /\ Append(outbox.ring, Head(outbox.backlog)) \in Seq(AckSet)
  BY <1>0, <1>1, RangeAppend
<1>4. Answers' = Answers
  BY <1>1, <1>2, <1>3 DEF Answers
<1>5. Decided' = Decided
  BY <1>2 DEF Decided
<1>6. AnswerType'
  BY <1>1, <1>2, <1>3 DEF AnswerType, Outboxes, IInv, TypeInv
<1>7. ClientType' /\ SlotType'
  BY <1>2 DEF IInv, TypeInv, ClientType, SlotType
<1>8. PlaceInv' /\ AckInv'
  BY <1>2, <1>4, PlaceFrame, AckFrame DEF IInv, MoneyVars
<1> QED
  BY <1>2, <1>5, <1>6, <1>7, <1>8, MoneyFrame DEF IInv, TypeInv

LEMMA IntakeKeeps == ASSUME IInv, Intake PROVE IInv'
<1>1. UNCHANGED <<left, script, outbox, taken>> /\ UNCHANGED MoneyVars
  BY DEF Intake, money, batcher, raft, counters, MoneyVars
<1>2. CASE UNCHANGED <<queue, slots, ready>>
  BY <1>1, <1>2, QuietStep
<1>3. CASE queue # <<>> /\ queue' = Tail(queue) /\ slots' = slots \cup {Head(queue)}
             /\ ready' = Append(ready, Head(queue))
  <2>0. TypeInv /\ PlaceInv /\ AckInv
    BY DEF IInv
  <2>t. left \subseteq Units /\ script \in Seq(Reqs) /\ queue \in Seq(Reqs) /\ slots \subseteq Reqs
          /\ ready \in Seq(Reqs) /\ IsFiniteSet(slots)
    BY <2>0 DEF TypeInv, ClientType, SlotType
  <2>1. Head(queue) \in Reqs /\ Tail(queue) \in Seq(Reqs)
          /\ Range(queue) = {Head(queue)} \cup Range(Tail(queue))
    BY <1>3, <2>t, RangeTail
  <2>2. Distinct(Tail(queue)) /\ Head(queue) \notin Range(Tail(queue))
    BY <1>3, <2>0, <2>t, DistinctTail DEF PlaceInv
  <2>3. Head(queue) \notin slots /\ Head(queue) \notin Told /\ Range(ready) \subseteq slots
    BY <2>0, <2>1 DEF PlaceInv
  <2>4. ready' \in Seq(Reqs) /\ Range(ready') = Range(ready) \cup {Head(queue)}
    BY <1>3, <2>t, <2>1, RangeAppend
  <2>5. Distinct(ready')
    BY <1>3, <2>0, <2>t, <2>1, <2>3, DistinctAppend DEF PlaceInv
  <2>6. Decided' = Decided
    BY <1>3, <2>3, <2>4 DEF Decided
  <2>7. Answers' = Answers
    BY <1>1 DEF Answers
  <2>8. Unsent' = Unsent /\ Told' = Told
    BY <1>1, <2>7 DEF Unsent, Told
  <2>9. Head(queue) \notin Unsent
    <3>1. Head(queue) \notin Range(script)
      BY <2>0, <2>1 DEF PlaceInv
    <3>2. \A u \in left : Head(queue) \notin Range(u)
      BY <2>0, <2>1 DEF PlaceInv
    <3> QED
      BY <3>1, <3>2 DEF Unsent
  <2>10. (Unsent' \cup Range(queue')) \cap slots' = {}
    BY <1>3, <2>0, <2>1, <2>2, <2>8, <2>9 DEF PlaceInv
  <2>11. (Unsent' \cup Range(queue')) \cap Told' = {} /\ slots' \cap Told' = {}
    BY <1>3, <2>0, <2>1, <2>3, <2>8 DEF PlaceInv
  <2>12. Range(script') \cap Range(queue') = {}
           /\ \A u \in left' : Range(u) \cap (Range(script') \cup Range(queue')) = {}
    BY <1>1, <1>3, <2>0, <2>1 DEF PlaceInv
  <2>13. Distinct(script')
    BY <1>1, <2>0 DEF PlaceInv
  <2>14. Range(ready') \subseteq slots' /\ Distinct(queue')
    BY <1>3, <2>2, <2>3, <2>4
  <2>15. PlaceInv'
    BY <2>5, <2>10, <2>11, <2>12, <2>13, <2>14 DEF PlaceInv, Distinct
  <2>16. AckInv'
    BY <1>1, <2>0, <2>7, AckFrame DEF MoneyVars
  <2>17. ClientType' /\ AnswerType'
    BY <1>1, <1>3, <2>0, <2>t, <2>1 DEF TypeInv, ClientType, AnswerType
  <2>18. SlotType'
    BY <1>3, <2>t, <2>1, <2>4, FS_AddElement DEF SlotType
  <2> QED
    BY <1>1, <2>6, <2>15, <2>16, <2>17, <2>18, MoneyFrame DEF IInv, TypeInv
<1> QED
  BY <1>2, <1>3 DEF Intake

-----------------------------------------------------------------------------
(* Consensus.                                                              *)

\* Where a batch that consensus takes goes, among those it has.
InsertedAt(m, new, old, x) ==
  /\ Len(new) = Len(old) + 1 /\ m \in 1..Len(new) /\ new[m] = x
  /\ \A k \in 1..Len(old) : k < m => new[k] = old[k]
  /\ \A k \in 1..Len(old) : k >= m => new[k + 1] = old[k]

LEMMA ConcatFacts ==
  ASSUME NEW S, NEW s \in Seq(S), NEW t \in Seq(S)
  PROVE  /\ s \o t \in Seq(S) /\ Len(s \o t) = Len(s) + Len(t)
         /\ \A i \in 1..Len(s) : (s \o t)[i] = s[i]
         /\ \A i \in 1..Len(t) : (s \o t)[Len(s) + i] = t[i]
         /\ Len(s) \in Nat /\ Len(t) \in Nat
OBVIOUS

LEMMA SubSeqFacts ==
  ASSUME NEW S, NEW s \in Seq(S), NEW m \in 0..Len(s), NEW n \in 0..Len(s), m <= n
  PROVE  /\ SubSeq(s, m + 1, n) \in Seq(S) /\ Len(SubSeq(s, m + 1, n)) = n - m
         /\ \A i \in 1..(n - m) : SubSeq(s, m + 1, n)[i] = s[m + i]
<1>1. \A i \in (m + 1)..n : s[i] \in S
  OBVIOUS
<1>2. SubSeq(s, m + 1, n) \in Seq(S)
  BY <1>1
<1>3. Len(SubSeq(s, m + 1, n)) = n - m
  OBVIOUS
<1>4. ASSUME NEW i \in 1..(n - m) PROVE SubSeq(s, m + 1, n)[i] = s[m + i]
  OBVIOUS
<1> QED
  BY <1>2, <1>3, <1>4

LEMMA AppendFacts ==
  ASSUME NEW S, NEW s \in Seq(S), NEW x \in S
  PROVE  /\ Append(s, x) \in Seq(S) /\ Len(Append(s, x)) = Len(s) + 1 /\ Len(s) \in Nat
         /\ Append(s, x)[Len(s) + 1] = x
         /\ \A i \in 1..Len(s) : Append(s, x)[i] = s[i]
OBVIOUS

LEMMA MidFacts ==
  ASSUME BatchType
  PROVE  /\ Mid \in Seq(Decisions) /\ Len(Mid) = Len(commits) + Len(held)
         /\ \A k \in 1..Len(commits) : Mid[k] = commits[k]
         /\ \A k \in 1..Len(held) : Mid[Len(commits) + k] = held[k]
BY DEF BatchType, Mid

LEMMA Drained2 ==
  ASSUME BatchType, NEW one \in Decisions, UNCHANGED commits,
         \/ held' = Append(held, one)
         \/ held # <<>> /\ held' = Front(held) \o <<one, Last(held)>>
  PROVE  held' \in Seq(Decisions) /\ \E m \in Nat : InsertedAt(m, Mid', Mid, one)
<1>0. commits \in Seq(Decisions) /\ held \in Seq(Decisions) /\ Len(commits) \in Nat /\ Len(held) \in Nat
  BY DEF BatchType
<1>m. /\ Mid \in Seq(Decisions) /\ Len(Mid) = Len(commits) + Len(held)
      /\ \A k \in 1..Len(commits) : Mid[k] = commits[k]
      /\ \A k \in 1..Len(held) : Mid[Len(commits) + k] = held[k]
  BY MidFacts
<1> DEFINE c == Len(commits)  n == Len(held)
<1>1. CASE held' = Append(held, one)
  <2>1. held' \in Seq(Decisions) /\ Mid' = Append(Mid, one)
    BY <1>0, <1>1 DEF Mid
  <2>2. InsertedAt(Len(Mid) + 1, Append(Mid, one), Mid, one)
    <3> DEFINE q == Mid  w == Append(Mid, one)
    <3>1. /\ Len(w) = Len(q) + 1 /\ Len(q) \in Nat /\ w[Len(q) + 1] = one
          /\ \A i \in 1..Len(q) : w[i] = q[i]
      BY <1>m, AppendFacts
    <3> HIDE DEF q, w
    <3>2. InsertedAt(Len(q) + 1, w, q, one)
      BY <3>1 DEF InsertedAt
    <3> QED
      BY <3>2 DEF q, w
  <2> QED
    BY <1>m, <2>1, <2>2, Len(Mid) + 1 \in Nat
<1>2. CASE held # <<>> /\ held' = Front(held) \o <<one, Last(held)>>
  <2>1. n \in Nat \ {0} /\ Last(held) = held[n] /\ held[n] \in Decisions
    BY <1>0, <1>2 DEF Last
  <2>2. Front(held) = SubSeq(held, 1, n - 1)
    BY DEF Front
  <2>3. Front(held) \in Seq(Decisions) /\ Len(Front(held)) = n - 1
          /\ \A i \in 1..(n - 1) : Front(held)[i] = held[i]
    <3>1. 0 \in 0..n /\ n - 1 \in 0..n /\ (n - 1) - 0 = n - 1 /\ 0 + 1 = 1
      BY <2>1
    <3>2. /\ SubSeq(held, 0 + 1, n - 1) \in Seq(Decisions)
          /\ Len(SubSeq(held, 0 + 1, n - 1)) = (n - 1) - 0
          /\ \A i \in 1..((n - 1) - 0) : SubSeq(held, 0 + 1, n - 1)[i] = held[0 + i]
      BY <1>0, <3>1, SubSeqFacts
    <3>3. \A i \in 1..(n - 1) : 0 + i = i
      OBVIOUS
    <3> HIDE DEF n
    <3> QED
      BY <2>2, <3>1, <3>2, <3>3
  <2> DEFINE two == <<one, held[n]>>
  <2>4. two \in Seq(Decisions) /\ Len(two) = 2 /\ two[1] = one /\ two[2] = held[n]
    BY <2>1
  <2> HIDE DEF two
  <2>5. held' = Front(held) \o two
    BY <1>2, <2>1 DEF two
  <2>6. /\ held' \in Seq(Decisions) /\ Len(held') = n + 1
        /\ \A i \in 1..(n - 1) : held'[i] = held[i]
        /\ held'[n] = one /\ held'[n + 1] = held[n]
    <3> DEFINE fr == Front(held)
    <3>1. fr \in Seq(Decisions) /\ Len(fr) = n - 1 /\ held' = fr \o two
      BY <2>3, <2>5
    <3> HIDE DEF fr
    <3> HIDE DEF n
    <3>2. /\ held' \in Seq(Decisions) /\ Len(held') = (n - 1) + 2
          /\ \A i \in 1..(n - 1) : held'[i] = fr[i]
          /\ \A i \in 1..2 : held'[(n - 1) + i] = two[i]
      <4>1. /\ fr \o two \in Seq(Decisions) /\ Len(fr \o two) = Len(fr) + Len(two)
            /\ \A i \in 1..Len(fr) : (fr \o two)[i] = fr[i]
            /\ \A i \in 1..Len(two) : (fr \o two)[Len(fr) + i] = two[i]
        <5>1. fr \in Seq(Decisions) /\ two \in Seq(Decisions)
          BY <2>4, <3>1
        <5> QED
          BY <5>1, ConcatFacts
      <4> QED
        BY <2>4, <3>1, <4>1
    <3>3. (n - 1) + 2 = n + 1 /\ (n - 1) + 1 = n
      BY <2>1
    <3>4. held'[n] = two[1] /\ held'[n + 1] = two[2]
      BY <3>2, <3>3
    <3> QED
      BY <2>3, <2>4, <3>2, <3>3, <3>4 DEF fr
  <2> HIDE DEF n
  <2>7. /\ Mid' = commits \o held' /\ Len(Mid') = c + Len(held')
        /\ \A k \in 1..c : Mid'[k] = commits[k]
        /\ \A k \in 1..Len(held') : Mid'[c + k] = held'[k]
    <3> DEFINE h == held'
    <3>1. h \in Seq(Decisions) /\ Mid' = commits \o h
      BY <2>6 DEF Mid
    <3> HIDE DEF h
    <3>2. /\ Len(commits \o h) = c + Len(h)
          /\ \A k \in 1..c : (commits \o h)[k] = commits[k]
          /\ \A k \in 1..Len(h) : (commits \o h)[c + k] = h[k]
      BY <1>0, <3>1, ConcatFacts
    <3> QED
      BY <3>1, <3>2 DEF h
  <2>8. InsertedAt(c + n, Mid', Mid, one)
    <3>1. Len(Mid') = Len(Mid) + 1 /\ c + n \in 1..Len(Mid') /\ Mid'[c + n] = one
      BY <1>0, <1>m, <2>1, <2>6, <2>7 DEF n
    <3>2. ASSUME NEW k \in 1..Len(Mid), k < c + n PROVE Mid'[k] = Mid[k]
      <4>1. CASE k <= c
        BY <1>0, <1>m, <2>7, <4>1
      <4>2. CASE k > c
        <5>1. k - c \in 1..(n - 1) /\ c + (k - c) = k /\ k - c \in 1..Len(held') /\ k - c \in 1..n
          BY <1>0, <2>1, <2>6, <3>2, <4>2
        <5> QED
          <6>1. held'[k - c] = held[k - c] /\ Mid'[c + (k - c)] = held'[k - c]
            BY <2>6, <2>7, <5>1
          <6>2. Mid[c + (k - c)] = held[k - c]
            BY <1>m, <5>1 DEF n
          <6> QED
            BY <5>1, <6>1, <6>2
      <4> QED
        BY <1>0, <4>1, <4>2
    <3>3. ASSUME NEW k \in 1..Len(Mid), k >= c + n PROVE Mid'[k + 1] = Mid[k]
      <4>1. k = c + n /\ k + 1 = c + (n + 1) /\ n + 1 \in 1..Len(held') /\ n \in 1..n
        BY <1>0, <1>m, <2>1, <2>6, <3>3 DEF n
      <4> QED
        BY <1>m, <2>6, <2>7, <4>1 DEF n
    <3> QED
      BY <3>1, <3>2, <3>3 DEF InsertedAt
  <2> QED
    BY <1>0, <2>1, <2>6, <2>8, c + n \in Nat
<1> QED
  BY <1>1, <1>2

LEMMA DrainProposalsKeeps == ASSUME IInv, DrainProposals PROVE IInv'
<1>0. TypeInv /\ PlaceInv /\ AckInv /\ BatchType
  BY DEF IInv, TypeInv
<1>t. proposals \in Seq(Proposals) /\ proposals # <<>> /\ held \in Seq(Decisions)
  BY <1>0 DEF BatchType, DrainProposals
<1>1. PICK outcome \in {"committed", "failed"} :
        LET one == [id |-> Head(proposals).id, effects |-> Head(proposals).effects,
                    outcome |-> outcome]
        IN \/ held' = Append(held, one)
           \/ held # <<>> /\ held' = Front(held) \o <<one, Last(held)>>
  BY DEF DrainProposals
<1> DEFINE one == [id |-> Head(proposals).id, effects |-> Head(proposals).effects,
                   outcome |-> outcome]
<1>2. /\ proposals' = Tail(proposals)
      /\ UNCHANGED <<left, script, queue, slots, ready, columns, speculative, remaining, open,
                     inflight, batch, commits, log, outbox, taken, judged, committed, applied, sealed>>
  BY DEF DrainProposals, client, money, batcher, counters
<1>3. /\ Head(proposals) = proposals[1] /\ Head(proposals) \in Proposals
      /\ Tail(proposals) \in Seq(Proposals) /\ Len(Tail(proposals)) = Len(proposals) - 1
      /\ Len(proposals) \in Nat \ {0}
      /\ \A i \in 1..(Len(proposals) - 1) : Tail(proposals)[i] = proposals[i + 1]
  BY <1>t, RangeTail
<1>4. one \in Decisions /\ one.id = proposals[1].id /\ one.effects = proposals[1].effects
  BY <1>3 DEF Proposals, Decisions
<1> HIDE DEF one
<1>5. held' \in Seq(Decisions) /\ \E m \in Nat : InsertedAt(m, Mid', Mid, one)
  BY <1>0, <1>1, <1>2, <1>4, Drained2 DEF one
<1>6. PICK m \in Nat : InsertedAt(m, Mid', Mid, one)
  BY <1>5
<1> DEFINE old == Mid  new == Mid'
<1>7. old \in Seq(Decisions) /\ Len(old) \in Nat
  BY <1>0, MidFacts
<1>8. /\ Len(new) = Len(old) + 1 /\ m \in 1..Len(new) /\ new[m] = one
      /\ \A k \in 1..Len(old) : k < m => new[k] = old[k]
      /\ \A k \in 1..Len(old) : k >= m => new[k + 1] = old[k]
  BY <1>6 DEF InsertedAt
<1>9. \A k \in 1..Len(new) : k # m =>
         /\ (IF k < m THEN k ELSE k - 1) \in 1..Len(old)
         /\ new[k] = old[IF k < m THEN k ELSE k - 1]
  <2> HIDE DEF old, new
  <2> SUFFICES ASSUME NEW k \in 1..Len(new), k # m
               PROVE  /\ (IF k < m THEN k ELSE k - 1) \in 1..Len(old)
                      /\ new[k] = old[IF k < m THEN k ELSE k - 1]
    OBVIOUS
  <2>1. CASE k < m
    BY <1>7, <1>8, <2>1
  <2>2. CASE k > m
    <3>1. k - 1 \in 1..Len(old) /\ k - 1 >= m /\ (k - 1) + 1 = k
      BY <1>7, <1>8, <2>2
    <3> QED
      BY <1>8, <2>2, <3>1
  <2> QED
    BY <2>1, <2>2
<1>10. Decided' = Decided /\ Answers' = Answers
  BY <1>2 DEF Decided, Answers
<1>11. (~sealed => RaftInv)'
  <2> SUFFICES ASSUME ~sealed, RaftInv PROVE RaftInv'
    BY <1>2 DEF IInv
  <2> HIDE DEF old, new
  <2>1. \A x : Matches(x)' <=> Matches(x)
    BY <1>2 DEF Matches
  <2>2. batch \in Nat /\ Len(inflight) \in Nat /\ Len(proposals) <= Len(inflight)
    BY <1>0 DEF BatchType, RaftInv
  <2>3. \A k \in 1..Len(proposals) :
          proposals[k].id = batch - Len(proposals) + k - 1 /\ Matches(proposals[k])
    BY DEF RaftInv
  <2>4. /\ \A k \in 1..Len(old) :
             /\ old[k].id \in (batch - Len(inflight))..(batch - Len(proposals) - 1)
             /\ Matches(old[k])
        /\ \A k, j \in 1..Len(old) : old[k].id = old[j].id => k = j
    BY DEF RaftInv, old
  <2>5. Matches(one) /\ one.id = batch - Len(proposals)
    <3>1. 1 \in 1..Len(proposals)
      BY <1>3
    <3>2. Matches(proposals[1]) /\ proposals[1].id = batch - Len(proposals) + 1 - 1
      BY <2>3, <3>1
    <3> QED
      BY <1>3, <1>4, <2>2, <3>2 DEF Matches
  <2>6. \A k \in 1..(Len(proposals) - 1) :
          /\ Tail(proposals)[k].id = batch - (Len(proposals) - 1) + k - 1
          /\ Matches(Tail(proposals)[k])
    <3> SUFFICES ASSUME NEW k \in 1..(Len(proposals) - 1)
                 PROVE  /\ Tail(proposals)[k].id = batch - (Len(proposals) - 1) + k - 1
                        /\ Matches(Tail(proposals)[k])
      OBVIOUS
    <3>1. k + 1 \in 1..Len(proposals)
      BY <1>3
    <3>2. proposals[k + 1].id = batch - Len(proposals) + (k + 1) - 1 /\ Matches(proposals[k + 1])
      BY <2>3, <3>1
    <3>3. Tail(proposals)[k] = proposals[k + 1]
      BY <1>3
    <3>4. Len(proposals) \in Int /\ batch \in Int /\ k \in Int
      BY <1>3, <2>2
    <3> QED
      BY <3>2, <3>3, <3>4
  <2>7. \A k \in 1..Len(new) :
          /\ new[k].id \in (batch - Len(inflight))..(batch - (Len(proposals) - 1) - 1)
          /\ Matches(new[k])
    <3> SUFFICES ASSUME NEW k \in 1..Len(new)
                 PROVE  /\ new[k].id \in (batch - Len(inflight))..(batch - (Len(proposals) - 1) - 1)
                        /\ Matches(new[k])
      OBVIOUS
    <3>0. Len(proposals) \in Int /\ batch \in Int /\ Len(inflight) \in Int
      BY <1>3, <2>2
    <3>1. CASE k = m
      <4>1. new[k] = one
        BY <1>8, <3>1
      <4>2. one.id \in (batch - Len(inflight))..(batch - (Len(proposals) - 1) - 1)
        BY <2>2, <2>5, <3>0
      <4> QED
        BY <2>5, <4>1, <4>2
    <3>2. CASE k # m
      <4>1. PICK i \in 1..Len(old) : new[k] = old[i]
        BY <1>9, <3>2
      <4>2. old[i].id \in (batch - Len(inflight))..(batch - Len(proposals) - 1) /\ Matches(old[i])
        BY <2>4
      <4>3. old[i].id \in (batch - Len(inflight))..(batch - (Len(proposals) - 1) - 1)
        BY <3>0, <4>2
      <4> QED
        BY <4>1, <4>2, <4>3
    <3> QED
      BY <3>1, <3>2
  <2>8. ASSUME NEW k \in 1..Len(new), NEW j \in 1..Len(new), new[k].id = new[j].id
        PROVE  k = j
    <3> DEFINE ko == IF k < m THEN k ELSE k - 1
               jo == IF j < m THEN j ELSE j - 1
    <3>1. k # m => ko \in 1..Len(old) /\ new[k] = old[ko]
      BY <1>9
    <3>2. j # m => jo \in 1..Len(old) /\ new[j] = old[jo]
      BY <1>9
    <3>m. \A i \in 1..Len(old) : old[i].id # one.id
      <4> SUFFICES ASSUME NEW i \in 1..Len(old) PROVE old[i].id # one.id
        OBVIOUS
      <4>1. old[i].id \in (batch - Len(inflight))..(batch - Len(proposals) - 1)
        BY <2>4
      <4>2. Len(proposals) \in Int /\ batch \in Int /\ Len(inflight) \in Int
        BY <1>3, <2>2
      <4> QED
        BY <2>5, <4>1, <4>2
    <3> HIDE DEF ko, jo
    <3>3. ~(k = m /\ j # m)
      BY <1>8, <2>8, <3>2, <3>m
    <3>4. ~(k # m /\ j = m)
      BY <1>8, <2>8, <3>1, <3>m
    <3>5. CASE k # m /\ j # m
      <4>1. ko = jo
        BY <2>4, <2>8, <3>1, <3>2, <3>5
      <4> QED
        BY <4>1, <3>5, <1>7, <1>8 DEF ko, jo
    <3> QED
      BY <3>3, <3>4, <3>5
  <2>9. UNCHANGED <<inflight, batch>> /\ proposals' = Tail(proposals) /\ Mid' = new
          /\ Len(proposals') = Len(proposals) - 1
    BY <1>2, <1>3 DEF new
  <2>10. Len(proposals') <= Len(inflight')
    BY <1>3, <2>2, <2>9
  <2> HIDE DEF Mid
  <2>11. \A k \in 1..Len(proposals') :
            proposals'[k].id = batch' - Len(proposals') + k - 1 /\ Matches(proposals[k])'
    BY <2>6, <2>9 DEF Matches
  <2>12. \A k \in 1..Len(Mid') :
            /\ Mid'[k].id \in (batch' - Len(inflight'))..(batch' - Len(proposals') - 1)
            /\ Matches(Mid[k])'
    BY <2>7, <2>9 DEF Matches
  <2>13. \A k, j \in 1..Len(Mid') : Mid'[k].id = Mid'[j].id => k = j
    BY <2>8, <2>9
  <2> QED
    BY <2>10, <2>11, <2>12, <2>13 DEF RaftInv
<1>12. PromiseInv'
  <2>1. PICK eff, need : Promises(eff) /\ Covered(eff, need)
    BY DEF IInv, PromiseInv
  <2>2. Covered(eff, need)'
    BY <1>2, <1>10, <2>1, CoverFrame
  <2>3. Promises(eff)'
    <3>1. ASSUME ~sealed PROVE /\ \A k \in 1..Len(proposals') : EffectsOf(eff, proposals'[k].effects)
                               /\ \A k \in 1..Len(new) : EffectsOf(eff, new[k].effects)
      <4>1. /\ \A k \in 1..Len(proposals) : EffectsOf(eff, proposals[k].effects)
            /\ \A k \in 1..Len(old) : EffectsOf(eff, old[k].effects)
        BY <2>1, <3>1 DEF Promises
      <4> HIDE DEF old, new
      <4>2. \A k \in 1..(Len(proposals) - 1) : EffectsOf(eff, Tail(proposals)[k].effects)
        BY <1>3, <4>1
      <4>3. EffectsOf(eff, one.effects)
        BY <1>3, <1>4, <4>1
      <4>4. \A k \in 1..Len(new) : EffectsOf(eff, new[k].effects)
        <5> SUFFICES ASSUME NEW k \in 1..Len(new) PROVE EffectsOf(eff, new[k].effects)
          OBVIOUS
        <5>1. CASE k = m
          BY <1>8, <4>3, <5>1
        <5>2. CASE k # m
          BY <1>9, <4>1, <5>2
        <5> QED
          BY <5>1, <5>2
      <4> QED
        BY <1>2, <1>3, <4>2, <4>4
    <3>2. EffectsOf(eff, open)'
      BY <1>2, <2>1 DEF Promises, EffectsOf
    <3> QED
      BY <1>2, <1>10, <2>1, <3>1, <3>2 DEF Promises, EffectsOf
  <2> QED
    BY <2>2, <2>3 DEF PromiseInv
<1>13. BatchType' /\ ClientType' /\ SlotType' /\ MoneyType' /\ AnswerType' /\ CountType'
  <2>1. BatchType'
    BY <1>0, <1>2, <1>3, <1>5 DEF BatchType
  <2>2. ClientType' /\ SlotType' /\ MoneyType' /\ AnswerType' /\ CountType'
    BY <1>0, <1>2 DEF TypeInv, ClientType, SlotType, MoneyType, AnswerType, CountType
  <2> QED
    BY <2>1, <2>2
<1>14. PlaceInv' /\ AckInv' /\ OpenInv' /\ FlightInv' /\ LogInv' /\ CountInv' /\ Balanced'
  <2>1. PlaceInv' /\ AckInv'
    BY <1>0, <1>2, <1>10, PlaceFrame, AckFrame
  <2>2. OpenInv' /\ FlightInv' /\ LogInv' /\ CountInv'
    BY <1>2, <1>10, OpenFrame, FlightFrame, LogFrame, CountFrame DEF IInv
  <2>3. Balanced'
    BY <1>2 DEF IInv, Balanced
  <2> QED
    BY <2>1, <2>2, <2>3
<1> QED
  BY <1>11, <1>12, <1>13, <1>14 DEF IInv, TypeInv

\* A longer log begins as the one before did.
LEMMA SamePrefix ==
  ASSUME NEW S, NEW s \in Seq(S), NEW t \in Seq(S), NEW n \in Nat, n <= Len(s), n <= Len(t),
         \A i \in 1..n : t[i] = s[i]
  PROVE  SubSeq(t, 1, n) = SubSeq(s, 1, n)
<1>1. Len(s) \in Nat /\ Len(t) \in Nat
  OBVIOUS
<1>2. \A q \in Seq(S) : n <= Len(q) => SubSeq(q, 1, n) = [i \in 1..n |-> q[i]]
  OBVIOUS
<1>3. [i \in 1..n |-> t[i]] = [i \in 1..n |-> s[i]]
  OBVIOUS
<1> QED
  BY <1>2, <1>3

LEMMA SameSeq ==
  ASSUME NEW S, NEW s \in Seq(S), NEW t \in Seq(S), Len(s) = Len(t),
         \A i \in 1..Len(s) : s[i] = t[i]
  PROVE  s = t
OBVIOUS

LEMMA DeliverKeeps == ASSUME IInv, Deliver PROVE IInv'
<1>0. TypeInv /\ PlaceInv /\ AckInv /\ BatchType
  BY DEF IInv, TypeInv
<1>t. held \in Seq(Decisions) /\ commits \in Seq(Decisions) /\ log \in Seq(EffectSet) /\ held # <<>>
  BY <1>0 DEF BatchType, Deliver
<1> DEFINE one == Head(held)  c == Len(commits)
<1>1. /\ held' = Tail(held) /\ commits' = Append(commits, one)
      /\ log' = IF one.outcome = "committed" THEN log \o one.effects ELSE log
      /\ UNCHANGED <<left, script, queue, slots, ready, columns, speculative, remaining, open,
                     inflight, batch, proposals, outbox, taken, judged, committed, applied, sealed>>
  BY DEF Deliver, client, money, batcher, counters
<1>2. /\ one = held[1] /\ one \in Decisions
      /\ Tail(held) \in Seq(Decisions) /\ Len(Tail(held)) = Len(held) - 1
      /\ Len(held) \in Nat \ {0}
      /\ \A i \in 1..(Len(held) - 1) : Tail(held)[i] = held[i + 1]
  BY <1>t, RangeTail
<1>3. one.effects \in Seq(EffectSet) /\ one.outcome \in {"committed", "failed"}
  BY <1>2 DEF Decisions
<1> HIDE DEF one
<1>4. /\ commits' \in Seq(Decisions) /\ Len(commits') = c + 1 /\ c \in Nat
      /\ commits'[c + 1] = one /\ \A i \in 1..c : commits'[i] = commits[i]
  BY <1>t, <1>1, <1>2, AppendFacts
<1>5. Mid' = Mid
  <2>1. /\ Mid \in Seq(Decisions) /\ Len(Mid) = c + Len(held)
        /\ \A k \in 1..c : Mid[k] = commits[k]
        /\ \A k \in 1..Len(held) : Mid[c + k] = held[k]
    BY <1>0, MidFacts
  <2> DEFINE new == Append(commits, one) \o Tail(held)
             head == Append(commits, one)
             tail == Tail(held)
  <2>2. head \in Seq(Decisions) /\ tail \in Seq(Decisions) /\ Len(head) = c + 1
          /\ Len(tail) = Len(held) - 1
    BY <1>1, <1>2, <1>4
  <2>3. /\ new \in Seq(Decisions) /\ Len(new) = Len(head) + Len(tail)
        /\ \A i \in 1..Len(head) : new[i] = head[i]
        /\ \A i \in 1..Len(tail) : new[Len(head) + i] = tail[i]
    <3> HIDE DEF head, tail
    <3>1. /\ head \o tail \in Seq(Decisions) /\ Len(head \o tail) = Len(head) + Len(tail)
          /\ \A i \in 1..Len(head) : (head \o tail)[i] = head[i]
          /\ \A i \in 1..Len(tail) : (head \o tail)[Len(head) + i] = tail[i]
      <4>1. head \in Seq(Decisions) /\ tail \in Seq(Decisions)
        BY <2>2
      <4> QED
        BY <4>1, ConcatFacts
    <3> QED
      BY <3>1 DEF head, tail
  <2> HIDE DEF new
  <2>4. Len(new) = Len(Mid)
    BY <1>2, <1>4, <2>1, <2>2, <2>3
  <2>5. ASSUME NEW i \in 1..Len(Mid) PROVE Mid[i] = new[i]
    <3>1. CASE i <= c
      <4>1. i \in 1..c /\ i \in 1..Len(head)
        BY <1>4, <2>2, <3>1
      <4> QED
        BY <1>1, <1>4, <2>1, <2>3, <4>1
    <3>2. CASE i = c + 1
      <4>1. 1 \in 1..Len(held) /\ c + 1 \in 1..Len(head)
        BY <1>2, <1>4, <2>2
      <4>2. Mid[c + 1] = held[1] /\ new[c + 1] = head[c + 1]
        BY <2>1, <2>3, <4>1
      <4> QED
        BY <1>1, <1>2, <1>4, <3>2, <4>2
    <3>3. CASE i > c + 1
      <4>1. /\ i - c \in 1..Len(held) /\ (i - (c + 1)) \in 1..Len(tail)
            /\ (i - (c + 1)) \in 1..(Len(held) - 1)
            /\ c + (i - c) = i /\ Len(head) + (i - (c + 1)) = i /\ (i - (c + 1)) + 1 = i - c
        BY <1>2, <1>4, <2>1, <2>2, <3>3
      <4>2. Mid[i] = held[i - c]
        BY <2>1, <4>1
      <4>3. new[i] = tail[i - (c + 1)]
        BY <2>3, <4>1
      <4>4. tail[i - (c + 1)] = held[i - c]
        BY <1>2, <4>1
      <4> QED
        BY <4>2, <4>3, <4>4
    <3> QED
      BY <1>4, <3>1, <3>2, <3>3
  <2>6. Mid = new
    BY <2>1, <2>3, <2>4, <2>5, SameSeq
  <2> QED
    BY <1>1, <2>6 DEF Mid, new
<1>6. Decided' = Decided /\ Answers' = Answers
  BY <1>1 DEF Decided, Answers
<1>7. /\ log' \in Seq(EffectSet) /\ Len(log) \in Nat /\ Len(log') \in Nat /\ Len(log') >= Len(log)
      /\ \A i \in 1..Len(log) : log'[i] = log[i]
      /\ one.outcome = "failed" => Len(log') = Len(log)
      /\ one.outcome = "committed" =>
           /\ Len(log') = Len(log) + Len(one.effects)
           /\ \A i \in 1..Len(one.effects) : log'[Len(log) + i] = one.effects[i]
  <2>1. CASE one.outcome = "committed"
    <3>1. log' = log \o one.effects
      BY <1>1, <2>1
    <3> DEFINE e == one.effects
    <3>2. e \in Seq(EffectSet)
      BY <1>3
    <3> HIDE DEF e
    <3>3. /\ log \o e \in Seq(EffectSet) /\ Len(log \o e) = Len(log) + Len(e)
          /\ \A i \in 1..Len(log) : (log \o e)[i] = log[i]
          /\ \A i \in 1..Len(e) : (log \o e)[Len(log) + i] = e[i]
          /\ Len(log) \in Nat /\ Len(e) \in Nat
      BY <1>t, <3>2, ConcatFacts
    <3>4. log' = log \o e
      BY <3>1 DEF e
    <3>5. /\ log' \in Seq(EffectSet) /\ Len(log) \in Nat /\ Len(log') \in Nat /\ Len(log') >= Len(log)
          /\ \A i \in 1..Len(log) : log'[i] = log[i]
          /\ Len(log') = Len(log) + Len(e)
          /\ \A i \in 1..Len(e) : log'[Len(log) + i] = e[i]
      BY <3>3, <3>4
    <3> QED
      BY <2>1, <3>5 DEF e
  <2>2. CASE one.outcome = "failed"
    <3>1. log' = log
      BY <1>1, <2>2
    <3> QED
      BY <1>t, <2>2, <3>1
  <2> QED
    BY <1>3, <2>1, <2>2
<1>8. committed \in Nat /\ committed <= Len(log)
  BY <1>0 DEF IInv, TypeInv, CountType, LogInv, StateFollowsLog
<1>9. \A i \in 1..committed : i \in 1..Len(log) /\ log'[i] = log[i]
  BY <1>7, <1>8
<1>10. LogInv'
  <2>1. SubSeq(log', 1, committed) = SubSeq(log, 1, committed)
    <3> DEFINE t == log'
    <3>1. t \in Seq(EffectSet) /\ committed <= Len(t) /\ \A i \in 1..committed : t[i] = log[i]
      BY <1>7, <1>8, <1>9
    <3> HIDE DEF t
    <3>2. SubSeq(t, 1, committed) = SubSeq(log, 1, committed)
      BY <1>t, <1>8, <3>1, SamePrefix
    <3> QED
      BY <3>2 DEF t
  <2>2. columns = Replayed(SubSeq(log, 1, committed))
    BY DEF IInv, LogInv, StateFollowsLog
  <2>3. StateFollowsLog'
    <3>1. committed' <= Len(log')
      BY <1>1, <1>7, <1>8
    <3>2. columns' = Replayed(SubSeq(log', 1, committed'))
      BY <1>1, <2>1, <2>2
    <3> QED
      BY <3>1, <3>2 DEF StateFollowsLog
  <2>4. ASSUME ~sealed PROVE (\E off : Offsets(off))'
    <3>1. PICK off : Offsets(off)
      BY <2>4 DEF IInv, LogInv
    <3> DEFINE new == [i \in 0..(c + 1) |-> IF i = c + 1 THEN Len(log') ELSE off[i]]
    <3>2. /\ off \in [0..c -> 0..Len(log)] /\ off[0] = committed /\ off[c] = Len(log)
          /\ \A k \in 1..c :
               /\ commits[k].outcome = "failed" => off[k] = off[k - 1]
               /\ commits[k].outcome = "committed" =>
                    /\ off[k] = off[k - 1] + Len(commits[k].effects)
                    /\ \A i \in 1..Len(commits[k].effects) :
                         log[off[k - 1] + i] = commits[k].effects[i]
      BY <3>1 DEF Offsets
    <3>3. \A i \in 0..c : off[i] \in Nat /\ off[i] <= Len(log) /\ new[i] = off[i]
      <4> SUFFICES ASSUME NEW i \in 0..c
                   PROVE  off[i] \in Nat /\ off[i] <= Len(log) /\ new[i] = off[i]
        OBVIOUS
      <4>1. off[i] \in 0..Len(log)
        BY <3>2
      <4>2. i # c + 1 /\ i \in 0..(c + 1)
        BY <1>4
      <4> QED
        BY <1>7, <4>1, <4>2
    <3>4. new[c + 1] = Len(log') /\ new[0] = committed
      BY <1>4, <3>2
    <3>5. new \in [0..(c + 1) -> 0..Len(log')]
      BY <1>4, <1>7, <3>2
    <3> HIDE DEF new
    <3>6. ASSUME NEW k \in 1..(c + 1)
          PROVE  /\ commits'[k].outcome = "failed" => new[k] = new[k - 1]
                 /\ commits'[k].outcome = "committed" =>
                      /\ new[k] = new[k - 1] + Len(commits'[k].effects)
                      /\ \A i \in 1..Len(commits'[k].effects) :
                           log'[new[k - 1] + i] = commits'[k].effects[i]
      <4>1. CASE k = c + 1
        <5>1. commits'[k] = one /\ new[k] = Len(log') /\ k - 1 = c /\ c \in 0..c
          BY <1>4, <3>4, <4>1
        <5>2. new[k - 1] = Len(log)
          BY <3>2, <3>3, <5>1
        <5> QED
          BY <1>7, <5>1, <5>2
      <4>2. CASE k # c + 1
        <5>1. k \in 1..c /\ k \in 0..c /\ k - 1 \in 0..c
          BY <1>4, <4>2
        <5>2. commits'[k] = commits[k] /\ new[k] = off[k] /\ new[k - 1] = off[k - 1]
          BY <1>4, <3>3, <5>1
        <5>3. commits[k] \in Decisions
          BY <1>t, <5>1
        <5>4. Len(commits[k].effects) \in Nat
          BY <5>3 DEF Decisions
        <5>5. ASSUME commits[k].outcome = "committed", NEW i \in 1..Len(commits[k].effects)
              PROVE  log'[off[k - 1] + i] = commits[k].effects[i]
          <6>1. off[k] = off[k - 1] + Len(commits[k].effects)
                  /\ log[off[k - 1] + i] = commits[k].effects[i]
            BY <3>2, <5>1, <5>5
          <6>2. /\ Len(log) \in Nat /\ off[k - 1] \in Nat
                /\ off[k] \in Nat /\ off[k] <= Len(log)
            BY <1>7, <3>3, <5>1
          <6>3. ASSUME NEW a \in Nat, NEW b \in Nat, NEW n \in Nat, NEW m \in Nat,
                       NEW j \in 1..n, b = a + n, b <= m
                PROVE  a + j \in 1..m
            BY <6>3
          <6>4. off[k - 1] + i \in 1..Len(log)
            <7> HIDE DEF c
            <7> QED
              BY <5>4, <6>1, <6>2, <6>3
          <6> QED
            BY <1>7, <6>1, <6>4
        <5> QED
          BY <3>2, <5>1, <5>2, <5>5
      <4> QED
        BY <4>1, <4>2
    <3>7. PICK w : w = new
      OBVIOUS
    <3>8. Offsets(w)'
      <4>1. Len(commits') = c + 1 /\ committed' = committed
        BY <1>1, <1>4
      <4> HIDE DEF c
      <4> QED
        BY <3>4, <3>5, <3>6, <3>7, <4>1 DEF Offsets
    <3> QED
      BY <3>8
  <2> QED
    BY <1>1, <2>3, <2>4 DEF LogInv
<1>11. AckInv'
  <2>1. UNCHANGED <<committed>> /\ Answers' = Answers /\ Told' = Told
    BY <1>1, <1>6 DEF Told
  <2> QED
    BY <1>0, <1>9, <2>1 DEF AckInv, AcksAreTrue
<1>12. BatchType' /\ ClientType' /\ SlotType' /\ MoneyType' /\ AnswerType' /\ CountType'
  <2>1. BatchType'
    BY <1>0, <1>1, <1>2, <1>4, <1>7 DEF BatchType
  <2>2. ClientType' /\ SlotType' /\ MoneyType' /\ AnswerType' /\ CountType'
    BY <1>0, <1>1 DEF TypeInv, ClientType, SlotType, MoneyType, AnswerType, CountType
  <2> QED
    BY <2>1, <2>2
<1>13. PlaceInv' /\ OpenInv' /\ FlightInv' /\ CountInv' /\ Balanced' /\ (~sealed => RaftInv)'
  <2>1. PlaceInv'
    BY <1>0, <1>1, <1>6, PlaceFrame
  <2>2. OpenInv' /\ FlightInv' /\ CountInv'
    BY <1>1, <1>6, OpenFrame, FlightFrame, CountFrame DEF IInv
  <2>3. Balanced'
    BY <1>1 DEF IInv, Balanced
  <2>4. (~sealed => RaftInv)'
    BY <1>1, <1>5, RaftFrame DEF IInv
  <2> QED
    BY <2>1, <2>2, <2>3, <2>4
<1>14. PromiseInv'
  <2>1. PICK eff, need : Promises(eff) /\ Covered(eff, need)
    BY DEF IInv, PromiseInv
  <2>2. Covered(eff, need)' /\ Promises(eff)'
    BY <1>1, <1>5, <1>6, <2>1, CoverFrame, PromiseFrame
  <2> QED
    BY <2>2 DEF PromiseInv
<1> QED
  BY <1>10, <1>11, <1>12, <1>13, <1>14 DEF IInv, TypeInv

-----------------------------------------------------------------------------
(* A batch is cut where no chain crosses.                                  *)

LEMMA UnitOfIs ==
  ASSUME NEW u \in Units, NEW r \in Range(u)
  PROVE  UnitOf(r) = u /\ (Len(u) > 1 => ChainOf(r) = u) /\ u # None
<1>1. UnitOf(r) \in Units /\ r \in Range(UnitOf(r))
  BY DEF UnitOf
<1>2. UnitOf(r) = u
  BY <1>1, UnitFacts
<1> QED
  BY <1>2, CommitAssumption DEF ChainOf

LEMMA ChainOfIs ==
  ASSUME NEW r \in Reqs, NEW u \in Units, ChainOf(r) = u
  PROVE  r \in Range(u)
<1>1. PICK v \in Units : r \in Range(v)
  BY ClientAssumption
<1>2. UnitOf(r) \in Units /\ r \in Range(UnitOf(r))
  BY <1>1 DEF UnitOf
<1>3. u # None
  BY CommitAssumption
<1> QED
  BY <1>2, <1>3 DEF ChainOf

LEMMA TxsFacts ==
  ASSUME NEW q \in Seq(EffectSet)
  PROVE  /\ Txs(q) \in Seq(Reqs) /\ Len(Txs(q)) = Len(q) /\ Len(q) \in Nat
         /\ \A i \in 1..Len(q) : Txs(q)[i] = q[i].tx /\ q[i].tx \in Reqs
<1>1. Len(q) \in Nat /\ \A i \in 1..Len(q) : q[i] \in EffectSet
  OBVIOUS
<1>2. \A i \in 1..Len(q) : q[i].tx \in Reqs
  BY <1>1 DEF EffectSet
<1> QED
  BY <1>1, <1>2 DEF Txs

\* Inside a unit is no place to cut.
LEMMA InsideNoCut ==
  ASSUME NEW q \in Seq(EffectSet), NEW u \in Units, NEW s, Spans(q, u, s), NEW k \in Nat,
         s < k, k < s + Len(u)
  PROVE  ~Cut(Txs(q), k)
<1>0. /\ u \in Seq(Reqs) /\ Len(u) \in Nat /\ Len(q) \in Nat /\ s \in 0..(Len(q) - Len(u))
      /\ \A p \in 1..Len(u) : q[s + p].tx = u[p] /\ u[p] \in Range(u)
  BY UnitFacts, RangeOf DEF Spans
<1>1. /\ k - s \in 1..Len(u) /\ (k + 1) - s \in 1..Len(u) /\ s + (k - s) = k
      /\ s + ((k + 1) - s) = k + 1 /\ k \in 1..Len(q) /\ k + 1 \in 1..Len(q) /\ Len(u) > 1
      /\ k # 0 /\ k # Len(q)
  <2>1. s \in Int /\ k \in Int /\ Len(u) \in Int /\ Len(q) \in Int /\ s >= 0 /\ s + Len(u) <= Len(q)
    BY <1>0
  <2>2. s < k /\ k < s + Len(u)
    OBVIOUS
  <2> QED
    BY <2>1, <2>2
<1>2. q[k].tx \in Range(u) /\ q[k + 1].tx \in Range(u)
  BY <1>0, <1>1
<1>3. ChainOf(q[k].tx) = u /\ ChainOf(q[k + 1].tx) = u /\ u # None
  BY <1>1, <1>2, UnitOfIs
<1>4. Txs(q)[k] = q[k].tx /\ Txs(q)[k + 1] = q[k + 1].tx /\ Len(Txs(q)) = Len(q)
  BY <1>1, TxsFacts
<1> QED
  BY <1>1, <1>3, <1>4 DEF Cut

\* The end of the first unit is one.
LEMMA FirstCut ==
  ASSUME NEW q \in Seq(EffectSet), NEW u \in Units, Spans(q, u, 0),
         \A i, j \in 1..Len(q) : q[i].tx = q[j].tx => i = j
  PROVE  Cut(Txs(q), Len(u)) /\ Len(u) \in 1..Len(q)
<1>0. /\ u \in Seq(Reqs) /\ Len(u) \in Nat \ {0} /\ Len(q) \in Nat /\ Len(u) <= Len(q)
      /\ Range(u) = {u[p] : p \in 1..Len(u)}
      /\ \A p \in 1..Len(u) : q[p].tx = u[p] /\ u[p] \in Range(u)
  BY UnitFacts, RangeOf DEF Spans
<1>1. /\ Len(Txs(q)) = Len(q) /\ \A i \in 1..Len(q) : Txs(q)[i] = q[i].tx /\ q[i].tx \in Reqs
  BY TxsFacts
<1> DEFINE m == Len(u)
<1> HIDE DEF m
<1>m. Len(u) = m
  BY DEF m
<1>2. CASE m = Len(q)
  BY <1>0, <1>1, <1>2, <1>m DEF Cut
<1>3. CASE m # Len(q) /\ m > 1
  <2>1. m + 1 \in 1..Len(q) /\ m \in 1..Len(q) /\ m \in 1..m
    <3>1. m \in Int /\ Len(q) \in Int /\ m <= Len(q)
      BY <1>0, <1>m
    <3> QED
      BY <1>3, <3>1
  <2>2. ChainOf(q[m].tx) = u
    BY <1>0, <1>3, <1>m, <2>1, UnitOfIs
  <2>3. q[m + 1].tx \notin Range(u)
    <3> SUFFICES ASSUME NEW p \in 1..m, q[m + 1].tx = u[p] PROVE FALSE
      BY <1>0, <1>m
    <3>1. p \in 1..Len(q) /\ p # m + 1 /\ q[p].tx = u[p]
      BY <1>0, <1>m
    <3> QED
      BY <2>1, <3>1
  <2>4. ChainOf(q[m + 1].tx) # u
    BY <1>1, <2>1, <2>3, ChainOfIs
  <2> QED
    BY <1>0, <1>1, <1>m, <2>1, <2>2, <2>4 DEF Cut
<1>4. CASE m = 1
  <2>1. q[1].tx \in Range(u) /\ 1 \in 1..Len(q)
    BY <1>0, <1>4, <1>m
  <2>2. UnitOf(q[1].tx) = u
    BY <2>1, UnitOfIs
  <2>3. ~(Len(UnitOf(q[1].tx)) > 1)
    <3>1. Len(u) = 1
      BY <1>4, <1>m
    <3>2. Len(UnitOf(q[1].tx)) = 1
      BY <2>2, <3>1
    <3> QED
      BY <3>2
  <2>4. ChainOf(q[1].tx) = None
    BY <2>3 DEF ChainOf
  <2>5. Cut(Txs(q), 1)
    BY <1>1, <2>1, <2>4 DEF Cut
  <2> QED
    BY <1>0, <1>4, <1>m, <2>5
<1> QED
  BY <1>0, <1>m, <1>2, <1>3, <1>4

\* chain_boundary: something is cut off, and no chain with it.
LEMMA BoundaryIs ==
  ASSUME open \in Seq(EffectSet), open # <<>>, WholeUnits(open),
         \A i, j \in 1..Len(open) : open[i].tx = open[j].tx => i = j
  PROVE  LET n == ChainBoundary(Min({Len(open), BatchMax}))
         IN n \in 1..Len(open) /\ n <= BatchMax /\ Cut(Txs(open), n)
<1> DEFINE top == Min({Len(open), BatchMax})
           K == {k \in 0..top : k = 0 \/ k = Len(open)
                        \/ ChainOf(open[k].tx) = None
                        \/ ChainOf(open[k].tx) # ChainOf(open[k + 1].tx)}
<1>0. Len(open) \in Nat \ {0} /\ BatchMax \in Nat \ {0}
  BY CommitAssumption
<1>1. top \in Nat \ {0} /\ top <= Len(open) /\ top <= BatchMax /\ top \in {Len(open), BatchMax}
  <2>1. \E x \in {Len(open), BatchMax} : \A y \in {Len(open), BatchMax} : x <= y
    BY <1>0
  <2>2. top \in {Len(open), BatchMax} /\ \A y \in {Len(open), BatchMax} : top <= y
    BY <2>1 DEF Min
  <2> HIDE DEF top
  <2> QED
    BY <1>0, <2>2
<1> HIDE DEF top
<1>2. ChainBoundary(top) = Max(K)
  BY DEF ChainBoundary
<1>3. /\ Len(Txs(open)) = Len(open) /\ \A i \in 1..Len(open) : Txs(open)[i] = open[i].tx
  BY TxsFacts
<1>4. \A k \in 0..top : k \in K <=> Cut(Txs(open), k)
  <2> SUFFICES ASSUME NEW k \in 0..top PROVE k \in K <=> Cut(Txs(open), k)
    OBVIOUS
  <2>1. CASE k = 0 \/ k = Len(open)
    BY <1>3, <2>1 DEF Cut
  <2>2. CASE k # 0 /\ k # Len(open)
    <3>1. k \in 1..Len(open) /\ k + 1 \in 1..Len(open)
      BY <1>0, <1>1, <2>2
    <3> QED
      BY <1>3, <2>2, <3>1 DEF Cut
  <2> QED
    BY <2>1, <2>2
<1>5. PICK u \in Units : Spans(open, u, 0)
  <2>1. PICK u \in Units : \E s \in 0..(1 - 1) : Spans(open, u, s) /\ 1 <= s + Len(u)
    BY <1>0, 1 \in 1..Len(open) DEF WholeUnits
  <2> QED
    BY <2>1
<1>6. Cut(Txs(open), Len(u)) /\ Len(u) \in 1..Len(open) /\ Len(u) <= BatchMax
  BY <1>5, FirstCut, UnitFacts
<1>7. Len(u) \in 0..top /\ Len(u) \in K
  BY <1>0, <1>1, <1>4, <1>6
<1>8. K \in SUBSET (0..top) /\ K # {}
  BY <1>7
<1> HIDE DEF K
<1>9. Max(K) \in K /\ Max(K) >= Len(u) /\ Max(K) \in 0..top
  BY <1>1, <1>7, <1>8, MaxOf
<1>10. Max(K) \in 1..Len(open) /\ Max(K) <= BatchMax /\ Cut(Txs(open), Max(K))
  BY <1>0, <1>1, <1>4, <1>6, <1>9
<1> QED
  BY <1>2, <1>10 DEF top

\* What is after such a place is whole again.
LEMMA SuffixWhole ==
  ASSUME NEW q \in Seq(EffectSet), WholeUnits(q), NEW n \in 0..Len(q), Cut(Txs(q), n)
  PROVE  WholeUnits(SubSeq(q, n + 1, Len(q)))
<1> DEFINE t == SubSeq(q, n + 1, Len(q))
<1>0. Len(q) \in Nat
  OBVIOUS
<1>1. t \in Seq(EffectSet) /\ Len(t) = Len(q) - n /\ \A i \in 1..(Len(q) - n) : t[i] = q[n + i]
  BY <1>0, SubSeqFacts, Len(q) \in 0..Len(q), n <= Len(q)
<1> HIDE DEF t
<1> SUFFICES ASSUME NEW k \in 1..Len(t)
             PROVE  \E u \in Units : \E s \in 0..(k - 1) : Spans(t, u, s) /\ k <= s + Len(u)
  BY DEF WholeUnits, t
<1>2. n + k \in 1..Len(q)
  BY <1>0, <1>1
<1>3. PICK u \in Units, s \in 0..((n + k) - 1) : Spans(q, u, s) /\ n + k <= s + Len(u)
  BY <1>2 DEF WholeUnits
<1>4. Len(u) \in Nat /\ s \in 0..(Len(q) - Len(u)) /\ \A p \in 1..Len(u) : q[s + p].tx = u[p]
  BY <1>3, UnitFacts DEF Spans
<1>5. s >= n
  <2> SUFFICES ASSUME s < n PROVE FALSE
    BY <1>3
  <2>1. n < s + Len(u) /\ n \in Nat
    BY <1>0, <1>3, <1>4
  <2> QED
    BY <1>3, <2>1, InsideNoCut
<1>6. s - n \in 0..(k - 1) /\ s - n \in 0..(Len(t) - Len(u)) /\ k <= (s - n) + Len(u)
  BY <1>0, <1>1, <1>3, <1>4, <1>5
<1>7. ASSUME NEW p \in 1..Len(u) PROVE t[(s - n) + p].tx = u[p]
  <2>1. (s - n) + p \in 1..(Len(q) - n) /\ n + ((s - n) + p) = s + p
    BY <1>0, <1>4, <1>5
  <2> QED
    BY <1>1, <1>4, <2>1
<1> QED
  BY <1>6, <1>7 DEF Spans

\* An account rises along what is cut off, and along what is left.
LEMMA PrefixRises ==
  ASSUME NEW eff, NEW need, NEW a, NEW q \in Seq(EffectSet), NEW n \in 0..Len(q),
         RisesFromCuts(eff, need, a, Txs(q))
  PROVE  Rises(eff, need, a, [i \in 1..n |-> q[i].tx])
<1>1. PICK f : /\ Levels(eff, need, a, Txs(q), f)
               /\ \A i, k \in 0..Len(Txs(q)) : Cut(Txs(q), i) /\ i <= k => f[k] >= f[i]
  BY DEF RisesFromCuts
<1>2. /\ Len(Txs(q)) = Len(q) /\ Len(q) \in Nat /\ \A i \in 1..Len(q) : Txs(q)[i] = q[i].tx
  BY TxsFacts
<1> DEFINE t == [i \in 1..n |-> q[i].tx]
           g == [i \in 0..n |-> f[i]]
<1>3. Len(t) = n /\ \A i \in 1..n : t[i] = Txs(q)[i] /\ i \in 1..Len(q)
  BY <1>2
<1>4. f \in [0..Len(q) -> Int]
        /\ \A i \in 1..Len(q) : f[i] = f[i - 1] + Surplus(eff, need, a, Txs(q)[i])
  BY <1>1, <1>2 DEF Levels
<1>5. \A i \in 0..n : i \in 0..Len(q) /\ g[i] = f[i] /\ f[i] \in Int
  BY <1>2, <1>4
<1>6. g \in [0..n -> Int]
  BY <1>5
<1>7. Cut(Txs(q), 0)
  BY DEF Cut
<1>8. \A i \in 0..n : g[i] >= g[0]
  <2>1. 0 \in 0..n /\ 0 \in 0..Len(q) /\ \A i \in 0..n : 0 <= i
    BY <1>2
  <2> HIDE DEF g
  <2> QED
    BY <1>1, <1>2, <1>5, <1>7, <2>1
<1> HIDE DEF t, g
<1>9. ASSUME NEW i \in 1..n PROVE g[i] = g[i - 1] + Surplus(eff, need, a, t[i])
  <2>1. i \in 0..n /\ i - 1 \in 0..n /\ i \in 1..Len(q)
    BY <1>2
  <2> QED
    BY <1>3, <1>4, <1>5, <2>1
<1>10. Levels(eff, need, a, t, g)
  BY <1>3, <1>6, <1>9 DEF Levels
<1>11. Rises(eff, need, a, t)
  BY <1>3, <1>8, <1>10 DEF Rises
<1> QED
  BY <1>11 DEF t

LEMMA SuffixRises ==
  ASSUME NEW eff, NEW need, NEW a, NEW q \in Seq(EffectSet), NEW n \in 0..Len(q),
         Cut(Txs(q), n), RisesFromCuts(eff, need, a, Txs(q))
  PROVE  RisesFromCuts(eff, need, a, Txs(SubSeq(q, n + 1, Len(q))))
<1>1. PICK f : /\ Levels(eff, need, a, Txs(q), f)
               /\ \A i, k \in 0..Len(Txs(q)) : Cut(Txs(q), i) /\ i <= k => f[k] >= f[i]
  BY DEF RisesFromCuts
<1>2. /\ Len(Txs(q)) = Len(q) /\ Len(q) \in Nat /\ \A i \in 1..Len(q) : Txs(q)[i] = q[i].tx
  BY TxsFacts
<1> DEFINE r == SubSeq(q, n + 1, Len(q))
           t == Txs(r)
           m == Len(q) - n
           g == [i \in 0..m |-> f[n + i]]
<1>3. r \in Seq(EffectSet) /\ Len(r) = m /\ \A i \in 1..m : r[i] = q[n + i]
  BY <1>2, SubSeqFacts, Len(q) \in 0..Len(q), n <= Len(q)
<1> HIDE DEF r
<1>4. Len(t) = m /\ m \in Nat /\ \A i \in 1..m : n + i \in 1..Len(q) /\ t[i] = Txs(q)[n + i]
  <2>1. Len(t) = Len(r) /\ \A i \in 1..Len(r) : t[i] = r[i].tx
    BY <1>3, TxsFacts
  <2>2. m \in Nat /\ \A i \in 1..m : n + i \in 1..Len(q)
    BY <1>2
  <2> HIDE DEF t
  <2> QED
    BY <1>2, <1>3, <2>1, <2>2
<1>5. f \in [0..Len(q) -> Int]
        /\ \A i \in 1..Len(q) : f[i] = f[i - 1] + Surplus(eff, need, a, Txs(q)[i])
  BY <1>1, <1>2 DEF Levels
<1>6. \A i \in 0..m : n + i \in 0..Len(q) /\ g[i] = f[n + i] /\ f[n + i] \in Int
  BY <1>2, <1>5
<1>7. g \in [0..m -> Int]
  BY <1>6
<1> HIDE DEF t, g, m
<1>8. ASSUME NEW i \in 1..m PROVE g[i] = g[i - 1] + Surplus(eff, need, a, t[i])
  <2>1. i \in 0..m /\ i - 1 \in 0..m /\ n + i \in 1..Len(q) /\ n + (i - 1) = (n + i) - 1
    BY <1>2, <1>4
  <2>2. g[i] = f[n + i] /\ g[i - 1] = f[(n + i) - 1]
    BY <1>6, <2>1
  <2>3. f[n + i] = f[(n + i) - 1] + Surplus(eff, need, a, Txs(q)[n + i])
    BY <1>5, <2>1
  <2> QED
    BY <1>4, <2>2, <2>3
<1>9. Levels(eff, need, a, t, g)
  BY <1>4, <1>7, <1>8 DEF Levels
<1>10. ASSUME NEW i \in 0..m, NEW k \in 0..m, Cut(t, i), i <= k PROVE g[k] >= g[i]
  <2>1. Cut(Txs(q), n + i)
    <3>1. CASE i = 0
      BY <3>1, n + 0 = n
    <3>2. CASE i = m
      BY <1>2, <3>2 DEF Cut, m
    <3>3. CASE i # 0 /\ i # m
      <4>1. i \in 1..m /\ i + 1 \in 1..m /\ n + (i + 1) = (n + i) + 1
        BY <1>4, <3>3
      <4>2. t[i] = Txs(q)[n + i] /\ t[i + 1] = Txs(q)[(n + i) + 1]
        BY <1>4, <4>1
      <4>3. ChainOf(t[i]) = None \/ ChainOf(t[i]) # ChainOf(t[i + 1])
        BY <1>4, <1>10, <3>3 DEF Cut
      <4> QED
        BY <4>2, <4>3 DEF Cut
    <3> QED
      BY <3>1, <3>2, <3>3
  <2>2. n + i \in 0..Len(q) /\ n + k \in 0..Len(q) /\ n + i <= n + k
    BY <1>4, <1>6, <1>10
  <2>3. f[n + k] >= f[n + i]
    BY <1>1, <1>2, <2>1, <2>2
  <2> QED
    BY <1>6, <2>3
<1>11. RisesFromCuts(eff, need, a, t)
  BY <1>4, <1>9, <1>10 DEF RisesFromCuts
<1> QED
  BY <1>11 DEF t, r

LEMMA ProposeKeeps == ASSUME IInv, Propose PROVE IInv'
<1>0. TypeInv /\ PlaceInv /\ AckInv /\ BatchType /\ OpenInv /\ FlightInv
  BY DEF IInv, TypeInv
<1> DEFINE n == ChainBoundary(Min({Len(open), BatchMax}))
           cut == SubSeq(open, 1, n)
           who == [i \in 1..n |-> cut[i].tx]
           one == [id |-> batch, effects |-> cut]
           flight == [id |-> batch, slots |-> who]
           F == Len(inflight)
           P == Len(proposals)
<1>1. /\ open # <<>> /\ F < InFlightMax
      /\ proposals' = Append(proposals, one)
      /\ inflight' = Append(inflight, flight)
      /\ batch' = batch + 1 /\ open' = SubSeq(open, n + 1, Len(open))
      /\ UNCHANGED <<left, script, queue, slots, ready, columns, speculative, remaining,
                     held, commits, log, outbox, taken, judged, committed, applied, sealed>>
  BY DEF Propose, client, money, counters
<1>t. /\ open \in Seq(EffectSet) /\ proposals \in Seq(Proposals) /\ inflight \in Seq(Flights)
      /\ batch \in Nat /\ Len(open) \in Nat /\ F \in Nat /\ P \in Nat
  BY <1>0 DEF BatchType
<1>2. n \in 1..Len(open) /\ n <= BatchMax /\ Cut(Txs(open), n)
  BY <1>0, <1>t, <1>1, BoundaryIs DEF OpenInv
<1> HIDE DEF n
<1>3. cut \in Seq(EffectSet) /\ Len(cut) = n /\ \A i \in 1..n : cut[i] = open[i]
  <2>1. 0 \in 0..Len(open) /\ n \in 0..Len(open) /\ 0 <= n /\ n - 0 = n /\ 0 + 1 = 1
    BY <1>t, <1>2
  <2>2. /\ SubSeq(open, 0 + 1, n) \in Seq(EffectSet) /\ Len(SubSeq(open, 0 + 1, n)) = n - 0
        /\ \A i \in 1..(n - 0) : SubSeq(open, 0 + 1, n)[i] = open[0 + i]
    BY <1>t, <2>1, SubSeqFacts
  <2>3. \A i \in 1..n : 0 + i = i
    OBVIOUS
  <2> QED
    BY <2>1, <2>2, <2>3
<1>4. /\ open' \in Seq(EffectSet) /\ Len(open') = Len(open) - n
      /\ \A i \in 1..(Len(open) - n) : open'[i] = open[n + i] /\ n + i \in 1..Len(open)
  <2>1. n \in 0..Len(open) /\ Len(open) \in 0..Len(open) /\ n <= Len(open)
    BY <1>t, <1>2
  <2>2. /\ SubSeq(open, n + 1, Len(open)) \in Seq(EffectSet)
        /\ Len(SubSeq(open, n + 1, Len(open))) = Len(open) - n
        /\ \A i \in 1..(Len(open) - n) : SubSeq(open, n + 1, Len(open))[i] = open[n + i]
    BY <1>t, <2>1, SubSeqFacts
  <2>3. \A i \in 1..(Len(open) - n) : n + i \in 1..Len(open)
    BY <1>t, <1>2
  <2> QED
    BY <1>1, <2>2, <2>3
<1> HIDE DEF cut
<1>5. /\ who \in Seq(Reqs) /\ Len(who) = n /\ who # <<>>
      /\ \A i \in 1..n : who[i] = open[i].tx /\ i \in 1..Len(open)
  <2>1. \A i \in 1..n : i \in 1..Len(open) /\ open[i].tx \in Reqs
    BY <1>t, <1>2, TxsFacts
  <2>2. n \in Nat /\ n >= 1
    BY <1>2
  <2>3. who \in Seq(Reqs) /\ Len(who) = n /\ \A i \in 1..n : who[i] = open[i].tx
    BY <1>3, <2>1, <2>2
  <2>4. who # <<>>
    BY <2>2, <2>3
  <2> QED
    BY <2>1, <2>3, <2>4
<1> HIDE DEF who
<1>6. one \in Proposals /\ one.id = batch /\ one.effects = cut
        /\ flight \in Flights /\ flight.id = batch /\ flight.slots = who
  BY <1>t, <1>3, <1>5 DEF Proposals, Flights
<1> HIDE DEF one, flight
<1>7. /\ proposals' \in Seq(Proposals) /\ Len(proposals') = P + 1 /\ proposals'[P + 1] = one
      /\ \A k \in 1..P : proposals'[k] = proposals[k]
  BY <1>t, <1>1, <1>6, AppendFacts
<1>8. /\ inflight' \in Seq(Flights) /\ Len(inflight') = F + 1 /\ inflight'[F + 1] = flight
      /\ \A k \in 1..F : inflight'[k] = inflight[k]
  BY <1>t, <1>1, <1>6, AppendFacts
<1>9. Decided' = Decided /\ Answers' = Answers /\ Mid' = Mid
  BY <1>1 DEF Decided, Answers, Mid
<1>10. OpenInv'
  <2>1. WholeUnits(open')
    <3>1. n \in 0..Len(open)
      BY <1>t, <1>2
    <3>2. WholeUnits(SubSeq(open, n + 1, Len(open)))
      BY <1>0, <1>t, <1>2, <3>1, SuffixWhole DEF OpenInv
    <3> QED
      BY <1>1, <3>2
  <2>2. \A i \in 1..Len(open') : open'[i].tx \in Decided
    BY <1>0, <1>4 DEF OpenInv
  <2>3. ASSUME NEW i \in 1..Len(open'), NEW j \in 1..Len(open'), open'[i].tx = open'[j].tx
        PROVE  i = j
    <3>1. n + i \in 1..Len(open) /\ n + j \in 1..Len(open) /\ open[n + i].tx = open[n + j].tx
      BY <1>4, <2>3
    <3>2. n + i = n + j
      BY <1>0, <3>1 DEF OpenInv
    <3> QED
      BY <1>2, <1>t, <3>2
  <2> QED
    BY <1>9, <2>1, <2>2, <2>3 DEF OpenInv, WholeUnits, Spans
<1> DEFINE fl == inflight'
<1>11. FlightInv'
  <2>0. F < batch
    BY <1>0 DEF FlightInv
  <2>a. \A k \in 1..F : inflight[k].id = batch - F + k - 1 /\ inflight[k].slots # <<>>
    BY <1>0 DEF FlightInv
  <2>b. \A k \in 1..F : \A i \in 1..Len(inflight[k].slots) :
             /\ inflight[k].slots[i] \in Decided
             /\ \A j \in 1..Len(open) : open[j].tx # inflight[k].slots[i]
    BY <1>0 DEF FlightInv
  <2>c. \A k, m \in 1..F :
             \A i \in 1..Len(inflight[k].slots), j \in 1..Len(inflight[m].slots) :
               inflight[k].slots[i] = inflight[m].slots[j] => k = m /\ i = j
    BY <1>0 DEF FlightInv
  <2>1. Len(fl) = F + 1 /\ fl[F + 1] = flight /\ \A k \in 1..F : fl[k] = inflight[k]
    BY <1>8
  <2>d. \A k : k \in 1..(F + 1) <=> k \in 1..F \/ k = F + 1
    BY <1>t
  <2>2. Len(fl) < batch + 1 /\ Len(fl) <= InFlightMax
    <3>1. InFlightMax \in Nat
      BY CommitAssumption
    <3> QED
      BY <1>1, <1>t, <2>0, <2>1, <3>1
  <2> HIDE DEF fl
  <2>3. \A k \in 1..(F + 1) : fl[k].id = (batch + 1) - (F + 1) + k - 1 /\ fl[k].slots # <<>>
    <3>1. \A k \in 1..F : fl[k].id = (batch + 1) - (F + 1) + k - 1 /\ fl[k].slots # <<>>
      <4> SUFFICES ASSUME NEW k \in 1..F
                   PROVE  fl[k].id = (batch + 1) - (F + 1) + k - 1 /\ fl[k].slots # <<>>
        OBVIOUS
      <4>1. fl[k] = inflight[k] /\ inflight[k].id = batch - F + k - 1 /\ inflight[k].slots # <<>>
        BY <2>1, <2>a
      <4>2. batch - F + k - 1 = (batch + 1) - (F + 1) + k - 1
        BY <1>t
      <4> QED
        BY <4>1, <4>2
    <3>2. fl[F + 1].id = (batch + 1) - (F + 1) + (F + 1) - 1 /\ fl[F + 1].slots # <<>>
      BY <1>5, <1>6, <1>t, <2>1
    <3> QED
      BY <2>d, <3>1, <3>2
  <2>4. \A k \in 1..(F + 1) : \A i \in 1..Len(fl[k].slots) : fl[k].slots[i] \in Decided
    <3>1. \A i \in 1..n : who[i] \in Decided
      BY <1>0, <1>5 DEF OpenInv
    <3> QED
      BY <1>5, <1>6, <2>b, <2>1, <2>d, <3>1
  <2>5. ASSUME NEW k \in 1..(F + 1), NEW i \in 1..Len(fl[k].slots), NEW j \in 1..Len(open')
        PROVE  open'[j].tx # fl[k].slots[i]
    <3>1. open'[j] = open[n + j] /\ n + j \in 1..Len(open)
      BY <1>4
    <3>2. CASE k \in 1..F
      BY <2>b, <2>1, <3>1, <3>2
    <3>3. CASE k = F + 1
      <4>1. fl[k].slots[i] = open[i].tx /\ i \in 1..Len(open) /\ i <= n
        BY <1>5, <1>6, <2>1, <3>3
      <4>2. i # n + j
        BY <1>2, <1>4, <1>t, <4>1
      <4> QED
        BY <1>0, <3>1, <4>1, <4>2 DEF OpenInv
    <3> QED
      BY <2>d, <3>2, <3>3
  <2>6. ASSUME NEW k \in 1..(F + 1), NEW m \in 1..(F + 1),
               NEW i \in 1..Len(fl[k].slots), NEW j \in 1..Len(fl[m].slots),
               fl[k].slots[i] = fl[m].slots[j]
        PROVE  k = m /\ i = j
    <3>1. CASE k \in 1..F /\ m \in 1..F
      <4>1. fl[k] = inflight[k] /\ fl[m] = inflight[m]
        BY <2>1, <3>1
      <4> QED
        BY <2>c, <2>6, <3>1, <4>1
    <3>2. ~(k \in 1..F /\ m = F + 1)
      <4> SUFFICES ASSUME k \in 1..F, m = F + 1 PROVE FALSE
        OBVIOUS
      <4>1. fl[k] = inflight[k] /\ fl[m].slots = who
        BY <1>6, <2>1
      <4>2. fl[m].slots[j] = open[j].tx /\ j \in 1..Len(open)
        BY <1>5, <4>1
      <4> QED
        BY <2>b, <2>6, <4>1, <4>2
    <3>3. ~(k = F + 1 /\ m \in 1..F)
      <4> SUFFICES ASSUME m \in 1..F, k = F + 1 PROVE FALSE
        OBVIOUS
      <4>1. fl[m] = inflight[m] /\ fl[k].slots = who
        BY <1>6, <2>1
      <4>2. fl[k].slots[i] = open[i].tx /\ i \in 1..Len(open)
        BY <1>5, <4>1
      <4> QED
        BY <2>b, <2>6, <4>1, <4>2
    <3>4. CASE k = F + 1 /\ m = F + 1
      <4>1. open[i].tx = open[j].tx /\ i \in 1..Len(open) /\ j \in 1..Len(open)
        BY <1>5, <1>6, <2>1, <2>6, <3>4
      <4> QED
        BY <1>0, <3>4, <4>1 DEF OpenInv
    <3> QED
      BY <2>d, <3>1, <3>2, <3>3, <3>4
  <2>7. inflight' = fl /\ Len(fl) = F + 1 /\ batch' = batch + 1 /\ Decided' = Decided
    BY <1>1, <1>9, <2>1 DEF fl
  <2> HIDE DEF F
  <2> QED
    <3>1. Len(inflight') < batch' /\ Len(inflight') <= InFlightMax
      BY <2>2, <2>7
    <3>2. \A k \in 1..Len(inflight') :
            /\ inflight'[k].id = batch' - Len(inflight') + k - 1
            /\ inflight'[k].slots # <<>>
      BY <2>3, <2>7
    <3>3. \A k \in 1..Len(inflight') : \A i \in 1..Len(inflight'[k].slots) :
            /\ inflight'[k].slots[i] \in Decided'
            /\ \A j \in 1..Len(open') : open'[j].tx # inflight'[k].slots[i]
      BY <2>4, <2>5, <2>7
    <3>4. \A k, m \in 1..Len(inflight') :
            \A i \in 1..Len(inflight'[k].slots), j \in 1..Len(inflight'[m].slots) :
              inflight'[k].slots[i] = inflight'[m].slots[j] => k = m /\ i = j
      BY <2>6, <2>7
    <3> QED
      BY <3>1, <3>2, <3>3, <3>4 DEF FlightInv
<1>12. (~sealed => RaftInv)'
  <2> SUFFICES ASSUME ~sealed, RaftInv PROVE RaftInv'
    BY <1>1 DEF IInv
  <2> DEFINE ps == proposals'
  <2> HIDE DEF Mid
  <2>0. /\ P <= F
        /\ \A k \in 1..P : proposals[k].id = batch - P + k - 1 /\ Matches(proposals[k])
        /\ \A k \in 1..Len(Mid) :
             /\ Mid[k].id \in (batch - F)..(batch - P - 1)
             /\ Matches(Mid[k])
        /\ \A k, m \in 1..Len(Mid) : Mid[k].id = Mid[m].id => k = m
    BY DEF RaftInv
  <2>1. /\ Len(fl) = F + 1 /\ fl[F + 1] = flight /\ \A k \in 1..F : fl[k] = inflight[k]
        /\ Len(ps) = P + 1 /\ ps[P + 1] = one /\ \A k \in 1..P : ps[k] = proposals[k]
    BY <1>7, <1>8
  <2>d. \A k : k \in 1..(F + 1) <=> k \in 1..F \/ k = F + 1
    BY <1>t
  <2>e. \A k : k \in 1..(P + 1) <=> k \in 1..P \/ k = P + 1
    BY <1>t
  <2>f. \A k \in 1..F : inflight[k].id # batch
    <3>1. \A k \in 1..F : inflight[k].id = batch - F + k - 1
      BY <1>0 DEF FlightInv
    <3> QED
      BY <1>t, <3>1
  <2> DEFINE M2(x) == \A k \in 1..Len(fl) :
                        fl[k].id = x.id =>
                          /\ Len(x.effects) = Len(fl[k].slots)
                          /\ \A i \in 1..Len(x.effects) : x.effects[i].tx = fl[k].slots[i]
  <2>u. UNCHANGED Mid /\ inflight' = fl /\ proposals' = ps /\ batch' = batch + 1
    BY <1>1, <1>9
  <2> HIDE DEF fl, ps
  <2>2. ASSUME NEW x, Matches(x), x.id # batch PROVE M2(x)
    BY <1>6, <2>1, <2>2, <2>d DEF Matches
  <2>3. M2(one)
    <3>1. ASSUME NEW k \in 1..Len(fl), fl[k].id = one.id
          PROVE  /\ Len(cut) = Len(fl[k].slots)
                 /\ \A i \in 1..Len(cut) : cut[i].tx = fl[k].slots[i]
      <4>1. k = F + 1
        BY <1>6, <2>1, <2>d, <2>f, <3>1
      <4>2. fl[k].slots = who
        BY <1>6, <2>1, <4>1
      <4> QED
        BY <1>3, <1>5, <4>2
    <3> QED
      BY <1>6, <3>1
  <2> HIDE DEF M2
  <2>4. \A k \in 1..(P + 1) : ps[k].id = (batch + 1) - (P + 1) + k - 1 /\ M2(ps[k])
    <3>1. ASSUME NEW k \in 1..P PROVE ps[k].id = (batch + 1) - (P + 1) + k - 1 /\ M2(ps[k])
      <4>1. ps[k] = proposals[k] /\ proposals[k].id = batch - P + k - 1 /\ Matches(proposals[k])
        BY <2>0, <2>1
      <4>2. proposals[k].id # batch /\ batch - P + k - 1 = (batch + 1) - (P + 1) + k - 1
        BY <1>t, <4>1
      <4> QED
        BY <2>2, <4>1, <4>2
    <3>2. ps[P + 1].id = (batch + 1) - (P + 1) + (P + 1) - 1
      BY <1>6, <1>t, <2>1
    <3>3. M2(ps[P + 1])
      BY <2>1, <2>3
    <3> QED
      BY <2>e, <3>1, <3>2, <3>3
  <2>5. \A k \in 1..Len(Mid) : M2(Mid[k])
    <3> SUFFICES ASSUME NEW k \in 1..Len(Mid) PROVE M2(Mid[k])
      OBVIOUS
    <3>1. Mid[k].id \in (batch - F)..(batch - P - 1) /\ Matches(Mid[k])
      BY <2>0
    <3>2. Mid[k].id # batch
      BY <1>t, <3>1
    <3> QED
      BY <2>2, <3>1, <3>2
  <2>6. \A k \in 1..Len(Mid) : Mid[k].id \in ((batch + 1) - (F + 1))..((batch + 1) - (P + 1) - 1)
    <3>1. (batch + 1) - (F + 1) = batch - F /\ (batch + 1) - (P + 1) - 1 = batch - P - 1
      BY <1>t
    <3> QED
      BY <2>0, <3>1
  <2> HIDE DEF F, P
  <2>7. Len(proposals') <= Len(inflight')
    BY <1>t, <2>0, <2>1, <2>u
  <2>8. \A k \in 1..Len(proposals') :
            proposals'[k].id = batch' - Len(proposals') + k - 1 /\ Matches(proposals[k])'
    BY <2>1, <2>4, <2>u DEF Matches, M2
  <2>9. \A k \in 1..Len(Mid') :
            /\ Mid'[k].id \in (batch' - Len(inflight'))..(batch' - Len(proposals') - 1)
            /\ Matches(Mid[k])'
    BY <2>1, <2>5, <2>6, <2>u DEF Matches, M2
  <2>10. \A k, j \in 1..Len(Mid') : Mid'[k].id = Mid'[j].id => k = j
    BY <2>0, <2>u
  <2> QED
    BY <2>7, <2>8, <2>9, <2>10 DEF RaftInv
<1>13. PromiseInv'
  <2>1. PICK eff, need : Promises(eff) /\ Covered(eff, need)
    BY DEF IInv, PromiseInv
  <2>2. Promises(eff)'
    <3>1. EffectsOf(eff, open)
      BY <2>1 DEF Promises
    <3>2. EffectsOf(eff, cut) /\ EffectsOf(eff, open')
      <4>1. \A i \in 1..n : cut[i] = eff[cut[i].tx]
        BY <1>3, <1>5, <3>1 DEF EffectsOf
      <4>2. \A i \in 1..Len(open') : open'[i] = eff[open'[i].tx]
        BY <1>4, <3>1 DEF EffectsOf
      <4> QED
        BY <1>3, <4>1, <4>2 DEF EffectsOf
    <3>3. ASSUME ~sealed
          PROVE  /\ \A k \in 1..Len(proposals') : EffectsOf(eff, proposals'[k].effects)
                 /\ \A k \in 1..Len(Mid) : EffectsOf(eff, Mid[k].effects)
      <4>1. /\ \A k \in 1..P : EffectsOf(eff, proposals[k].effects)
            /\ \A k \in 1..Len(Mid) : EffectsOf(eff, Mid[k].effects)
        BY <2>1, <3>3 DEF Promises
      <4>e. \A k : k \in 1..(P + 1) <=> k \in 1..P \/ k = P + 1
        BY <1>t
      <4>2. \A k \in 1..(P + 1) : EffectsOf(eff, proposals'[k].effects)
        BY <1>6, <1>7, <3>2, <4>1, <4>e
      <4> QED
        BY <1>7, <4>1, <4>2
    <3> HIDE DEF Mid
    <3> QED
      BY <1>1, <1>9, <2>1, <3>2, <3>3 DEF Promises, EffectsOf
  <2>3. Covered(eff, need)'
    <3>1. n \in 0..Len(open)
      BY <1>t, <1>2
    <3>2. ASSUME NEW a \in Accounts PROVE RisesFromCuts(eff, need, a, Txs(open'))
      <4>1. RisesFromCuts(eff, need, a, Txs(open))
        BY <2>1 DEF Covered
      <4>2. RisesFromCuts(eff, need, a, Txs(SubSeq(open, n + 1, Len(open))))
        BY <1>t, <1>2, <3>1, <4>1, SuffixRises
      <4> QED
        BY <1>1, <4>2
    <3>3. ASSUME NEW a \in Accounts, NEW k \in 1..(F + 1) PROVE Rises(eff, need, a, inflight'[k].slots)
      <4>d. k \in 1..F \/ k = F + 1
        BY <1>t
      <4>1. CASE k \in 1..F
        BY <1>8, <2>1, <4>1 DEF Covered
      <4>2. CASE k = F + 1
        <5>1. RisesFromCuts(eff, need, a, Txs(open))
          BY <2>1 DEF Covered
        <5>2. Rises(eff, need, a, [i \in 1..n |-> open[i].tx])
          BY <1>t, <3>1, <5>1, PrefixRises
        <5>3. who = [i \in 1..n |-> open[i].tx]
          BY <1>3 DEF who
        <5> QED
          BY <1>6, <1>8, <4>2, <5>2, <5>3
      <4> QED
        BY <4>d, <4>1, <4>2
    <3>4. \A a \in Constrained :
            Available(columns'[a]) >= SumFunctionOnSet(NeedShare(eff, need, a), Decided')
      BY <1>1, <1>9, <2>1 DEF Covered
    <3>5. \A a \in Accounts : \A k \in 1..Len(inflight') : Rises(eff, need, a, inflight'[k].slots)
      BY <1>8, <3>3
    <3>6. need \in [Reqs -> Nat] /\ \A r \in Reqs : need[r] <= Reservation(eff[r])
      BY <2>1 DEF Covered
    <3> QED
      BY <3>2, <3>4, <3>5, <3>6 DEF Covered
  <2> QED
    BY <2>2, <2>3 DEF PromiseInv
<1>14. BatchType' /\ ClientType' /\ SlotType' /\ MoneyType' /\ AnswerType' /\ CountType'
  <2>1. BatchType'
    BY <1>0, <1>1, <1>4, <1>7, <1>8 DEF BatchType
  <2>2. ClientType' /\ SlotType' /\ MoneyType' /\ AnswerType' /\ CountType'
    BY <1>0, <1>1 DEF TypeInv, ClientType, SlotType, MoneyType, AnswerType, CountType
  <2> QED
    BY <2>1, <2>2
<1>15. PlaceInv' /\ AckInv' /\ LogInv' /\ CountInv' /\ Balanced'
  <2>1. PlaceInv' /\ AckInv'
    BY <1>0, <1>1, <1>9, PlaceFrame, AckFrame
  <2>2. LogInv' /\ CountInv'
    BY <1>1, <1>9, LogFrame, CountFrame DEF IInv
  <2>3. Balanced'
    BY <1>1 DEF IInv, Balanced
  <2> QED
    BY <2>1, <2>2, <2>3
<1> QED
  BY <1>10, <1>11, <1>12, <1>13, <1>14, <1>15 DEF IInv, TypeInv

-----------------------------------------------------------------------------
(* An answer, one request at a time.                                       *)

Standings == [columns : [Accounts -> Book], speculative : [Accounts -> Int],
              remaining : [Reqs -> Nat \cup {None}], outbox : Outboxes, slots : SUBSET Reqs,
              done : Nat, sealed : BOOLEAN]

\* One request answered: its promise is given back, its slot is free.
GaveBack(acc, e, r, outcome, new) ==
  /\ new \in Standings
  /\ new.speculative = [acc.speculative EXCEPT ![e.debit] = acc.speculative[e.debit] + Reservation(e)]
  /\ new.outbox = Emit(acc.outbox, Ack(r, outcome))
  /\ new.slots = acc.slots \ {r}
  /\ \A x \in Reqs : acc.remaining[x] # None => new.remaining[x] # None

LEMMA CommitOneIs ==
  ASSUME NEW acc \in Standings, NEW e \in EffectSet, NEW r \in Reqs, ~acc.sealed,
         MoveColumns(acc.columns, e).ok
  PROVE  LET new == CommitOne(acc, <<e, r>>)
         IN /\ GaveBack(acc, e, r, "committed", new)
            /\ ~new.sealed /\ new.done = acc.done + 1
            /\ new.columns = MoveColumns(acc.columns, e).cols
<1> DEFINE cols == MoveColumns(acc.columns, e).cols
           out == Emit(acc.outbox, Ack(r, "committed"))
           spec == [acc.speculative EXCEPT ![e.debit] = acc.speculative[e.debit] + Reservation(e)]
           rem == IF e.kind = "hold" THEN [acc.remaining EXCEPT ![e.tx] = e.amount] ELSE acc.remaining
           new == [acc EXCEPT !.columns = cols, !.speculative = spec, !.remaining = rem,
                              !.outbox = out, !.slots = acc.slots \ {r}, !.done = acc.done + 1]
<1>0. /\ acc.columns \in [Accounts -> Book] /\ acc.speculative \in [Accounts -> Int]
      /\ acc.remaining \in [Reqs -> Nat \cup {None}] /\ acc.outbox \in Outboxes
      /\ acc.slots \in SUBSET Reqs /\ acc.done \in Nat
  BY DEF Standings
<1>1. cols \in [Accounts -> Book]
  BY <1>0, MovedColumns
<1>2. out \in Outboxes
  <2>1. Ack(r, "committed") \in AckSet
    BY DEF Ack, AckSet
  <2> QED
    BY <1>0, <2>1, EmitSays
<1>3. e.debit \in Accounts /\ e.tx \in Reqs /\ e.amount \in Nat /\ Reservation(e) \in Nat
  BY ColumnsType DEF EffectSet
<1>4. spec \in [Accounts -> Int]
  BY <1>0, <1>3
<1>5. rem \in [Reqs -> Nat \cup {None}] /\ \A x \in Reqs : acc.remaining[x] # None => rem[x] # None
  <2>1. None \notin Nat
    BY CommitAssumption
  <2> QED
    BY <1>0, <1>3, <2>1
<1>6. CommitOne(acc, <<e, r>>) = new
  BY DEF CommitOne
<1> HIDE DEF cols, out, spec, rem
<1>7. acc.slots \ {r} \in SUBSET Reqs /\ acc.done + 1 \in Nat
  BY <1>0
<1>8. new \in Standings
  BY <1>1, <1>2, <1>4, <1>5, <1>7 DEF Standings
<1>9. /\ new.columns = cols /\ new.speculative = spec /\ new.remaining = rem /\ new.outbox = out
      /\ new.slots = acc.slots \ {r} /\ new.done = acc.done + 1
  BY DEF Standings
<1>10. new.sealed = acc.sealed
  BY DEF Standings
<1> HIDE DEF new
<1> QED
  BY <1>5, <1>6, <1>8, <1>9, <1>10 DEF GaveBack, cols, out, spec

LEMMA CommitOneStops ==
  ASSUME NEW acc \in Standings, NEW e \in EffectSet, NEW r \in Reqs,
         acc.sealed \/ ~MoveColumns(acc.columns, e).ok
  PROVE  LET new == CommitOne(acc, <<e, r>>)
         IN /\ new \in Standings /\ new.sealed /\ new.done = acc.done
            /\ new.columns = acc.columns /\ new.speculative = acc.speculative
            /\ new.remaining = acc.remaining /\ new.outbox = acc.outbox /\ new.slots = acc.slots
<1>1. CASE acc.sealed
  BY <1>1 DEF CommitOne
<1>2. CASE ~acc.sealed
  <2> DEFINE new == [acc EXCEPT !.sealed = TRUE, !.columns = acc.columns]
  <2>1. MoveColumns(acc.columns, e).cols = acc.columns
    BY <1>2 DEF MoveColumns
  <2>2. CommitOne(acc, <<e, r>>) = new
    BY <1>2, <2>1 DEF CommitOne
  <2>3. new \in Standings
    BY DEF Standings
  <2>4. /\ new.columns = acc.columns /\ new.speculative = acc.speculative /\ new.done = acc.done
        /\ new.remaining = acc.remaining /\ new.outbox = acc.outbox /\ new.slots = acc.slots
    BY DEF Standings
  <2>5. new.sealed
    BY DEF Standings
  <2> HIDE DEF new
  <2> QED
    BY <2>2, <2>3, <2>4, <2>5
<1> QED
  BY <1>1, <1>2

LEMMA RollBackOneIs ==
  ASSUME NEW acc \in Standings, NEW e \in EffectSet, NEW r \in Reqs,
         Resolves(e) => e.ref \in Reqs /\ acc.remaining[e.ref] # None
  PROVE  LET new == RollBackOne(acc, <<e, r>>)
         IN /\ GaveBack(acc, e, r, "failed", new)
            /\ new.sealed = acc.sealed /\ new.done = acc.done /\ new.columns = acc.columns
<1> DEFINE out == Emit(acc.outbox, Ack(r, "failed"))
           spec == [acc.speculative EXCEPT ![e.debit] = acc.speculative[e.debit] + Reservation(e)]
           rem == IF Resolves(e) THEN [acc.remaining EXCEPT ![e.ref] = acc.remaining[e.ref] + e.amount]
                  ELSE acc.remaining
           new == [acc EXCEPT !.speculative = spec, !.remaining = rem, !.outbox = out,
                              !.slots = acc.slots \ {r}]
<1>0. /\ acc.columns \in [Accounts -> Book] /\ acc.speculative \in [Accounts -> Int]
      /\ acc.remaining \in [Reqs -> Nat \cup {None}] /\ acc.outbox \in Outboxes
      /\ acc.slots \in SUBSET Reqs /\ acc.done \in Nat
  BY DEF Standings
<1>2. out \in Outboxes
  <2>1. Ack(r, "failed") \in AckSet
    BY DEF Ack, AckSet
  <2> QED
    BY <1>0, <2>1, EmitSays
<1>3. e.debit \in Accounts /\ e.tx \in Reqs /\ e.amount \in Nat /\ Reservation(e) \in Nat
  BY ColumnsType DEF EffectSet
<1>4. spec \in [Accounts -> Int]
  BY <1>0, <1>3
<1>5. rem \in [Reqs -> Nat \cup {None}] /\ \A x \in Reqs : acc.remaining[x] # None => rem[x] # None
  <2>1. None \notin Nat
    BY CommitAssumption
  <2>2. CASE Resolves(e)
    <3>1. acc.remaining[e.ref] \in Nat
      BY <1>0, <2>2
    <3>2. acc.remaining[e.ref] + e.amount \in Nat
      BY <1>3, <3>1
    <3> DEFINE v == acc.remaining[e.ref] + e.amount
    <3>3. v \in Nat /\ rem = [acc.remaining EXCEPT ![e.ref] = v]
      BY <2>2, <3>2
    <3> HIDE DEF v, rem
    <3> QED
      BY <1>0, <2>1, <2>2, <3>3
  <2>3. CASE ~Resolves(e)
    BY <1>0, <2>3
  <2> QED
    BY <2>2, <2>3
<1>6. RollBackOne(acc, <<e, r>>) = new
  <2> DEFINE mid == [acc EXCEPT !.speculative = spec, !.remaining = rem]
  <2>1. GiveBackOverlays(acc, e) = mid
    BY DEF GiveBackOverlays
  <2>2. RollBackOne(acc, <<e, r>>)
          = [mid EXCEPT !.outbox = Emit(mid.outbox, Ack(r, "failed")), !.slots = mid.slots \ {r}]
    BY <2>1 DEF RollBackOne
  <2> HIDE DEF spec, rem
  <2>3. mid.outbox = acc.outbox /\ mid.slots = acc.slots
    BY DEF Standings
  <2>4. [mid EXCEPT !.outbox = out, !.slots = acc.slots \ {r}] = new
    <3> HIDE DEF out
    <3> QED
      BY DEF Standings
  <2> HIDE DEF mid
  <2> QED
    BY <2>2, <2>3, <2>4
<1> HIDE DEF out, spec, rem
<1>7. acc.slots \ {r} \in SUBSET Reqs
  BY <1>0
<1>8. new \in Standings
  BY <1>2, <1>4, <1>5, <1>7 DEF Standings
<1>9. /\ new.columns = acc.columns /\ new.speculative = spec /\ new.remaining = rem
      /\ new.outbox = out /\ new.slots = acc.slots \ {r} /\ new.done = acc.done
  BY DEF Standings
<1>10. new.sealed = acc.sealed
  BY DEF Standings
<1> HIDE DEF new
<1> QED
  BY <1>5, <1>6, <1>8, <1>9, <1>10 DEF GaveBack, out, spec

\* What the answers to some of a batch's requests have come to.
Settled(acc, eff, gone, outcome) ==
  /\ acc \in Standings
  /\ acc.slots = slots \ gone
  /\ Said(acc.outbox) = Said(outbox) \cup {Ack(r, outcome) : r \in gone}
  /\ DoubleEntry(acc.columns)
  /\ \A a \in Accounts : acc.speculative[a] = -SumFunctionOnSet(Share(eff, a), Decided \ gone)
  /\ \A r \in Reqs : remaining[r] # None => acc.remaining[r] # None
\* What an account has beyond what is needed of it.
Slack(cols, eff, need, a, gone) ==
  Available(cols[a]) - SumFunctionOnSet(NeedShare(eff, need, a), Decided \ gone)

\* The overlays and needs of the requests that are left, with one less.
LEMMA LeftFacts ==
  ASSUME TypeInv, NEW eff \in [Reqs -> EffectSet], NEW need \in [Reqs -> Nat],
         NEW D, D \subseteq Decided
  PROVE  /\ IsFiniteSet(D) /\ D \subseteq Reqs
         /\ \A a \in Accounts : Ints(Share(eff, a), D) /\ Ints(NeedShare(eff, need, a), D)
         /\ \A a \in Accounts : \A x \in Reqs : NeedShare(eff, need, a)[x] \in Nat
         /\ \A a \in Accounts : \A x \in Reqs : Share(eff, a)[x] = Debited(eff[x], a)
<1>1. IsFiniteSet(D) /\ D \subseteq Reqs
  <2>1. IsFiniteSet(slots) /\ slots \subseteq Reqs
    BY DEF TypeInv, SlotType
  <2>2. D \subseteq slots
    BY DEF Decided
  <2> QED
    BY <2>1, <2>2, FS_Subset
<1>2. ASSUME NEW a \in Accounts, NEW x \in Reqs
      PROVE  Share(eff, a)[x] \in Nat /\ NeedShare(eff, need, a)[x] \in Nat
               /\ Share(eff, a)[x] = Debited(eff[x], a)
  <2>1. Reservation(eff[x]) \in Nat /\ need[x] \in Nat
    BY ColumnsType
  <2> QED
    BY <2>1 DEF Share, NeedShare, Debited
<1>3. \A a \in Accounts : Ints(Share(eff, a), D) /\ Ints(NeedShare(eff, need, a), D)
  <2> SUFFICES ASSUME NEW a \in Accounts
               PROVE  Ints(Share(eff, a), D) /\ Ints(NeedShare(eff, need, a), D)
    OBVIOUS
  <2>1. \A x \in D : Share(eff, a)[x] \in Int /\ NeedShare(eff, need, a)[x] \in Int
    BY <1>1, <1>2
  <2> QED
    BY <2>1 DEF Ints
<1> QED
  BY <1>1, <1>2, <1>3

LEMMA ShareLess ==
  ASSUME TypeInv, NEW eff \in [Reqs -> EffectSet], NEW D, D \subseteq Decided, NEW r \in D,
         NEW a \in Accounts
  PROVE  /\ SumFunctionOnSet(Share(eff, a), D)
              = Debited(eff[r], a) + SumFunctionOnSet(Share(eff, a), D \ {r})
         /\ SumFunctionOnSet(Share(eff, a), D) \in Int
         /\ SumFunctionOnSet(Share(eff, a), D \ {r}) \in Int
<1> DEFINE s == Share(eff, a)
           D2 == D \ {r}
           z == [x \in Reqs |-> 0]
<1>0. z \in [Reqs -> Nat] /\ D2 \subseteq Decided
  OBVIOUS
<1> HIDE DEF z
<1>1. IsFiniteSet(D) /\ Ints(s, D) /\ s[r] = Debited(eff[r], a)
  BY <1>0, LeftFacts
<1>2. SumFunctionOnSet(s, D) = s[r] + SumFunctionOnSet(s, D2)
  <2> HIDE DEF s
  <2> QED
    BY <1>1, SumRemove
<1> HIDE DEF D2
<1>3. IsFiniteSet(D2) /\ Ints(s, D2)
  BY <1>0, LeftFacts
<1> HIDE DEF s
<1>4. SumFunctionOnSet(s, D) \in Int /\ SumFunctionOnSet(s, D2) \in Int
  BY <1>1, <1>3, SumType
<1> QED
  BY <1>1, <1>2, <1>4 DEF s, D2

LEMMA NeedLess ==
  ASSUME TypeInv, NEW eff \in [Reqs -> EffectSet], NEW need \in [Reqs -> Nat],
         NEW D, D \subseteq Decided, NEW r \in D, NEW a \in Accounts
  PROVE  /\ SumFunctionOnSet(NeedShare(eff, need, a), D)
              = NeedShare(eff, need, a)[r] + SumFunctionOnSet(NeedShare(eff, need, a), D \ {r})
         /\ SumFunctionOnSet(NeedShare(eff, need, a), D) \in Int
         /\ SumFunctionOnSet(NeedShare(eff, need, a), D \ {r}) \in Int
         /\ NeedShare(eff, need, a)[r] \in Nat
<1> DEFINE s == NeedShare(eff, need, a)
           D2 == D \ {r}
<1>0. D2 \subseteq Decided
  OBVIOUS
<1>1. IsFiniteSet(D) /\ Ints(s, D) /\ s[r] \in Nat
  BY LeftFacts
<1>2. SumFunctionOnSet(s, D) = s[r] + SumFunctionOnSet(s, D2)
  <2> HIDE DEF s
  <2> QED
    BY <1>1, SumRemove
<1> HIDE DEF D2
<1>3. IsFiniteSet(D2) /\ Ints(s, D2)
  BY <1>0, LeftFacts
<1> HIDE DEF s
<1>4. SumFunctionOnSet(s, D) \in Int /\ SumFunctionOnSet(s, D2) \in Int
  BY <1>1, <1>3, SumType
<1> QED
  BY <1>1, <1>2, <1>4 DEF s, D2

\* Answering one more request gives back what its lane promised.
LEMMA SettleOne ==
  ASSUME TypeInv, NEW eff, Promises(eff), NEW gone, NEW r \in Decided, r \notin gone,
         NEW outcome, Ack(r, outcome) \in AckSet,
         NEW acc, Settled(acc, eff, gone, outcome), NEW new,
         GaveBack(acc, eff[r], r, outcome, new), DoubleEntry(new.columns)
  PROVE  Settled(new, eff, gone \cup {r}, outcome)
<1>g. /\ new \in Standings
      /\ new.speculative = [acc.speculative EXCEPT ![eff[r].debit] = acc.speculative[eff[r].debit] + Reservation(eff[r])]
      /\ new.outbox = Emit(acc.outbox, Ack(r, outcome))
      /\ new.slots = acc.slots \ {r}
      /\ \A x \in Reqs : acc.remaining[x] # None => new.remaining[x] # None
  BY DEF GaveBack
<1>0. /\ acc.speculative \in [Accounts -> Int] /\ acc.outbox \in Outboxes
      /\ eff \in [Reqs -> EffectSet] /\ r \in Reqs
  BY DEF Settled, Standings, Promises, TypeInv, SlotType, Decided
<1>1. eff[r].debit \in Accounts /\ Reservation(eff[r]) \in Nat
  <2>1. eff[r] \in EffectSet
    BY <1>0
  <2> QED
    BY <2>1, ColumnsType DEF EffectSet
<1>2. new.slots = slots \ (gone \cup {r})
  BY <1>g DEF Settled
<1>3. Said(new.outbox) = Said(outbox) \cup {Ack(x, outcome) : x \in gone \cup {r}}
  <2>1. Ack(r, outcome) \in AckSet
    OBVIOUS
  <2>2. Said(new.outbox) = Said(acc.outbox) \cup {Ack(r, outcome)}
    BY <1>g, <1>0, <2>1, EmitSays
  <2>3. Said(acc.outbox) = Said(outbox) \cup {Ack(x, outcome) : x \in gone}
    BY DEF Settled
  <2> QED
    BY <2>2, <2>3
<1>4. ASSUME NEW a \in Accounts
      PROVE  new.speculative[a] = -SumFunctionOnSet(Share(eff, a), Decided \ (gone \cup {r}))
  <2> DEFINE big == SumFunctionOnSet(Share(eff, a), Decided \ gone)
             less == SumFunctionOnSet(Share(eff, a), Decided \ (gone \cup {r}))
  <2>1. big = Debited(eff[r], a) + less /\ big \in Int /\ less \in Int
    <3> DEFINE D == Decided \ gone
    <3>1. D \subseteq Decided /\ r \in D /\ D \ {r} = Decided \ (gone \cup {r})
      OBVIOUS
    <3> HIDE DEF D
    <3>2. /\ SumFunctionOnSet(Share(eff, a), D)
               = Debited(eff[r], a) + SumFunctionOnSet(Share(eff, a), D \ {r})
          /\ SumFunctionOnSet(Share(eff, a), D) \in Int
          /\ SumFunctionOnSet(Share(eff, a), D \ {r}) \in Int
      BY <1>0, <3>1, ShareLess
    <3> QED
      BY <3>1, <3>2 DEF D
  <2>2. acc.speculative[a] = -big
    BY DEF Settled
  <2> HIDE DEF big, less
  <2>3. new.speculative[a] = -less
    <3>1. CASE a = eff[r].debit
      <4>1. new.speculative[a] = acc.speculative[a] + Reservation(eff[r])
        BY <1>g, <1>0, <3>1
      <4>2. Debited(eff[r], a) = Reservation(eff[r])
        BY <3>1 DEF Debited
      <4> QED
        BY <1>1, <2>1, <2>2, <4>1, <4>2
    <3>2. CASE a # eff[r].debit
      <4>1. new.speculative[a] = acc.speculative[a]
        BY <1>g, <1>0, <1>1, <3>2
      <4>2. Debited(eff[r], a) = 0
        BY <3>2 DEF Debited
      <4> QED
        BY <2>1, <2>2, <4>1, <4>2
    <3> QED
      BY <3>1, <3>2
  <2> QED
    BY <2>3 DEF less
<1>5. \A x \in Reqs : remaining[x] # None => new.remaining[x] # None
  BY <1>g DEF Settled
<1> QED
  BY <1>g, <1>2, <1>3, <1>4, <1>5 DEF Settled

\* The log replayed one effect further.
LEMMA ReplayNext ==
  ASSUME NEW s \in Seq(EffectSet), NEW n \in Nat, n + 1 <= Len(s)
  PROVE  Replayed(SubSeq(s, 1, n + 1)) = MoveColumns(Replayed(SubSeq(s, 1, n)), s[n + 1]).cols
<1> DEFINE u == SubSeq(s, 1, n)
           v == SubSeq(s, 1, n + 1)
<1>1. /\ u \in Seq(EffectSet) /\ Len(u) = n /\ \A i \in 1..n : u[i] = s[i]
  <2>1. 0 \in 0..Len(s) /\ n \in 0..Len(s) /\ 0 <= n /\ n - 0 = n /\ 0 + 1 = 1
    OBVIOUS
  <2>2. /\ SubSeq(s, 0 + 1, n) \in Seq(EffectSet) /\ Len(SubSeq(s, 0 + 1, n)) = n - 0
        /\ \A i \in 1..(n - 0) : SubSeq(s, 0 + 1, n)[i] = s[0 + i]
    BY <2>1, SubSeqFacts
  <2>3. \A i \in 1..n : 0 + i = i
    OBVIOUS
  <2> QED
    BY <2>1, <2>2, <2>3
<1>2. /\ v \in Seq(EffectSet) /\ Len(v) = n + 1 /\ \A i \in 1..(n + 1) : v[i] = s[i]
  <2> DEFINE m == n + 1
  <2>0. m \in Nat /\ m <= Len(s)
    OBVIOUS
  <2> HIDE DEF m
  <2>1. 0 \in 0..Len(s) /\ m \in 0..Len(s) /\ 0 <= m /\ m - 0 = m /\ 0 + 1 = 1
    BY <2>0
  <2>2. /\ SubSeq(s, 0 + 1, m) \in Seq(EffectSet) /\ Len(SubSeq(s, 0 + 1, m)) = m - 0
        /\ \A i \in 1..(m - 0) : SubSeq(s, 0 + 1, m)[i] = s[0 + i]
    BY <2>1, SubSeqFacts
  <2>3. \A i \in 1..m : 0 + i = i
    BY <2>0
  <2>4. SubSeq(s, 1, m) \in Seq(EffectSet) /\ Len(SubSeq(s, 1, m)) = m
          /\ \A i \in 1..m : SubSeq(s, 1, m)[i] = s[i]
    BY <2>1, <2>2, <2>3
  <2> QED
    BY <2>4 DEF m
<1> HIDE DEF u, v
<1>3. PICK f : /\ f[0] = Opening
               /\ \A i \in 1..Len(u) : f[i] = MoveColumns(f[i - 1], u[i]).cols
               /\ Replayed(u) = f[Len(u)]
  BY <1>1, ReplayTrace
<1>4. PICK g : /\ g[0] = Opening
               /\ \A i \in 1..Len(v) : g[i] = MoveColumns(g[i - 1], v[i]).cols
               /\ Replayed(v) = g[Len(v)]
  BY <1>2, ReplayTrace
<1> DEFINE T == {i \in Nat : i <= n => f[i] = g[i]}
<1>5. 0 \in T
  BY <1>3, <1>4
<1>6. ASSUME NEW i \in Nat, i \in T PROVE i + 1 \in T
  <2> SUFFICES ASSUME i + 1 <= n PROVE f[i + 1] = g[i + 1]
    OBVIOUS
  <2>1. i + 1 \in 1..n /\ i + 1 \in 1..(n + 1) /\ (i + 1) - 1 = i /\ f[i] = g[i]
    BY <1>6
  <2>2. f[i + 1] = MoveColumns(f[i], s[i + 1]).cols
    BY <1>1, <1>3, <2>1
  <2>3. g[i + 1] = MoveColumns(g[i], s[i + 1]).cols
    BY <1>2, <1>4, <2>1
  <2> QED
    BY <2>1, <2>2, <2>3
<1> HIDE DEF T
<1>7. Nat \subseteq T
  BY <1>5, <1>6, R!SetInduction
<1>8. f[n] = g[n]
  BY <1>7 DEF T
<1>9. n + 1 \in 1..(n + 1) /\ (n + 1) - 1 = n
  OBVIOUS
<1>10. g[n + 1] = MoveColumns(g[n], s[n + 1]).cols
  BY <1>2, <1>4, <1>9
<1> QED
  BY <1>1, <1>2, <1>3, <1>4, <1>8, <1>10 DEF u, v

Gone(q, d) == {q[j] : j \in 1..d}

LEMMA GoneNext ==
  ASSUME NEW q \in Seq(Reqs), Distinct(q), NEW d \in Nat, d + 1 <= Len(q)
  PROVE  Gone(q, d + 1) = Gone(q, d) \cup {q[d + 1]} /\ q[d + 1] \notin Gone(q, d) /\ q[d + 1] \in Reqs
<1>1. \A j : j \in 1..(d + 1) <=> j \in 1..d \/ j = d + 1
  OBVIOUS
<1>2. Gone(q, d + 1) = Gone(q, d) \cup {q[d + 1]}
  BY <1>1 DEF Gone
<1>3. q[d + 1] \notin Gone(q, d)
  <2> SUFFICES ASSUME NEW j \in 1..d, q[j] = q[d + 1] PROVE FALSE
    BY DEF Gone
  <2>1. j \in 1..Len(q) /\ d + 1 \in 1..Len(q) /\ j # d + 1
    OBVIOUS
  <2> QED
    BY <2>1 DEF Distinct
<1>4. d + 1 \in 1..Len(q)
  OBVIOUS
<1> QED
  BY <1>2, <1>3, <1>4

LEMMA StandingIs ==
  ASSUME TypeInv, Balanced, NEW eff, Promises(eff), NEW outcome
  PROVE  Settled(Standing, eff, {}, outcome) /\ Standing.done = 0 /\ ~Standing.sealed
           /\ Standing.columns = columns
<1>1. Standing \in Standings
  BY DEF Standing, Standings, TypeInv, MoneyType, SlotType, AnswerType
<1>2. /\ Standing.slots = slots /\ Standing.outbox = outbox /\ Standing.columns = columns
      /\ Standing.speculative = speculative /\ Standing.remaining = remaining
      /\ Standing.done = 0
  BY DEF Standing
<1>3. ~Standing.sealed
  BY DEF Standing
<1>4. Decided \ {} = Decided /\ {Ack(r, outcome) : r \in {}} = {}
  OBVIOUS
<1>5. \A a \in Accounts : speculative[a] = -SumFunctionOnSet(Share(eff, a), Decided)
  BY DEF Promises
<1> HIDE DEF Standing
<1>6. Settled(Standing, eff, {}, outcome)
  BY <1>1, <1>2, <1>4, <1>5 DEF Settled, Balanced
<1> QED
  BY <1>2, <1>3, <1>6

\* How far into its batch a commit came: all of it, or up to an effect the columns refuse.
CameTo(acc, i, d, eff, need, q) ==
  /\ d <= i /\ Settled(acc, eff, Gone(q, d), "committed") /\ acc.done = d
  /\ acc.sealed => d < i
  /\ ~acc.sealed => d = i
  /\ acc.columns = Replayed(SubSeq(log, 1, committed + d))
  /\ \A a \in Accounts : \A g : Levels(eff, need, a, q, g) =>
       Slack(acc.columns, eff, need, a, Gone(q, d)) = Slack(columns, eff, need, a, {}) + (g[d] - g[0])

LEMMA CommitNext ==
  ASSUME TypeInv, NEW eff, Promises(eff), NEW need \in [Reqs -> Nat], NEW q \in Seq(Reqs), Distinct(q),
         \A i \in 1..Len(q) : q[i] \in Decided /\ log[committed + i] = eff[q[i]],
         committed + Len(q) <= Len(log),
         NEW i \in Nat, i + 1 <= Len(q), NEW d \in Nat, NEW acc, CameTo(acc, i, d, eff, need, q)
  PROVE  LET new == CommitOne(acc, <<eff[q[i + 1]], q[i + 1]>>)
         IN \E e \in Nat : CameTo(new, i + 1, e, eff, need, q)
<1> DEFINE r == q[i + 1]
           e == eff[r]
           new == CommitOne(acc, <<e, r>>)
<1>0. /\ Settled(acc, eff, Gone(q, d), "committed") /\ acc.done = d /\ d <= i
      /\ acc.columns = Replayed(SubSeq(log, 1, committed + d))
      /\ \A a \in Accounts : \A g : Levels(eff, need, a, q, g) =>
           Slack(acc.columns, eff, need, a, Gone(q, d)) = Slack(columns, eff, need, a, {}) + (g[d] - g[0])
  BY DEF CameTo
<1>a. (acc.sealed => d < i) /\ (~acc.sealed => d = i)
  BY DEF CameTo
<1>1. /\ i + 1 \in 1..Len(q) /\ r \in Decided /\ r \in Reqs /\ eff \in [Reqs -> EffectSet]
      /\ e \in EffectSet /\ log[committed + (i + 1)] = e
  <2>1. i + 1 \in 1..Len(q)
    OBVIOUS
  <2>2. r \in Decided /\ r \in Reqs /\ log[committed + (i + 1)] = e
    BY <2>1
  <2>3. eff \in [Reqs -> EffectSet]
    BY DEF Promises
  <2> QED
    BY <2>1, <2>2, <2>3
<1>2. acc \in Standings
  BY <1>0 DEF Settled
<1> HIDE DEF r, e
<1>3. CASE acc.sealed \/ ~MoveColumns(acc.columns, e).ok
  <2> HIDE DEF new
  <2>1. /\ new \in Standings /\ new.done = acc.done
        /\ new.columns = acc.columns /\ new.speculative = acc.speculative
        /\ new.remaining = acc.remaining /\ new.outbox = acc.outbox /\ new.slots = acc.slots
    BY <1>1, <1>2, <1>3, CommitOneStops DEF new
  <2>2. new.sealed
    BY <1>1, <1>2, <1>3, CommitOneStops DEF new
  <2>3. Settled(new, eff, Gone(q, d), "committed")
    BY <1>0, <2>1 DEF Settled
  <2>4. d <= i + 1 /\ d < i + 1
    BY <1>0
  <2>5. CameTo(new, i + 1, d, eff, need, q)
    BY <1>0, <2>1, <2>2, <2>3, <2>4 DEF CameTo
  <2> QED
    BY <2>5 DEF new, e, r
<1>4. CASE ~acc.sealed /\ MoveColumns(acc.columns, e).ok
  <2>0. d = i
    BY <1>a, <1>4
  <2> HIDE DEF new
  <2>1. GaveBack(acc, e, r, "committed", new) /\ new.done = acc.done + 1
          /\ new.columns = MoveColumns(acc.columns, e).cols
    BY <1>1, <1>2, <1>4, CommitOneIs DEF new
  <2>2. ~new.sealed
    BY <1>1, <1>2, <1>4, CommitOneIs DEF new
  <2>3. Gone(q, d + 1) = Gone(q, d) \cup {r} /\ r \notin Gone(q, d)
    BY <2>0, GoneNext DEF r
  <2>4. acc.columns \in [Accounts -> Book] /\ DoubleEntry(acc.columns)
    BY <1>0, <1>2 DEF Standings, Settled
  <2>5. DoubleEntry(new.columns)
    BY <1>1, <2>1, <2>4, MovedBalance
  <2>6. Settled(new, eff, Gone(q, d) \cup {r}, "committed")
    <3> DEFINE gone == Gone(q, d)
               o == "committed"
    <3>1. r \in Decided /\ r \notin gone /\ Ack(r, o) \in AckSet /\ Settled(acc, eff, gone, o)
      BY <1>0, <1>1, <2>3 DEF Ack, AckSet
    <3>2. GaveBack(acc, eff[r], r, o, new)
      BY <2>1 DEF e
    <3> HIDE DEF gone, o
    <3>3. Settled(new, eff, gone \cup {r}, o)
      BY <2>5, <3>1, <3>2, SettleOne
    <3> QED
      BY <3>3 DEF gone, o
  <2>7. new.columns = Replayed(SubSeq(log, 1, committed + (d + 1)))
    <3>1. committed \in Nat /\ log \in Seq(EffectSet)
      BY DEF TypeInv, CountType, BatchType
    <3> DEFINE n == committed + d
    <3>2. n \in Nat /\ n + 1 = committed + (d + 1) /\ n + 1 <= Len(log)
      BY <2>0, <3>1
    <3>3. log[n + 1] = e
      BY <1>1, <2>0, <3>2
    <3> HIDE DEF n
    <3>4. Replayed(SubSeq(log, 1, n + 1)) = MoveColumns(Replayed(SubSeq(log, 1, n)), log[n + 1]).cols
      BY <3>1, <3>2, ReplayNext
    <3>5. acc.columns = Replayed(SubSeq(log, 1, n))
      BY <1>0 DEF n
    <3> QED
      BY <2>1, <3>2, <3>3, <3>4, <3>5
  <2>8. ASSUME NEW a \in Accounts, NEW g, Levels(eff, need, a, q, g)
        PROVE  Slack(new.columns, eff, need, a, Gone(q, d + 1))
                 = Slack(columns, eff, need, a, {}) + (g[d + 1] - g[0])
    <3> DEFINE big == SumFunctionOnSet(NeedShare(eff, need, a), Decided \ Gone(q, d))
               less == SumFunctionOnSet(NeedShare(eff, need, a), Decided \ Gone(q, d + 1))
               base == Slack(columns, eff, need, a, {})
    <3>1. Slack(acc.columns, eff, need, a, Gone(q, d)) = base + (g[d] - g[0])
      BY <1>0, <2>8
    <3>2. g \in [0..Len(q) -> Int] /\ g[i + 1] = g[(i + 1) - 1] + Surplus(eff, need, a, q[i + 1])
      BY <1>1, <2>8 DEF Levels
    <3>3. g[d] \in Int /\ g[d + 1] \in Int /\ g[0] \in Int /\ g[d + 1] = g[d] + Surplus(eff, need, a, r)
      <4>1. d \in 0..Len(q) /\ d + 1 \in 0..Len(q) /\ 0 \in 0..Len(q) /\ (i + 1) - 1 = d
        BY <2>0
      <4> QED
        BY <2>0, <3>2, <4>1 DEF r
    <3>4. big = NeedShare(eff, need, a)[r] + less /\ big \in Int /\ less \in Int
            /\ NeedShare(eff, need, a)[r] \in Nat
      <4> DEFINE D == Decided \ Gone(q, d)
      <4>1. D \subseteq Decided /\ r \in D /\ D \ {r} = Decided \ Gone(q, d + 1)
        BY <1>1, <2>3
      <4> HIDE DEF D
      <4>2. /\ SumFunctionOnSet(NeedShare(eff, need, a), D)
                 = NeedShare(eff, need, a)[r] + SumFunctionOnSet(NeedShare(eff, need, a), D \ {r})
            /\ SumFunctionOnSet(NeedShare(eff, need, a), D) \in Int
            /\ SumFunctionOnSet(NeedShare(eff, need, a), D \ {r}) \in Int
            /\ NeedShare(eff, need, a)[r] \in Nat
        BY <1>1, <4>1, NeedLess
      <4> QED
        BY <4>1, <4>2 DEF D
    <3>5. Available(acc.columns[a]) \in Int
            /\ Available(new.columns[a]) = Available(acc.columns[a]) + Gain(e, a) - Debited(e, a)
      <4> DEFINE cc == acc.columns
      <4>1. cc \in [Accounts -> Book] /\ MoveColumns(cc, e).ok /\ new.columns = MoveColumns(cc, e).cols
        BY <1>4, <2>1, <2>4
      <4> HIDE DEF cc
      <4>2. Available(cc[a]) \in Int
              /\ Available(MoveColumns(cc, e).cols[a]) = Available(cc[a]) + Gain(e, a) - Debited(e, a)
        BY <1>1, <4>1, MovedAvailable
      <4> QED
        BY <4>1, <4>2 DEF cc
    <3>6. Gain(e, a) \in Nat /\ Debited(e, a) \in Nat
      BY <1>1, ColumnsType
    <3>7. Surplus(eff, need, a, r) = NeedShare(eff, need, a)[r] + Gain(e, a) - Debited(e, a)
      BY DEF Surplus, e
    <3>8. Slack(acc.columns, eff, need, a, Gone(q, d)) = Available(acc.columns[a]) - big
            /\ Slack(new.columns, eff, need, a, Gone(q, d + 1)) = Available(new.columns[a]) - less
      BY DEF Slack
    <3>9. base \in Int
      <4>1. columns \in [Accounts -> Book] /\ IsFiniteSet(Decided) /\ Decided \subseteq Reqs
        <5>1. IsFiniteSet(slots) /\ slots \subseteq Reqs /\ columns \in [Accounts -> Book]
          BY DEF TypeInv, MoneyType, SlotType
        <5>2. Decided \subseteq slots
          BY DEF Decided
        <5> QED
          BY <5>1, <5>2, FS_Subset
      <4>2. columns[a] \in Book
        BY <4>1
      <4>3. Available(columns[a]) \in Int
        BY <4>2 DEF Book, Available
      <4> DEFINE n == NeedShare(eff, need, a)
      <4>4. Ints(n, Decided)
        BY <4>1 DEF Ints, NeedShare
      <4> HIDE DEF n
      <4>5. SumFunctionOnSet(n, Decided) \in Int
        BY <4>1, <4>4, SumType
      <4>6. Decided \ {} = Decided
        OBVIOUS
      <4> QED
        BY <4>3, <4>5, <4>6 DEF Slack, n
    <3> HIDE DEF big, less, base
    <3> DEFINE x == NeedShare(eff, need, a)[r]
               av == Available(acc.columns[a])
               sl == Slack(acc.columns, eff, need, a, Gone(q, d))
    <3>10. sl = base + (g[d] - g[0]) /\ sl = av - big /\ av \in Int /\ x \in Nat
             /\ big = x + less
             /\ Surplus(eff, need, a, r) = x + Gain(e, a) - Debited(e, a)
             /\ Available(new.columns[a]) = av + Gain(e, a) - Debited(e, a)
      BY <3>1, <3>4, <3>5, <3>7, <3>8
    <3> HIDE DEF x, av, sl
    <3> DEFINE ga == Gain(e, a)  de == Debited(e, a)  na == Available(new.columns[a])
               su == Surplus(eff, need, a, r)  g0 == g[0]  gd == g[d]  ge == g[d + 1]
    <3>11. /\ ga \in Int /\ de \in Int /\ x \in Int /\ base \in Int /\ less \in Int
           /\ g0 \in Int /\ gd \in Int /\ av \in Int
      BY <3>3, <3>4, <3>6, <3>9, <3>10
    <3>13. ge = gd + su /\ su = x + ga - de /\ na = av + ga - de
      BY <3>3, <3>10
    <3>14. av - (x + less) = base + (gd - g0)
      BY <3>10
    <3> HIDE DEF ga, de, na, su, g0, gd, ge
    <3>15. (av + ga - de) - less = base + ((gd + (x + ga - de)) - g0)
      BY <3>11, <3>14
    <3>12. na - less = base + (ge - g0)
      BY <3>13, <3>15
    <3> QED
      BY <3>8, <3>12 DEF base, na, ge, g0
  <2>9. d + 1 = i + 1 /\ new.done = d + 1 /\ d + 1 \in Nat
    BY <1>0, <2>0, <2>1
  <2>10. CameTo(new, i + 1, d + 1, eff, need, q)
    <3>0. d + 1 <= i + 1
      BY <2>0
    <3>1. Settled(new, eff, Gone(q, d + 1), "committed") /\ new.done = d + 1
      BY <2>3, <2>6, <2>9
    <3>2. (new.sealed => d + 1 < i + 1) /\ (~new.sealed => d + 1 = i + 1)
      BY <2>2, <2>9
    <3> QED
      BY <2>7, <2>8, <3>0, <3>1, <3>2 DEF CameTo
  <2> QED
    BY <2>9, <2>10 DEF new, e, r
<1> QED
  BY <1>3, <1>4

LEMMA CommitRun ==
  ASSUME TypeInv, Balanced, StateFollowsLog, NEW eff, Promises(eff), NEW need \in [Reqs -> Nat],
         NEW q \in Seq(Reqs), Distinct(q),
         \A i \in 1..Len(q) : q[i] \in Decided /\ log[committed + i] = eff[q[i]],
         committed + Len(q) <= Len(log),
         NEW S, NEW pairs \in Seq(S), Len(pairs) = Len(q),
         \A i \in 1..Len(q) : pairs[i] = <<eff[q[i]], q[i]>>
  PROVE  \E d \in Nat : CameTo(FoldLeft(CommitOne, Standing, pairs), Len(q), d, eff, need, q)
<1> DEFINE b == Standing
<1>0. Settled(b, eff, {}, "committed") /\ b.done = 0 /\ b.columns = columns
  BY StandingIs
<1>a. ~b.sealed
  BY StandingIs
<1> HIDE DEF b
<1>1. PICK f : /\ f[0] = b
               /\ \A i \in 1..Len(pairs) : f[i] = CommitOne(f[i - 1], pairs[i])
               /\ FoldLeft(CommitOne, b, pairs) = f[Len(pairs)]
  BY CommitTrace
<1> DEFINE Sound(i) == \E d \in Nat : CameTo(f[i], i, d, eff, need, q)
           T == {i \in Nat : i <= Len(q) => Sound(i)}
<1>2. 0 \in T
  <2>1. Gone(q, 0) = {}
    BY DEF Gone
  <2>2. b.columns = Replayed(SubSeq(log, 1, committed + 0))
    <3>1. committed + 0 = committed
      BY DEF TypeInv, CountType
    <3> QED
      BY <1>0, <3>1 DEF StateFollowsLog
  <2>3. ASSUME NEW a \in Accounts, NEW g, Levels(eff, need, a, q, g)
        PROVE  Slack(b.columns, eff, need, a, Gone(q, 0)) = Slack(columns, eff, need, a, {}) + (g[0] - g[0])
    <3> DEFINE base == Slack(columns, eff, need, a, {})
    <3>1. base \in Int
      <4>0. eff \in [Reqs -> EffectSet] /\ Decided \subseteq Decided
        BY DEF Promises
      <4> DEFINE n == NeedShare(eff, need, a)
      <4>1. IsFiniteSet(Decided) /\ Ints(n, Decided)
        BY <4>0, LeftFacts
      <4> HIDE DEF n
      <4>2. SumFunctionOnSet(n, Decided) \in Int
        BY <4>1, SumType
      <4>3. columns[a] \in Book
        BY DEF TypeInv, MoneyType
      <4>4. Available(columns[a]) \in Int
        BY <4>3 DEF Book, Available
      <4>5. Decided \ {} = Decided
        OBVIOUS
      <4> QED
        BY <4>2, <4>4, <4>5 DEF Slack, n
    <3>2. g[0] \in Int
      BY <2>3, 0 \in 0..Len(q) DEF Levels
    <3> HIDE DEF base
    <3>3. base = base + (g[0] - g[0])
      BY <3>1, <3>2
    <3> QED
      BY <1>0, <2>1, <3>3 DEF base
  <2>4. CameTo(b, 0, 0, eff, need, q)
    <3>1. (b.sealed => 0 < 0) /\ (~b.sealed => 0 = 0) /\ 0 <= 0
      BY <1>a
    <3>2. Settled(b, eff, Gone(q, 0), "committed") /\ b.done = 0
      BY <1>0, <2>1
    <3> QED
      BY <2>2, <2>3, <3>1, <3>2 DEF CameTo
  <2> QED
    BY <1>1, <2>4
<1>3. ASSUME NEW i \in Nat, i \in T PROVE i + 1 \in T
  <2> SUFFICES ASSUME i + 1 <= Len(q) PROVE Sound(i + 1)
    OBVIOUS
  <2>0. i + 1 \in 1..Len(q) /\ i <= Len(q) /\ (i + 1) - 1 = i
    OBVIOUS
  <2>1. Sound(i)
    <3> HIDE DEF Sound
    <3> QED
      BY <1>3, <2>0
  <2>2. PICK d \in Nat : CameTo(f[i], i, d, eff, need, q)
    BY <2>1
  <2>3. f[i + 1] = CommitOne(f[i], <<eff[q[i + 1]], q[i + 1]>>)
    BY <1>1, <2>0
  <2> DEFINE acc == f[i]
  <2>4. CameTo(acc, i, d, eff, need, q)
    BY <2>2
  <2> HIDE DEF acc
  <2>5. \E e \in Nat : CameTo(CommitOne(acc, <<eff[q[i + 1]], q[i + 1]>>), i + 1, e, eff, need, q)
    BY <2>4, CommitNext
  <2> QED
    BY <2>3, <2>5 DEF acc
<1> HIDE DEF T
<1>4. Nat \subseteq T
  BY <1>2, <1>3, C!SetInduction
<1>5. Sound(Len(q))
  BY <1>4, Len(q) \in Nat DEF T
<1> QED
  BY <1>1, <1>5 DEF b

\* Everything a failed batch promised is given back, and nothing else is touched.
RolledTo(acc, i, eff, q) ==
  Settled(acc, eff, Gone(q, i), "failed") /\ acc.done = 0 /\ ~acc.sealed /\ acc.columns = columns

LEMMA RollBackRun ==
  ASSUME TypeInv, Balanced, NEW eff, Promises(eff), NEW q \in Seq(Reqs), Distinct(q),
         \A i \in 1..Len(q) : q[i] \in Decided,
         NEW S, NEW pairs \in Seq(S), Len(pairs) = Len(q),
         \A i \in 1..Len(q) : pairs[i] = <<eff[q[i]], q[i]>>
  PROVE  RolledTo(FoldLeft(RollBackOne, Standing, pairs), Len(q), eff, q)
<1> DEFINE b == Standing
<1>0. Settled(b, eff, {}, "failed") /\ b.done = 0 /\ b.columns = columns
  BY StandingIs
<1>a. ~b.sealed
  BY StandingIs
<1> HIDE DEF b
<1>1. PICK f : /\ f[0] = b
               /\ \A i \in 1..Len(pairs) : f[i] = RollBackOne(f[i - 1], pairs[i])
               /\ FoldLeft(RollBackOne, b, pairs) = f[Len(pairs)]
  BY RollBackTrace
<1> DEFINE Sound(i) == RolledTo(f[i], i, eff, q)
           T == {i \in Nat : i <= Len(q) => Sound(i)}
<1>2. 0 \in T
  <2>1. Gone(q, 0) = {}
    BY DEF Gone
  <2>2. RolledTo(b, 0, eff, q)
    BY <1>0, <1>a, <2>1 DEF RolledTo
  <2> QED
    BY <1>1, <2>2
<1>3. ASSUME NEW i \in Nat, i \in T PROVE i + 1 \in T
  <2> SUFFICES ASSUME i + 1 <= Len(q) PROVE Sound(i + 1)
    OBVIOUS
  <2>0. i + 1 \in 1..Len(q) /\ i <= Len(q) /\ (i + 1) - 1 = i
    OBVIOUS
  <2>1. Sound(i)
    <3> HIDE DEF Sound
    <3> QED
      BY <1>3, <2>0
  <2> DEFINE acc == f[i]
             r == q[i + 1]
             e == eff[r]
             new == RollBackOne(acc, <<e, r>>)
  <2>2. Settled(acc, eff, Gone(q, i), "failed") /\ acc.done = 0 /\ acc.columns = columns
    BY <2>1 DEF RolledTo
  <2>3. ~acc.sealed
    BY <2>1 DEF RolledTo
  <2>4. f[i + 1] = new
    BY <1>1, <2>0
  <2>5. r \in Decided /\ r \in Reqs /\ Gone(q, i + 1) = Gone(q, i) \cup {r} /\ r \notin Gone(q, i)
    <3>1. q[i + 1] \in Decided
      BY <2>0
    <3> QED
      BY <3>1, GoneNext
  <2>6. eff \in [Reqs -> EffectSet] /\ acc \in Standings
    BY <2>2 DEF Promises, Settled
  <2> HIDE DEF acc, r
  <2>7. e \in EffectSet
    BY <2>5, <2>6
  <2>8. Resolves(e) => e.ref \in Reqs /\ acc.remaining[e.ref] # None
    <3>1. Resolves(eff[r]) => eff[r].ref \in Reqs /\ remaining[eff[r].ref] # None
      BY <2>5 DEF Promises
    <3>2. \A x \in Reqs : remaining[x] # None => acc.remaining[x] # None
      BY <2>2 DEF Settled
    <3> QED
      BY <3>1, <3>2
  <2> HIDE DEF e, new
  <2>9. GaveBack(acc, e, r, "failed", new) /\ new.done = acc.done /\ new.columns = acc.columns
    BY <2>5, <2>6, <2>7, <2>8, RollBackOneIs DEF new
  <2>10. new.sealed = acc.sealed
    BY <2>5, <2>6, <2>7, <2>8, RollBackOneIs DEF new
  <2>11. DoubleEntry(new.columns)
    BY <2>2, <2>9 DEF Balanced
  <2>12. Settled(new, eff, Gone(q, i) \cup {r}, "failed")
    <3> DEFINE gone == Gone(q, i)
               o == "failed"
    <3>1. r \in Decided /\ r \notin gone /\ Ack(r, o) \in AckSet /\ Settled(acc, eff, gone, o)
      BY <2>2, <2>5 DEF Ack, AckSet
    <3>2. GaveBack(acc, eff[r], r, o, new)
      BY <2>9 DEF e
    <3> HIDE DEF gone, o
    <3>3. Settled(new, eff, gone \cup {r}, o)
      BY <2>11, <3>1, <3>2, SettleOne
    <3> QED
      BY <3>3 DEF gone, o
  <2>13. RolledTo(new, i + 1, eff, q)
    <3>1. ~new.sealed
      BY <2>3, <2>10
    <3>2. Settled(new, eff, Gone(q, i + 1), "failed") /\ new.done = 0 /\ new.columns = columns
      BY <2>2, <2>5, <2>9, <2>12
    <3> QED
      BY <3>1, <3>2 DEF RolledTo
  <2> QED
    BY <2>4, <2>13
<1> HIDE DEF T
<1>4. Nat \subseteq T
  BY <1>2, <1>3, B!SetInduction
<1>5. Sound(Len(q))
  BY <1>4, Len(q) \in Nat DEF T
<1> QED
  BY <1>1, <1>5 DEF b

LEMMA GoneCount ==
  ASSUME NEW q \in Seq(Reqs), Distinct(q), NEW D, IsFiniteSet(D), \A i \in 1..Len(q) : q[i] \in D,
         NEW d \in 0..Len(q)
  PROVE  Cardinality(D \ Gone(q, d)) = Cardinality(D) - d /\ Cardinality(D) \in Nat
<1> DEFINE Sound(i) == IsFiniteSet(D \ Gone(q, i)) /\ Cardinality(D \ Gone(q, i)) = Cardinality(D) - i
           T == {i \in Nat : i <= Len(q) => Sound(i)}
<1>0. Cardinality(D) \in Nat
  BY FS_CardinalityType
<1>1. 0 \in T
  <2>1. D \ Gone(q, 0) = D
    BY DEF Gone
  <2>2. Cardinality(D) = Cardinality(D) - 0
    BY <1>0
  <2>3. Sound(0)
    BY <2>1, <2>2
  <2> HIDE DEF Sound
  <2> QED
    BY <2>3
<1>2. ASSUME NEW i \in Nat, i \in T PROVE i + 1 \in T
  <2> SUFFICES ASSUME i + 1 <= Len(q) PROVE Sound(i + 1)
    OBVIOUS
  <2>1. Sound(i)
    <3>1. i <= Len(q)
      OBVIOUS
    <3> HIDE DEF Sound
    <3> QED
      BY <1>2, <3>1
  <2> DEFINE E1 == D \ Gone(q, i)
             x == q[i + 1]
  <2>2. x \in E1 /\ D \ Gone(q, i + 1) = E1 \ {x}
    <3>1. Gone(q, i + 1) = Gone(q, i) \cup {q[i + 1]} /\ q[i + 1] \notin Gone(q, i)
      BY GoneNext
    <3>2. i + 1 \in 1..Len(q)
      OBVIOUS
    <3> QED
      BY <3>1, <3>2
  <2>3. IsFiniteSet(E1) /\ Cardinality(E1) = Cardinality(D) - i
    BY <2>1
  <2> HIDE DEF E1, x
  <2>4. IsFiniteSet(E1 \ {x}) /\ Cardinality(E1 \ {x}) = Cardinality(E1) - 1
    BY <2>2, <2>3, FS_RemoveElement
  <2>5. Cardinality(E1 \ {x}) = Cardinality(D) - (i + 1)
    BY <1>0, <2>3, <2>4
  <2> QED
    BY <2>2, <2>4, <2>5
<1> HIDE DEF T
<1>3. Nat \subseteq T
  BY <1>1, <1>2, A!SetInduction
<1>4. d \in Nat /\ d <= Len(q)
  OBVIOUS
<1> QED
  BY <1>0, <1>3, <1>4 DEF T

\* The batch in front, and what is behind it.
LEMMA FrontFacts ==
  ASSUME IInv, inflight # <<>>
  PROVE  LET q == inflight[1].slots
         IN /\ q \in Seq(Reqs) /\ Distinct(q) /\ q # <<>> /\ Len(q) \in Nat \ {0}
            /\ \A i \in 1..Len(q) : q[i] \in Decided
            /\ Tail(inflight) \in Seq(Flights) /\ Len(Tail(inflight)) = Len(inflight) - 1
            /\ Len(inflight) \in Nat \ {0} /\ 1 \in 1..Len(inflight)
            /\ \A k \in 1..(Len(inflight) - 1) :
                 Tail(inflight)[k] = inflight[k + 1] /\ k + 1 \in 1..Len(inflight) /\ k + 1 # 1
<1> DEFINE q == inflight[1].slots
<1>0. inflight \in Seq(Flights) /\ FlightInv
  BY DEF IInv, TypeInv, BatchType
<1>1. /\ Head(inflight) \in Flights /\ Tail(inflight) \in Seq(Flights) /\ Head(inflight) = inflight[1]
      /\ Len(Tail(inflight)) = Len(inflight) - 1 /\ Len(inflight) \in Nat \ {0}
      /\ \A i \in 1..(Len(inflight) - 1) : Tail(inflight)[i] = inflight[i + 1]
  BY <1>0, RangeTail
<1>2. 1 \in 1..Len(inflight)
  BY <1>1
<1>3. q \in Seq(Reqs)
  BY <1>1 DEF Flights
<1>4. q # <<>>
  BY <1>0, <1>2 DEF FlightInv
<1>5. \A i \in 1..Len(q) : q[i] \in Decided
  BY <1>0, <1>2 DEF FlightInv
<1>6. Distinct(q)
  BY <1>0, <1>2 DEF FlightInv, Distinct
<1>7. \A k \in 1..(Len(inflight) - 1) : k + 1 \in 1..Len(inflight) /\ k + 1 # 1
  BY <1>1
<1> HIDE DEF q
<1>8. Len(q) \in Nat \ {0}
  BY <1>3, <1>4
<1> QED
  BY <1>1, <1>2, <1>3, <1>4, <1>5, <1>6, <1>7, <1>8 DEF q

\* What an answer leaves alone of the invariant, whatever it says.
AnsweredVars(acc) ==
  /\ columns' = acc.columns /\ speculative' = acc.speculative /\ remaining' = acc.remaining
  /\ outbox' = acc.outbox /\ slots' = acc.slots /\ inflight' = Tail(inflight)
  /\ UNCHANGED <<left, script, queue, ready, open, batch, proposals, held, log, taken, judged>>

LEMMA AnswerMoves ==
  ASSUME IInv, inflight # <<>>, NEW d \in 0..Len(inflight[1].slots), NEW eff, NEW outcome, NEW acc,
         Settled(acc, eff, Gone(inflight[1].slots, d), outcome), AnsweredVars(acc)
  PROVE  LET gone == Gone(inflight[1].slots, d)
         IN /\ gone \subseteq Decided /\ Decided' = Decided \ gone
            /\ Answers' = Answers \cup {Ack(r, outcome) : r \in gone}
            /\ Told' = Told \cup gone
            /\ PlaceInv' /\ OpenInv' /\ FlightInv' /\ Balanced'
            /\ ClientType' /\ SlotType' /\ MoneyType' /\ AnswerType'
<1> DEFINE q == inflight[1].slots
           gone == Gone(q, d)
<1>0. /\ q \in Seq(Reqs) /\ Distinct(q) /\ \A i \in 1..Len(q) : q[i] \in Decided
      /\ Tail(inflight) \in Seq(Flights) /\ Len(Tail(inflight)) = Len(inflight) - 1
      /\ Len(inflight) \in Nat \ {0} /\ 1 \in 1..Len(inflight)
      /\ \A k \in 1..(Len(inflight) - 1) :
           Tail(inflight)[k] = inflight[k + 1] /\ k + 1 \in 1..Len(inflight) /\ k + 1 # 1
  BY FrontFacts
<1>i. TypeInv /\ PlaceInv /\ OpenInv /\ FlightInv
  BY DEF IInv
<1>u. /\ columns' = acc.columns /\ speculative' = acc.speculative /\ remaining' = acc.remaining
      /\ outbox' = acc.outbox /\ slots' = acc.slots /\ inflight' = Tail(inflight)
      /\ UNCHANGED <<left, script, queue, ready, open, batch, taken>>
  BY DEF AnsweredVars
<1>1. \A x \in gone : \E i \in 1..Len(q) : x = q[i]
  <2>1. \A j \in 1..d : j \in 1..Len(q)
    OBVIOUS
  <2> QED
    BY <2>1 DEF Gone
<1>2. gone \subseteq Decided
  BY <1>0, <1>1
<1> HIDE DEF gone
<1>s. Settled(acc, eff, gone, outcome)
  BY DEF gone
<1>3. acc \in Standings /\ slots' = slots \ gone
        /\ Said(outbox') = Said(outbox) \cup {Ack(r, outcome) : r \in gone}
        /\ DoubleEntry(columns')
  BY <1>s, <1>u DEF Settled
<1>4. Decided' = Decided \ gone
  BY <1>3, <1>u DEF Decided
<1>5. Answers' = Answers \cup {Ack(r, outcome) : r \in gone}
  BY <1>3, <1>u DEF Answers, Said
<1>6. Told' = Told \cup gone
  <2>1. \A r : Ack(r, outcome).tx = r
    BY DEF Ack
  <2> QED
    BY <1>5, <2>1 DEF Told
<1>7. PlaceInv'
  <2>1. Unsent' = Unsent /\ Range(queue') = Range(queue)
    BY <1>u DEF Unsent
  <2>2. gone \subseteq slots /\ gone \cap Range(ready) = {}
    BY <1>2 DEF Decided
  <2>3. (Unsent' \cup Range(queue')) \cap slots' = {} /\ (Unsent' \cup Range(queue')) \cap Told' = {}
    BY <1>i, <1>3, <1>6, <2>1, <2>2 DEF PlaceInv
  <2>4. slots' \cap Told' = {} /\ Range(ready') \subseteq slots'
    BY <1>i, <1>u, <1>3, <1>6, <2>2 DEF PlaceInv
  <2>5. Distinct(script)' /\ Distinct(queue)' /\ Distinct(ready)'
    BY <1>i, <1>u DEF PlaceInv, Distinct
  <2>6. Range(script') \cap Range(queue') = {}
          /\ \A u \in left' : Range(u) \cap (Range(script') \cup Range(queue')) = {}
    BY <1>i, <1>u DEF PlaceInv
  <2> QED
    BY <2>3, <2>4, <2>5, <2>6 DEF PlaceInv
<1>8. OpenInv'
  <2>1. \A i \in 1..Len(open) : open[i].tx \notin gone
    <3>1. \A i \in 1..Len(q) : \A j \in 1..Len(open) : open[j].tx # q[i]
      BY <1>i, <1>0 DEF FlightInv
    <3> QED
      BY <1>1, <3>1
  <2>2. \A i \in 1..Len(open') : open'[i].tx \in Decided'
    BY <1>i, <1>u, <1>4, <2>1 DEF OpenInv
  <2>3. WholeUnits(open)' /\ \A i, j \in 1..Len(open') : open'[i].tx = open'[j].tx => i = j
    BY <1>i, <1>u DEF OpenInv, WholeUnits, Spans
  <2> QED
    BY <2>2, <2>3 DEF OpenInv
<1>9. FlightInv'
  <2> DEFINE F == Len(inflight)
             fl == Tail(inflight)
  <2>a. F < batch /\ F <= InFlightMax /\ batch \in Nat /\ InFlightMax \in Nat
    BY <1>i, CommitAssumption DEF FlightInv, TypeInv, BatchType
  <2>b. \A k \in 1..F : inflight[k].id = batch - F + k - 1 /\ inflight[k].slots # <<>>
    BY <1>i DEF FlightInv
  <2>c. \A k \in 1..F : \A i \in 1..Len(inflight[k].slots) :
          /\ inflight[k].slots[i] \in Decided
          /\ \A j \in 1..Len(open) : open[j].tx # inflight[k].slots[i]
    BY <1>i DEF FlightInv
  <2>d. \A k, m \in 1..F :
          \A i \in 1..Len(inflight[k].slots), j \in 1..Len(inflight[m].slots) :
            inflight[k].slots[i] = inflight[m].slots[j] => k = m /\ i = j
    BY <1>i DEF FlightInv
  <2>e. Len(fl) = F - 1 /\ F \in Nat \ {0} /\ 1 \in 1..F
          /\ \A k \in 1..(F - 1) : fl[k] = inflight[k + 1] /\ k + 1 \in 1..F /\ k + 1 # 1
    BY <1>0
  <2>u. inflight' = fl /\ batch' = batch /\ open' = open /\ Decided' = Decided \ gone
    BY <1>u, <1>4
  <2> HIDE DEF fl, F
  <2>1. Len(fl) < batch /\ Len(fl) <= InFlightMax
    BY <2>a, <2>e
  <2>2. \A k \in 1..(F - 1) : fl[k].id = batch - (F - 1) + k - 1 /\ fl[k].slots # <<>>
    <3> SUFFICES ASSUME NEW k \in 1..(F - 1)
                 PROVE  fl[k].id = batch - (F - 1) + k - 1 /\ fl[k].slots # <<>>
      OBVIOUS
    <3>1. fl[k] = inflight[k + 1] /\ inflight[k + 1].id = batch - F + (k + 1) - 1
            /\ inflight[k + 1].slots # <<>>
      BY <2>b, <2>e
    <3>2. batch - F + (k + 1) - 1 = batch - (F - 1) + k - 1
      BY <2>a, <2>e
    <3> QED
      BY <3>1, <3>2
  <2>3. ASSUME NEW k \in 1..(F - 1), NEW i \in 1..Len(fl[k].slots)
        PROVE  /\ fl[k].slots[i] \in Decided \ gone
               /\ \A j \in 1..Len(open) : open[j].tx # fl[k].slots[i]
    <3>1. fl[k] = inflight[k + 1] /\ k + 1 \in 1..F /\ k + 1 # 1
      BY <2>e
    <3>2. fl[k].slots[i] \in Decided /\ \A j \in 1..Len(open) : open[j].tx # fl[k].slots[i]
      BY <2>c, <3>1
    <3>3. \A j \in 1..Len(q) : fl[k].slots[i] # q[j]
      BY <2>d, <2>e, <3>1
    <3> QED
      BY <1>1, <3>2, <3>3
  <2>4. ASSUME NEW k \in 1..(F - 1), NEW m \in 1..(F - 1),
               NEW i \in 1..Len(fl[k].slots), NEW j \in 1..Len(fl[m].slots),
               fl[k].slots[i] = fl[m].slots[j]
        PROVE  k = m /\ i = j
    <3>1. fl[k] = inflight[k + 1] /\ k + 1 \in 1..F /\ fl[m] = inflight[m + 1] /\ m + 1 \in 1..F
      BY <2>e
    <3>2. k + 1 = m + 1 /\ i = j
      BY <2>d, <2>4, <3>1
    <3> QED
      BY <3>2
  <2>5. Len(inflight') < batch' /\ Len(inflight') <= InFlightMax /\ Len(inflight') = F - 1
    BY <2>1, <2>e, <2>u
  <2>6. \A k \in 1..Len(inflight') :
            /\ inflight'[k].id = batch' - Len(inflight') + k - 1
            /\ inflight'[k].slots # <<>>
    BY <2>2, <2>5, <2>u
  <2>7. \A k \in 1..Len(inflight') : \A i \in 1..Len(inflight'[k].slots) :
            /\ inflight'[k].slots[i] \in Decided'
            /\ \A j \in 1..Len(open') : open'[j].tx # inflight'[k].slots[i]
    BY <2>3, <2>5, <2>u
  <2>8. \A k, m \in 1..Len(inflight') :
            \A i \in 1..Len(inflight'[k].slots), j \in 1..Len(inflight'[m].slots) :
              inflight'[k].slots[i] = inflight'[m].slots[j] => k = m /\ i = j
    BY <2>4, <2>5, <2>u
  <2> QED
    BY <2>5, <2>6, <2>7, <2>8 DEF FlightInv
<1>10. Balanced' /\ ClientType' /\ SlotType' /\ MoneyType' /\ AnswerType'
  <2>1. Balanced'
    BY <1>3 DEF Balanced
  <2>2. ClientType'
    BY <1>i, <1>u DEF TypeInv, ClientType
  <2>3. MoneyType'
    BY <1>u, <1>3 DEF Standings, MoneyType
  <2>4. AnswerType'
    BY <1>i, <1>u, <1>3 DEF Standings, AnswerType, TypeInv
  <2>5. SlotType'
    <3>1. IsFiniteSet(slots) /\ slots \subseteq Reqs /\ ready \in Seq(Reqs)
      BY <1>i DEF TypeInv, SlotType
    <3>2. slots \ gone \subseteq slots
      OBVIOUS
    <3>3. IsFiniteSet(slots \ gone)
      BY <3>1, <3>2, FS_Subset
    <3> QED
      BY <1>u, <1>3, <3>1, <3>3 DEF SlotType
  <2> QED
    BY <2>1, <2>2, <2>3, <2>4, <2>5
<1> QED
  BY <1>2, <1>4, <1>5, <1>6, <1>7, <1>8, <1>9, <1>10 DEF gone

LEMMA MidTail ==
  ASSUME BatchType, commits # <<>>, commits' = Tail(commits), UNCHANGED held
  PROVE  /\ commits' \in Seq(Decisions) /\ Len(commits') = Len(commits) - 1
         /\ Len(commits) \in Nat \ {0} /\ Mid \in Seq(Decisions) /\ Mid[1] = commits[1]
         /\ \A k \in 1..(Len(commits) - 1) : commits'[k] = commits[k + 1]
         /\ Len(Mid') = Len(Mid) - 1 /\ Len(Mid) \in Nat \ {0}
         /\ \A k \in 1..(Len(Mid) - 1) : Mid'[k] = Mid[k + 1] /\ k + 1 \in 1..Len(Mid) /\ k + 1 # 1
<1>0. commits \in Seq(Decisions) /\ held \in Seq(Decisions)
  BY DEF BatchType
<1>1. /\ Tail(commits) \in Seq(Decisions) /\ Len(Tail(commits)) = Len(commits) - 1
      /\ Len(commits) \in Nat \ {0}
      /\ \A i \in 1..(Len(commits) - 1) : Tail(commits)[i] = commits[i + 1]
  BY <1>0, RangeTail
<1>2. /\ Mid \in Seq(Decisions) /\ Len(Mid) = Len(commits) + Len(held) /\ Len(held) \in Nat
      /\ \A k \in 1..Len(commits) : Mid[k] = commits[k]
      /\ \A k \in 1..Len(held) : Mid[Len(commits) + k] = held[k]
  BY <1>0, MidFacts
<1> DEFINE t == Tail(commits)
           c == Len(commits)
           h == Len(held)
<1>3. t \in Seq(Decisions) /\ Len(t) = c - 1
  BY <1>1
<1> HIDE DEF t
<1>4. /\ Len(t \o held) = Len(t) + Len(held)
      /\ \A i \in 1..Len(t) : (t \o held)[i] = t[i]
      /\ \A i \in 1..Len(held) : (t \o held)[Len(t) + i] = held[i]
  BY <1>0, <1>3, ConcatFacts
<1>5. Mid' = t \o held
  BY DEF Mid, t
<1>6. Len(Mid') = Len(Mid) - 1 /\ Len(Mid) \in Nat \ {0} /\ Mid[1] = commits[1]
  <2>1. 1 \in 1..c /\ c \in Nat \ {0} /\ h \in Nat
    BY <1>1, <1>2
  <2> QED
    BY <1>2, <1>3, <1>4, <1>5, <2>1
<1>7. ASSUME NEW k \in 1..(Len(Mid) - 1)
      PROVE  Mid'[k] = Mid[k + 1] /\ k + 1 \in 1..Len(Mid) /\ k + 1 # 1
  <2>0. c \in Nat \ {0} /\ h \in Nat /\ Len(Mid) = c + h /\ k \in Nat
    BY <1>1, <1>2
  <2>1. k + 1 \in 1..Len(Mid) /\ k + 1 # 1
    BY <2>0
  <2>2. CASE k <= c - 1
    <3>1. k \in 1..(c - 1) /\ k + 1 \in 1..c /\ k \in 1..Len(t)
      BY <1>3, <2>0, <2>2
    <3>2. t[k] = commits[k + 1]
      BY <1>1, <3>1 DEF t
    <3> QED
      BY <1>2, <1>4, <1>5, <2>1, <3>1, <3>2
  <2>3. CASE k > c - 1
    <3>1. k - (c - 1) \in 1..h /\ Len(t) + (k - (c - 1)) = k /\ c + (k - (c - 1)) = k + 1
      BY <1>3, <2>0, <2>3
    <3>2. (t \o held)[k] = held[k - (c - 1)]
      BY <1>4, <3>1
    <3>3. Mid[k + 1] = held[k - (c - 1)]
      BY <1>2, <3>1
    <3> QED
      BY <1>5, <2>1, <3>2, <3>3
  <2> QED
    BY <2>0, <2>2, <2>3
<1> QED
  BY <1>1, <1>2, <1>6, <1>7

\* The batch that is answered is the oldest, and no other has its number.
LEMMA RaftTail ==
  ASSUME IInv, ~sealed, commits # <<>>, inflight # <<>>, commits[1].id = inflight[1].id,
         commits' = Tail(commits), inflight' = Tail(inflight), UNCHANGED <<held, proposals, batch>>
  PROVE  RaftInv'
<1> DEFINE F == Len(inflight)
           P == Len(proposals)
           fl == Tail(inflight)
           mm == Mid'
<1>0. /\ Len(fl) = F - 1 /\ F \in Nat \ {0} /\ 1 \in 1..F
      /\ \A k \in 1..(F - 1) : fl[k] = inflight[k + 1] /\ k + 1 \in 1..F /\ k + 1 # 1
  BY FrontFacts
<1>1. /\ Mid[1] = commits[1] /\ Len(mm) = Len(Mid) - 1 /\ Len(Mid) \in Nat \ {0}
      /\ \A k \in 1..(Len(Mid) - 1) : mm[k] = Mid[k + 1] /\ k + 1 \in 1..Len(Mid) /\ k + 1 # 1
  BY MidTail DEF IInv, TypeInv
<1>2. P <= F
  BY DEF IInv, RaftInv
<1>2a. \A k \in 1..P : proposals[k].id = batch - P + k - 1
  BY DEF IInv, RaftInv
<1>2b. \A k \in 1..P : Matches(proposals[k])
  BY DEF IInv, RaftInv
<1>2c. \A k \in 1..Len(Mid) : Mid[k].id \in (batch - F)..(batch - P - 1)
  BY DEF IInv, RaftInv
<1>2d. \A k \in 1..Len(Mid) : Matches(Mid[k])
  BY DEF IInv, RaftInv
<1>2e. \A k, m \in 1..Len(Mid) : Mid[k].id = Mid[m].id => k = m
  BY DEF IInv, RaftInv
<1>3. batch \in Nat /\ P \in Nat /\ 1 \in 1..Len(Mid)
  BY <1>1 DEF IInv, TypeInv, BatchType
<1>4. inflight[1].id = batch - F + 1 - 1
  BY <1>0 DEF IInv, FlightInv
<1>u. inflight' = fl /\ proposals' = proposals /\ batch' = batch /\ Mid' = mm
  OBVIOUS
<1> HIDE DEF F, P, fl, mm, Mid
<1>5. Mid[1].id = batch - F /\ P <= F - 1
  <2>1. Mid[1].id \in (batch - F)..(batch - P - 1)
    BY <1>2c, <1>3
  <2>2. Mid[1].id = batch - F
    BY <1>0, <1>1, <1>3, <1>4
  <2> QED
    BY <1>0, <1>3, <2>1, <2>2
<1> DEFINE M2(x) == \A k \in 1..(F - 1) :
                      fl[k].id = x.id =>
                        /\ Len(x.effects) = Len(fl[k].slots)
                        /\ \A i \in 1..Len(x.effects) : x.effects[i].tx = fl[k].slots[i]
<1>6. ASSUME NEW x, Matches(x) PROVE M2(x)
  <2> SUFFICES ASSUME NEW k \in 1..(F - 1), fl[k].id = x.id
               PROVE  /\ Len(x.effects) = Len(fl[k].slots)
                      /\ \A i \in 1..Len(x.effects) : x.effects[i].tx = fl[k].slots[i]
    OBVIOUS
  <2>1. fl[k] = inflight[k + 1] /\ k + 1 \in 1..Len(inflight)
    BY <1>0 DEF F
  <2> QED
    BY <1>6, <2>1 DEF Matches
<1> HIDE DEF M2
<1>i. F \in Int /\ P \in Int /\ batch \in Int
  BY <1>0, <1>3
<1>7. ASSUME NEW k \in 1..(Len(Mid) - 1)
      PROVE  mm[k].id \in (batch - (F - 1))..(batch - P - 1) /\ M2(mm[k])
  <2>1. mm[k] = Mid[k + 1] /\ k + 1 \in 1..Len(Mid) /\ k + 1 # 1
    BY <1>1
  <2>2. Mid[k + 1].id \in (batch - F)..(batch - P - 1)
    BY <1>2c, <2>1
  <2>2a. Matches(Mid[k + 1])
    BY <1>2d, <2>1
  <2>3. Mid[k + 1].id # batch - F
    BY <1>2e, <1>3, <1>5, <2>1
  <2> DEFINE w == Mid[k + 1].id
  <2>4. w \in (batch - (F - 1))..(batch - P - 1)
    <3>1. w \in (batch - F)..(batch - P - 1) /\ w # batch - F
      BY <2>2, <2>3
    <3> HIDE DEF w
    <3> QED
      BY <1>i, <3>1
  <2> QED
    BY <1>6, <2>1, <2>2a, <2>4
<1>8. ASSUME NEW k \in 1..(Len(Mid) - 1), NEW j \in 1..(Len(Mid) - 1), mm[k].id = mm[j].id
      PROVE  k = j
  <2>1. mm[k] = Mid[k + 1] /\ k + 1 \in 1..Len(Mid)
    BY <1>1
  <2>2. mm[j] = Mid[j + 1] /\ j + 1 \in 1..Len(Mid)
    BY <1>1
  <2>3. k + 1 = j + 1
    BY <1>2e, <1>8, <2>1, <2>2
  <2>4. k \in Int /\ j \in Int
    OBVIOUS
  <2> QED
    BY <2>3, <2>4
<1>9. Len(proposals') <= Len(inflight')
  BY <1>0, <1>5, <1>u DEF P
<1>f. Len(inflight') = F - 1
  BY <1>0, <1>u
<1>m. ASSUME NEW x, M2(x)
      PROVE  \A k \in 1..Len(inflight') :
               inflight'[k].id = x.id =>
                 /\ Len(x.effects) = Len(inflight'[k].slots)
                 /\ \A i \in 1..Len(x.effects) : x.effects[i].tx = inflight'[k].slots[i]
  BY <1>f, <1>m, <1>u DEF M2
<1>10. \A k \in 1..Len(proposals') : proposals'[k].id = batch' - Len(proposals') + k - 1
  BY <1>2a, <1>u DEF P
<1>10a. \A k \in 1..Len(proposals') : Matches(proposals[k])'
  <2>1. \A k \in 1..Len(proposals) : M2(proposals[k])
    BY <1>2b, <1>6 DEF P
  <2>2. \A k \in 1..Len(proposals) : Matches(proposals[k])'
    BY <1>m, <1>u, <2>1 DEF Matches
  <2> QED
    BY <1>u, <2>2
<1>11. \A k \in 1..Len(Mid') : Mid'[k].id \in (batch' - Len(inflight'))..(batch' - Len(proposals') - 1)
  <2>1. Len(proposals') = P /\ Len(mm) = Len(Mid) - 1
    BY <1>1, <1>u DEF P
  <2> QED
    BY <1>7, <1>f, <1>u, <2>1
<1>11a. \A k \in 1..Len(Mid') : Matches(Mid[k])'
  <2>1. Len(mm) = Len(Mid) - 1
    BY <1>1
  <2>3. \A k \in 1..Len(mm) : M2(mm[k])
    BY <1>7, <2>1
  <2> QED
    BY <1>m, <1>u, <2>3 DEF Matches
<1>12. \A k, j \in 1..Len(Mid') : Mid'[k].id = Mid'[j].id => k = j
  BY <1>1, <1>8, <1>u
<1> QED
  BY <1>9, <1>10, <1>10a, <1>11, <1>11a, <1>12 DEF RaftInv

\* The promises that are left are those of the requests that are.
LEMMA PromiseAfter ==
  ASSUME IInv, inflight # <<>>, NEW eff, NEW need, Promises(eff), Covered(eff, need),
         NEW d \in 0..Len(inflight[1].slots), NEW outcome, NEW acc,
         Settled(acc, eff, Gone(inflight[1].slots, d), outcome), AnsweredVars(acc),
         \A a \in Constrained : Slack(acc.columns, eff, need, a, Gone(inflight[1].slots, d)) >= 0,
         sealed' \/ /\ \A k \in 1..Len(proposals) : EffectsOf(eff, proposals[k].effects)
                    /\ \A k \in 1..Len(Mid') : EffectsOf(eff, Mid'[k].effects)
  PROVE  PromiseInv'
<1> DEFINE gone == Gone(inflight[1].slots, d)
<1>1. Decided' = Decided \ gone
  BY AnswerMoves
<1>2. /\ columns' = acc.columns /\ speculative' = acc.speculative /\ remaining' = acc.remaining
      /\ inflight' = Tail(inflight) /\ UNCHANGED <<open, proposals>>
  BY DEF AnsweredVars
<1>3. /\ acc \in Standings
      /\ \A a \in Accounts : acc.speculative[a] = -SumFunctionOnSet(Share(eff, a), Decided \ gone)
      /\ \A r \in Reqs : remaining[r] # None => acc.remaining[r] # None
  BY DEF Settled
<1> HIDE DEF gone
<1>4. Promises(eff)'
  <2>1. eff \in [Reqs -> EffectSet] /\ (\A r \in Reqs : eff[r].tx = r) /\ EffectsOf(eff, open)
    BY DEF Promises
  <2>2. \A r \in Decided' : Resolves(eff[r]) => eff[r].ref \in Reqs /\ remaining'[eff[r].ref] # None
    BY <1>1, <1>2, <1>3 DEF Promises
  <2>3. \A a \in Accounts : speculative'[a] = -SumFunctionOnSet(Share(eff, a), Decided')
    BY <1>1, <1>2, <1>3
  <2>4. EffectsOf(eff, open)'
    BY <1>2, <2>1 DEF EffectsOf
  <2>5. ~sealed' => /\ \A k \in 1..Len(proposals') : EffectsOf(eff, proposals'[k].effects)
                    /\ \A k \in 1..Len(Mid') : EffectsOf(eff, Mid'[k].effects)
    BY <1>2
  <2> HIDE DEF Mid
  <2> QED
    BY <2>1, <2>2, <2>3, <2>4, <2>5 DEF Promises, EffectsOf
<1>5. Covered(eff, need)'
  <2>1. need \in [Reqs -> Nat] /\ \A r \in Reqs : need[r] <= Reservation(eff[r])
    BY DEF Covered
  <2>2. ASSUME NEW a \in Constrained
        PROVE  Available(columns'[a]) >= SumFunctionOnSet(NeedShare(eff, need, a), Decided')
    <3> DEFINE s == SumFunctionOnSet(NeedShare(eff, need, a), Decided \ gone)
               av == Available(acc.columns[a])
    <3>1. av - s >= 0
      BY DEF Slack, gone
    <3>2. s \in Int
      <4> DEFINE D == Decided \ gone
                 n == NeedShare(eff, need, a)
      <4>1. D \subseteq Decided /\ eff \in [Reqs -> EffectSet] /\ a \in Accounts
        BY CommitAssumption DEF Promises
      <4> HIDE DEF D
      <4>2. IsFiniteSet(D) /\ Ints(n, D)
        BY <2>1, <4>1, LeftFacts DEF IInv
      <4> HIDE DEF n
      <4>3. SumFunctionOnSet(n, D) \in Int
        BY <4>2, SumType
      <4> QED
        BY <4>3 DEF D, n
    <3>3. av \in Int
      <4>1. a \in Accounts
        BY CommitAssumption
      <4>2. acc.columns[a] \in Book
        BY <1>3, <4>1 DEF Standings
      <4> QED
        BY <4>2 DEF Book, Available
    <3> HIDE DEF s, av
    <3>4. av >= s
      BY <3>1, <3>2, <3>3
    <3> QED
      BY <1>1, <1>2, <3>4 DEF s, av
  <2>3. \A a \in Accounts : \A k \in 1..Len(inflight') : Rises(eff, need, a, inflight'[k].slots)
    <3>1. /\ Len(Tail(inflight)) = Len(inflight) - 1 /\ Len(inflight) \in Nat \ {0}
          /\ \A k \in 1..(Len(inflight) - 1) :
               Tail(inflight)[k] = inflight[k + 1] /\ k + 1 \in 1..Len(inflight)
      BY FrontFacts
    <3> QED
      BY <1>2, <3>1 DEF Covered
  <2>4. \A a \in Accounts : RisesFromCuts(eff, need, a, Txs(open'))
    BY <1>2 DEF Covered
  <2> QED
    BY <2>1, <2>2, <2>3, <2>4 DEF Covered
<1> QED
  BY <1>4, <1>5 DEF PromiseInv

LEMMA OffsetTail ==
  ASSUME BatchType, commits # <<>>, NEW off, Offsets(off), commits' = Tail(commits), UNCHANGED <<held, log>>,
         committed' = off[1]
  PROVE  (\E o : Offsets(o))'
<1> DEFINE c == Len(commits)
<1>1. /\ Len(commits') = c - 1 /\ c \in Nat \ {0}
      /\ \A k \in 1..(c - 1) : commits'[k] = commits[k + 1]
  BY MidTail
<1>2. /\ off \in [0..c -> 0..Len(log)] /\ off[c] = Len(log)
      /\ \A k \in 1..c :
           /\ commits[k].outcome = "failed" => off[k] = off[k - 1]
           /\ commits[k].outcome = "committed" =>
                /\ off[k] = off[k - 1] + Len(commits[k].effects)
                /\ \A i \in 1..Len(commits[k].effects) :
                     log[off[k - 1] + i] = commits[k].effects[i]
  BY DEF Offsets
<1> DEFINE new == [i \in 0..(c - 1) |-> off[i + 1]]
<1>3. \A i \in 0..(c - 1) : i + 1 \in 0..c /\ new[i] = off[i + 1]
  BY <1>1
<1>4. new \in [0..(c - 1) -> 0..Len(log)]
  BY <1>2, <1>3
<1>5. new[0] = off[1] /\ new[c - 1] = Len(log)
  <2>1. 0 \in 0..(c - 1) /\ c - 1 \in 0..(c - 1) /\ (c - 1) + 1 = c /\ 0 + 1 = 1
    BY <1>1
  <2> HIDE DEF new
  <2> QED
    BY <1>2, <1>3, <2>1
<1> HIDE DEF new
<1>6. ASSUME NEW k \in 1..(c - 1)
      PROVE  /\ commits'[k].outcome = "failed" => new[k] = new[k - 1]
             /\ commits'[k].outcome = "committed" =>
                  /\ new[k] = new[k - 1] + Len(commits'[k].effects)
                  /\ \A i \in 1..Len(commits'[k].effects) :
                       log[new[k - 1] + i] = commits'[k].effects[i]
  <2>1. k + 1 \in 1..c /\ (k + 1) - 1 = k /\ k \in 0..(c - 1) /\ k - 1 \in 0..(c - 1) /\ (k - 1) + 1 = k
    BY <1>1
  <2>2. commits'[k] = commits[k + 1] /\ new[k] = off[k + 1] /\ new[k - 1] = off[(k + 1) - 1]
    BY <1>1, <1>3, <2>1
  <2> QED
    BY <1>2, <2>1, <2>2
<1>7. PICK w : w = new
  OBVIOUS
<1>8. Offsets(w)'
  <2>1. Len(commits') = c - 1 /\ log' = log
    BY <1>1
  <2> HIDE DEF c
  <2> QED
    BY <1>4, <1>5, <1>6, <1>7, <2>1 DEF Offsets
<1> QED
  BY <1>8

\* The answer in front is for the batch in front, with the effects it was decided with.
LEMMA FrontMatches ==
  ASSUME IInv, ~sealed, commits # <<>>, inflight # <<>>, commits[1].id = inflight[1].id,
         NEW eff, Promises(eff)
  PROVE  LET q == inflight[1].slots
             x == commits[1].effects
         IN /\ Len(x) = Len(q)
            /\ \A i \in 1..Len(q) : x[i] = eff[q[i]]
            /\ Paired(x, q) \in Seq(EffectSet \X Reqs) /\ Len(Paired(x, q)) = Len(q)
            /\ \A i \in 1..Len(q) : Paired(x, q)[i] = <<eff[q[i]], q[i]>>
<1> DEFINE q == inflight[1].slots
           x == commits[1].effects
           n == Len(q)
<1>0. q \in Seq(Reqs) /\ n \in Nat /\ 1 \in 1..Len(inflight)
  BY FrontFacts
<1>1. /\ Len(Mid) = Len(commits) + Len(held) /\ Len(held) \in Nat /\ Len(commits) \in Nat \ {0}
      /\ \A k \in 1..Len(commits) : Mid[k] = commits[k]
  <2>1. commits \in Seq(Decisions) /\ held \in Seq(Decisions)
    BY DEF IInv, TypeInv, BatchType
  <2>2. /\ Len(Mid) = Len(commits) + Len(held) /\ Len(held) \in Nat
        /\ \A k \in 1..Len(commits) : Mid[k] = commits[k]
    BY MidFacts DEF IInv, TypeInv
  <2>3. Len(commits) \in Nat \ {0}
    BY <2>1, RangeTail
  <2> QED
    BY <2>2, <2>3
<1>2. 1 \in 1..Len(Mid) /\ 1 \in 1..Len(commits) /\ Mid[1] = commits[1]
  <2>1. 1 \in 1..Len(Mid) /\ 1 \in 1..Len(commits)
    BY <1>1
  <2> QED
    BY <1>1, <2>1
<1>3. Matches(Mid[1])
  BY <1>2 DEF IInv, RaftInv
<1>4. Len(x) = n /\ \A i \in 1..Len(x) : x[i].tx = q[i]
  <2>1. Matches(commits[1])
    BY <1>2, <1>3
  <2> QED
    BY <1>0, <2>1 DEF Matches
<1>5. EffectsOf(eff, x)
  <2>1. EffectsOf(eff, Mid[1].effects)
    <3> HIDE DEF Mid
    <3> QED
      BY <1>2 DEF Promises
  <2> QED
    BY <1>2, <2>1
<1>6. \A i \in 1..n : x[i] = eff[q[i]]
  <2> HIDE DEF x, q
  <2> QED
    BY <1>4, <1>5 DEF EffectsOf
<1>7. \A i \in 1..n : eff[q[i]] \in EffectSet /\ q[i] \in Reqs
  <2>1. eff \in [Reqs -> EffectSet]
    BY DEF Promises
  <2> HIDE DEF q
  <2> QED
    BY <1>0, <2>1
<1>8. Min({Len(x), Len(q)}) = n
  <2>1. {Len(x), Len(q)} = {n}
    BY <1>4
  <2>2. Min({n}) = n
    <3> HIDE DEF n
    <3> QED
      BY <1>0 DEF Min
  <2> QED
    BY <2>1, <2>2
<1>9. Paired(x, q) = [i \in 1..n |-> <<x[i], q[i]>>]
  BY <1>8 DEF Paired
<1> HIDE DEF x, q
<1>10. \A i \in 1..n : <<x[i], q[i]>> \in EffectSet \X Reqs
  BY <1>6, <1>7
<1> DEFINE p == [i \in 1..n |-> <<x[i], q[i]>>]
<1>11. p \in Seq(EffectSet \X Reqs) /\ Len(p) = n
  <2> HIDE DEF n
  <2> QED
    BY <1>0, <1>10
<1>12. \A i \in 1..n : p[i] = <<eff[q[i]], q[i]>>
  BY <1>6
<1> HIDE DEF p
<1>13. Paired(x, q) = p
  BY <1>9 DEF p
<1> QED
  BY <1>4, <1>6, <1>11, <1>12, <1>13 DEF q, x

\* Nothing is needed of an account for a request that is answered.
LEMMA NeedOfTheRest ==
  ASSUME TypeInv, NEW eff \in [Reqs -> EffectSet], NEW need \in [Reqs -> Nat], NEW a \in Accounts,
         NEW q \in Seq(Reqs), Distinct(q), \A i \in 1..Len(q) : q[i] \in Decided
  PROVE  SumFunctionOnSet(NeedShare(eff, need, a), Decided \ Gone(q, Len(q)))
           <= SumFunctionOnSet(NeedShare(eff, need, a), Decided)
<1> DEFINE s(D) == SumFunctionOnSet(NeedShare(eff, need, a), D)
           Sound(i) == s(Decided \ Gone(q, i)) <= s(Decided) /\ s(Decided \ Gone(q, i)) \in Int
           T == {i \in Nat : i <= Len(q) => Sound(i)}
<1>0. s(Decided) \in Int
  <2> DEFINE ns == NeedShare(eff, need, a)
  <2>1. Decided \subseteq Decided
    OBVIOUS
  <2>2. IsFiniteSet(Decided) /\ Ints(ns, Decided)
    BY <2>1, LeftFacts
  <2> HIDE DEF ns
  <2>3. SumFunctionOnSet(ns, Decided) \in Int
    BY <2>2, SumType
  <2> QED
    BY <2>3 DEF ns
<1>1. 0 \in T
  <2>1. Decided \ Gone(q, 0) = Decided
    BY DEF Gone
  <2>2. Sound(0)
    <3> DEFINE w == s(Decided)
    <3>1. w \in Int /\ s(Decided \ Gone(q, 0)) = w
      BY <1>0, <2>1
    <3>2. w <= w
      <4> HIDE DEF w
      <4> QED
        BY <3>1
    <3> QED
      BY <3>1, <3>2
  <2> HIDE DEF Sound
  <2> QED
    BY <2>2
<1>2. ASSUME NEW i \in Nat, i \in T PROVE i + 1 \in T
  <2> SUFFICES ASSUME i + 1 <= Len(q) PROVE Sound(i + 1)
    OBVIOUS
  <2> DEFINE D == Decided \ Gone(q, i)
             r == q[i + 1]
             x == NeedShare(eff, need, a)[r]
  <2>1. Sound(i)
    <3>1. i <= Len(q)
      BY RangeOf
    <3> HIDE DEF Sound
    <3> QED
      BY <1>2, <3>1
  <2>2. Gone(q, i + 1) = Gone(q, i) \cup {r} /\ r \notin Gone(q, i)
    BY GoneNext
  <2>3. r \in D /\ D \subseteq Decided /\ Decided \ Gone(q, i + 1) = D \ {r}
    <3>1. i + 1 \in 1..Len(q)
      BY RangeOf
    <3> HIDE DEF r
    <3>2. r \in Decided
      BY <3>1 DEF r
    <3> QED
      BY <2>2, <3>2
  <2> HIDE DEF D, r
  <2>4. s(D) = x + s(D \ {r}) /\ s(D) \in Int /\ s(D \ {r}) \in Int /\ x \in Nat
    <3>1. /\ SumFunctionOnSet(NeedShare(eff, need, a), D)
               = NeedShare(eff, need, a)[r] + SumFunctionOnSet(NeedShare(eff, need, a), D \ {r})
          /\ SumFunctionOnSet(NeedShare(eff, need, a), D) \in Int
          /\ SumFunctionOnSet(NeedShare(eff, need, a), D \ {r}) \in Int
          /\ NeedShare(eff, need, a)[r] \in Nat
      BY <2>3, NeedLess
    <3> QED
      BY <3>1
  <2>5. s(D) <= s(Decided)
    BY <2>1 DEF D
  <2> HIDE DEF x, s
  <2>6. s(D \ {r}) <= s(Decided)
    BY <1>0, <2>4, <2>5
  <2> QED
    BY <2>3, <2>4, <2>6
<1> HIDE DEF Sound
<1> HIDE DEF T
<1>3. Nat \subseteq T
  BY <1>1, <1>2, A!SetInduction
<1>4. Len(q) \in T /\ Len(q) \in Nat /\ Len(q) <= Len(q)
  BY <1>3, RangeOf
<1> QED
  BY <1>4 DEF Sound, T

\* What is needed of the accounts is there before an answer.
LEMMA SlackNow ==
  ASSUME TypeInv, NEW eff, NEW need, Promises(eff), Covered(eff, need), NEW a \in Constrained
  PROVE  Slack(columns, eff, need, a, {}) >= 0 /\ Slack(columns, eff, need, a, {}) \in Int
<1> DEFINE s == SumFunctionOnSet(NeedShare(eff, need, a), Decided)
           av == Available(columns[a])
<1>0. a \in Accounts /\ eff \in [Reqs -> EffectSet] /\ need \in [Reqs -> Nat]
  BY CommitAssumption DEF Promises, Covered
<1>1. Decided \ {} = Decided /\ Decided \subseteq Decided
  OBVIOUS
<1>2. s \in Int
  <2> DEFINE ns == NeedShare(eff, need, a)
  <2>1. IsFiniteSet(Decided) /\ Ints(ns, Decided)
    BY <1>0, <1>1, LeftFacts
  <2> HIDE DEF ns
  <2>2. SumFunctionOnSet(ns, Decided) \in Int
    BY <2>1, SumType
  <2> QED
    BY <2>2 DEF ns
<1>3. av \in Int
  <2>1. columns[a] \in Book
    BY <1>0 DEF TypeInv, MoneyType
  <2> QED
    BY <2>1 DEF Book, Available
<1>4. av >= s
  BY DEF Covered
<1>5. Slack(columns, eff, need, a, {}) = av - s
  BY <1>1 DEF Slack
<1> HIDE DEF av, s
<1> QED
  BY <1>2, <1>3, <1>4, <1>5

\* Consensus keeps what is behind the answer.
LEMMA BehindTheAnswer ==
  ASSUME TypeInv, ~sealed, commits # <<>>, commits' = Tail(commits), UNCHANGED held, NEW eff, Promises(eff)
  PROVE  /\ \A k \in 1..Len(proposals) : EffectsOf(eff, proposals[k].effects)
         /\ \A k \in 1..Len(Mid') : EffectsOf(eff, Mid'[k].effects)
<1>1. /\ Len(Mid') = Len(Mid) - 1 /\ Len(Mid) \in Nat \ {0}
      /\ \A k \in 1..(Len(Mid) - 1) : Mid'[k] = Mid[k + 1] /\ k + 1 \in 1..Len(Mid)
  BY MidTail DEF TypeInv
<1>2. /\ \A k \in 1..Len(proposals) : EffectsOf(eff, proposals[k].effects)
      /\ \A k \in 1..Len(Mid) : EffectsOf(eff, Mid[k].effects)
  BY DEF Promises
<1> HIDE DEF Mid
<1> QED
  BY <1>1, <1>2

\* The answers of a commit are in the log, where it is applied.
LEMMA AckCommitted ==
  ASSUME IInv, NEW q \in Seq(Reqs), NEW d \in 0..Len(q), \A i \in 1..Len(q) : q[i] \in Decided,
         \A i \in 1..Len(q) : log[committed + i].tx = q[i],
         Answers' = Answers \cup {Ack(r, "committed") : r \in Gone(q, d)},
         Told' = Told \cup Gone(q, d), UNCHANGED log, committed' = committed + d
  PROVE  AckInv'
<1>0. committed \in Nat /\ Len(q) \in Nat /\ d \in Nat /\ d <= Len(q)
  BY RangeOf DEF IInv, TypeInv, CountType
<1>1. \A i \in 1..committed : log[i].tx \in Told
  BY DEF IInv, AckInv
<1>2. \A x \in Gone(q, d) : x \notin Told /\ \E i \in 1..d : x = q[i]
  <2> SUFFICES ASSUME NEW i \in 1..d PROVE q[i] \notin Told
    BY DEF Gone
  <2>1. q[i] \in Decided
    BY <1>0
  <2> QED
    BY <2>1 DEF Decided, IInv, PlaceInv
<1>3. \A i \in 1..(committed + d) : i \in 1..committed \/ (i - committed \in 1..d /\ committed + (i - committed) = i)
  BY <1>0
<1>4. \A i \in 1..committed : i \in 1..(committed + d)
  BY <1>0
<1>5. \A i \in 1..d : committed + i \in 1..(committed + d) /\ log[committed + i].tx = q[i] /\ q[i] \in Gone(q, d)
  BY <1>0 DEF Gone
<1>6. ASSUME NEW i \in 1..(committed + d) PROVE log[i].tx \in Told \/ log[i].tx \in Gone(q, d)
  <2>1. CASE i \in 1..committed
    BY <1>1, <2>1
  <2>2. CASE i - committed \in 1..d /\ committed + (i - committed) = i
    <3>1. log[committed + (i - committed)].tx \in Gone(q, d)
      BY <1>5, <2>2
    <3> QED
      BY <2>2, <3>1
  <2> QED
    BY <1>3, <2>1, <2>2
<1>7. ASSUME NEW ack \in Answers
      PROVE  /\ ack.outcome = "committed" <=> \E i \in 1..(committed + d) : log[i].tx = ack.tx
             /\ ack.tx \notin Gone(q, d)
             /\ \A other \in Answers : other.tx = ack.tx => other = ack
  <2>1. /\ ack.outcome = "committed" <=> \E i \in 1..committed : log[i].tx = ack.tx
        /\ \A other \in Answers : other.tx = ack.tx => other = ack
    BY DEF IInv, AckInv, AcksAreTrue
  <2>2. ack.tx \in Told
    BY DEF Told
  <2>3. ack.tx \notin Gone(q, d)
    BY <1>2, <2>2
  <2>4. ASSUME NEW i \in 1..(committed + d), log[i].tx = ack.tx PROVE i \in 1..committed
    <3> SUFFICES ASSUME i - committed \in 1..d /\ committed + (i - committed) = i PROVE FALSE
      BY <1>3
    <3>1. log[committed + (i - committed)].tx \in Gone(q, d)
      BY <1>5
    <3> QED
      BY <2>3, <2>4, <3>1
  <2> QED
    BY <1>4, <2>1, <2>3, <2>4
<1>8. ASSUME NEW r \in Gone(q, d)
      PROVE  /\ Ack(r, "committed").tx = r /\ Ack(r, "committed").outcome = "committed"
             /\ \E i \in 1..(committed + d) : log[i].tx = r
  BY <1>2, <1>5 DEF Ack
<1>9. AcksAreTrue'
  <2> SUFFICES ASSUME NEW ack \in Answers'
               PROVE  /\ ack.outcome = "committed" <=> \E i \in 1..(committed + d) : log[i].tx = ack.tx
                      /\ \A other \in Answers' : other.tx = ack.tx => other = ack
    BY DEF AcksAreTrue
  <2>1. CASE ack \in Answers
    <3>1. \A other \in Answers' : other.tx = ack.tx => other = ack
      BY <1>7, <1>8, <2>1
    <3> QED
      BY <1>7, <2>1, <3>1
  <2>2. CASE \E r \in Gone(q, d) : ack = Ack(r, "committed")
    BY <1>7, <1>8, <2>2
  <2> QED
    BY <2>1, <2>2
<1>10. \A i \in 1..committed' : log'[i].tx \in Told'
  BY <1>6
<1> QED
  BY <1>9, <1>10 DEF AckInv

LEMMA AckRefused ==
  ASSUME AckInv, NEW gone, gone \cap Told = {}, NEW outcome, outcome # "committed",
         Answers' = Answers \cup {Ack(r, outcome) : r \in gone},
         Told' = Told \cup gone, UNCHANGED <<log, committed>>
  PROVE  AckInv'
<1>1. \A i \in 1..committed : log[i].tx \in Told
  BY DEF AckInv
<1>2. \A x \in gone : x \notin Told
  OBVIOUS
<1>3. ASSUME NEW ack \in Answers
      PROVE  /\ ack.outcome = "committed" <=> \E i \in 1..committed : log[i].tx = ack.tx
             /\ \A other \in Answers : other.tx = ack.tx => other = ack
             /\ ack.tx \notin gone
  <2>1. ack.tx \in Told
    BY DEF Told
  <2> QED
    BY <1>2, <2>1 DEF AckInv, AcksAreTrue
<1>4. ASSUME NEW r \in gone
      PROVE  /\ Ack(r, outcome).tx = r /\ Ack(r, outcome).outcome # "committed"
             /\ ~\E i \in 1..committed : log[i].tx = r
  BY <1>1, <1>2 DEF Ack
<1>5. AcksAreTrue'
  <2> SUFFICES ASSUME NEW ack \in Answers'
               PROVE  /\ ack.outcome = "committed" <=> \E i \in 1..committed : log[i].tx = ack.tx
                      /\ \A other \in Answers' : other.tx = ack.tx => other = ack
    BY DEF AcksAreTrue
  <2>1. CASE ack \in Answers
    <3>1. \A other \in Answers' : other.tx = ack.tx => other = ack
      BY <1>3, <1>4, <2>1
    <3> QED
      BY <1>3, <2>1, <3>1
  <2>2. CASE \E r \in gone : ack = Ack(r, outcome)
    BY <1>3, <1>4, <2>2
  <2> QED
    BY <2>1, <2>2
<1> QED
  BY <1>1, <1>5 DEF AckInv

\* The invariant after an answer, from what the answer came to.
LEMMA AnswerKeeps ==
  ASSUME IInv, ~sealed, commits # <<>>, inflight # <<>>, commits' = Tail(commits),
         NEW eff, NEW need, Promises(eff), Covered(eff, need),
         NEW d \in 0..Len(inflight[1].slots), NEW outcome, NEW acc,
         Settled(acc, eff, Gone(inflight[1].slots, d), outcome), AnsweredVars(acc),
         \A a \in Constrained : Slack(acc.columns, eff, need, a, Gone(inflight[1].slots, d)) >= 0,
         acc.done <= d, committed' = committed + acc.done, applied' = applied + acc.done,
         sealed' = acc.sealed, acc.sealed => d < Len(inflight[1].slots),
         ~acc.sealed => commits[1].id = inflight[1].id,
         LogInv', AckInv'
  PROVE  IInv'
<1> DEFINE q == inflight[1].slots
           D == Decided
<1>0. /\ q \in Seq(Reqs) /\ Distinct(q) /\ Len(q) \in Nat \ {0}
      /\ \A i \in 1..Len(q) : q[i] \in D
  BY FrontFacts
<1>1. /\ Decided' = D \ Gone(q, d) /\ PlaceInv' /\ OpenInv' /\ FlightInv' /\ Balanced'
      /\ ClientType' /\ SlotType' /\ MoneyType' /\ AnswerType'
  BY AnswerMoves
<1>u. inflight' = Tail(inflight) /\ UNCHANGED <<open, batch, proposals, held, log, judged>>
  BY DEF AnsweredVars
<1>t. TypeInv
  BY DEF IInv
<1>2. BatchType'
  <2>1. commits' \in Seq(Decisions)
    BY <1>t, MidTail, <1>u DEF TypeInv
  <2>2. inflight' \in Seq(Flights)
    BY <1>u, FrontFacts
  <2> QED
    BY <1>t, <1>u, <2>1, <2>2 DEF TypeInv, BatchType
<1>d. acc.done \in Nat /\ acc.sealed \in BOOLEAN
  BY DEF Settled, Standings
<1>3. CountType'
  BY <1>d, <1>t, <1>u DEF TypeInv, CountType
<1>4. CountInv'
  <2> DEFINE c == Cardinality(D)
             c2 == Cardinality(D \ Gone(q, d))
  <2>1. IsFiniteSet(D)
    <3>1. D \subseteq slots /\ IsFiniteSet(slots)
      BY <1>t DEF Decided, TypeInv, SlotType
    <3> QED
      BY <3>1, FS_Subset
  <2>2. c2 = c - d /\ c \in Nat
    <3> HIDE DEF q, D
    <3> QED
      BY <1>0, <2>1, GoneCount DEF q
  <2>3. applied = committed /\ committed + c <= judged
    BY DEF IInv, CountInv
  <2>4. committed \in Nat /\ judged \in Nat /\ d \in Nat
    BY <1>0, <1>t DEF TypeInv, CountType
  <2>5. applied' = committed' /\ committed' + c2 <= judged'
    <3> HIDE DEF c, c2
    <3> QED
      BY <1>d, <1>u, <2>2, <2>3, <2>4
  <2>6. sealed' => Decided' # {}
    <3> SUFFICES ASSUME acc.sealed PROVE Decided' # {}
      OBVIOUS
    <3>1. d + 1 \in 1..Len(q) /\ d \in Nat /\ d + 1 <= Len(q)
      BY <1>0
    <3>2. q[d + 1] \notin Gone(q, d)
      BY <1>0, <3>1, GoneNext
    <3> QED
      BY <1>0, <1>1, <3>1, <3>2
  <2>7. Cardinality(Decided') = c2
    BY <1>1
  <2> QED
    BY <2>5, <2>6, <2>7 DEF CountInv
<1>5. PromiseInv'
  <2>1. /\ \A k \in 1..Len(proposals) : EffectsOf(eff, proposals[k].effects)
        /\ \A k \in 1..Len(Mid') : EffectsOf(eff, Mid'[k].effects)
    BY <1>t, <1>u, BehindTheAnswer
  <2> HIDE DEF Mid
  <2> QED
    BY <2>1, PromiseAfter
<1>6. ~sealed' => RaftInv'
  BY <1>u, RaftTail
<1> QED
  BY <1>1, <1>2, <1>3, <1>4, <1>5, <1>6 DEF IInv, TypeInv

\* An answer for another batch than the one in front: nothing moves, and the path is sealed.
LEMMA SealKeeps ==
  ASSUME IInv, ~sealed, commits # <<>>, inflight # <<>>, commits' = Tail(commits),
         NEW acc, acc = [Standing EXCEPT !.sealed = TRUE], AnsweredVars(acc), sealed' = acc.sealed,
         committed' = committed + acc.done, applied' = applied + acc.done
  PROVE  IInv'
<1> DEFINE q == inflight[1].slots
<1>0. Len(q) \in Nat \ {0}
  BY FrontFacts
<1>1. PICK eff, need : Promises(eff) /\ Covered(eff, need)
  BY DEF IInv, PromiseInv
<1> DEFINE none == {}  fine == "committed"
<1>2. Settled(Standing, eff, none, fine)
  BY <1>1, StandingIs DEF IInv
<1>s. Standing.done = 0 /\ Standing.columns = columns
  BY DEF Standing
<1>3. Standing \in Standings /\ committed \in Nat
  BY <1>2 DEF Settled, IInv, TypeInv, CountType
<1>4. /\ acc \in Standings /\ acc.columns = Standing.columns /\ acc.speculative = Standing.speculative
      /\ acc.remaining = Standing.remaining /\ acc.outbox = Standing.outbox
      /\ acc.slots = Standing.slots /\ acc.done = Standing.done
  <2> HIDE DEF Standing
  <2> QED
    BY <1>3 DEF Standings
<1>4a. acc.sealed = TRUE
  <2> HIDE DEF Standing
  <2> QED
    BY <1>3 DEF Standings
<1> HIDE DEF Standing
<1>5. Settled(acc, eff, none, fine)
  BY <1>2, <1>4 DEF Settled
<1>6. Gone(q, 0) = none
  BY DEF Gone
<1> HIDE DEF none
<1> DEFINE d == 0
<1>7. d \in 0..Len(q) /\ Settled(acc, eff, Gone(q, d), fine) /\ acc.done <= d /\ d < Len(q)
  BY <1>0, <1>4, <1>5, <1>6, <1>s
<1> HIDE DEF d, fine
<1>8. \A a \in Constrained : Slack(acc.columns, eff, need, a, Gone(q, d)) >= 0
  <2> SUFFICES ASSUME NEW a \in Constrained PROVE Slack(columns, eff, need, a, {}) >= 0
    BY <1>4, <1>6, <1>s DEF none, d
  <2> QED
    BY <1>1, SlackNow DEF IInv
<1>9. committed' = committed /\ columns' = columns /\ UNCHANGED log
  <2>1. acc.done = 0
    BY <1>4, <1>s
  <2>2. committed' = committed
    BY <1>3, <2>1
  <2> QED
    BY <1>4, <1>s, <2>2 DEF AnsweredVars
<1>10. LogInv'
  BY <1>4a, <1>9 DEF IInv, LogInv, StateFollowsLog
<1>11. AckInv'
  <2>1. Answers' = Answers \cup {Ack(r, fine) : r \in Gone(q, d)}
    BY <1>7, AnswerMoves
  <2>2. Answers' = Answers
    BY <1>6, <2>1 DEF none, d
  <2> QED
    BY <1>9, <2>2, AckFrame DEF IInv
<1> QED
  BY <1>1, <1>4a, <1>7, <1>8, <1>10, <1>11, AnswerKeeps

\* A commit of the batch in front, as far as the columns take it.
LEMMA CommitKeeps ==
  ASSUME IInv, ~sealed, commits # <<>>, inflight # <<>>, commits' = Tail(commits),
         commits[1].id = inflight[1].id, commits[1].outcome = "committed",
         NEW acc, acc = FoldLeft(CommitOne, Standing, Paired(commits[1].effects, inflight[1].slots)),
         AnsweredVars(acc), sealed' = acc.sealed,
         committed' = committed + acc.done, applied' = applied + acc.done
  PROVE  IInv'
<1> DEFINE q == inflight[1].slots
           x == commits[1].effects
           pairs == Paired(x, q)
<1>0. /\ q \in Seq(Reqs) /\ Distinct(q) /\ Len(q) \in Nat \ {0}
      /\ \A i \in 1..Len(q) : q[i] \in Decided
  BY FrontFacts
<1>1. PICK eff, need : Promises(eff) /\ Covered(eff, need)
  BY DEF IInv, PromiseInv
<1>t. /\ TypeInv /\ Balanced /\ StateFollowsLog /\ need \in [Reqs -> Nat] /\ committed \in Nat
      /\ BatchType /\ log \in Seq(EffectSet)
  BY <1>1 DEF IInv, LogInv, Covered, TypeInv, CountType, BatchType
<1>2. Len(x) = Len(q) /\ \A i \in 1..Len(q) : x[i] = eff[q[i]]
  BY <1>1, FrontMatches
<1>3. /\ pairs \in Seq(EffectSet \X Reqs) /\ Len(pairs) = Len(q)
      /\ \A i \in 1..Len(q) : pairs[i] = <<eff[q[i]], q[i]>>
  BY <1>1, FrontMatches
<1>4. PICK off : Offsets(off)
  BY DEF IInv, LogInv
<1>5. /\ off[1] = committed + Len(q) /\ off[1] \in 0..Len(log)
      /\ \A i \in 1..Len(q) : log[committed + i] = eff[q[i]]
  <2>1. 1 \in 1..Len(commits) /\ 1 \in 0..Len(commits) /\ 1 - 1 = 0
    <3>1. Len(commits) \in Nat \ {0}
      BY <1>t, RangeTail DEF BatchType
    <3> QED
      BY <3>1
  <2>2. /\ off[0] = committed /\ off[1] = off[1 - 1] + Len(x)
        /\ \A i \in 1..Len(x) : log[off[1 - 1] + i] = x[i]
    BY <1>4, <2>1 DEF Offsets
  <2>3. off[1] \in 0..Len(log)
    BY <1>4, <2>1 DEF Offsets
  <2>4. off[1 - 1] = committed
    BY <2>1, <2>2
  <2> HIDE DEF x, q
  <2> QED
    BY <1>2, <2>2, <2>3, <2>4
<1>6. committed + Len(q) <= Len(log) /\ Len(log) \in Nat
  BY <1>t, <1>5
<1> HIDE DEF q, pairs
<1>7. PICK d \in Nat : CameTo(FoldLeft(CommitOne, Standing, pairs), Len(q), d, eff, need, q)
  <2> DEFINE S == EffectSet \X Reqs
  <2>1. pairs \in Seq(S)
    BY <1>3
  <2> HIDE DEF S
  <2> QED
    BY <1>0, <1>1, <1>t, <1>3, <1>5, <1>6, <2>1, CommitRun
<1>a. acc = FoldLeft(CommitOne, Standing, pairs)
  BY DEF pairs, q
<1>8. CameTo(acc, Len(q), d, eff, need, q)
  BY <1>7, <1>a
<1>9. d <= Len(q) /\ Settled(acc, eff, Gone(q, d), "committed") /\ acc.done = d
  BY <1>8 DEF CameTo
<1>10. (acc.sealed => d < Len(q)) /\ (~acc.sealed => d = Len(q))
  BY <1>8 DEF CameTo
<1>11. acc.columns = Replayed(SubSeq(log, 1, committed + d))
  BY <1>8 DEF CameTo
<1>12. \A a \in Accounts : \A g : Levels(eff, need, a, q, g) =>
          Slack(acc.columns, eff, need, a, Gone(q, d)) = Slack(columns, eff, need, a, {}) + (g[d] - g[0])
  BY <1>8 DEF CameTo
<1>13. ASSUME NEW a \in Constrained
       PROVE  Slack(acc.columns, eff, need, a, Gone(q, d)) >= 0
  <2>0. a \in Accounts /\ 1 \in 1..Len(inflight)
    BY CommitAssumption, FrontFacts
  <2>1. Rises(eff, need, a, q)
    BY <1>1, <2>0 DEF Covered, q
  <2>2. PICK g : Levels(eff, need, a, q, g) /\ \A i \in 0..Len(q) : g[i] >= g[0]
    BY <2>1 DEF Rises
  <2>3. d \in 0..Len(q) /\ 0 \in 0..Len(q)
    BY <1>0, <1>9
  <2>4. g[d] >= g[0] /\ g[d] \in Int /\ g[0] \in Int
    BY <2>2, <2>3 DEF Levels
  <2>5. Slack(acc.columns, eff, need, a, Gone(q, d)) = Slack(columns, eff, need, a, {}) + (g[d] - g[0])
    BY <1>12, <2>0, <2>2
  <2> DEFINE now == Slack(columns, eff, need, a, {})
  <2>6. now >= 0 /\ now \in Int
    BY <1>1, <1>t, SlackNow
  <2> HIDE DEF now
  <2> QED
    BY <2>4, <2>5, <2>6 DEF now
<1>u. UNCHANGED <<log, held>> /\ columns' = acc.columns
  BY DEF AnsweredVars
<1>14. LogInv'
  <2>1. committed' = committed + d /\ committed + d <= Len(log)
    BY <1>t, <1>0, <1>6, <1>9
  <2>2. StateFollowsLog'
    BY <1>11, <1>u, <2>1 DEF StateFollowsLog
  <2>3. ~sealed' => (\E o : Offsets(o))'
    <3> SUFFICES ASSUME ~acc.sealed PROVE (\E o : Offsets(o))'
      OBVIOUS
    <3>1. committed' = off[1]
      BY <1>5, <1>10, <2>1
    <3> QED
      BY <1>4, <1>t, <1>u, <3>1, OffsetTail
  <2> QED
    BY <2>2, <2>3 DEF LogInv
<1>15. AckInv'
  <2>1. Answers' = Answers \cup {Ack(r, "committed") : r \in Gone(q, d)} /\ Told' = Told \cup Gone(q, d)
    <3> DEFINE fine == "committed"
    <3>1. Settled(acc, eff, Gone(q, d), fine) /\ d \in 0..Len(q)
      BY <1>0, <1>9
    <3> HIDE DEF fine
    <3>2. Answers' = Answers \cup {Ack(r, fine) : r \in Gone(q, d)} /\ Told' = Told \cup Gone(q, d)
      BY <3>1, AnswerMoves DEF q
    <3> QED
      BY <3>2 DEF fine
  <2>2. \A i \in 1..Len(q) : log[committed + i].tx = q[i]
    BY <1>0, <1>1, <1>5 DEF Promises
  <2>3. d \in 0..Len(q) /\ committed' = committed + d
    BY <1>0, <1>9
  <2> QED
    BY <1>0, <1>u, <2>1, <2>2, <2>3, AckCommitted
<1> DEFINE fine == "committed"
<1>16. Settled(acc, eff, Gone(q, d), fine) /\ d \in 0..Len(q)
  BY <1>0, <1>9
<1>17. acc.done <= d
  BY <1>9
<1> HIDE DEF fine
<1> QED
  BY <1>1, <1>10, <1>13, <1>14, <1>15, <1>16, <1>17, AnswerKeeps DEF q

\* A refusal of the batch in front: everything is given back.
LEMMA FailKeeps ==
  ASSUME IInv, ~sealed, commits # <<>>, inflight # <<>>, commits' = Tail(commits),
         commits[1].id = inflight[1].id, commits[1].outcome = "failed",
         NEW acc, acc = FoldLeft(RollBackOne, Standing, Paired(commits[1].effects, inflight[1].slots)),
         AnsweredVars(acc), sealed' = acc.sealed,
         committed' = committed + acc.done, applied' = applied + acc.done
  PROVE  IInv'
<1> DEFINE q == inflight[1].slots
           x == commits[1].effects
           pairs == Paired(x, q)
           d == Len(q)
           gone == Gone(q, d)
<1>0. /\ q \in Seq(Reqs) /\ Distinct(q) /\ Len(q) \in Nat \ {0}
      /\ \A i \in 1..Len(q) : q[i] \in Decided
  BY FrontFacts
<1>1. PICK eff, need : Promises(eff) /\ Covered(eff, need)
  BY DEF IInv, PromiseInv
<1>t. /\ TypeInv /\ Balanced /\ StateFollowsLog /\ need \in [Reqs -> Nat] /\ committed \in Nat
      /\ BatchType /\ eff \in [Reqs -> EffectSet]
  BY <1>1 DEF IInv, LogInv, Covered, TypeInv, CountType, Promises
<1>3. /\ pairs \in Seq(EffectSet \X Reqs) /\ Len(pairs) = Len(q)
      /\ \A i \in 1..Len(q) : pairs[i] = <<eff[q[i]], q[i]>>
  BY <1>1, FrontMatches
<1>4. PICK off : Offsets(off)
  BY DEF IInv, LogInv
<1>5. off[1] = committed
  <2>1. 1 \in 1..Len(commits) /\ 1 - 1 = 0
    <3>1. Len(commits) \in Nat \ {0}
      BY <1>t, RangeTail DEF BatchType
    <3> QED
      BY <3>1
  <2>2. off[0] = committed /\ off[1] = off[1 - 1]
    BY <1>4, <2>1 DEF Offsets
  <2> QED
    BY <2>1, <2>2
<1> HIDE DEF q, pairs
<1>a. acc = FoldLeft(RollBackOne, Standing, pairs)
  BY DEF pairs, q
<1>7. RolledTo(acc, Len(q), eff, q)
  <2> DEFINE S == EffectSet \X Reqs
  <2>1. pairs \in Seq(S)
    BY <1>3
  <2> HIDE DEF S
  <2>2. RolledTo(FoldLeft(RollBackOne, Standing, pairs), Len(q), eff, q)
    BY <1>0, <1>1, <1>t, <1>3, <2>1, RollBackRun
  <2> QED
    BY <1>a, <2>2
<1> DEFINE bad == "failed"
<1>8. Settled(acc, eff, gone, bad) /\ acc.done = 0 /\ acc.columns = columns
  BY <1>7 DEF RolledTo
<1>9. ~acc.sealed
  BY <1>7 DEF RolledTo
<1> HIDE DEF bad
<1>10. d \in 0..Len(q)
  BY <1>0
<1>11. /\ gone \subseteq Decided /\ Answers' = Answers \cup {Ack(r, bad) : r \in gone}
       /\ Told' = Told \cup gone
  <2> HIDE DEF d
  <2> QED
    BY <1>8, <1>10, AnswerMoves DEF q
<1>12. ASSUME NEW a \in Constrained
       PROVE  Slack(acc.columns, eff, need, a, gone) >= 0
  <2> DEFINE s == SumFunctionOnSet(NeedShare(eff, need, a), Decided)
             s2 == SumFunctionOnSet(NeedShare(eff, need, a), Decided \ gone)
             av == Available(columns[a])
  <2>0. a \in Accounts
    BY CommitAssumption
  <2>1. s2 <= s
    BY <1>0, <1>t, <2>0, NeedOfTheRest
  <2>2. s \in Int /\ s2 \in Int
    <3> DEFINE ns == NeedShare(eff, need, a)
               D2 == Decided \ gone
    <3>1. D2 \subseteq Decided /\ Decided \subseteq Decided
      OBVIOUS
    <3> HIDE DEF D2
    <3>2. IsFiniteSet(Decided) /\ Ints(ns, Decided)
      BY <1>t, <2>0, <3>1, LeftFacts
    <3>3. IsFiniteSet(D2) /\ Ints(ns, D2)
      BY <1>t, <2>0, <3>1, LeftFacts
    <3> HIDE DEF ns
    <3>4. SumFunctionOnSet(ns, Decided) \in Int
      BY <3>2, SumType
    <3>5. SumFunctionOnSet(ns, D2) \in Int
      BY <3>3, SumType
    <3> QED
      BY <3>4, <3>5 DEF ns, D2
  <2>3. av \in Int
    <3>1. columns[a] \in Book
      BY <1>t, <2>0 DEF TypeInv, MoneyType
    <3> QED
      BY <3>1 DEF Book, Available
  <2>4. av >= s
    BY <1>1 DEF Covered
  <2>5. Slack(acc.columns, eff, need, a, gone) = av - s2
    BY <1>8 DEF Slack
  <2> HIDE DEF av, s, s2
  <2> QED
    BY <2>1, <2>2, <2>3, <2>4, <2>5
<1>u. UNCHANGED <<log, held>> /\ columns' = columns /\ committed' = committed
  BY <1>t, <1>8 DEF AnsweredVars
<1>14. LogInv'
  <2>2. StateFollowsLog'
    BY <1>t, <1>u DEF StateFollowsLog
  <2>3. (\E o : Offsets(o))'
    BY <1>4, <1>5, <1>t, <1>u, OffsetTail
  <2> QED
    BY <2>2, <2>3 DEF LogInv
<1>15. AckInv'
  <2>1. bad # "committed" /\ AckInv
    BY DEF bad, IInv
  <2> HIDE DEF gone
  <2>2. gone \cap Told = {}
    BY <1>11 DEF Decided, IInv, PlaceInv
  <2> QED
    BY <1>11, <1>u, <2>1, <2>2, AckRefused
<1>16. acc.done <= d
  BY <1>0, <1>8
<1>17. \A a \in Constrained : Slack(acc.columns, eff, need, a, Gone(q, d)) >= 0
  BY <1>12
<1>18. Settled(acc, eff, Gone(q, d), bad)
  BY <1>8
<1> HIDE DEF d
<1> QED
  BY <1>1, <1>9, <1>10, <1>14, <1>15, <1>16, <1>17, <1>18, AnswerKeeps DEF q

LEMMA ApplyKeeps == IInv /\ Apply => IInv'
<1> SUFFICES ASSUME IInv, Apply PROVE IInv'
  OBVIOUS
<1> DEFINE acc == Answered(Head(commits), Head(inflight))
<1>0. ~sealed
  BY DEF Apply
<1>1. /\ commits # <<>> /\ commits' = Tail(commits) /\ inflight # <<>>
      /\ committed' = committed + acc.done /\ applied' = applied + acc.done
  BY DEF Apply
<1>2. sealed' = acc.sealed
  BY DEF Apply
<1>3. AnsweredVars(acc)
  <2>1. /\ columns' = acc.columns /\ speculative' = acc.speculative /\ remaining' = acc.remaining
        /\ outbox' = acc.outbox /\ slots' = acc.slots /\ inflight' = Tail(inflight)
    BY DEF Apply
  <2>2. UNCHANGED <<left, script, queue, ready, open, batch, proposals, held, log, taken, judged>>
    BY DEF Apply, client
  <2> QED
    BY <2>1, <2>2 DEF AnsweredVars
<1>4. Head(commits) = commits[1] /\ Head(inflight) = inflight[1]
  <2>1. commits \in Seq(Decisions) /\ inflight \in Seq(Flights)
    BY DEF IInv, TypeInv, BatchType
  <2>2. Head(commits) = commits[1]
    BY <1>1, <2>1, RangeTail
  <2>3. Head(inflight) = inflight[1]
    BY <1>1, <2>1, RangeTail
  <2> QED
    BY <2>2, <2>3
<1>5. commits[1].outcome \in {"committed", "failed"}
  <2>1. commits \in Seq(Decisions)
    BY DEF IInv, TypeInv, BatchType
  <2>2. commits[1] \in Decisions
    BY <1>1, <1>4, <2>1, RangeTail
  <2> QED
    BY <2>2 DEF Decisions
<1> DEFINE pairs == Paired(commits[1].effects, inflight[1].slots)
<1>6. CASE commits[1].id # inflight[1].id
  <2>1. acc = [Standing EXCEPT !.sealed = TRUE]
    BY <1>4, <1>6 DEF Answered, AnswersTheFirst
  <2> HIDE DEF acc
  <2> QED
    BY <1>0, <1>1, <1>2, <1>3, <2>1, SealKeeps
<1>7. CASE commits[1].id = inflight[1].id /\ commits[1].outcome = "committed"
  <2>1. acc = FoldLeft(CommitOne, Standing, pairs)
    BY <1>4, <1>7 DEF Answered, AnswersTheFirst
  <2> HIDE DEF acc
  <2> QED
    BY <1>0, <1>1, <1>2, <1>3, <1>7, <2>1, CommitKeeps
<1>8. CASE commits[1].id = inflight[1].id /\ commits[1].outcome = "failed"
  <2>1. acc = FoldLeft(RollBackOne, Standing, pairs)
    BY <1>4, <1>8 DEF Answered, AnswersTheFirst
  <2> HIDE DEF acc
  <2> QED
    BY <1>0, <1>1, <1>2, <1>3, <1>8, <2>1, FailKeeps
<1> QED
  BY <1>5, <1>6, <1>7, <1>8

-----------------------------------------------------------------------------
(* A verdict, one leg at a time.                                           *)

Verdicts == [ok : BOOLEAN, effects : Seq(EffectSet), speculative : [Accounts -> Int],
             remaining : [Reqs -> Nat \cup {None}]]

\* One leg taken: its effect is last, and its lane promises what it reserves.
Took(acc, e, new) ==
  /\ new \in Verdicts /\ e \in EffectSet
  /\ new.effects = Append(acc.effects, e)
  /\ new.speculative = [acc.speculative EXCEPT ![e.debit] = acc.speculative[e.debit] - Reservation(e)]
  /\ \A x \in Reqs : acc.remaining[x] # None => new.remaining[x] # None
  /\ Resolves(e) => e.ref \in Reqs /\ acc.remaining[e.ref] # None
  /\ ~Resolves(e) /\ e.debit \in Constrained => ~(Spendable(acc, e.debit) < Reservation(e))

LEMMA LegStops ==
  ASSUME NEW acc \in Verdicts, NEW r \in Reqs, ~acc.ok \/ failStop \/ AmountOf(acc, r) = None
  PROVE  Leg(acc, r) \in Verdicts /\ ~Leg(acc, r).ok
<1>1. Leg(acc, r) = [acc EXCEPT !.ok = FALSE]
  BY DEF Leg
<1> QED
  BY <1>1 DEF Verdicts

\* What a request may move, when it may.
LEMMA AmountIs ==
  ASSUME NEW acc \in Verdicts, NEW r \in Reqs, AmountOf(acc, r) # None
  PROVE  LET m == AmountOf(acc, r)
             e == Effect(r, m)
         IN /\ m \in Nat /\ e \in EffectSet /\ e.tx = r
            /\ Resolves(e) => /\ e.ref \in Reqs /\ acc.remaining[e.ref] \in Nat
                              /\ e.amount <= acc.remaining[e.ref]
            /\ ~Resolves(e) /\ e.debit \in Constrained => ~(Spendable(acc, e.debit) < Reservation(e))
<1> DEFINE t == Transfer[r]
           m == AmountOf(acc, r)
           e == Effect(r, m)
<1>1. /\ t.kind \in Kinds /\ t.amount \in Nat /\ t.ref \in Reqs \cup {None}
      /\ t.kind \in {"settle", "void"} => t.ref # None
  BY ClientAssumption DEF Kinds
<1>2. e.kind = t.kind /\ e.ref = t.ref /\ e.amount = m /\ e.debit = t.debit
  BY DEF Effect
<1>3. CASE t.kind \in {"post", "hold"}
  <2>1. m = IF t.debit \in Constrained /\ Spendable(acc, t.debit) < t.amount THEN None ELSE t.amount
    BY <1>3 DEF AmountOf
  <2>2. m = t.amount /\ ~(t.debit \in Constrained /\ Spendable(acc, t.debit) < t.amount)
    BY <2>1
  <2> HIDE DEF m
  <2>3. ~Resolves(e) /\ Reservation(e) = m
    BY <1>2, <1>3 DEF Resolves, Reservation
  <2>4. e \in EffectSet /\ e.tx = r
    BY <1>1, <2>2, FirstEffectsType
  <2> HIDE DEF e
  <2> QED
    BY <1>1, <1>2, <2>2, <2>3, <2>4 DEF m, e
<1>4. CASE t.kind \in {"settle", "void"}
  <2> DEFINE left0 == acc.remaining[t.ref]
  <2>1. m = IF left0 \in {None, 0} THEN None
            ELSE IF t.kind = "void" THEN left0
            ELSE IF t.amount <= left0 THEN t.amount ELSE None
    BY <1>4 DEF AmountOf
  <2>2. t.ref \in Reqs /\ left0 \in Nat \cup {None}
    BY <1>1, <1>4 DEF Verdicts
  <2> HIDE DEF left0, m
  <2>3. m # None
    BY DEF m
  <2>4. left0 \in Nat /\ m \in Nat /\ m <= left0
    BY <1>1, <2>1, <2>2, <2>3
  <2>5. Resolves(e)
    BY <1>2, <1>4 DEF Resolves
  <2>6. e \in EffectSet /\ e.tx = r
    BY <2>4, FirstEffectsType
  <2> HIDE DEF e
  <2> QED
    BY <1>2, <2>2, <2>4, <2>5, <2>6 DEF m, e, left0
<1> QED
  BY <1>1, <1>3, <1>4 DEF Kinds

LEMMA LegTakes ==
  ASSUME NEW acc \in Verdicts, NEW r \in Reqs, acc.ok, ~failStop, AmountOf(acc, r) # None
  PROVE  \E e : e.tx = r /\ Took(acc, e, Leg(acc, r))
<1> DEFINE m == AmountOf(acc, r)
           e == Effect(r, m)
           took == TakeOverlays(acc, e)
           new == [took EXCEPT !.effects = Append(took.effects, e)]
<1>1. acc.ok /\ ~failStop /\ m # None
  OBVIOUS
<1>2. Leg(acc, r) = new
  BY <1>1 DEF Leg
<1>3. /\ m \in Nat /\ e \in EffectSet /\ e.tx = r
      /\ Resolves(e) => /\ e.ref \in Reqs /\ acc.remaining[e.ref] \in Nat
                        /\ e.amount <= acc.remaining[e.ref]
      /\ ~Resolves(e) /\ e.debit \in Constrained => ~(Spendable(acc, e.debit) < Reservation(e))
  BY <1>1, AmountIs
<1> DEFINE sp == [acc.speculative EXCEPT ![e.debit] = acc.speculative[e.debit] - Reservation(e)]
           rm == IF Resolves(e) THEN [acc.remaining EXCEPT ![e.ref] = acc.remaining[e.ref] - e.amount]
                 ELSE acc.remaining
<1> HIDE DEF m, e
<1>4. took = [acc EXCEPT !.speculative = sp, !.remaining = rm]
  BY DEF TakeOverlays, Verdicts
<1>5. /\ acc.effects \in Seq(EffectSet) /\ acc.speculative \in [Accounts -> Int]
      /\ acc.remaining \in [Reqs -> Nat \cup {None}]
  BY DEF Verdicts
<1>6. e.debit \in Accounts /\ e.amount \in Nat /\ Reservation(e) \in Nat
  BY <1>3, ColumnsType DEF EffectSet
<1>7. sp \in [Accounts -> Int]
  BY <1>5, <1>6
<1>8. rm \in [Reqs -> Nat \cup {None}] /\ \A x \in Reqs : acc.remaining[x] # None => rm[x] # None
  <2>1. CASE Resolves(e)
    <3> DEFINE v == acc.remaining[e.ref] - e.amount
    <3>1. v \in Nat /\ v # None /\ e.ref \in Reqs
      BY <1>3, <1>6, <2>1, CommitAssumption
    <3> HIDE DEF v
    <3>2. rm = [acc.remaining EXCEPT ![e.ref] = v]
      BY <2>1 DEF v
    <3> HIDE DEF rm
    <3> QED
      BY <1>5, <3>1, <3>2
  <2>2. CASE ~Resolves(e)
    BY <1>5, <2>2
  <2> QED
    BY <2>1, <2>2
<1> HIDE DEF sp, rm
<1>9. /\ new.effects = Append(acc.effects, e) /\ new.speculative = sp /\ new.remaining = rm
      /\ new \in Verdicts
  <2>1. Append(acc.effects, e) \in Seq(EffectSet)
    BY <1>3, <1>5
  <2>2. new = [acc EXCEPT !.effects = Append(acc.effects, e), !.speculative = sp, !.remaining = rm]
    BY <1>4 DEF Verdicts
  <2> HIDE DEF new
  <2> QED
    BY <1>7, <1>8, <2>1, <2>2 DEF Verdicts
<1> HIDE DEF new
<1>10. Resolves(e) => acc.remaining[e.ref] # None
  BY <1>3, CommitAssumption
<1>11. ~Resolves(e) /\ e.debit \in Constrained => ~(Spendable(acc, e.debit) < Reservation(e))
  BY <1>3
<1>12. Took(acc, e, new)
  BY <1>3, <1>8, <1>9, <1>10, <1>11 DEF Took, sp
<1> QED
  BY <1>1, <1>2, <1>3, <1>12

\* What the legs before one bring in.
Gains(q, a) == SumFunction([i \in DOMAIN q |-> Gain(q[i], a)])

LEMMA GainsNext ==
  ASSUME NEW q \in Seq(EffectSet), NEW e \in EffectSet, NEW a
  PROVE  Gains(Append(q, e), a) = Gains(q, a) + Gain(e, a) /\ Gains(q, a) \in Int
<1> DEFINE n == Len(q)
           D == 1..n
           f == [i \in D |-> Gain(q[i], a)]
           h == [i \in 1..(n + 1) |-> Gain(Append(q, e)[i], a)]
<1>0. /\ n \in Nat /\ DOMAIN q = D /\ DOMAIN Append(q, e) = 1..(n + 1)
      /\ \A i \in D : Append(q, e)[i] = q[i] /\ q[i] \in EffectSet
      /\ Append(q, e)[n + 1] = e
  OBVIOUS
<1>1. Gains(q, a) = SumFunctionOnSet(f, D) /\ Gains(Append(q, e), a) = SumFunctionOnSet(h, 1..(n + 1))
  BY <1>0 DEF Gains, SumFunction
<1>2. 1..(n + 1) = D \cup {n + 1} /\ n + 1 \notin D /\ n + 1 \in 1..(n + 1)
  BY <1>0
<1>3. IsFiniteSet(D)
  BY <1>0, FS_Interval
<1>4. /\ \A i \in D : i \in 1..(n + 1) /\ f[i] = Gain(q[i], a) /\ h[i] = f[i] /\ Gain(q[i], a) \in Int
      /\ h[n + 1] = Gain(e, a) /\ Gain(e, a) \in Int
  <2>1. \A i \in D : Gain(q[i], a) \in Nat
    BY <1>0, ColumnsType
  <2>2. Gain(e, a) \in Nat
    BY ColumnsType
  <2> HIDE DEF n
  <2> QED
    BY <1>0, <1>2, <2>1, <2>2
<1> HIDE DEF f, h, D
<1>5. Ints(f, D) /\ Ints(h, D) /\ Ints(h, D \cup {n + 1})
  BY <1>4 DEF Ints
<1>6. SumFunctionOnSet(h, D \cup {n + 1}) = h[n + 1] + SumFunctionOnSet(h, D)
  <2> DEFINE x == n + 1
  <2>1. x \notin D /\ Ints(h, D \cup {x})
    BY <1>2, <1>5
  <2> HIDE DEF x
  <2>2. SumFunctionOnSet(h, D \cup {x}) = h[x] + SumFunctionOnSet(h, D)
    BY <1>3, <2>1, SumInsert
  <2> QED
    BY <2>2 DEF x
<1>7. SumFunctionOnSet(h, D) = SumFunctionOnSet(f, D)
  BY <1>3, <1>4, SumCong
<1>8. SumFunctionOnSet(f, D) \in Int
  BY <1>3, <1>5, SumType
<1>9. Gains(Append(q, e), a) = SumFunctionOnSet(h, D \cup {n + 1})
  BY <1>1, <1>2
<1> DEFINE g == Gains(q, a)
           w == Gain(e, a)
<1>10. Gains(Append(q, e), a) = w + g /\ w \in Int /\ g \in Int
  BY <1>1, <1>4, <1>6, <1>7, <1>8, <1>9
<1> HIDE DEF g, w
<1> QED
  BY <1>10 DEF g, w

LEMMA GainsNothing == \A a : Gains(<<>>, a) = 0
<1> TAKE a
<1>1. DOMAIN <<>> = {}
  OBVIOUS
<1> DEFINE f == [i \in {} |-> Gain(<<>>[i], a)]
<1>2. Gains(<<>>, a) = SumFunctionOnSet(f, {})
  BY <1>1 DEF Gains, SumFunction
<1> HIDE DEF f
<1> QED
  BY <1>2, SumEmpty

\* A sum with one request more, whose share has only now been decided.
LEMMA SumDecides ==
  ASSUME NEW D, IsFiniteSet(D), NEW r, r \notin D, NEW f, Ints(f, D), NEW e, \A x \in D : e[x] = f[x],
         e[r] \in Int
  PROVE  /\ SumFunctionOnSet(e, D \cup {r}) = e[r] + SumFunctionOnSet(f, D)
         /\ SumFunctionOnSet(f, D) \in Int
<1>1. Ints(e, D \cup {r})
  BY DEF Ints
<1>2. SumFunctionOnSet(e, D \cup {r}) = e[r] + SumFunctionOnSet(e, D)
  BY <1>1, SumInsert
<1>3. SumFunctionOnSet(e, D) = SumFunctionOnSet(f, D)
  BY SumCong
<1>4. SumFunctionOnSet(f, D) \in Int
  BY SumType
<1> QED
  BY <1>2, <1>3, <1>4

\* No request needs more of its account than it reserves.
LEMMA NeedAtMost ==
  ASSUME NEW D, IsFiniteSet(D), NEW f, NEW e, \A x \in D : f[x] \in Int /\ e[x] \in Int /\ f[x] <= e[x]
  PROVE  SumFunctionOnSet(f, D) <= SumFunctionOnSet(e, D)
<1> DEFINE Sound(t) == SumFunctionOnSet(f, t) <= SumFunctionOnSet(e, t)
           T == {k \in Nat : \A t \in SUBSET D : Cardinality(t) = k => Sound(t)}
<1>1. 0 \in T
  <2> SUFFICES ASSUME NEW t \in SUBSET D, Cardinality(t) = 0 PROVE Sound(t)
    OBVIOUS
  <2>1. IsFiniteSet(t)
    BY FS_Subset
  <2>2. t = {}
    BY <2>1, FS_EmptySet
  <2>3. SumFunctionOnSet(f, t) = 0 /\ SumFunctionOnSet(e, t) = 0
    BY <2>2, SumEmpty
  <2> QED
    BY <2>3
<1>2. ASSUME NEW k \in Nat, k \in T PROVE k + 1 \in T
  <2> SUFFICES ASSUME NEW u \in SUBSET D, Cardinality(u) = k + 1 PROVE Sound(u)
    OBVIOUS
  <2>1. IsFiniteSet(u)
    BY FS_Subset
  <2>2. u # {}
    <3> SUFFICES ASSUME u = {} PROVE FALSE
      OBVIOUS
    <3>1. Cardinality({}) = 0
      BY FS_EmptySet
    <3>2. k + 1 = 0
      BY <3>1
    <3> QED
      BY <3>2
  <2>3. PICK x \in u : TRUE
    BY <2>2
  <2> DEFINE t == u \ {x}
  <2>4. t \in SUBSET D /\ x \in D /\ x \notin t /\ u = t \cup {x}
    BY <2>3
  <2>. IsFiniteSet(t) /\ Cardinality(t) = (k + 1) - 1
    BY <2>1, <2>3, FS_RemoveElement
  <2>5. Sound(t)
    <3>1. Cardinality(t) = k
      BY <2>4
    <3> HIDE DEF Sound, t
    <3> QED
      BY <1>2, <2>4, <3>1
  <2> HIDE DEF t
  <2>6. /\ Ints(f, t) /\ Ints(e, t) /\ e[x] \in Int /\ f[x] \in Int /\ f[x] <= e[x]
        /\ \A y \in t : f[y] = f[y] /\ e[y] = e[y]
    BY <2>4 DEF Ints
  <2>7. SumFunctionOnSet(f, t \cup {x}) = f[x] + SumFunctionOnSet(f, t) /\ SumFunctionOnSet(f, t) \in Int
    BY <2>4, <2>6, SumDecides
  <2>8. SumFunctionOnSet(e, t \cup {x}) = e[x] + SumFunctionOnSet(e, t) /\ SumFunctionOnSet(e, t) \in Int
    BY <2>4, <2>6, SumDecides
  <2> QED
    BY <2>4, <2>5, <2>6, <2>7, <2>8
<1> HIDE DEF T
<1>3. Nat \subseteq T
  BY <1>1, <1>2, A!SetInduction
<1>4. Cardinality(D) \in Nat /\ D \in SUBSET D
  BY FS_CardinalityType
<1> QED
  BY <1>3, <1>4 DEF T

\* Some legs of a unit judged: what was decided before is as it was, and the overlays
\* promise what the legs reserve.
Deciding(acc, unit, i, eff0, need0, eff, need) ==
  /\ acc \in Verdicts
  /\ eff \in [Reqs -> EffectSet] /\ \A x \in Reqs : eff[x].tx = x
  /\ need \in [Reqs -> Nat] /\ \A x \in Reqs : need[x] <= Reservation(eff[x])
  /\ \A x \in Reqs \ Gone(unit, i) : eff[x] = eff0[x] /\ need[x] = need0[x]
  /\ Len(acc.effects) = i /\ \A j \in 1..i : acc.effects[j] = eff[unit[j]]
  /\ \A x \in Reqs : remaining[x] # None => acc.remaining[x] # None
  /\ \A j \in 1..i : Resolves(eff[unit[j]]) =>
       eff[unit[j]].ref \in Reqs /\ acc.remaining[eff[unit[j]].ref] # None
  /\ \A a \in Accounts : acc.speculative[a] = -SumFunctionOnSet(Share(eff, a), Decided \cup Gone(unit, i))
\* What a leg does not find in its account the legs before it bring in.
Afforded(acc, unit, i, eff, need, lev) ==
  /\ lev \in [0..i -> [Accounts -> Int]]
  /\ \A a \in Accounts : lev[0][a] = 0
  /\ \A a \in Accounts : \A k \in 1..i : lev[k][a] = lev[k - 1][a] + Surplus(eff, need, a, unit[k])
  /\ \A a \in Accounts : \A k \in 0..i : lev[k][a] >= 0
  /\ \A a \in Constrained :
       Available(columns[a]) >= SumFunctionOnSet(NeedShare(eff, need, a), Decided \cup Gone(unit, i))
  /\ \A a \in Accounts :
       lev[i][a] >= SumFunctionOnSet(NeedShare(eff, need, a), Decided \cup Gone(unit, i))
                      + acc.speculative[a] + Gains(acc.effects, a)

\* What the next leg has to find: what it reserves beyond what the legs before brought in.
NeedOf(h, res) == IF res <= h THEN 0 ELSE res - h

\* What one request comes to, in one account.
Shares(eff, need, a, x) ==
  /\ Share(eff, a)[x] = Debited(eff[x], a) /\ Share(eff, a)[x] \in Nat
  /\ NeedShare(eff, need, a)[x] = (IF eff[x].debit = a THEN need[x] ELSE 0)
  /\ NeedShare(eff, need, a)[x] \in Nat
  /\ Gain(eff[x], a) \in Nat /\ Debited(eff[x], a) \in Nat
  /\ Surplus(eff, need, a, x) = NeedShare(eff, need, a)[x] + Gain(eff[x], a) - Debited(eff[x], a)

LEMMA SharesType ==
  ASSUME NEW eff \in [Reqs -> EffectSet], NEW need \in [Reqs -> Nat], NEW a, NEW x \in Reqs
  PROVE  Shares(eff, need, a, x)
<1>1. Reservation(eff[x]) \in Nat /\ need[x] \in Nat /\ Gain(eff[x], a) \in Nat /\ Debited(eff[x], a) \in Nat
  BY ColumnsType
<1> QED
  BY <1>1 DEF Shares, Share, NeedShare, Debited, Surplus

\* The overlays and the needs, with one request more.
Grows(eff, need, eff2, need2, r, D, a) ==
  /\ SumFunctionOnSet(Share(eff2, a), D \cup {r}) = Debited(eff2[r], a) + SumFunctionOnSet(Share(eff, a), D)
  /\ SumFunctionOnSet(Share(eff, a), D) \in Int
  /\ SumFunctionOnSet(NeedShare(eff2, need2, a), D \cup {r})
       = NeedShare(eff2, need2, a)[r] + SumFunctionOnSet(NeedShare(eff, need, a), D)
  /\ SumFunctionOnSet(NeedShare(eff, need, a), D) \in Int

LEMMA SharesNext ==
  ASSUME NEW eff \in [Reqs -> EffectSet], NEW need \in [Reqs -> Nat],
         NEW eff2 \in [Reqs -> EffectSet], NEW need2 \in [Reqs -> Nat], NEW r \in Reqs,
         \A x \in Reqs \ {r} : eff2[x] = eff[x] /\ need2[x] = need[x],
         NEW D, IsFiniteSet(D), D \subseteq Reqs, r \notin D, NEW a
  PROVE  Grows(eff, need, eff2, need2, r, D, a)
<1> DEFINE s == Share(eff, a)
           s2 == Share(eff2, a)
           n == NeedShare(eff, need, a)
           n2 == NeedShare(eff2, need2, a)
<1>1. \A x \in Reqs : s[x] \in Nat /\ n[x] \in Nat
  <2>1. \A x \in Reqs : Shares(eff, need, a, x)
    BY SharesType
  <2> QED
    BY <2>1 DEF Shares
<1>2. s2[r] = Debited(eff2[r], a) /\ s2[r] \in Int /\ n2[r] \in Int
  <2>1. Shares(eff2, need2, a, r)
    BY SharesType
  <2> QED
    BY <2>1 DEF Shares
<1>3. \A x \in D : s2[x] = s[x] /\ n2[x] = n[x]
  <2> SUFFICES ASSUME NEW x \in D PROVE s2[x] = s[x] /\ n2[x] = n[x]
    OBVIOUS
  <2>1. x \in Reqs /\ eff2[x] = eff[x] /\ need2[x] = need[x]
    OBVIOUS
  <2> QED
    BY <2>1 DEF Share, NeedShare
<1> HIDE DEF s, s2, n, n2
<1>4. Ints(s, D) /\ Ints(n, D)
  BY <1>1 DEF Ints
<1>5. SumFunctionOnSet(s2, D \cup {r}) = s2[r] + SumFunctionOnSet(s, D) /\ SumFunctionOnSet(s, D) \in Int
  BY <1>2, <1>3, <1>4, SumDecides
<1>6. SumFunctionOnSet(n2, D \cup {r}) = n2[r] + SumFunctionOnSet(n, D) /\ SumFunctionOnSet(n, D) \in Int
  BY <1>2, <1>3, <1>4, SumDecides
<1> QED
  BY <1>2, <1>5, <1>6 DEF Grows, s, s2, n, n2

LEMMA DecidingNext ==
  ASSUME TypeInv, NEW unit \in Seq(Reqs), Distinct(unit),
         \A j \in 1..Len(unit) : unit[j] \in slots /\ unit[j] \notin Decided,
         NEW i \in Nat, i + 1 <= Len(unit), NEW eff0, NEW need0, NEW eff, NEW need, NEW acc,
         Deciding(acc, unit, i, eff0, need0, eff, need), NEW e, e.tx = unit[i + 1], NEW new, Took(acc, e, new),
         NEW m \in Nat, m <= Reservation(e)
  PROVE  LET r == unit[i + 1]
             eff2 == [eff EXCEPT ![r] = e]
             need2 == [need EXCEPT ![r] = m]
             D == Decided \cup Gone(unit, i)
         IN /\ Deciding(new, unit, i + 1, eff0, need0, eff2, need2)
            /\ eff2 \in [Reqs -> EffectSet] /\ need2 \in [Reqs -> Nat] /\ eff2[r] = e /\ need2[r] = m
            /\ r \in Reqs /\ \A x \in Reqs \ {r} : eff2[x] = eff[x] /\ need2[x] = need[x]
            /\ Decided \cup Gone(unit, i + 1) = D \cup {r} /\ r \notin D /\ IsFiniteSet(D) /\ D \subseteq Reqs
<1> DEFINE r == unit[i + 1]
           eff2 == [eff EXCEPT ![r] = e]
           need2 == [need EXCEPT ![r] = m]
           D == Decided \cup Gone(unit, i)
<1>0. i + 1 \in 1..Len(unit) /\ \A j \in 1..i : j \in 1..Len(unit) /\ j # i + 1
  BY RangeOf
<1>1. Gone(unit, i + 1) = Gone(unit, i) \cup {r} /\ r \notin Gone(unit, i) /\ r \in Reqs
  BY GoneNext
<1>2. r \in slots /\ r \notin Decided
  BY <1>0
<1>3. Decided \cup Gone(unit, i + 1) = D \cup {r} /\ r \notin D
  <2> HIDE DEF r
  <2> QED
    BY <1>1, <1>2
<1>4. IsFiniteSet(D) /\ D \subseteq Reqs
  <2>1. Gone(unit, i) \subseteq slots
    BY <1>0 DEF Gone
  <2>2. Decided \subseteq slots
    BY DEF Decided
  <2>3. IsFiniteSet(slots) /\ slots \subseteq Reqs
    BY DEF TypeInv, SlotType
  <2> QED
    BY <2>1, <2>2, <2>3, FS_Subset
<1>5. \A j \in 1..i : unit[j] # r /\ unit[j] \in Reqs
  BY <1>0 DEF Distinct
<1>6. /\ eff \in [Reqs -> EffectSet] /\ \A x \in Reqs : eff[x].tx = x
      /\ need \in [Reqs -> Nat] /\ \A x \in Reqs : need[x] <= Reservation(eff[x])
      /\ \A x \in Reqs \ Gone(unit, i) : eff[x] = eff0[x] /\ need[x] = need0[x]
  BY DEF Deciding
<1>t. new \in Verdicts /\ e \in EffectSet /\ new.effects = Append(acc.effects, e) /\ acc \in Verdicts
  BY DEF Took, Deciding
<1>e. e.tx = r
  OBVIOUS
<1> HIDE DEF r
<1>7. /\ eff2 \in [Reqs -> EffectSet] /\ need2 \in [Reqs -> Nat] /\ eff2[r] = e /\ need2[r] = m
      /\ \A x \in Reqs \ {r} : eff2[x] = eff[x] /\ need2[x] = need[x]
  BY <1>1, <1>6, <1>t
<1> HIDE DEF eff2, need2
<1>8. \A x \in Reqs : eff2[x].tx = x /\ need2[x] <= Reservation(eff2[x])
  <2> SUFFICES ASSUME NEW x \in Reqs PROVE eff2[x].tx = x /\ need2[x] <= Reservation(eff2[x])
    OBVIOUS
  <2>1. CASE x = r
    BY <1>7, <1>e, <2>1
  <2>2. CASE x # r
    BY <1>6, <1>7, <2>2
  <2> QED
    BY <2>1, <2>2
<1>9. \A x \in Reqs \ Gone(unit, i + 1) : eff2[x] = eff0[x] /\ need2[x] = need0[x]
  BY <1>1, <1>6, <1>7
<1>10. Len(new.effects) = i + 1 /\ \A j \in 1..(i + 1) : new.effects[j] = eff2[unit[j]]
  <2> DEFINE q == acc.effects
  <2>1. q \in Seq(EffectSet) /\ Len(q) = i /\ \A j \in 1..i : q[j] = eff[unit[j]]
    BY <1>t DEF Deciding, Verdicts
  <2> HIDE DEF q
  <2>2. /\ Len(Append(q, e)) = i + 1 /\ Append(q, e)[i + 1] = e
        /\ \A j \in 1..i : Append(q, e)[j] = q[j]
    BY <1>t, <2>1
  <2>3. \A j \in 1..(i + 1) : j \in 1..i \/ j = i + 1
    OBVIOUS
  <2>4. \A j \in 1..i : Append(q, e)[j] = eff2[unit[j]]
    BY <1>5, <1>7, <2>1, <2>2
  <2>5. Append(q, e)[i + 1] = eff2[unit[i + 1]]
    BY <1>7, <2>2 DEF r
  <2>6. new.effects = Append(q, e)
    BY <1>t DEF q
  <2> QED
    BY <2>2, <2>3, <2>4, <2>5, <2>6
<1>11. \A x \in Reqs : acc.remaining[x] # None => new.remaining[x] # None
  BY DEF Took
<1>12. \A x \in Reqs : remaining[x] # None => new.remaining[x] # None
  BY <1>11 DEF Deciding
<1>13. \A j \in 1..(i + 1) : Resolves(eff2[unit[j]]) =>
         eff2[unit[j]].ref \in Reqs /\ new.remaining[eff2[unit[j]].ref] # None
  <2> SUFFICES ASSUME NEW j \in 1..(i + 1), Resolves(eff2[unit[j]])
               PROVE  eff2[unit[j]].ref \in Reqs /\ new.remaining[eff2[unit[j]].ref] # None
    OBVIOUS
  <2>1. CASE j = i + 1
    <3>1. eff2[unit[j]] = e
      BY <1>7, <2>1 DEF r
    <3>2. e.ref \in Reqs /\ acc.remaining[e.ref] # None
      BY <3>1 DEF Took
    <3> QED
      BY <1>11, <3>1, <3>2
  <2>2. CASE j # i + 1
    <3>1. j \in 1..i
      BY <2>2
    <3>2. eff2[unit[j]] = eff[unit[j]]
      BY <1>5, <1>7, <3>1
    <3>3. eff[unit[j]].ref \in Reqs /\ acc.remaining[eff[unit[j]].ref] # None
      BY <3>1, <3>2 DEF Deciding
    <3> QED
      BY <1>11, <3>2, <3>3
  <2> QED
    BY <2>1, <2>2
<1> HIDE DEF D
<1>14. ASSUME NEW a \in Accounts
       PROVE  new.speculative[a] = -SumFunctionOnSet(Share(eff2, a), D \cup {r})
  <2> DEFINE s == SumFunctionOnSet(Share(eff, a), D)
             s2 == SumFunctionOnSet(Share(eff2, a), D \cup {r})
             x == Debited(e, a)
  <2>1. s2 = x + s /\ s \in Int
    <3>1. r \in Reqs /\ r \notin D /\ eff \in [Reqs -> EffectSet] /\ need \in [Reqs -> Nat]
      BY <1>1, <1>3, <1>6
    <3>2. Grows(eff, need, eff2, need2, r, D, a)
      BY <1>4, <1>7, <3>1, SharesNext
    <3> QED
      BY <1>7, <3>2 DEF Grows
  <2>2. acc.speculative[a] = -s
    BY DEF Deciding, D
  <2>3. x \in Nat /\ x = (IF e.debit = a THEN Reservation(e) ELSE 0) /\ Reservation(e) \in Nat
    BY <1>t, ColumnsType DEF Debited
  <2>4. new.speculative = [acc.speculative EXCEPT ![e.debit] = acc.speculative[e.debit] - Reservation(e)]
    BY DEF Took
  <2>5. acc.speculative \in [Accounts -> Int]
    BY <1>t DEF Verdicts
  <2>6. new.speculative[a] = acc.speculative[a] - x
    BY <2>2, <2>3, <2>4, <2>5
  <2> HIDE DEF s, s2, x
  <2>7. new.speculative[a] = -s2
    BY <2>1, <2>2, <2>3, <2>6
  <2> QED
    BY <2>7 DEF s2
<1>15. Deciding(new, unit, i + 1, eff0, need0, eff2, need2)
  <2>1. \A a \in Accounts : new.speculative[a] = -SumFunctionOnSet(Share(eff2, a), Decided \cup Gone(unit, i + 1))
    BY <1>3, <1>14
  <2> QED
    BY <1>7, <1>8, <1>9, <1>10, <1>12, <1>13, <1>t, <2>1 DEF Deciding
<1> QED
  BY <1>1, <1>3, <1>4, <1>7, <1>15 DEF r, eff2, need2, D

LEMMA NeedOfIs ==
  ASSUME NEW h \in Int, h >= 0, NEW res \in Nat
  PROVE  /\ NeedOf(h, res) \in Nat /\ NeedOf(h, res) <= res /\ h + NeedOf(h, res) - res >= 0
         /\ NeedOf(h, res) = 0 \/ NeedOf(h, res) = res - h
         /\ res = 0 => NeedOf(h, res) = 0
BY DEF NeedOf

\* One leg more: its effect, and what it has to find.
Joins(acc, unit, i, eff, need, lev, e, new, r, eff2, need2, D) ==
  /\ unit \in Seq(Reqs) /\ i \in Nat /\ i + 1 <= Len(unit) /\ Distinct(unit)
  /\ acc \in Verdicts /\ Afforded(acc, unit, i, eff, need, lev)
  /\ eff \in [Reqs -> EffectSet] /\ need \in [Reqs -> Nat]
  /\ Took(acc, e, new)
  /\ r \in Reqs /\ r = unit[i + 1] /\ eff2 \in [Reqs -> EffectSet] /\ need2 \in [Reqs -> Nat]
  /\ eff2[r] = e /\ need2[r] = NeedOf(lev[i][e.debit], Reservation(e))
  /\ \A x \in Reqs \ {r} : eff2[x] = eff[x] /\ need2[x] = need[x]
  /\ D = Decided \cup Gone(unit, i) /\ Decided \cup Gone(unit, i + 1) = D \cup {r}
  /\ \A a \in Accounts : Grows(eff, need, eff2, need2, r, D, a)
  /\ \A a \in Accounts : new.speculative[a] = acc.speculative[a] - Debited(e, a)

\* It is afforded as well.
LEMMA AffordedNext ==
  ASSUME TypeInv, NEW acc, NEW unit, NEW i, NEW eff, NEW need, NEW lev, NEW e, NEW new, NEW r,
         NEW eff2, NEW need2, NEW D, Joins(acc, unit, i, eff, need, lev, e, new, r, eff2, need2, D)
  PROVE  \E lev2 : Afforded(new, unit, i + 1, eff2, need2, lev2)
<1> DEFINE top == [a \in Accounts |-> lev[i][a] + Surplus(eff2, need2, a, r)]
           lev2 == [k \in 0..(i + 1) |-> IF k = i + 1 THEN top ELSE lev[k]]
           m == need2[r]
<1>j. /\ unit \in Seq(Reqs) /\ i \in Nat /\ i + 1 <= Len(unit) /\ Distinct(unit)
      /\ acc \in Verdicts /\ Afforded(acc, unit, i, eff, need, lev)
      /\ eff \in [Reqs -> EffectSet] /\ need \in [Reqs -> Nat]
      /\ Took(acc, e, new)
      /\ r \in Reqs /\ r = unit[i + 1] /\ eff2 \in [Reqs -> EffectSet] /\ need2 \in [Reqs -> Nat]
      /\ eff2[r] = e /\ m = NeedOf(lev[i][e.debit], Reservation(e))
      /\ \A x \in Reqs \ {r} : eff2[x] = eff[x] /\ need2[x] = need[x]
      /\ D = Decided \cup Gone(unit, i) /\ Decided \cup Gone(unit, i + 1) = D \cup {r}
      /\ \A a \in Accounts : Grows(eff, need, eff2, need2, r, D, a)
      /\ \A a \in Accounts : new.speculative[a] = acc.speculative[a] - Debited(e, a)
  BY DEF Joins
<1> USE <1>j
<1> HIDE DEF m
<1>l. /\ lev \in [0..i -> [Accounts -> Int]]
      /\ \A a \in Accounts : lev[0][a] = 0
      /\ \A a \in Accounts : \A k \in 1..i : lev[k][a] = lev[k - 1][a] + Surplus(eff, need, a, unit[k])
  BY DEF Afforded
<1>p. \A a \in Accounts : \A k \in 0..i : lev[k][a] >= 0
  BY DEF Afforded
<1>t. e \in EffectSet /\ new.effects = Append(acc.effects, e) /\ new \in Verdicts
  BY DEF Took
<1>r. e.debit \in Accounts /\ Reservation(e) \in Nat
  BY <1>t, ColumnsType DEF EffectSet
<1>m. /\ m \in Nat /\ lev[i][e.debit] + m - Reservation(e) >= 0
      /\ m = 0 \/ m = Reservation(e) - lev[i][e.debit]
      /\ Reservation(e) = 0 => m = 0
  <2> DEFINE h == lev[i][e.debit]
  <2>1. i \in 0..i
    OBVIOUS
  <2>2. h \in Int /\ h >= 0
    BY <1>l, <1>p, <1>r, <2>1
  <2> HIDE DEF h
  <2>3. m = NeedOf(h, Reservation(e))
    BY DEF h
  <2> QED
    BY <1>r, <2>2, <2>3, NeedOfIs DEF h
<1>k. i + 1 \in 1..Len(unit) /\ \A k \in 1..i : k \in 1..Len(unit)
  <2>1. Len(unit) \in Nat
    OBVIOUS
  <2> QED
    BY <2>1
\* What one account sees of the leg.
<1>1. ASSUME NEW a \in Accounts
      PROVE  LET n == NeedShare(eff2, need2, a)[r]
                 g == Gain(e, a)
                 b == Debited(e, a)
             IN /\ n \in Nat /\ g \in Nat /\ b \in Nat /\ Surplus(eff2, need2, a, r) = n + g - b
                /\ lev[i][a] \in Int /\ lev[i][a] >= 0
                /\ lev[i][a] + n - b >= 0
                /\ n = 0 \/ (e.debit = a /\ n = b - lev[i][a] /\ b = Reservation(e))
  <2>1. /\ NeedShare(eff2, need2, a)[r] = (IF e.debit = a THEN m ELSE 0)
        /\ NeedShare(eff2, need2, a)[r] \in Nat
        /\ Gain(e, a) \in Nat /\ Debited(e, a) \in Nat
        /\ Surplus(eff2, need2, a, r) = NeedShare(eff2, need2, a)[r] + Gain(e, a) - Debited(e, a)
    <3>1. Shares(eff2, need2, a, r)
      BY SharesType
    <3> QED
      BY <3>1 DEF Shares, m
  <2>2. Debited(e, a) = IF e.debit = a THEN Reservation(e) ELSE 0
    BY DEF Debited
  <2>3. i \in 0..i
    OBVIOUS
  <2>4. lev[i][a] \in Int /\ lev[i][a] >= 0
    BY <1>l, <1>p, <2>3
  <2>5. CASE e.debit = a
    BY <1>m, <1>r, <2>1, <2>2, <2>4, <2>5
  <2>6. CASE e.debit # a
    BY <2>1, <2>2, <2>4, <2>6
  <2> QED
    BY <2>5, <2>6
<1>2. top \in [Accounts -> Int] /\ \A a \in Accounts : top[a] >= 0
  <2>1. ASSUME NEW a \in Accounts PROVE top[a] \in Int /\ top[a] >= 0
    <3> DEFINE n == NeedShare(eff2, need2, a)[r]
               g == Gain(e, a)
               b == Debited(e, a)
               h == lev[i][a]
    <3>1. /\ n \in Nat /\ g \in Nat /\ b \in Nat /\ Surplus(eff2, need2, a, r) = n + g - b
          /\ h \in Int /\ h >= 0 /\ h + n - b >= 0
      BY <1>1
    <3>2. top[a] = h + (n + g - b)
      BY <3>1
    <3> HIDE DEF n, g, b, h, top
    <3>3. h + (n + g - b) \in Int /\ h + (n + g - b) >= 0
      BY <3>1
    <3> QED
      BY <3>2, <3>3
  <2>2. \A a \in Accounts : lev[i][a] + Surplus(eff2, need2, a, r) \in Int
    BY <2>1
  <2> QED
    BY <2>1, <2>2
<1> HIDE DEF top
<1>3. /\ \A k \in 0..i : k \in 0..(i + 1) /\ lev2[k] = lev[k]
      /\ lev2[i + 1] = top /\ lev2 \in [0..(i + 1) -> [Accounts -> Int]]
  <2>1. \A k \in 0..(i + 1) : k \in 0..i \/ k = i + 1
    OBVIOUS
  <2>2. \A k \in 0..i : k \in 0..(i + 1) /\ k # i + 1
    OBVIOUS
  <2>3. i + 1 \in 0..(i + 1)
    OBVIOUS
  <2> QED
    BY <1>l, <1>2, <2>1, <2>2, <2>3
<1> HIDE DEF lev2
<1>4. \A a \in Accounts : lev2[0][a] = 0
  <2>1. 0 \in 0..i
    OBVIOUS
  <2> QED
    BY <1>l, <1>3, <2>1
<1>5. ASSUME NEW a \in Accounts, NEW k \in 1..(i + 1)
      PROVE  lev2[k][a] = lev2[k - 1][a] + Surplus(eff2, need2, a, unit[k])
  <2>1. CASE k = i + 1
    <3>1. k - 1 = i /\ i \in 0..i
      BY <2>1
    <3>2. lev2[k] = top /\ lev2[k - 1] = lev[i] /\ unit[k] = r
      BY <1>3, <2>1, <3>1
    <3> QED
      BY <3>2 DEF top
  <2>2. CASE k # i + 1
    <3>1. k \in 1..i /\ k \in 0..i /\ k - 1 \in 0..i
      BY <2>2
    <3>2. lev2[k] = lev[k] /\ lev2[k - 1] = lev[k - 1]
      BY <1>3, <3>1
    <3>3. unit[k] \in Reqs \ {r}
      <4>1. k \in 1..Len(unit) /\ i + 1 \in 1..Len(unit)
        BY <1>k, <3>1
      <4>2. unit[k] # unit[i + 1]
        BY <2>2, <4>1 DEF Distinct
      <4> QED
        BY <4>1, <4>2
    <3>4. Surplus(eff2, need2, a, unit[k]) = Surplus(eff, need, a, unit[k])
      BY <3>3 DEF Surplus, NeedShare
    <3> QED
      BY <1>l, <3>1, <3>2, <3>4
  <2> QED
    BY <2>1, <2>2
<1>6. \A a \in Accounts : \A k \in 0..(i + 1) : lev2[k][a] >= 0
  <2>1. \A k \in 0..(i + 1) : k \in 0..i \/ k = i + 1
    OBVIOUS
  <2> QED
    BY <1>p, <1>2, <1>3, <2>1
\* The two sums an account is held to.
<1>7. ASSUME NEW a \in Accounts
      PROVE  /\ lev2[i + 1][a] >= SumFunctionOnSet(NeedShare(eff2, need2, a), D \cup {r})
                                    + new.speculative[a] + Gains(new.effects, a)
             /\ a \in Constrained =>
                  Available(columns[a]) >= SumFunctionOnSet(NeedShare(eff2, need2, a), D \cup {r})
  <2> DEFINE n == NeedShare(eff2, need2, a)[r]
             g == Gain(e, a)
             b == Debited(e, a)
             h == lev[i][a]
             N == SumFunctionOnSet(NeedShare(eff, need, a), D)
             N2 == SumFunctionOnSet(NeedShare(eff2, need2, a), D \cup {r})
             G1 == Gains(acc.effects, a)
             G2 == Gains(new.effects, a)
             sp == acc.speculative[a]
             av == Available(columns[a])
             S == Spendable(acc, a)
  <2>1. n \in Nat /\ g \in Nat /\ b \in Nat /\ h \in Int
    BY <1>1
  <2>2. lev2[i + 1][a] = h + (n + g - b)
    BY <1>1, <1>3 DEF top
  <2>3. n = 0 \/ (e.debit = a /\ n = b - h /\ b = Reservation(e))
    BY <1>1
  <2>4. N2 = n + N /\ N \in Int
    BY DEF Grows
  <2>5. G2 = G1 + g /\ G1 \in Int
    <3>1. acc.effects \in Seq(EffectSet)
      BY DEF Verdicts
    <3>2. Gains(Append(acc.effects, e), a) = Gains(acc.effects, a) + Gain(e, a) /\ Gains(acc.effects, a) \in Int
      BY <1>t, <3>1, GainsNext
    <3> QED
      BY <1>t, <3>2
  <2>6. new.speculative[a] = sp - b /\ sp \in Int
    BY DEF Verdicts
  <2>7. h >= N + sp + G1
    BY DEF Afforded
  <2>8. av \in Int
    <3>1. columns[a] \in Book
      BY DEF TypeInv, MoneyType
    <3> QED
      BY <3>1 DEF Book, Available
  <2>9. a \in Constrained => av >= N
    BY DEF Afforded
  <2>10. S = av + sp + G1
    BY DEF Spendable, Gains
  <2>11. e.debit = a /\ a \in Constrained /\ ~Resolves(e) => ~(S < Reservation(e))
    BY DEF Took
  <2>12. Resolves(e) => Reservation(e) = 0
    BY DEF Reservation
  <2>13. n # 0 => ~Resolves(e)
    <3> SUFFICES ASSUME n # 0, Resolves(e) PROVE FALSE
      OBVIOUS
    <3>1. need2[r] = m /\ m = 0
      BY <1>m, <2>12 DEF m
    <3>2. Shares(eff2, need2, a, r)
      BY SharesType
    <3> QED
      BY <3>1, <3>2 DEF Shares
  <2> HIDE DEF n, g, b, h, N, N2, G1, G2, sp, av, S
  <2>14. lev2[i + 1][a] >= N2 + new.speculative[a] + G2
    BY <2>1, <2>2, <2>4, <2>5, <2>6, <2>7
  <2>15. a \in Constrained => av >= N2
    <3> SUFFICES ASSUME a \in Constrained PROVE av >= N2
      OBVIOUS
    <3>1. CASE n = 0
      BY <2>4, <2>8, <2>9, <3>1
    <3>2. CASE n # 0
      <4>1. e.debit = a /\ n = b - h /\ ~(S < b)
        BY <2>3, <2>11, <2>13, <3>2
      <4> QED
        BY <2>1, <2>4, <2>5, <2>6, <2>7, <2>8, <2>10, <4>1
    <3> QED
      BY <3>1, <3>2
  <2> QED
    BY <2>14, <2>15 DEF N2, G2, av
<1>8. \A a \in Constrained : a \in Accounts
  BY CommitAssumption
<1>9. /\ \A a \in Constrained :
           Available(columns[a]) >= SumFunctionOnSet(NeedShare(eff2, need2, a), Decided \cup Gone(unit, i + 1))
      /\ \A a \in Accounts :
           lev2[i + 1][a] >= SumFunctionOnSet(NeedShare(eff2, need2, a), Decided \cup Gone(unit, i + 1))
                               + new.speculative[a] + Gains(new.effects, a)
  BY <1>7, <1>8
<1>10. Afforded(new, unit, i + 1, eff2, need2, lev2)
  BY <1>3, <1>4, <1>5, <1>6, <1>9 DEF Afforded
<1> QED
  BY <1>10

\* No leg has been judged.
LEMMA JudgeStarts ==
  ASSUME TypeInv, NEW eff, NEW need, Promises(eff), Covered(eff, need), NEW unit, NEW b,
         b = [ok |-> TRUE, effects |-> <<>>, speculative |-> speculative, remaining |-> remaining]
  PROVE  /\ b \in Verdicts /\ b.ok
         /\ Deciding(b, unit, 0, eff, need, eff, need)
         /\ \E lev : Afforded(b, unit, 0, eff, need, lev)
<1>0. /\ eff \in [Reqs -> EffectSet] /\ \A r \in Reqs : eff[r].tx = r
      /\ \A a \in Accounts : speculative[a] = -SumFunctionOnSet(Share(eff, a), Decided)
  BY DEF Promises
<1>c. /\ need \in [Reqs -> Nat] /\ \A r \in Reqs : need[r] <= Reservation(eff[r])
      /\ \A a \in Constrained :
           Available(columns[a]) >= SumFunctionOnSet(NeedShare(eff, need, a), Decided)
  BY DEF Covered
<1>1. b.effects = <<>> /\ b.speculative = speculative /\ b.remaining = remaining
  OBVIOUS
<1>2. b.ok
  OBVIOUS
<1>3. b \in Verdicts
  <2>1. <<>> \in Seq(EffectSet) /\ speculative \in [Accounts -> Int] /\ remaining \in [Reqs -> Nat \cup {None}]
    BY DEF TypeInv, MoneyType
  <2> QED
    BY <2>1 DEF Verdicts
<1>4. Decided \cup Gone(unit, 0) = Decided /\ Gone(unit, 0) = {}
  BY DEF Gone
<1> HIDE DEF Decided
<1>5. Deciding(b, unit, 0, eff, need, eff, need)
  <2>1. 1..0 = {} /\ Len(b.effects) = 0 /\ Reqs \ {} = Reqs
    BY <1>1
  <2>2. \A x \in Reqs : remaining[x] # None => b.remaining[x] # None
    BY <1>1
  <2>3. \A a \in Accounts : b.speculative[a] = -SumFunctionOnSet(Share(eff, a), Decided \cup Gone(unit, 0))
    BY <1>0, <1>1, <1>4
  <2> QED
    BY <1>0, <1>c, <1>3, <2>1, <2>2, <2>3 DEF Deciding
<1> DEFINE lev == [k \in 0..0 |-> [a \in Accounts |-> 0]]
<1>6. lev \in [0..0 -> [Accounts -> Int]] /\ \A a \in Accounts : \A k \in 0..0 : lev[k][a] = 0
  OBVIOUS
<1>7. \A a \in Accounts : lev[0][a] = 0
  OBVIOUS
<1> HIDE DEF lev
<1>8. ASSUME NEW a \in Accounts
      PROVE  lev[0][a] >= SumFunctionOnSet(NeedShare(eff, need, a), Decided) + b.speculative[a] + Gains(b.effects, a)
  <2> DEFINE s == Share(eff, a)
             n == NeedShare(eff, need, a)
             S == SumFunctionOnSet(s, Decided)
             N == SumFunctionOnSet(n, Decided)
  <2>1. \A x \in Reqs : Shares(eff, need, a, x)
    BY <1>0, <1>c, SharesType
  <2>2. ASSUME NEW x \in Reqs PROVE n[x] \in Int /\ s[x] \in Int /\ n[x] <= s[x]
    <3>1. need[x] <= Reservation(eff[x]) /\ need[x] \in Nat /\ Reservation(eff[x]) \in Nat
      BY <1>0, <1>c, ColumnsType
    <3> QED
      BY <2>1, <3>1 DEF Shares, Debited
  <2>3. IsFiniteSet(Decided) /\ Decided \subseteq Reqs
    <3>1. Decided \subseteq slots /\ IsFiniteSet(slots) /\ slots \subseteq Reqs
      BY DEF Decided, TypeInv, SlotType
    <3> QED
      BY <3>1, FS_Subset
  <2>g. Gains(b.effects, a) = 0 /\ b.speculative[a] = -S /\ lev[0][a] = 0
    BY <1>0, <1>1, <1>7, GainsNothing
  <2> HIDE DEF s, n
  <2>4. N <= S
    BY <2>2, <2>3, NeedAtMost
  <2>5. N \in Int /\ S \in Int
    <3>1. Ints(n, Decided) /\ Ints(s, Decided)
      BY <2>2, <2>3 DEF Ints
    <3> QED
      BY <2>3, <3>1, SumType
  <2> HIDE DEF N, S
  <2>6. lev[0][a] >= N + b.speculative[a] + Gains(b.effects, a)
    BY <2>4, <2>5, <2>g
  <2> QED
    BY <2>6 DEF N, n
<1>9. Afforded(b, unit, 0, eff, need, lev)
  <2>1. 1..0 = {} /\ 0 \in 0..0
    OBVIOUS
  <2>2. \A a \in Accounts : \A k \in 0..0 : lev[k][a] >= 0
    BY <1>6
  <2> QED
    BY <1>c, <1>4, <1>6, <1>7, <1>8, <2>1, <2>2 DEF Afforded
<1> QED
  BY <1>2, <1>3, <1>5, <1>9

LEMMA LegNext ==
  ASSUME TypeInv, NEW unit \in Seq(Reqs), Distinct(unit),
         \A j \in 1..Len(unit) : unit[j] \in slots /\ unit[j] \notin Decided,
         NEW i \in Nat, i + 1 <= Len(unit), NEW eff0, NEW need0, NEW eff, NEW need, NEW lev, NEW acc,
         Deciding(acc, unit, i, eff0, need0, eff, need), Afforded(acc, unit, i, eff, need, lev),
         NEW e, e.tx = unit[i + 1], NEW new, Took(acc, e, new)
  PROVE  \E eff2, need2, lev2 : /\ Deciding(new, unit, i + 1, eff0, need0, eff2, need2)
                                /\ Afforded(new, unit, i + 1, eff2, need2, lev2)
<1> DEFINE r == unit[i + 1]
           m == NeedOf(lev[i][e.debit], Reservation(e))
           eff2 == [eff EXCEPT ![r] = e]
           need2 == [need EXCEPT ![r] = m]
           D == Decided \cup Gone(unit, i)
<1>t. /\ e \in EffectSet /\ acc \in Verdicts /\ eff \in [Reqs -> EffectSet] /\ need \in [Reqs -> Nat]
      /\ e.debit \in Accounts /\ Reservation(e) \in Nat
  <2>1. e \in EffectSet /\ acc \in Verdicts /\ eff \in [Reqs -> EffectSet] /\ need \in [Reqs -> Nat]
    BY DEF Took, Deciding
  <2> QED
    BY <2>1, ColumnsType DEF EffectSet
<1>m. m \in Nat /\ m <= Reservation(e)
  <2> DEFINE h == lev[i][e.debit]
  <2>1. i \in 0..i
    OBVIOUS
  <2>2. h \in Int /\ h >= 0
    BY <1>t, <2>1 DEF Afforded
  <2> HIDE DEF h
  <2> QED
    BY <1>t, <2>2, NeedOfIs DEF h
<1> HIDE DEF m
<1>1. /\ Deciding(new, unit, i + 1, eff0, need0, eff2, need2)
      /\ eff2 \in [Reqs -> EffectSet] /\ need2 \in [Reqs -> Nat] /\ eff2[r] = e /\ need2[r] = m
      /\ r \in Reqs /\ \A x \in Reqs \ {r} : eff2[x] = eff[x] /\ need2[x] = need[x]
      /\ Decided \cup Gone(unit, i + 1) = D \cup {r} /\ r \notin D /\ IsFiniteSet(D) /\ D \subseteq Reqs
  BY <1>m, DecidingNext
<1>r. r = unit[i + 1] /\ D = Decided \cup Gone(unit, i) /\ m = NeedOf(lev[i][e.debit], Reservation(e))
  BY DEF m
<1> HIDE DEF eff2, need2, r, D
<1>2. \A a \in Accounts : Grows(eff, need, eff2, need2, r, D, a)
  BY <1>1, <1>t, SharesNext
<1>3. ASSUME NEW a \in Accounts PROVE new.speculative[a] = acc.speculative[a] - Debited(e, a)
  <2>1. acc.speculative \in [Accounts -> Int]
    BY <1>t DEF Verdicts
  <2>2. new.speculative = [acc.speculative EXCEPT ![e.debit] = acc.speculative[e.debit] - Reservation(e)]
    BY DEF Took
  <2> QED
    BY <1>t, <2>1, <2>2 DEF Debited
<1>4. \E lev2 : Afforded(new, unit, i + 1, eff2, need2, lev2)
  <2>1. Joins(acc, unit, i, eff, need, lev, e, new, r, eff2, need2, D)
    BY <1>1, <1>2, <1>3, <1>t, <1>r DEF Joins
  <2> QED
    BY <2>1, AffordedNext
<1> QED
  BY <1>1, <1>4

\* A unit that is taken: what every leg was decided with, and what it needs.
LEMMA JudgedRun ==
  ASSUME TypeInv, NEW eff0, NEW need0, Promises(eff0), Covered(eff0, need0),
         NEW unit \in Seq(Reqs), Distinct(unit),
         \A j \in 1..Len(unit) : unit[j] \in slots /\ unit[j] \notin Decided, Judged(unit).ok
  PROVE  \E eff, need, lev : /\ Deciding(Judged(unit), unit, Len(unit), eff0, need0, eff, need)
                             /\ Afforded(Judged(unit), unit, Len(unit), eff, need, lev)
<1> DEFINE b == [ok |-> TRUE, effects |-> <<>>, speculative |-> speculative, remaining |-> remaining]
<1>j. Judged(unit) = FoldLeft(Leg, b, unit)
  BY DEF Judged
<1>0. /\ b \in Verdicts /\ b.ok /\ Deciding(b, unit, 0, eff0, need0, eff0, need0)
      /\ \E lev : Afforded(b, unit, 0, eff0, need0, lev)
  BY JudgeStarts
<1> HIDE DEF b
<1>1. PICK f : /\ f[0] = b
               /\ \A i \in 1..Len(unit) : f[i] = Leg(f[i - 1], unit[i])
               /\ FoldLeft(Leg, b, unit) = f[Len(unit)]
  BY LegTrace
<1> DEFINE Came(acc, i) == \E eff, need, lev : /\ Deciding(acc, unit, i, eff0, need0, eff, need)
                                              /\ Afforded(acc, unit, i, eff, need, lev)
           Sound(i) == f[i] \in Verdicts /\ (f[i].ok => Came(f[i], i))
           T == {i \in Nat : i <= Len(unit) => Sound(i)}
<1>2. 0 \in T
  <2>1. Came(b, 0)
    BY <1>0
  <2> HIDE DEF Came
  <2>2. Sound(0)
    BY <1>0, <1>1, <2>1
  <2> HIDE DEF Sound
  <2> QED
    BY <2>2
<1>3. ASSUME NEW i \in Nat, i \in T PROVE i + 1 \in T
  <2> SUFFICES ASSUME i + 1 <= Len(unit) PROVE Sound(i + 1)
    OBVIOUS
  <2> DEFINE acc == f[i]
             r == unit[i + 1]
             new == Leg(acc, r)
  <2>1. i + 1 \in 1..Len(unit) /\ (i + 1) - 1 = i /\ i <= Len(unit)
    BY RangeOf
  <2>2. Sound(i)
    <3> HIDE DEF Sound
    <3> QED
      BY <1>3, <2>1
  <2>3. f[i + 1] = new /\ r \in Reqs /\ r = unit[i + 1]
    BY <1>1, <2>1
  <2>4. acc \in Verdicts /\ (acc.ok => Came(acc, i))
    BY <2>2
  <2> HIDE DEF acc, r
  <2>5. CASE ~acc.ok \/ failStop \/ AmountOf(acc, r) = None
    <3>1. new \in Verdicts /\ ~new.ok
      BY <2>3, <2>4, <2>5, LegStops
    <3> HIDE DEF Came
    <3> QED
      BY <2>3, <3>1
  <2>6. CASE acc.ok /\ ~failStop /\ AmountOf(acc, r) # None
    <3>1. PICK e : e.tx = r /\ Took(acc, e, new)
      BY <2>3, <2>4, <2>6, LegTakes
    <3>2. PICK eff, need, lev : /\ Deciding(acc, unit, i, eff0, need0, eff, need)
                                /\ Afforded(acc, unit, i, eff, need, lev)
      BY <2>4, <2>6
    <3> HIDE DEF new
    <3>3. Came(new, i + 1)
      BY <2>3, <3>1, <3>2, LegNext
    <3>4. new \in Verdicts
      BY <3>1 DEF Took
    <3> HIDE DEF Came
    <3> QED
      BY <2>3, <3>3, <3>4
  <2> QED
    BY <2>5, <2>6
<1> HIDE DEF T
<1>4. Nat \subseteq T
  BY <1>2, <1>3, A!SetInduction
<1>5. Len(unit) \in Nat /\ Len(unit) <= Len(unit)
  BY RangeOf
<1>6. Sound(Len(unit))
  <2> HIDE DEF Sound
  <2> QED
    BY <1>4, <1>5 DEF T
<1> HIDE DEF Came
<1>7. Came(Judged(unit), Len(unit))
  BY <1>1, <1>6, <1>j
<1> QED
  BY <1>7 DEF Came

\* Whole units with one more at the end.
LEMMA WholeConcat ==
  ASSUME NEW p \in Seq(EffectSet), WholeUnits(p), NEW w \in Seq(EffectSet), NEW u \in Units,
         Len(w) = Len(u), \A j \in 1..Len(u) : w[j].tx = u[j]
  PROVE  WholeUnits(p \o w) /\ Spans(p \o w, u, Len(p))
<1> DEFINE q == p \o w
           m == Len(p)
           n == Len(u)
<1>0. Len(q) = m + n /\ m \in Nat /\ n \in Nat
  <2>1. Len(p \o w) = Len(p) + Len(w) /\ Len(p) \in Nat /\ Len(w) \in Nat
    BY ConcatFacts
  <2> QED
    BY <2>1
<1>1. \A i \in 1..m : q[i] = p[i]
  BY ConcatFacts
<1>2. \A i \in 1..n : q[m + i] = w[i]
  BY ConcatFacts
<1>3. Spans(q, u, m)
  <2>1. m \in 0..(Len(q) - Len(u))
    <3> HIDE DEF q, m
    <3> QED
      BY <1>0
  <2>2. \A j \in 1..Len(u) : q[m + j].tx = u[j]
    BY <1>2
  <2> QED
    BY <2>1, <2>2 DEF Spans
<1>4. ASSUME NEW k \in 1..Len(q)
      PROVE  \E v \in Units : \E s \in 0..(k - 1) : Spans(q, v, s) /\ k <= s + Len(v)
  <2>1. CASE k <= m
    <3>1. k \in 1..m
      BY <1>0, <2>1
    <3>2. PICK v \in Units, s \in 0..(k - 1) : Spans(p, v, s) /\ k <= s + Len(v)
      BY <3>1 DEF WholeUnits
    <3>3. s \in 0..(m - Len(v)) /\ \A j \in 1..Len(v) : p[s + j].tx = v[j]
      BY <3>2 DEF Spans
    <3>4. Len(v) \in Nat
      BY UnitFacts
    <3>5. s \in 0..(Len(q) - Len(v))
      BY <1>0, <3>3, <3>4
    <3>6. \A j \in 1..Len(v) : s + j \in 1..m
      BY <1>0, <3>3, <3>4
    <3>7. \A j \in 1..Len(v) : q[s + j].tx = v[j]
      BY <1>1, <3>3, <3>6
    <3> QED
      BY <3>2, <3>5, <3>7 DEF Spans
  <2>2. CASE k > m
    <3>1. m \in 0..(k - 1) /\ k <= m + Len(u)
      BY <1>0, <2>2
    <3> QED
      BY <1>3, <3>1
  <2> QED
    BY <1>0, <2>1, <2>2
<1> QED
  BY <1>3, <1>4 DEF WholeUnits

\* The levels of the open batch, carried on through one more unit.
LEMMA CutsExtend ==
  ASSUME NEW p \in Seq(EffectSet), NEW w \in Seq(EffectSet), NEW u \in Units,
         Len(w) = Len(u), \A j \in 1..Len(u) : w[j].tx = u[j], Spans(p \o w, u, Len(p)),
         NEW eff, NEW need, NEW a, RisesFromCuts(eff, need, a, Txs(p)),
         NEW h \in [0..Len(u) -> Int], h[0] = 0, \A k \in 0..Len(u) : h[k] >= 0,
         \A k \in 1..Len(u) : h[k] = h[k - 1] + Surplus(eff, need, a, u[k]),
         \A k \in 1..Len(u) : Surplus(eff, need, a, u[k]) \in Int
  PROVE  RisesFromCuts(eff, need, a, Txs(p \o w))
<1> DEFINE q == p \o w
           m == Len(p)
           n == Len(u)
           x == Txs(p)
           y == Txs(q)
<1>0. q \in Seq(EffectSet) /\ Len(q) = m + n /\ m \in Nat /\ n \in Nat
  <2>1. p \o w \in Seq(EffectSet) /\ Len(p \o w) = Len(p) + Len(w)
    BY ConcatFacts
  <2>2. Len(p) \in Nat /\ Len(w) \in Nat
    OBVIOUS
  <2> QED
    BY <2>1, <2>2
<1>1. \A i \in 1..m : q[i] = p[i]
  BY ConcatFacts
<1>2. \A i \in 1..n : q[m + i] = w[i]
  BY ConcatFacts
<1>3. Len(x) = m /\ \A i \in 1..m : x[i] = p[i].tx
  BY TxsFacts
<1>4. Len(y) = m + n /\ \A i \in 1..Len(q) : y[i] = q[i].tx
  <2> HIDE DEF q
  <2> QED
    BY <1>0, TxsFacts
<1> HIDE DEF q
<1>5. \A i \in 1..m : y[i] = x[i]
  <2>1. \A i \in 1..m : i \in 1..Len(q)
    BY <1>0
  <2> QED
    BY <1>1, <1>3, <1>4, <2>1
<1>6. \A i \in 1..n : y[m + i] = u[i]
  <2>1. \A i \in 1..n : m + i \in 1..Len(q)
    BY <1>0
  <2> QED
    BY <1>2, <1>4, <2>1
<1>7. PICK f : /\ Levels(eff, need, a, x, f)
               /\ \A i, k \in 0..Len(x) : Cut(x, i) /\ i <= k => f[k] >= f[i]
  BY DEF RisesFromCuts
<1>8. f \in [0..m -> Int] /\ \A i \in 1..m : f[i] = f[i - 1] + Surplus(eff, need, a, x[i])
  BY <1>3, <1>7 DEF Levels
<1> DEFINE g == [k \in 0..(m + n) |-> IF k <= m THEN f[k] ELSE f[m] + h[k - m]]
<1> HIDE DEF x, y
<1>9. m \in 0..m /\ f[m] \in Int
  <2>1. m \in 0..m
    BY <1>0
  <2> HIDE DEF m
  <2> QED
    BY <1>8, <2>1
<1>10. /\ g \in [0..(m + n) -> Int]
       /\ \A k \in 0..m : k \in 0..(m + n) /\ g[k] = f[k]
       /\ \A k \in 0..n : m + k \in 0..(m + n) /\ g[m + k] = f[m] + h[k]
  <2> HIDE DEF m, n
  <2>1. \A k \in 0..m : k \in 0..(m + n) /\ k <= m
    BY <1>0
  <2>2. ASSUME NEW k \in 0..n PROVE m + k \in 0..(m + n) /\ g[m + k] = f[m] + h[k]
    <3>1. m + k \in 0..(m + n) /\ (m + k) - m = k
      BY <1>0
    <3>2. CASE k = 0
      <4>1. m + k = m
        BY <1>0, <3>2
      <4>2. g[m] = f[m]
        BY <2>1, <1>9
      <4>3. h[k] = 0
        BY <3>2
      <4> QED
        BY <1>9, <3>1, <4>1, <4>2, <4>3
    <3>3. CASE k # 0
      <4>1. ~(m + k <= m)
        BY <1>0, <3>3
      <4> QED
        BY <3>1, <4>1
    <3> QED
      BY <3>2, <3>3
  <2>3. ASSUME NEW k \in 0..(m + n) PROVE g[k] \in Int
    <3>1. CASE k <= m
      <4>1. k \in 0..m
        BY <1>0, <3>1
      <4> QED
        BY <1>8, <3>1, <4>1
    <3>2. CASE ~(k <= m)
      <4>1. k - m \in 0..n
        BY <1>0, <3>2
      <4>2. h[k - m] \in Int
        BY <4>1 DEF n
      <4> QED
        BY <1>9, <3>2, <4>2
    <3> QED
      BY <3>1, <3>2
  <2> QED
    BY <2>1, <2>2, <2>3
<1> HIDE DEF g
<1>11. Levels(eff, need, a, y, g)
  <2> SUFFICES ASSUME NEW i \in 1..(m + n) PROVE g[i] = g[i - 1] + Surplus(eff, need, a, y[i])
    BY <1>4, <1>10 DEF Levels
  <2>1. CASE i <= m
    <3>1. i \in 1..m /\ i \in 0..m /\ i - 1 \in 0..m
      BY <1>0, <2>1
    <3> QED
      BY <1>5, <1>8, <1>10, <3>1
  <2>2. CASE ~(i <= m)
    <3> DEFINE j == i - m
    <3>1. j \in 1..n /\ j \in 0..n /\ j - 1 \in 0..n /\ m + j = i /\ m + (j - 1) = i - 1
      BY <1>0, <2>2
    <3> HIDE DEF j
    <3>2. g[i] = f[m] + h[j] /\ g[i - 1] = f[m] + h[j - 1] /\ y[i] = u[j]
      BY <1>6, <1>10, <3>1
    <3>3. h[j] = h[j - 1] + Surplus(eff, need, a, u[j]) /\ Surplus(eff, need, a, u[j]) \in Int
      BY <3>1
    <3>4. h[j - 1] \in Int
      BY <3>1
    <3> QED
      BY <1>9, <3>2, <3>3, <3>4
  <2> QED
    BY <2>1, <2>2
<1>12. ASSUME NEW i \in 0..(m + n), NEW k \in 0..(m + n), Cut(y, i), i <= k PROVE g[k] >= g[i]
  <2>1. CASE i <= m
    <3>1. i \in 0..m
      BY <1>0, <2>1
    <3>2. Cut(x, i)
      <4>1. CASE i = 0 \/ i = m
        BY <1>3, <4>1 DEF Cut
      <4>2. CASE i # 0 /\ i # m
        <5>1. i \in 1..m /\ i + 1 \in 1..m /\ i # m + n
          BY <1>0, <3>1, <4>2
        <5> QED
          BY <1>4, <1>5, <1>12, <4>2, <5>1 DEF Cut
      <4> QED
        BY <4>1, <4>2
    <3>3. f[m] >= f[i] /\ f[i] \in Int /\ g[i] = f[i]
      BY <1>3, <1>7, <1>8, <1>9, <1>10, <2>1, <3>1, <3>2
    <3>4. CASE k <= m
      <4>1. k \in 0..m
        BY <1>0, <3>4
      <4>2. f[k] >= f[i]
        BY <1>3, <1>7, <1>12, <3>1, <3>2, <4>1
      <4> QED
        BY <1>10, <3>3, <4>1, <4>2
    <3>5. CASE ~(k <= m)
      <4> DEFINE j == k - m
      <4>1. j \in 0..n /\ m + j = k
        BY <1>0, <3>5
      <4> HIDE DEF j
      <4>2. g[k] = f[m] + h[j] /\ h[j] >= 0 /\ h[j] \in Int
        BY <1>10, <4>1
      <4> QED
        BY <1>9, <3>3, <4>2
    <3> QED
      BY <3>4, <3>5
  <2>2. CASE i > m /\ i < m + n
    <3>1. ~Cut(y, i)
      <4>1. i \in Nat /\ m < i /\ i < m + Len(u)
        BY <1>0, <2>2
      <4>2. Spans(q, u, m)
        BY DEF q
      <4> HIDE DEF m
      <4> QED
        BY <1>0, <4>1, <4>2, InsideNoCut DEF y
    <3> QED
      BY <1>12, <3>1
  <2>3. CASE i = m + n
    <3>1. k = i
      BY <1>0, <1>12, <2>3
    <3>2. g[i] \in Int
      BY <1>10
    <3> QED
      BY <3>1, <3>2
  <2>4. i <= m \/ (i > m /\ i < m + n) \/ i = m + n
    <3> HIDE DEF m, n
    <3> QED
      BY <1>0
  <2> QED
    BY <2>1, <2>2, <2>3, <2>4
<1>13. RisesFromCuts(eff, need, a, y)
  BY <1>4, <1>11, <1>12 DEF RisesFromCuts
<1> QED
  BY <1>13 DEF y, q

\* What consensus has is of requests that were decided.
LEMMA TakenAreDecided ==
  ASSUME IInv, ~sealed
  PROVE  /\ \A k \in 1..Len(proposals) : \A i \in 1..Len(proposals[k].effects) :
              proposals[k].effects[i].tx \in Decided
         /\ \A k \in 1..Len(Mid) : \A i \in 1..Len(Mid[k].effects) : Mid[k].effects[i].tx \in Decided
<1> DEFINE F == Len(inflight)
           P == Len(proposals)
<1>t. F \in Nat /\ P \in Nat /\ batch \in Nat
  BY DEF IInv, TypeInv, BatchType
<1>1. /\ P <= F
      /\ \A k \in 1..P : proposals[k].id = batch - P + k - 1
      /\ \A k \in 1..Len(Mid) : Mid[k].id \in (batch - F)..(batch - P - 1)
  BY DEF IInv, RaftInv
<1>2. (\A k \in 1..P : Matches(proposals[k])) /\ (\A k \in 1..Len(Mid) : Matches(Mid[k]))
  BY DEF IInv, RaftInv
<1>3. \A k \in 1..F : inflight[k].id = batch - F + k - 1
  BY DEF IInv, FlightInv
<1>4. \A k \in 1..F : \A i \in 1..Len(inflight[k].slots) : inflight[k].slots[i] \in Decided
  BY DEF IInv, FlightInv
<1>5. ASSUME NEW x, Matches(x), x.id \in (batch - F)..(batch - 1)
      PROVE  \A i \in 1..Len(x.effects) : x.effects[i].tx \in Decided
  <2> DEFINE id == x.id
             k == id - (batch - F) + 1
  <2>1. id \in (batch - F)..(batch - 1)
    BY <1>5
  <2> HIDE DEF id
  <2>2. k \in 1..F /\ batch - F + k - 1 = id
    <3> HIDE DEF F
    <3> QED
      BY <1>t, <2>1
  <2> HIDE DEF k
  <2>3. inflight[k].id = x.id
    BY <1>3, <2>2 DEF id
  <2>4. Len(x.effects) = Len(inflight[k].slots) /\ \A i \in 1..Len(x.effects) : x.effects[i].tx = inflight[k].slots[i]
    BY <1>5, <2>2, <2>3 DEF Matches
  <2> QED
    BY <1>4, <2>2, <2>4
<1> HIDE DEF F, P, Mid
<1>6. ASSUME NEW k \in 1..P
      PROVE  \A i \in 1..Len(proposals[k].effects) : proposals[k].effects[i].tx \in Decided
  <2>1. proposals[k].id \in (batch - F)..(batch - 1)
    <3>1. batch - P + k - 1 \in (batch - F)..(batch - 1)
      BY <1>1, <1>t
    <3> QED
      BY <1>1, <3>1
  <2> QED
    BY <1>2, <1>5, <2>1
<1>7. ASSUME NEW k \in 1..Len(Mid)
      PROVE  \A i \in 1..Len(Mid[k].effects) : Mid[k].effects[i].tx \in Decided
  <2>1. Mid[k].id \in (batch - F)..(batch - P - 1)
    BY <1>1
  <2>2. Mid[k].id \in (batch - F)..(batch - 1)
    BY <1>t, <2>1
  <2> QED
    BY <1>2, <1>5, <2>2
<1> QED
  BY <1>6, <1>7 DEF P

LEMMA RisesSame ==
  ASSUME NEW eff, NEW need, NEW eff2, NEW need2, NEW a, NEW q \in Seq(Reqs),
         \A i \in 1..Len(q) : eff2[q[i]] = eff[q[i]] /\ need2[q[i]] = need[q[i]]
  PROVE  /\ Rises(eff, need, a, q) => Rises(eff2, need2, a, q)
         /\ RisesFromCuts(eff, need, a, q) => RisesFromCuts(eff2, need2, a, q)
<1>1. \A i \in 1..Len(q) : Surplus(eff2, need2, a, q[i]) = Surplus(eff, need, a, q[i])
  <2> SUFFICES ASSUME NEW i \in 1..Len(q)
               PROVE  Surplus(eff2, need2, a, q[i]) = Surplus(eff, need, a, q[i])
    OBVIOUS
  <2>1. q[i] \in Reqs
    OBVIOUS
  <2> QED
    BY <2>1 DEF Surplus, NeedShare
<1>2. \A f : Levels(eff, need, a, q, f) => Levels(eff2, need2, a, q, f)
  BY <1>1 DEF Levels
<1> QED
  BY <1>2 DEF Rises, RisesFromCuts

\* The unit that is judged: in slots, undecided, and out of the lanes' order after.
LEMMA UnitTaken ==
  ASSUME IInv, NEW unit \in Units, Judgeable(unit), ready' = Without(ready, unit)
  PROVE  /\ unit \in Seq(Reqs) /\ Distinct(unit) /\ Len(unit) \in Nat
         /\ Range(unit) \subseteq Range(ready) /\ Range(unit) \subseteq slots
         /\ Range(unit) \cap Decided = {}
         /\ \A j \in 1..Len(unit) : unit[j] \in Range(unit) /\ unit[j] \in slots /\ unit[j] \notin Decided
         /\ Range(unit) = Gone(unit, Len(unit))
         /\ ready' \in Seq(Reqs) /\ Distinct(ready') /\ Range(ready') = Range(ready) \ Range(unit)
<1>1. unit \in Seq(Reqs) /\ Distinct(unit) /\ Len(unit) \in Nat
  BY UnitFacts
<1>2. Range(unit) = {unit[i] : i \in 1..Len(unit)}
  BY <1>1, RangeOf
<1>3. Range(unit) \subseteq Range(ready) /\ Range(ready) \subseteq slots
  BY DEF Judgeable, IInv, PlaceInv
<1>4. ready \in Seq(Reqs) /\ Distinct(ready)
  BY DEF IInv, TypeInv, SlotType, PlaceInv
<1>5. ready' \in Seq(Reqs) /\ Distinct(ready') /\ Range(ready') = Range(ready) \ Range(unit)
  <2>1. /\ Without(ready, unit) \in Seq(Reqs) /\ Range(Without(ready, unit)) = Range(ready) \ Range(unit)
        /\ Distinct(Without(ready, unit))
    BY <1>4, WithoutIs
  <2> DEFINE w == Without(ready, unit)
  <2>2. w \in Seq(Reqs) /\ Range(w) = Range(ready) \ Range(unit) /\ Distinct(w) /\ ready' = w
    BY <2>1
  <2> HIDE DEF w
  <2>3. Range(ready') = Range(ready) \ Range(unit)
    BY <2>2 DEF Range
  <2> QED
    BY <2>2, <2>3 DEF Distinct
<1>6. Range(unit) \cap Decided = {}
  BY <1>3 DEF Decided
<1>7. \A j \in 1..Len(unit) : unit[j] \in Range(unit)
  BY <1>2
<1>8. Range(unit) = Gone(unit, Len(unit))
  BY <1>2 DEF Gone
<1> QED
  BY <1>1, <1>3, <1>5, <1>6, <1>7, <1>8

\* A unit that is refused: nothing is promised, and every leg is answered.
LEMMA RejectKeeps ==
  ASSUME IInv, NEW unit \in Units, Judgeable(unit), ready' = Without(ready, unit),
         slots' = slots \ Range(unit), outbox' = EmitAll(outbox, unit, "rejected"),
         UNCHANGED <<left, script, queue, taken>>, UNCHANGED MoneyVars
  PROVE  IInv'
<1> DEFINE U == Range(unit)
           Refusals == {Ack(r, "rejected") : r \in U}
<1>0. /\ unit \in Seq(Reqs) /\ U \subseteq Range(ready) /\ U \subseteq slots
      /\ ready' \in Seq(Reqs) /\ Distinct(ready') /\ Range(ready') = Range(ready) \ U
  BY UnitTaken
<1>i. TypeInv /\ PlaceInv /\ AckInv
  BY DEF IInv
<1>1. Decided' = Decided
  BY <1>0 DEF Decided
<1>2. outbox' \in Outboxes /\ Said(outbox') = Said(outbox) \cup Refusals
  <2>1. outbox \in Outboxes
    BY <1>i DEF TypeInv, AnswerType
  <2> QED
    BY <1>0, <2>1, EmitAllSays
<1>3. Answers' = Answers \cup Refusals
  <2>1. Answers = taken \cup Said(outbox) /\ Answers' = taken' \cup Said(outbox')
    BY DEF Answers, Said
  <2> QED
    BY <1>2, <2>1
<1>4. Told' = Told \cup U
  <2>1. \A r : Ack(r, "rejected").tx = r
    BY DEF Ack
  <2> QED
    BY <1>3, <2>1 DEF Told
<1>5. U \cap Told = {}
  BY <1>0, <1>i DEF PlaceInv
<1>6. PlaceInv'
  <2>1. Distinct(script') /\ Distinct(queue') /\ Distinct(ready')
    BY <1>0, <1>i DEF PlaceInv, Distinct
  <2>2. Unsent' = Unsent /\ Range(queue') = Range(queue) /\ Range(script') = Range(script)
    BY DEF Unsent
  <2>3. /\ Range(script) \cap Range(queue) = {}
        /\ \A u \in left : Range(u) \cap (Range(script) \cup Range(queue)) = {}
        /\ (Unsent \cup Range(queue)) \cap slots = {}
        /\ (Unsent \cup Range(queue)) \cap Told = {}
        /\ slots \cap Told = {} /\ Range(ready) \subseteq slots
    BY <1>i DEF PlaceInv
  <2>4. (Unsent' \cup Range(queue')) \cap Told' = {}
    BY <1>0, <1>4, <2>2, <2>3
  <2>5. slots' \cap Told' = {} /\ Range(ready') \subseteq slots'
    BY <1>0, <1>4, <2>3
  <2>6. (Unsent' \cup Range(queue')) \cap slots' = {}
    BY <2>2, <2>3
  <2> QED
    BY <2>1, <2>2, <2>3, <2>4, <2>5, <2>6 DEF PlaceInv
<1>7. AckInv'
  <2> DEFINE no == "rejected"
  <2>1. no # "committed" /\ Answers' = Answers \cup {Ack(r, no) : r \in U}
    BY <1>3
  <2> HIDE DEF no, U
  <2> QED
    BY <1>4, <1>5, <1>i, <2>1, AckRefused DEF MoneyVars
<1>8. ClientType' /\ SlotType' /\ AnswerType'
  <2>1. ClientType'
    BY <1>i DEF TypeInv, ClientType
  <2>2. SlotType'
    <3>1. slots' \subseteq slots /\ IsFiniteSet(slots) /\ slots \subseteq Reqs
      BY <1>i DEF TypeInv, SlotType
    <3>2. IsFiniteSet(slots')
      BY <3>1, FS_Subset
    <3> QED
      BY <1>0, <3>1, <3>2 DEF SlotType
  <2>3. AnswerType'
    BY <1>2, <1>i DEF TypeInv, AnswerType
  <2> QED
    BY <2>1, <2>2, <2>3
<1>9. /\ OpenInv' /\ FlightInv' /\ (~sealed => RaftInv)' /\ PromiseInv' /\ LogInv'
      /\ CountInv' /\ Balanced' /\ MoneyType' /\ BatchType' /\ CountType'
  BY <1>1, MoneyFrame
<1> QED
  BY <1>6, <1>7, <1>8, <1>9 DEF IInv, TypeInv

\* What a unit that is taken leaves alone.
TakenVars(v, unit) ==
  /\ open' = open \o v.effects /\ speculative' = v.speculative /\ remaining' = v.remaining
  /\ judged' = judged + Len(unit)
  /\ UNCHANGED <<left, script, queue, taken, slots, outbox, columns, inflight, batch, proposals,
                 held, commits, log, committed, applied, sealed>>

LEMMA AcceptPlaces ==
  ASSUME IInv, NEW unit \in Units, Judgeable(unit), ready' = Without(ready, unit), NEW v,
         v.effects \in Seq(EffectSet), Len(v.effects) = Len(unit),
         \A j \in 1..Len(unit) : v.effects[j].tx = unit[j], TakenVars(v, unit)
  PROVE  /\ Decided' = Decided \cup Range(unit) /\ PlaceInv' /\ OpenInv' /\ FlightInv'
         /\ Spans(open \o v.effects, unit, Len(open)) /\ open' \in Seq(EffectSet)
         /\ Len(open') = Len(open) + Len(unit) /\ Len(open) \in Nat
         /\ \A i \in 1..Len(open) : open'[i] = open[i]
         /\ \A i \in 1..Len(unit) : open'[Len(open) + i] = v.effects[i]
<1> DEFINE U == Range(unit)
           w == v.effects
           m == Len(open)
           n == Len(unit)
<1>0. /\ unit \in Seq(Reqs) /\ Distinct(unit) /\ n \in Nat /\ U \subseteq Range(ready) /\ U \subseteq slots
      /\ U \cap Decided = {} /\ \A j \in 1..n : unit[j] \in U
      /\ ready' \in Seq(Reqs) /\ Distinct(ready') /\ Range(ready') = Range(ready) \ U
  BY UnitTaken
<1>i. TypeInv /\ PlaceInv /\ OpenInv /\ FlightInv
  BY DEF IInv
<1>u. /\ open' = open \o w
      /\ UNCHANGED <<left, script, queue, taken, slots, outbox, inflight, batch>>
  BY DEF TakenVars
<1>1. Decided' = Decided \cup U
  BY <1>0, <1>u DEF Decided
<1>2. open \in Seq(EffectSet)
  BY <1>i DEF TypeInv, BatchType
<1> HIDE DEF w
<1>w. w \in Seq(EffectSet) /\ Len(w) = n /\ \A j \in 1..n : w[j].tx = unit[j]
  BY DEF w
<1>3. open \o w \in Seq(EffectSet) /\ Len(open \o w) = Len(open) + Len(w) /\ Len(open) \in Nat
  <2>1. Len(open) \in Nat /\ Len(w) \in Nat
    BY <1>2, <1>w
  <2>2. open \o w \in Seq(EffectSet)
    BY <1>2, <1>w
  <2>0. w \in Seq(EffectSet)
    BY <1>w
  <2>3. Len(open \o w) = Len(open) + Len(w)
    BY <1>2, <2>0
  <2> QED
    BY <2>1, <2>2, <2>3
<1>3a. \A i \in 1..Len(open) : (open \o w)[i] = open[i]
  BY <1>2, <1>w, ConcatFacts
<1>3b. \A i \in 1..Len(w) : (open \o w)[Len(open) + i] = w[i]
  BY <1>2, <1>w, ConcatFacts
<1>4. /\ open' \in Seq(EffectSet) /\ Len(open') = m + n /\ m \in Nat
      /\ \A i \in 1..m : open'[i] = open[i]
      /\ \A i \in 1..n : open'[m + i] = w[i]
  BY <1>3, <1>3a, <1>3b, <1>u, <1>w
<1>5. WholeUnits(open \o w) /\ Spans(open \o w, unit, m)
  <2>1. WholeUnits(open)
    BY <1>i DEF OpenInv
  <2> QED
    BY <1>2, <1>w, <2>1, WholeConcat
<1>p. PlaceInv'
  <2>1. Answers' = Answers
    BY <1>u DEF Answers
  <2>2. Told' = Told /\ Unsent' = Unsent
    BY <1>u, <2>1 DEF Told, Unsent
  <2>3. Range(ready') \subseteq slots' /\ Distinct(ready')
    BY <1>0, <1>i, <1>u DEF PlaceInv
  <2> QED
    BY <1>i, <1>u, <2>2, <2>3 DEF PlaceInv, Distinct
\* A request of the open batch was there, or is of the unit.
<1>6. ASSUME NEW i \in 1..(m + n)
      PROVE  \/ i \in 1..m /\ open'[i].tx = open[i].tx /\ open[i].tx \in Decided
             \/ i - m \in 1..n /\ open'[i].tx = unit[i - m] /\ unit[i - m] \in U
  <2>1. CASE i <= m
    <3>1. i \in 1..m
      BY <1>4, <2>1
    <3>2. open[i].tx \in Decided
      BY <1>i, <3>1 DEF OpenInv
    <3> QED
      BY <1>4, <3>1, <3>2
  <2>2. CASE ~(i <= m)
    <3> DEFINE j == i - m
    <3>1. j \in 1..n /\ m + j = i
      BY <1>0, <1>4, <2>2
    <3> HIDE DEF j
    <3>2. open'[i] = w[j]
      BY <1>4, <3>1
    <3>3. open'[i].tx = unit[j] /\ unit[j] \in U
      BY <1>0, <1>w, <3>1, <3>2
    <3> QED
      BY <3>1, <3>3 DEF j
  <2> QED
    BY <2>1, <2>2
<1>7. OpenInv'
  <2>1. \A i \in 1..Len(open') : open'[i].tx \in Decided'
    BY <1>1, <1>4, <1>6
  <2>2. ASSUME NEW i \in 1..(m + n), NEW j \in 1..(m + n), open'[i].tx = open'[j].tx PROVE i = j
    <3>1. CASE i \in 1..m /\ j \in 1..m
      <4>1. open[i].tx = open[j].tx
        BY <1>4, <2>2, <3>1
      <4> QED
        BY <1>i, <3>1, <4>1 DEF OpenInv
    <3>2. CASE i - m \in 1..n /\ j - m \in 1..n /\ open'[i].tx = unit[i - m] /\ open'[j].tx = unit[j - m]
      <4>1. i - m = j - m
        BY <1>0, <2>2, <3>2 DEF Distinct
      <4> QED
        BY <1>4, <4>1
    <3>3. ~(open'[i].tx \in Decided /\ open'[j].tx \in U) /\ ~(open'[j].tx \in Decided /\ open'[i].tx \in U)
      BY <1>0, <2>2
    <3> QED
      BY <1>6, <3>1, <3>2, <3>3
  <2>3. WholeUnits(open)'
    <3>1. WholeUnits(open')
      BY <1>5, <1>u
    <3> QED
      BY <3>1 DEF WholeUnits, Spans
  <2> QED
    BY <1>4, <2>1, <2>2, <2>3 DEF OpenInv
<1>8. FlightInv'
  <2>1. \A k \in 1..Len(inflight) : \A i \in 1..Len(inflight[k].slots) : inflight[k].slots[i] \in Decided
    BY <1>i DEF FlightInv
  <2>2. ASSUME NEW k \in 1..Len(inflight), NEW i \in 1..Len(inflight[k].slots), NEW j \in 1..(m + n)
        PROVE  open'[j].tx # inflight[k].slots[i]
    <3>1. inflight[k].slots[i] \in Decided
      BY <2>1
    <3>2. CASE j \in 1..m /\ open'[j].tx = open[j].tx
      BY <1>i, <3>2 DEF FlightInv
    <3>3. CASE open'[j].tx \in U
      BY <1>0, <3>1, <3>3
    <3> QED
      BY <1>6, <3>2, <3>3
  <2>3. Len(open') = m + n /\ UNCHANGED <<inflight, batch>>
    BY <1>4, <1>u
  <2>4. \A k \in 1..Len(inflight) : \A i \in 1..Len(inflight[k].slots) :
          /\ inflight[k].slots[i] \in Decided'
          /\ \A j \in 1..Len(open') : open'[j].tx # inflight[k].slots[i]
    BY <1>1, <2>1, <2>2, <2>3
  <2> HIDE DEF m, n
  <2> QED
    BY <1>i, <2>3, <2>4 DEF FlightInv
<1> QED
  BY <1>1, <1>4, <1>5, <1>7, <1>8, <1>p DEF w

\* The promises of the requests decided before, and those of the unit.
LEMMA AcceptPromises ==
  ASSUME IInv, NEW unit \in Units, Judgeable(unit), ready' = Without(ready, unit), NEW v,
         TakenVars(v, unit), NEW eff0, NEW need0, Promises(eff0), Covered(eff0, need0),
         NEW eff, NEW need, NEW lev, Deciding(v, unit, Len(unit), eff0, need0, eff, need),
         Afforded(v, unit, Len(unit), eff, need, lev),
         v.effects \in Seq(EffectSet), Len(v.effects) = Len(unit),
         \A j \in 1..Len(unit) : v.effects[j].tx = unit[j]
  PROVE  Promises(eff)' /\ Covered(eff, need)'
<1> DEFINE U == Range(unit)
           m == Len(open)
           n == Len(unit)
<1>0. /\ unit \in Seq(Reqs) /\ n \in Nat /\ U \cap Decided = {}
      /\ \A j \in 1..n : unit[j] \in U
  BY UnitTaken
<1>g. U = Gone(unit, n)
  BY UnitTaken
<1>u. /\ open' = open \o v.effects /\ speculative' = v.speculative /\ remaining' = v.remaining
      /\ UNCHANGED <<columns, inflight, proposals, held, commits, sealed>>
  BY DEF TakenVars
<1>1. /\ Decided' = Decided \cup U /\ Spans(open \o v.effects, unit, m) /\ Len(open') = m + n /\ m \in Nat
      /\ \A i \in 1..m : open'[i] = open[i]
      /\ \A i \in 1..n : open'[m + i] = v.effects[i]
  BY AcceptPlaces
<1>d. Decided \subseteq Reqs
  BY DEF Decided, IInv, TypeInv, SlotType
<1>2. \A r \in Decided : eff[r] = eff0[r] /\ need[r] = need0[r]
  <2>1. \A x \in Reqs \ Gone(unit, n) : eff[x] = eff0[x] /\ need[x] = need0[x]
    BY DEF Deciding
  <2> QED
    BY <1>0, <1>d, <1>g, <2>1
<1>3. \A i \in 1..m : open[i].tx \in Decided
  BY DEF IInv, OpenInv
<1>4. EffectsOf(eff, open)'
  <2> SUFFICES ASSUME NEW i \in 1..(m + n) PROVE open'[i] = eff[open'[i].tx]
    BY <1>1 DEF EffectsOf
  <2>1. CASE i <= m
    <3>1. i \in 1..m
      BY <1>1, <2>1
    <3>2. open[i] = eff0[open[i].tx]
      BY <3>1 DEF Promises, EffectsOf
    <3>3. eff[open[i].tx] = eff0[open[i].tx]
      BY <1>2, <1>3, <3>1
    <3>4. open'[i] = open[i]
      BY <1>1, <3>1
    <3> QED
      BY <3>2, <3>3, <3>4
  <2>2. CASE ~(i <= m)
    <3> DEFINE j == i - m
    <3>1. j \in 1..n /\ m + j = i
      BY <1>0, <1>1, <2>2
    <3> HIDE DEF j
    <3>2. open'[i] = v.effects[j]
      BY <1>1, <3>1
    <3>3. v.effects[j] = eff[unit[j]]
      BY <3>1 DEF Deciding
    <3>4. v.effects[j].tx = unit[j]
      BY <3>1
    <3> QED
      BY <3>2, <3>3, <3>4
  <2> QED
    BY <2>1, <2>2
<1>5. ~sealed => /\ \A k \in 1..Len(proposals) : EffectsOf(eff, proposals[k].effects)
                 /\ \A k \in 1..Len(Mid) : EffectsOf(eff, Mid[k].effects)
  <2> SUFFICES ASSUME ~sealed
               PROVE  /\ \A k \in 1..Len(proposals) : EffectsOf(eff, proposals[k].effects)
                      /\ \A k \in 1..Len(Mid) : EffectsOf(eff, Mid[k].effects)
    OBVIOUS
  <2>1. /\ \A k \in 1..Len(proposals) : \A i \in 1..Len(proposals[k].effects) :
             proposals[k].effects[i].tx \in Decided
        /\ \A k \in 1..Len(Mid) : \A i \in 1..Len(Mid[k].effects) : Mid[k].effects[i].tx \in Decided
    BY TakenAreDecided
  <2>2. /\ \A k \in 1..Len(proposals) : EffectsOf(eff0, proposals[k].effects)
        /\ \A k \in 1..Len(Mid) : EffectsOf(eff0, Mid[k].effects)
    BY DEF Promises
  <2> HIDE DEF Mid
  <2> QED
    <3>1. ASSUME NEW q, EffectsOf(eff0, q), \A i \in 1..Len(q) : q[i].tx \in Decided
          PROVE  EffectsOf(eff, q)
      BY <1>2, <3>1 DEF EffectsOf
    <3>2. \A k \in 1..Len(proposals) : EffectsOf(eff, proposals[k].effects)
      BY <2>1, <2>2, <3>1
    <3>3. \A k \in 1..Len(Mid) : EffectsOf(eff, Mid[k].effects)
      BY <2>1, <2>2, <3>1
    <3> QED
      BY <3>2, <3>3
<1>6. \A r \in Decided' : Resolves(eff[r]) => eff[r].ref \in Reqs /\ remaining'[eff[r].ref] # None
  <2> SUFFICES ASSUME NEW r \in Decided', Resolves(eff[r])
               PROVE  eff[r].ref \in Reqs /\ v.remaining[eff[r].ref] # None
    BY <1>u
  <2>1. CASE r \in Decided
    <3>1. eff[r].ref \in Reqs /\ remaining[eff[r].ref] # None
      BY <1>2, <2>1 DEF Promises
    <3> QED
      BY <3>1 DEF Deciding
  <2>2. CASE r \in U
    <3>1. PICK j \in 1..n : r = unit[j]
      BY <1>g, <2>2 DEF Gone
    <3> QED
      BY <3>1 DEF Deciding
  <2> QED
    BY <1>1, <2>1, <2>2
<1>7. \A a \in Accounts : speculative'[a] = -SumFunctionOnSet(Share(eff, a), Decided')
  <2>1. \A a \in Accounts : v.speculative[a] = -SumFunctionOnSet(Share(eff, a), Decided \cup Gone(unit, n))
    BY DEF Deciding
  <2> QED
    BY <1>1, <1>g, <1>u, <2>1
<1>8. Promises(eff)'
  <2>1. eff \in [Reqs -> EffectSet] /\ \A r \in Reqs : eff[r].tx = r
    BY DEF Deciding
  <2>2. Mid' = Mid /\ proposals' = proposals /\ sealed' = sealed
    BY <1>u DEF Mid
  <2> HIDE DEF Mid
  <2>3. ~sealed' => /\ \A k \in 1..Len(proposals') : EffectsOf(eff, proposals[k].effects)'
                    /\ \A k \in 1..Len(Mid') : EffectsOf(eff, Mid[k].effects)'
    BY <1>5, <2>2 DEF EffectsOf
  <2> QED
    BY <1>4, <1>6, <1>7, <2>1, <2>3 DEF Promises
<1>9. need \in [Reqs -> Nat] /\ \A r \in Reqs : need[r] <= Reservation(eff[r])
  BY DEF Deciding
<1>10. \A a \in Constrained : Available(columns'[a]) >= SumFunctionOnSet(NeedShare(eff, need, a), Decided')
  <2>1. \A a \in Constrained :
          Available(columns[a]) >= SumFunctionOnSet(NeedShare(eff, need, a), Decided \cup Gone(unit, n))
    BY DEF Afforded
  <2> QED
    BY <1>1, <1>g, <1>u, <2>1
<1>11. ASSUME NEW a \in Accounts, NEW k \in 1..Len(inflight) PROVE Rises(eff, need, a, inflight[k].slots)
  <2> DEFINE q == inflight[k].slots
  <2>1. Rises(eff0, need0, a, q)
    BY DEF Covered
  <2>2. q \in Seq(Reqs)
    <3>1. inflight[k] \in Flights
      BY DEF IInv, TypeInv, BatchType
    <3> QED
      BY <3>1 DEF Flights
  <2>3. \A i \in 1..Len(q) : q[i] \in Decided
    BY DEF IInv, FlightInv
  <2> HIDE DEF q
  <2>4. \A i \in 1..Len(q) : eff[q[i]] = eff0[q[i]] /\ need[q[i]] = need0[q[i]]
    BY <1>2, <2>3
  <2>5. Rises(eff, need, a, q)
    BY <2>1, <2>2, <2>4, RisesSame
  <2> QED
    BY <2>5 DEF q
<1>12. ASSUME NEW a \in Accounts PROVE RisesFromCuts(eff, need, a, Txs(open \o v.effects))
  <2> DEFINE x == Txs(open)
             h == [k \in 0..n |-> lev[k][a]]
  <2>0. open \in Seq(EffectSet)
    BY DEF IInv, TypeInv, BatchType
  <2>1. x \in Seq(Reqs) /\ Len(x) = m /\ \A i \in 1..m : x[i] = open[i].tx
    BY <2>0, TxsFacts
  <2>2. RisesFromCuts(eff0, need0, a, x)
    BY DEF Covered
  <2> HIDE DEF x
  <2>3. \A i \in 1..Len(x) : eff[x[i]] = eff0[x[i]] /\ need[x[i]] = need0[x[i]]
    BY <1>2, <1>3, <2>1
  <2>4. RisesFromCuts(eff, need, a, x)
    BY <2>1, <2>2, <2>3, RisesSame
  <2>5. /\ lev \in [0..n -> [Accounts -> Int]] /\ lev[0][a] = 0
        /\ \A k \in 1..n : lev[k][a] = lev[k - 1][a] + Surplus(eff, need, a, unit[k])
        /\ \A k \in 0..n : lev[k][a] >= 0
    BY DEF Afforded
  <2>6. /\ h \in [0..n -> Int] /\ \A k \in 0..n : h[k] = lev[k][a]
    BY <2>5
  <2> HIDE DEF h
  <2>7. h[0] = 0 /\ \A k \in 0..n : h[k] >= 0
    <3>1. 0 \in 0..n
      BY <1>0
    <3> QED
      BY <2>5, <2>6, <3>1
  <2>8. \A k \in 1..n : h[k] = h[k - 1] + Surplus(eff, need, a, unit[k])
    <3>1. \A k \in 1..n : k \in 0..n /\ k - 1 \in 0..n
      BY <1>0
    <3> QED
      BY <2>5, <2>6, <3>1
  <2>9. ASSUME NEW k \in 1..n PROVE Surplus(eff, need, a, unit[k]) \in Int
    <3>1. unit[k] \in Reqs /\ eff \in [Reqs -> EffectSet]
      BY <1>0 DEF Deciding
    <3>2. Shares(eff, need, a, unit[k])
      BY <1>9, <3>1, SharesType
    <3> QED
      BY <3>2 DEF Shares
  <2>10. RisesFromCuts(eff, need, a, Txs(open))
    BY <2>4 DEF x
  <2> DEFINE w == v.effects
  <2>11. w \in Seq(EffectSet) /\ Len(w) = Len(unit) /\ (\A j \in 1..Len(unit) : w[j].tx = unit[j])
           /\ Spans(open \o w, unit, Len(open))
    BY <1>1
  <2> HIDE DEF w
  <2>12. RisesFromCuts(eff, need, a, Txs(open \o w))
    BY <2>0, <2>6, <2>7, <2>8, <2>9, <2>10, <2>11, CutsExtend
  <2> QED
    BY <2>12 DEF w
<1>13. Covered(eff, need)'
  BY <1>9, <1>10, <1>11, <1>12, <1>u DEF Covered
<1> QED
  BY <1>8, <1>13

LEMMA AcceptKeeps ==
  ASSUME IInv, NEW unit \in Units, Judgeable(unit), ready' = Without(ready, unit),
         Judged(unit).ok, TakenVars(Judged(unit), unit)
  PROVE  IInv'
<1> DEFINE v == Judged(unit)
           n == Len(unit)
           U == Range(unit)
<1>0. /\ unit \in Seq(Reqs) /\ Distinct(unit) /\ n \in Nat /\ U \cap Decided = {} /\ U \subseteq slots
      /\ \A j \in 1..n : unit[j] \in U /\ unit[j] \in slots /\ unit[j] \notin Decided
      /\ U = Gone(unit, n) /\ ready' \in Seq(Reqs)
  BY UnitTaken
<1>i. TypeInv
  BY DEF IInv
<1>1. PICK eff0, need0 : Promises(eff0) /\ Covered(eff0, need0)
  BY DEF IInv, PromiseInv
<1>2. PICK eff, need, lev : /\ Deciding(v, unit, n, eff0, need0, eff, need)
                            /\ Afforded(v, unit, n, eff, need, lev)
  BY <1>0, <1>1, <1>i, JudgedRun
<1>t. TakenVars(v, unit)
  OBVIOUS
<1> HIDE DEF v
<1>3. v \in Verdicts /\ Len(v.effects) = n /\ \A j \in 1..n : v.effects[j] = eff[unit[j]]
  BY <1>2 DEF Deciding
<1>4. /\ v.effects \in Seq(EffectSet) /\ v.speculative \in [Accounts -> Int]
      /\ v.remaining \in [Reqs -> Nat \cup {None}]
  BY <1>3 DEF Verdicts
<1>5. \A j \in 1..n : v.effects[j].tx = unit[j]
  <2>1. \A r \in Reqs : eff[r].tx = r
    BY <1>2 DEF Deciding
  <2> QED
    BY <1>0, <1>3, <2>1
<1>6. Promises(eff)' /\ Covered(eff, need)'
  BY <1>1, <1>2, <1>3, <1>4, <1>5, <1>t, AcceptPromises
<1>7. /\ Decided' = Decided \cup U /\ PlaceInv' /\ OpenInv' /\ FlightInv' /\ open' \in Seq(EffectSet)
  BY <1>3, <1>4, <1>5, <1>t, AcceptPlaces
<1>u. /\ speculative' = v.speculative /\ remaining' = v.remaining /\ judged' = judged + n
      /\ UNCHANGED <<left, script, queue, taken, slots, outbox, columns, inflight, batch, proposals,
                     held, commits, log, committed, applied, sealed>>
  BY <1>t DEF TakenVars
<1>8. PromiseInv'
  BY <1>6 DEF PromiseInv
<1>9. (~sealed => RaftInv)'
  <2>1. Mid' = Mid /\ (~sealed => RaftInv)
    BY <1>u DEF Mid, IInv
  <2> QED
    BY <1>u, <2>1, RaftFrame
<1>10. LogInv' /\ AckInv' /\ Balanced'
  <2>1. Answers' = Answers
    BY <1>u DEF Answers
  <2>2. LogInv'
    BY <1>u, LogFrame DEF IInv
  <2>3. AckInv'
    BY <1>u, <2>1, AckFrame DEF IInv
  <2> QED
    BY <1>u, <2>2, <2>3 DEF IInv, Balanced
<1>11. CountInv'
  <2> DEFINE all == Decided \cup U
             c == Cardinality(Decided)
             e == Cardinality(all)
  <2>1. IsFiniteSet(all)
    <3>1. all \subseteq slots /\ IsFiniteSet(slots)
      BY <1>0, <1>i DEF Decided, TypeInv, SlotType
    <3> QED
      BY <3>1, FS_Subset
  <2>2. all \ Gone(unit, n) = Decided
    BY <1>0
  <2>3. n \in 0..Len(unit) /\ \A i \in 1..Len(unit) : unit[i] \in all
    BY <1>0
  <2> HIDE DEF all
  <2>4. Cardinality(all \ Gone(unit, n)) = Cardinality(all) - n /\ Cardinality(all) \in Nat
    BY <1>0, <2>1, <2>3, GoneCount
  <2>5. e = c + n /\ c \in Int
    <3>1. c = e - n /\ e \in Nat
      BY <2>2, <2>4 DEF c, e
    <3> HIDE DEF c, e, n
    <3> QED
      BY <1>0, <3>1
  <2>6. applied = committed /\ committed + c <= judged
    BY DEF IInv, CountInv
  <2>7. committed \in Nat /\ judged \in Nat
    BY <1>i DEF TypeInv, CountType
  <2> HIDE DEF c, e
  <2>8. committed + e <= judged + n
    BY <1>0, <2>5, <2>6, <2>7
  <2>9. sealed => all # {}
    BY DEF IInv, CountInv, all
  <2>10. Cardinality(Decided') = e /\ Decided' = all
    BY <1>7 DEF e, all
  <2> QED
    BY <1>u, <2>6, <2>8, <2>9, <2>10 DEF CountInv
<1>12. TypeInv'
  <2>1. ClientType' /\ AnswerType'
    BY <1>i, <1>u DEF TypeInv, ClientType, AnswerType
  <2>2. SlotType'
    BY <1>0, <1>i, <1>u DEF TypeInv, SlotType
  <2>3. MoneyType'
    BY <1>4, <1>i, <1>u DEF TypeInv, MoneyType
  <2>4. BatchType'
    BY <1>7, <1>i, <1>u DEF TypeInv, BatchType
  <2>5. CountType'
    BY <1>0, <1>i, <1>u DEF TypeInv, CountType
  <2> QED
    BY <2>1, <2>2, <2>3, <2>4, <2>5 DEF TypeInv
<1> QED
  BY <1>7, <1>8, <1>9, <1>10, <1>11, <1>12 DEF IInv

LEMMA JudgeKeeps == IInv /\ Judge => IInv'
<1> SUFFICES ASSUME IInv, Judge PROVE IInv'
  OBVIOUS
<1>1. PICK unit \in Units :
        /\ Judgeable(unit) /\ ready' = Without(ready, unit)
        /\ \/ /\ Judged(unit).ok
              /\ open' = open \o Judged(unit).effects
              /\ speculative' = Judged(unit).speculative /\ remaining' = Judged(unit).remaining
              /\ judged' = judged + Len(unit)
              /\ UNCHANGED <<slots, outbox>>
           \/ /\ ~Judged(unit).ok
              /\ slots' = slots \ Range(unit)
              /\ outbox' = EmitAll(outbox, unit, "rejected")
              /\ UNCHANGED <<open, speculative, remaining, judged>>
  BY DEF Judge
<1>2. UNCHANGED <<left, script, queue, columns, inflight, batch, proposals, held, commits, log, taken,
                  committed, applied, sealed>>
  BY DEF Judge, client, raft
<1>3. CASE Judged(unit).ok
  <2>1. TakenVars(Judged(unit), unit)
    BY <1>1, <1>2, <1>3 DEF TakenVars
  <2> QED
    BY <1>1, <1>3, <2>1, AcceptKeeps
<1>4. CASE ~Judged(unit).ok
  <2>1. /\ slots' = slots \ Range(unit) /\ outbox' = EmitAll(outbox, unit, "rejected")
        /\ UNCHANGED <<open, speculative, remaining, judged>>
    BY <1>1, <1>4
  <2>2. UNCHANGED MoneyVars
    BY <1>2, <2>1 DEF MoneyVars
  <2> QED
    BY <1>1, <1>2, <2>1, <2>2, RejectKeeps
<1> QED
  BY <1>3, <1>4

-----------------------------------------------------------------------------
(* Every step.                                                             *)

LEMMA NextKeeps == IInv /\ [Next]_vars => IInv'
<1> SUFFICES ASSUME IInv, [Next]_vars PROVE IInv'
  OBVIOUS
<1>1. CASE ClientStep
  BY <1>1, ClientKeeps
<1>2. CASE Intake
  BY <1>2, IntakeKeeps
<1>3. CASE Judge
  BY <1>3, JudgeKeeps
<1>4. CASE Propose
  BY <1>4, ProposeKeeps
<1>5. CASE Apply
  BY <1>5, ApplyKeeps
<1>6. CASE Flush
  BY <1>6, FlushKeeps
<1>7. CASE DrainProposals
  BY <1>7, DrainProposalsKeeps
<1>8. CASE Deliver
  BY <1>8, DeliverKeeps
\* The rest touches nothing the invariant is about.
<1>9. CASE ClearFailStop \/ CloseIntake \/ Drained \/ TimedOut \/ UNCHANGED vars
  <2>1. UNCHANGED <<left, script, queue, slots, ready, outbox, taken>>
    BY <1>9 DEF ClearFailStop, CloseIntake, Drained, TimedOut, EndDrain, vars, client
  <2>2. UNCHANGED MoneyVars
    BY <1>9 DEF ClearFailStop, CloseIntake, Drained, TimedOut, EndDrain, vars, money, batcher, raft,
                counters, MoneyVars
  <2> QED
    BY <2>1, <2>2, QuietStep
<1> QED
  BY <1>1, <1>2, <1>3, <1>4, <1>5, <1>6, <1>7, <1>8, <1>9 DEF Next, Stages

\* What is needed is never less than nothing.
LEMMA SumZero ==
  ASSUME NEW D, IsFiniteSet(D), NEW f, \A x \in D : f[x] = 0
  PROVE  SumFunctionOnSet(f, D) = 0
<1> DEFINE Sound(t) == SumFunctionOnSet(f, t) = 0
           T == {k \in Nat : \A t \in SUBSET D : Cardinality(t) = k => Sound(t)}
<1>1. 0 \in T
  <2> SUFFICES ASSUME NEW t \in SUBSET D, Cardinality(t) = 0 PROVE Sound(t)
    OBVIOUS
  <2>1. IsFiniteSet(t)
    BY FS_Subset
  <2>2. t = {}
    BY <2>1, FS_EmptySet
  <2> QED
    BY <2>2, SumEmpty
<1>2. ASSUME NEW k \in Nat, k \in T PROVE k + 1 \in T
  <2> SUFFICES ASSUME NEW u \in SUBSET D, Cardinality(u) = k + 1 PROVE Sound(u)
    OBVIOUS
  <2>1. IsFiniteSet(u)
    BY FS_Subset
  <2>2. u # {}
    <3> SUFFICES ASSUME u = {} PROVE FALSE
      OBVIOUS
    <3>1. Cardinality({}) = 0
      BY FS_EmptySet
    <3>2. k + 1 = 0
      BY <3>1
    <3> QED
      BY <3>2
  <2>3. PICK x \in u : TRUE
    BY <2>2
  <2> DEFINE t == u \ {x}
  <2>4. t \in SUBSET D /\ x \in D /\ x \notin t /\ u = t \cup {x}
    BY <2>3
  <2>. IsFiniteSet(t) /\ Cardinality(t) = (k + 1) - 1
    BY <2>1, <2>3, FS_RemoveElement
  <2>5. Sound(t)
    <3>1. Cardinality(t) = k
      BY <2>4
    <3> HIDE DEF Sound, t
    <3> QED
      BY <1>2, <2>4, <3>1
  <2> HIDE DEF t
  <2>6. Ints(f, t) /\ f[x] = 0 /\ f[x] \in Int /\ \A y \in t : f[y] = f[y]
    BY <2>4 DEF Ints
  <2>7. SumFunctionOnSet(f, t \cup {x}) = f[x] + SumFunctionOnSet(f, t)
    BY <2>4, <2>6, SumDecides
  <2> QED
    BY <2>4, <2>5, <2>6, <2>7
<1> HIDE DEF T
<1>3. Nat \subseteq T
  BY <1>1, <1>2, A!SetInduction
<1>4. Cardinality(D) \in Nat /\ D \in SUBSET D
  BY FS_CardinalityType
<1> QED
  BY <1>3, <1>4 DEF T

\* Every behaviour keeps the invariant: where each request is, what each was decided with,
\* what its account has for it, and where in the log the node is.
THEOREM CommitInvariant == Spec => []IInv
<1> QED
  BY InitInv, NextKeeps, PTL DEF Spec

\* However batches are cut, swapped, refused or cut short, the columns are the log's as far
\* as the node has applied it (apply.rs commit_batch; store.rs move_columns, replay).
THEOREM BooksFollowLog == Spec => []StateFollowsLog
<1>1. IInv => StateFollowsLog
  BY DEF IInv, LogInv
<1> QED
  BY <1>1, CommitInvariant, PTL

\* A client is told of a commit exactly when it is in the log and applied, and nobody is
\* answered twice (apply.rs apply, seal_applies).
THEOREM AnswersTrue == Spec => []AcksAreTrue
<1>1. IInv => AcksAreTrue
  BY DEF IInv, AckInv
<1> QED
  BY <1>1, CommitInvariant, PTL

\* An account that may not be overdrawn never is, though a leg may spend what the legs of
\* its chain before it bring in and a batch may fail after others were judged by its
\* promises (judge.rs direct_effect; effect.rs reservation, gain).
THEOREM NeverOverdrawn == Spec => []NoOverdraft
<1>1. IInv => NoOverdraft
  <2> SUFFICES ASSUME IInv, NEW a \in Constrained PROVE Available(columns[a]) >= 0
    BY DEF NoOverdraft
  <2>1. PICK eff, need : Promises(eff) /\ Covered(eff, need)
    BY DEF IInv, PromiseInv
  <2> DEFINE n == NeedShare(eff, need, a)
             N == SumFunctionOnSet(n, Decided)
             zero == [r \in Reqs |-> 0]
             Z == SumFunctionOnSet(zero, Decided)
  <2>2. Available(columns[a]) >= N
    BY <2>1 DEF Covered
  <2>3. eff \in [Reqs -> EffectSet] /\ need \in [Reqs -> Nat] /\ a \in Accounts
    BY <2>1, CommitAssumption DEF Promises, Covered
  <2>4. IsFiniteSet(Decided) /\ Ints(n, Decided) /\ Decided \subseteq Reqs /\ \A x \in Reqs : n[x] \in Nat
    BY <2>3, LeftFacts, Decided \subseteq Decided DEF IInv
  <2>5. \A x \in Reqs : zero[x] = 0
    OBVIOUS
  <2> HIDE DEF n, zero
  <2>6. Z <= N
    BY <2>4, <2>5, NeedAtMost
  <2>7. Z = 0
    BY <2>4, <2>5, SumZero
  <2>8. N \in Int
    BY <2>4, SumType
  <2>9. Available(columns[a]) \in Int
    <3>1. columns[a] \in Book
      BY <2>3 DEF IInv, TypeInv, MoneyType
    <3> QED
      BY <3>1 DEF Book, Available
  <2> HIDE DEF N, Z
  <2> QED
    BY <2>2, <2>6, <2>7, <2>8, <2>9
<1> QED
  BY <1>1, CommitInvariant, PTL

\* With no batch in flight consensus has nothing of an unsealed node's.
LEMMA NothingInConsensus ==
  ASSUME IInv, ~sealed, inflight = <<>>
  PROVE  commits = <<>>
<1>1. RaftInv
  BY DEF IInv
<1>2. /\ commits \in Seq(Decisions) /\ held \in Seq(Decisions)
      /\ proposals \in Seq(Proposals) /\ batch \in Nat
  BY DEF IInv, TypeInv, BatchType
<1>3. Len(inflight) = 0 /\ Len(proposals) \in Nat
  BY <1>2
<1>4. Len(Mid) = Len(commits) + Len(held) /\ Len(commits) \in Nat /\ Len(held) \in Nat
  BY <1>2 DEF Mid
<1>5. ASSUME Len(commits) > 0 PROVE FALSE
  <2>1. 1 \in 1..Len(Mid)
    BY <1>4, <1>5
  <2>2. Mid[1].id \in (batch - Len(inflight))..(batch - Len(proposals) - 1)
    BY <1>1, <2>1 DEF RaftInv
  <2> QED
    BY <1>2, <1>3, <2>2
<1> QED
  BY <1>2, <1>4, <1>5

\* When nothing is in flight, nothing is promised, unjudged or unapplied.
LEMMA QuietMeansDone ==
  ASSUME IInv, Quiescent
  PROVE  /\ \A a \in Accounts : speculative[a] = 0
         /\ ready = <<>> /\ open = <<>> /\ committed = Len(log)
<1>1. slots = {} /\ inflight = <<>>
  BY DEF Quiescent
<1>2. Decided = {}
  BY <1>1 DEF Decided
<1>3. ~sealed
  BY <1>2 DEF IInv, CountInv
<1>4. ready = <<>>
  <2>1. ready \in Seq(Reqs) /\ Range(ready) = {}
    BY <1>1 DEF IInv, TypeInv, SlotType, PlaceInv
  <2> QED
    BY <2>1, RangeOf
<1>5. open = <<>>
  <2>1. open \in Seq(EffectSet) /\ \A i \in 1..Len(open) : open[i].tx \in Decided
    BY DEF IInv, TypeInv, BatchType, OpenInv
  <2> QED
    BY <1>2, <2>1
<1>6. committed = Len(log)
  <2>1. PICK off : Offsets(off)
    BY <1>3 DEF IInv, LogInv
  <2>2. Len(commits) = 0
    BY <1>1, <1>3, NothingInConsensus
  <2> QED
    BY <2>1, <2>2 DEF Offsets
<1>7. ASSUME NEW a \in Accounts PROVE speculative[a] = 0
  <2>1. PICK eff, need : Promises(eff) /\ Covered(eff, need)
    BY DEF IInv, PromiseInv
  <2> DEFINE f == Share(eff, a)
  <2>2. speculative[a] = -SumFunctionOnSet(f, {})
    BY <1>2, <2>1 DEF Promises
  <2> HIDE DEF f
  <2> QED
    BY <2>2, SumEmpty
<1> QED
  BY <1>4, <1>5, <1>6, <1>7

\* The audit of every tick finds nothing wrong: both sums of double entry agree, a commit was
\* judged and applied, and a node with nothing in flight owes nobody anything, which is what a
\* stop that drained relies on (reactor.rs audit, counts_add_up; lib.rs serve_then_drain).
THEOREM AuditPasses == Spec => []AuditHolds
<1>1. IInv => AuditHolds
  <2> SUFFICES ASSUME IInv PROVE AuditHolds
    OBVIOUS
  <2>1. CountsAddUp
    <3> DEFINE c == Cardinality(Decided)
    <3>1. Decided \subseteq slots /\ IsFiniteSet(slots)
      BY DEF Decided, IInv, TypeInv, SlotType
    <3>2. IsFiniteSet(Decided)
      BY <3>1, FS_Subset
    <3>3. c \in Nat
      BY <3>2, FS_CardinalityType
    <3>4. applied = committed /\ committed + c <= judged
      BY DEF IInv, CountInv
    <3>5. committed \in Nat /\ judged \in Nat
      BY DEF IInv, TypeInv, CountType
    <3> HIDE DEF c
    <3>6. committed <= judged
      BY <3>3, <3>4, <3>5
    <3> QED
      BY <3>4, <3>6 DEF CountsAddUp, IInv, FlightInv
  <2> QED
    BY <2>1, QuietMeansDone DEF AuditHolds, IInv
<1> QED
  BY <1>1, CommitInvariant, PTL

===============================================================================
