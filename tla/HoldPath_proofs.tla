-------------------------- MODULE HoldPath_proofs --------------------------
(***************************************************************************)
(* Proofs about HoldPath, for every number of holds and requests and every *)
(* queue size.                                                             *)
(***************************************************************************)
EXTENDS HoldPath, SequenceTheorems, FiniteSetTheorems, TLAPS

(***************************************************************************)
(* Every operation of the overlay keeps an entry an entry.                 *)
(***************************************************************************)
\* The two ways an entry is built.
LEMMA EntryShapes ==
    /\ \A t \in Tags, p \in Nat : Bare(t, p) \in Entry
    /\ \A p \in Nat, left \in Int, taken \in Int, res \in BOOLEAN :
          Hold(p, left, taken, res) \in Entry
BY DEF Bare, Hold, Entry, Tags

LEMMA EntryFields ==
    ASSUME NEW e \in Entry
    PROVE  /\ e.pinned \in Nat /\ e.remaining \in Int /\ e.reserved \in Int
           /\ e.resolved \in BOOLEAN /\ e.safe_after \in Nat
BY DEF Entry

LEMMA PinsKeepEntry ==
    ASSUME NEW e \in Entry
    PROVE  /\ BeginLookup(e) \in Entry /\ NoEntry \in Entry
           /\ Pin(e) \in Entry /\ Unpin(e) \in Entry
<1>1. BeginLookup(e) \in Entry /\ NoEntry \in Entry
  BY EntryShapes DEF BeginLookup, NoEntry, Tags
<1>2. Pin(e) \in Entry /\ Unpin(e) \in Entry
  BY DEF Pin, Unpin, Entry
<1>3. QED  BY <1>1, <1>2

LEMMA DecideKeepsEntry ==
    ASSUME NEW e \in Entry, NEW left \in Int
    PROVE  Decide(e, left) \in Entry
<1>1. 0 \in Int
  OBVIOUS
<1>2. QED  BY <1>1, EntryShapes, EntryFields, Zenon DEF Decide

LEMMA AnswersKeepEntry ==
    ASSUME NEW e \in Entry, NEW found \in Nat
    PROVE  AdmitLookup(e, found) \in Entry
BY EntryShapes, EntryFields, DecideKeepsEntry DEF AdmitLookup, Tags

LEMMA WritesKeepEntry ==
    ASSUME NEW e \in Entry, NEW left \in Nat, NEW n \in Nat
    PROVE  /\ Created(e, left) \in Entry
           /\ NoteRemaining(e, left) \in Entry
           /\ Forget(e, n) \in Entry
<1>1. left \in Int
  OBVIOUS
<1>2. Created(e, left) \in Entry
  BY <1>1, DecideKeepsEntry DEF Created
<1>3. NoteRemaining(e, left) \in Entry
  BY <1>1, EntryShapes, EntryFields DEF NoteRemaining
<1>4. Forget(e, n) \in Entry
  BY DEF Forget, Entry, Tags
<1>5. QED  BY <1>2, <1>3, <1>4

LEMMA ReservationsKeepEntry ==
    ASSUME NEW e \in Entry, NEW amount \in Int, NEW b \in BOOLEAN
    PROVE  /\ Reserve(e, amount, b) \in Entry
           /\ ReleaseReservation(e, amount) \in Entry
           /\ Compensate(e, amount, b) \in Entry
<1>1. /\ e.reserved + amount \in Int /\ e.reserved - amount \in Int
      /\ (IF e.reserved > amount THEN e.reserved - amount ELSE 0) \in Int
  BY EntryFields
<1>2. (e.resolved \/ b) \in BOOLEAN /\ (e.resolved /\ ~b) \in BOOLEAN
  OBVIOUS
<1>3. Reserve(e, amount, b) \in Entry
  BY <1>1, <1>2, EntryShapes, EntryFields, Zenon DEF Reserve
<1>4. ReleaseReservation(e, amount) \in Entry
  BY <1>1, EntryShapes, EntryFields, Zenon DEF ReleaseReservation
<1>5. Compensate(e, amount, b) \in Entry
  BY <1>1, <1>2, EntryShapes, EntryFields, Zenon DEF Compensate
<1>6. QED  BY <1>3, <1>4, <1>5

(***************************************************************************)
(* What judging a request does to the types.                               *)
(***************************************************************************)
LEMMA ViewRemainingType ==
    ASSUME NEW e \in Entry, NEW found \in Nat
    PROVE  ViewRemaining(e, found) \in Int
BY DEF ViewRemaining, Entry

LEMMA EffectType ==
    ASSUME TypeOK, NEW r \in Reqs, NEW e \in Entry, NEW found \in Nat,
           Verdict(r, e, found) = "accepted"
    PROVE  Effect(r, e, found) \in [amount : Nat, left : Nat]
<1>1. tx[r] \in Transfer /\ tx[r].amount \in Nat
  BY HoldAmountAssumption DEF TypeOK, Transfer
<1>2. CASE ~ReadsHold(r)
  BY <1>1, <1>2 DEF Effect
<1>3. CASE ReadsHold(r)
  <2>1. ViewRemaining(e, found) \in Int
    BY ViewRemainingType
  <2>2. Taken(r, e, found) \in Int
    BY <1>1, <2>1 DEF Taken
  <2>3. Taken(r, e, found) > 0 /\ Taken(r, e, found) <= ViewRemaining(e, found)
    BY <1>3, <2>1, <2>2 DEF Verdict
  <2>4. QED  BY <1>3, <2>1, <2>2, <2>3 DEF Effect
<1>4. QED  BY <1>2, <1>3

LEMMA JudgeType ==
    ASSUME TypeOK, NEW r \in Reqs, NEW e \in Entry, NEW found \in Nat,
           Judge(r, e, found)
    PROVE  /\ stage' \in [Reqs -> Stages]
           /\ effect' \in [Reqs -> [amount : Nat, left : Nat]]
           /\ outcome' \in [Reqs -> Outcomes]
           /\ open' \in Seq(Reqs)
           /\ overlay' \in [Holds -> Entry]
<1>1. tx[r].hold \in Holds
  BY DEF TypeOK, Transfer
<1>2. CASE Verdict(r, e, found) = "accepted"
  <2> DEFINE ef == Effect(r, e, found)
             b == ef.left = 0
  <2>1. ef \in [amount : Nat, left : Nat]
    BY <1>2, EffectType
  <2>2. ef.amount \in Int /\ b \in BOOLEAN
    BY <2>1
  <2>3. Reserve(e, ef.amount, b) \in Entry
    <3> HIDE DEF ef, b
    <3> QED  BY <2>2, ReservationsKeepEntry
  <2>4. /\ stage' = [stage EXCEPT ![r] = "judged"]
        /\ effect' = [effect EXCEPT ![r] = ef]
        /\ open' = Append(open, r)
        /\ overlay' = [overlay EXCEPT ![tx[r].hold] =
                         IF ReadsHold(r) THEN Reserve(e, ef.amount, b) ELSE e]
        /\ outcome' = outcome
    BY <1>2 DEF Judge
  <2>5. QED  BY <1>1, <2>1, <2>3, <2>4, SMTT(30) DEF TypeOK, Stages
<1>3. CASE Verdict(r, e, found) # "accepted"
  <2>1. Verdict(r, e, found) \in Outcomes
    BY <1>3 DEF Verdict, Outcomes
  <2>2. Unpinned(r, e) \in Entry
    BY PinsKeepEntry DEF Unpinned
  <2>3. /\ stage' = [stage EXCEPT ![r] = "done"]
        /\ outcome' = [outcome EXCEPT ![r] = Verdict(r, e, found)]
        /\ overlay' = [overlay EXCEPT ![tx[r].hold] = Unpinned(r, e)]
        /\ effect' = effect /\ open' = open
    BY <1>3 DEF Judge
  <2>4. QED  BY <1>1, <2>1, <2>2, <2>3 DEF TypeOK, Stages
<1>4. QED  BY <1>2, <1>3

LEMMA ReleaseDepType ==
    ASSUME TypeOK, NEW r \in Reqs, NEW e \in Entry, NEW found \in Nat, NEW d \in Deps,
           ReleaseDep(r, d, e, found)
    PROVE  /\ deps' \in [Reqs -> SUBSET Deps]
           /\ stage' \in [Reqs -> Stages]
           /\ effect' \in [Reqs -> [amount : Nat, left : Nat]]
           /\ outcome' \in [Reqs -> Outcomes]
           /\ open' \in Seq(Reqs)
           /\ overlay' \in [Holds -> Entry]
<1>1. tx[r].hold \in Holds
  BY DEF TypeOK, Transfer
<1>2. deps' \in [Reqs -> SUBSET Deps]
  BY DEF ReleaseDep, TypeOK
<1>3. CASE deps[r] \subseteq {d}
  <2>1. Judge(r, e, found)
    BY <1>3 DEF ReleaseDep
  <2>2. QED  BY <1>2, <2>1, JudgeType
<1>4. CASE ~(deps[r] \subseteq {d})
  <2>1. /\ overlay' = [overlay EXCEPT ![tx[r].hold] = e]
        /\ stage' = stage /\ effect' = effect /\ open' = open /\ outcome' = outcome
    BY <1>4 DEF ReleaseDep
  <2>2. QED  BY <1>1, <1>2, <2>1 DEF TypeOK
<1>5. QED  BY <1>3, <1>4

(***************************************************************************)
(* Type correctness, one lemma per action.                                 *)
(***************************************************************************)
LEMMA InitType == Init => TypeOK
<1> SUFFICES ASSUME Init PROVE TypeOK
  OBVIOUS
<1>1. NoEntry \in Entry
  BY EntryShapes DEF NoEntry, Tags
<1>2. overlay \in [Holds -> Entry] /\ tx \in [Reqs -> Transfer]
  BY <1>1 DEF Init
<1>3. effect \in [Reqs -> [amount : Nat, left : Nat]]
  BY DEF Init
<1>4. applying \in [committed : BOOLEAN, batch : Seq(Reqs)]
  BY DEF Init
<1>5. /\ saw \in [Reqs -> BOOLEAN] /\ sealed \in BOOLEAN /\ quarantined \in BOOLEAN
      /\ deps \in [Reqs -> SUBSET Deps] /\ sent \in [Reqs -> SUBSET Deps]
      /\ stage \in [Reqs -> Stages] /\ outcome \in [Reqs -> Outcomes]
  BY DEF Init, Stages, Outcomes
<1>6. /\ deferred \in Seq(Reqs) /\ writes \in Seq(Reqs) /\ open \in Seq(Reqs)
      /\ in_flight \in Seq(Seq(Reqs)) /\ cmdq \in Seq(Command)
  BY DEF Init
<1>7. QED
  BY <1>2, <1>3, <1>4, <1>5, <1>6 DEF Init, TypeOK

LEMMA TxFields ==
    ASSUME TypeOK, NEW r \in Reqs
    PROVE  tx[r].hold \in Holds /\ tx[r].kind \in Kinds /\ tx[r].amount \in Nat
BY HoldAmountAssumption, SMTT(30) DEF TypeOK, Transfer

LEMMA AskType ==
    ASSUME TypeOK, NEW r \in Reqs, Ask(r)
    PROVE  /\ cmdq' \in Seq(Command)
           /\ expected' \in [Reqs -> Nat]
           /\ overlay' \in [Holds -> Entry]
<1> DEFINE c == [op |-> "lookup", req |-> r, left |-> 0, n |-> applies_sent]
           h == tx[r].hold
           e == Pin(BeginLookup(overlay[h]))
<1>1. c \in Command
  BY DEF Command, TypeOK
<1>2. h \in Holds
  BY TxFields
<1>3. overlay[h] \in Entry
  BY <1>2 DEF TypeOK
<1>4. BeginLookup(overlay[h]) \in Entry
  BY <1>3, PinsKeepEntry
<1>5. e \in Entry
  BY <1>4, PinsKeepEntry
<1>6. /\ cmdq' = Append(cmdq, c)
      /\ expected' = [expected EXCEPT ![r] = applies_sent]
      /\ overlay' = [overlay EXCEPT ![h] = e]
  BY DEF Ask
<1> HIDE DEF c, e, h
<1>7. cmdq' \in Seq(Command)
  BY <1>1, <1>6 DEF TypeOK
<1>8. expected' \in [Reqs -> Nat]
  BY <1>6 DEF TypeOK
<1>9. overlay' \in [Holds -> Entry]
  BY <1>5, <1>6 DEF TypeOK
<1>10. QED
  BY <1>7, <1>8, <1>9

LEMMA AdmitType ==
    ASSUME TypeOK, NEW r \in Reqs, Admit(r)
    PROVE  TypeOK'
<1>1. /\ saw' \in [Reqs -> BOOLEAN]
      /\ UNCHANGED <<tx, record, effect, writes, applies_sent, open, in_flight,
                     applying, failures, sealed, quarantined, pending, released,
                     ledger, answers, fetches, store, applied, published>>
  <2>1. saw' = [saw EXCEPT ![r] = Acknowledged(tx[r].hold)]
    BY DEF Admit
  <2>2. Acknowledged(tx[r].hold) \in BOOLEAN
    BY DEF Acknowledged
  <2>3. saw' \in [Reqs -> BOOLEAN]
    <3> HIDE DEF Acknowledged
    <3> QED  BY <2>1, <2>2 DEF TypeOK
  <2>4. QED
    BY <2>3 DEF Admit, batchVars, safetyVars, moneyVars, engineVars
<1> DEFINE Rest == /\ stage' \in [Reqs -> Stages] /\ outcome' \in [Reqs -> Outcomes]
                   /\ deps' \in [Reqs -> SUBSET Deps] /\ sent' \in [Reqs -> SUBSET Deps]
                   /\ expected' \in [Reqs -> Nat] /\ overlay' \in [Holds -> Entry]
                   /\ deferred' \in Seq(Reqs) /\ cmdq' \in Seq(Command)
<1>2. ASSUME NEW w \in SUBSET Deps, NEW a \in SUBSET Deps, Enter(r, w, a)
      PROVE  /\ stage' \in [Reqs -> Stages] /\ outcome' \in [Reqs -> Outcomes]
             /\ deps' \in [Reqs -> SUBSET Deps] /\ sent' \in [Reqs -> SUBSET Deps]
  BY <1>2 DEF Enter, TypeOK, Stages
<1>3. CASE AdmitRefused(r)
  <2>1. Rest  BY <1>3 DEF AdmitRefused, TypeOK, Stages, Outcomes
  <2>2. QED   BY <1>1, <2>1 DEF TypeOK
<1>4. CASE AdmitHold(r)
  <2>1. {"idem"} \in SUBSET Deps
    BY DEF Deps
  <2>2. Rest  BY <1>2, <1>4, <2>1 DEF AdmitHold, TypeOK
  <2>3. QED   BY <1>1, <2>2 DEF TypeOK
<1>5. CASE AdmitResolution(r)
  <2>1. {"idem"} \in SUBSET Deps /\ Deps \in SUBSET Deps
    BY DEF Deps
  <2>2. CASE Ask(r) /\ Enter(r, Deps, Deps) /\ UNCHANGED deferred
    <3>1. Rest  BY <1>2, <2>1, <2>2, AskType DEF TypeOK
    <3>2. QED   BY <1>1, <3>1 DEF TypeOK
  <2>3. CASE /\ Skip(r) /\ Enter(r, {"idem"}, Deps)
             /\ overlay' = [overlay EXCEPT ![tx[r].hold] = Pin(@)]
             /\ UNCHANGED <<expected, deferred, cmdq>>
    <3>1. overlay[tx[r].hold] \in Entry
      BY TxFields DEF TypeOK
    <3>2. Pin(overlay[tx[r].hold]) \in Entry
      BY <3>1, PinsKeepEntry
    <3>3. overlay' \in [Holds -> Entry]
      BY <2>3, <3>2 DEF TypeOK
    <3>4. Rest  BY <1>2, <2>1, <2>3, <3>3 DEF TypeOK
    <3>5. QED   BY <1>1, <3>4 DEF TypeOK
  <2>4. CASE /\ Refused(r) /\ Enter(r, Deps, {"idem"})
             /\ deferred' = Append(deferred, r)
             /\ UNCHANGED <<expected, overlay, cmdq>>
    <3>1. deferred' \in Seq(Reqs)
      BY <2>4 DEF TypeOK
    <3>2. expected' \in [Reqs -> Nat] /\ overlay' \in [Holds -> Entry] /\ cmdq' \in Seq(Command)
      BY <2>4 DEF TypeOK
    <3>3. Rest  BY <1>2, <2>1, <2>4, <3>1, <3>2
    <3>4. QED   BY <1>1, <3>3 DEF TypeOK
  <2>5. QED  BY <1>5, <2>2, <2>3, <2>4 DEF AdmitResolution
<1>6. QED  BY <1>3, <1>4, <1>5 DEF Admit

LEMMA RetryType ==
    ASSUME TypeOK, RetryDispatch
    PROVE  TypeOK'
<1> DEFINE r == Head(deferred)
           h == tx[r].hold
<1>1. /\ r \in Reqs /\ Tail(deferred) \in Seq(Reqs)
  BY DEF RetryDispatch, TypeOK
<1>2. h \in Holds
  BY <1>1, TxFields
<1>3. overlay[h] \in Entry
  BY <1>2 DEF TypeOK
<1>4. Pin(overlay[h]) \in Entry
  BY <1>3, PinsKeepEntry
<1>5. /\ sent' = [sent EXCEPT ![r] = Deps]
      /\ deferred' = Tail(deferred)
      /\ UNCHANGED <<tx, record, saw, writes, applies_sent, in_flight, applying,
                     failures, sealed, quarantined, pending, released, ledger,
                     answers, fetches, store, applied, published>>
      /\ \/ Ask(r) /\ UNCHANGED <<stage, deps, effect, open, outcome>>
         \/ /\ ReleaseDep(r, "pending", Pin(overlay[h]), 0)
            /\ UNCHANGED <<expected, cmdq>>
  BY DEF RetryDispatch, safetyVars, moneyVars, engineVars
<1> HIDE DEF r, h
<1>6. sent' \in [Reqs -> SUBSET Deps]
  BY <1>1, <1>5 DEF TypeOK
<1>7. CASE Ask(r) /\ UNCHANGED <<stage, deps, effect, open, outcome>>
  BY <1>1, <1>5, <1>6, <1>7, AskType DEF TypeOK
<1>8. CASE /\ ReleaseDep(r, "pending", Pin(overlay[h]), 0)
           /\ UNCHANGED <<expected, cmdq>>
  <2>1. "pending" \in Deps /\ 0 \in Nat
    BY DEF Deps
  <2>2. QED
    BY <1>1, <1>4, <1>5, <1>6, <1>8, <2>1, ReleaseDepType DEF TypeOK
<1>9. QED  BY <1>5, <1>7, <1>8

LEMMA IdemAnswerType ==
    ASSUME TypeOK, NEW r \in Reqs, IdemAnswer(r)
    PROVE  TypeOK'
<1>1. overlay[tx[r].hold] \in Entry /\ record[r] \in Nat /\ "idem" \in Deps
  BY TxFields DEF TypeOK, Deps
<1>2. /\ ReleaseDep(r, "idem", overlay[tx[r].hold], record[r])
      /\ UNCHANGED <<tx, sent, expected, record, saw, deferred, writes, cmdq,
                     applies_sent, in_flight, applying, failures, sealed,
                     quarantined, pending, released, ledger, answers, fetches,
                     store, applied, published>>
  BY DEF IdemAnswer, safetyVars, moneyVars, engineVars
<1>3. QED
  BY <1>1, <1>2, ReleaseDepType DEF TypeOK

LEMMA PendingAnswerType ==
    ASSUME TypeOK, NEW a \in answers, PendingAnswer(a)
    PROVE  TypeOK'
<1> DEFINE r == a.req
           e == AdmitLookup(overlay[tx[r].hold], a.found)
<1>1. r \in Reqs /\ a.found \in Nat /\ a.applied \in Nat
  BY DEF TypeOK, Answer
<1>2. overlay[tx[r].hold] \in Entry /\ "pending" \in Deps
  BY <1>1, TxFields DEF TypeOK, Deps
<1>3. e \in Entry
  BY <1>1, <1>2, AnswersKeepEntry
<1>4. /\ ReleaseDep(r, "pending", e, a.found)
      /\ answers' = answers \ {a}
      /\ record' = [record EXCEPT ![r] = a.found]
      /\ quarantined' = (quarantined \/ a.applied < expected[r])
      /\ UNCHANGED <<tx, expected, saw, deferred, writes, applies_sent, sealed,
                     sent, in_flight, applying, failures, pending, released,
                     ledger, fetches, store, applied, published, cmdq>>
  BY DEF PendingAnswer, moneyVars
<1> HIDE DEF r, e
<1>5. quarantined' \in BOOLEAN
  BY <1>4
<1>6. record' \in [Reqs -> Nat] /\ answers' \subseteq Answer
  BY <1>1, <1>4 DEF TypeOK
<1>7. QED
  BY <1>1, <1>2, <1>3, <1>4, <1>5, <1>6, ReleaseDepType DEF TypeOK

LEMMA ProposeType ==
    ASSUME TypeOK, Propose
    PROVE  TypeOK'
<1> DEFINE take == IF Len(open) < MaxBatch THEN Len(open) ELSE MaxBatch
<1>1. take \in 0..Len(open)
  BY LimitsAssumption DEF TypeOK
<1>2. /\ in_flight' = Append(in_flight, SubSeq(open, 1, take))
      /\ open' = SubSeq(open, take + 1, Len(open))
      /\ UNCHANGED <<reqVars, chanVars, applying, failures, safetyVars, moneyVars,
                     engineVars, cmdq>>
  BY DEF Propose
<1> HIDE DEF take
<1>3. SubSeq(open, 1, take) \in Seq(Reqs) /\ open' \in Seq(Reqs)
  <2>1. open \in Seq(Reqs) /\ Len(open) \in Nat
    BY DEF TypeOK
  <2>2. \A i \in 1..Len(open) : open[i] \in Reqs
    BY <2>1
  <2>3. /\ \A i \in 1..take : open[i] \in Reqs
        /\ \A i \in take + 1..Len(open) : open[i] \in Reqs
        /\ 1 \in Int /\ take \in Int /\ take + 1 \in Int /\ Len(open) \in Int
    BY <1>1, <2>1, <2>2
  <2>4. SubSeq(open, 1, take) \in Seq(Reqs)
    BY <2>3, SubSeqProperties
  <2>5. SubSeq(open, take + 1, Len(open)) \in Seq(Reqs)
    BY <2>3, SubSeqProperties
  <2>6. QED  BY <1>2, <2>4, <2>5
<1>4. in_flight' \in Seq(Seq(Reqs))
  BY <1>2, <1>3 DEF TypeOK
<1>5. QED
  BY <1>2, <1>3, <1>4 DEF TypeOK, reqVars, chanVars, safetyVars, moneyVars, engineVars

LEMMA StartApplyType ==
    ASSUME TypeOK, StartApply
    PROVE  TypeOK'
<1>1. Head(in_flight) \in Seq(Reqs) /\ Tail(in_flight) \in Seq(Seq(Reqs))
  BY DEF StartApply, TypeOK
<1>2. applying' \in [committed : BOOLEAN, batch : Seq(Reqs)]
  <2>1. \A b \in BOOLEAN : [committed |-> b, batch |-> Head(in_flight)]
                              \in [committed : BOOLEAN, batch : Seq(Reqs)]
    BY <1>1
  <2>2. \E b \in BOOLEAN : applying' = [committed |-> b, batch |-> Head(in_flight)]
    BY Zenon DEF StartApply
  <2>3. QED  BY <2>1, <2>2
<1>3. failures' \in Nat
  BY DEF StartApply, TypeOK
<1>4. QED
  BY <1>1, <1>2, <1>3 DEF StartApply, TypeOK, reqVars, chanVars, safetyVars,
     moneyVars, engineVars

\* The decision r's effect is, and what the overlay and the store make of it.
LEMMA PendingEffectType ==
    ASSUME TypeOK, NEW r \in Reqs
    PROVE  /\ PendingEffect(r) \in Command
           /\ PendingEffect(r).op # "lookup"
           /\ PendingEffect(r).req = r /\ PendingEffect(r).n = applies_sent + 1
<1>1. effect[r].amount \in Nat /\ effect[r].left \in Nat
  BY DEF TypeOK
<1>2. QED
  BY <1>1 DEF PendingEffect, Command, TypeOK

LEMMA SentType ==
    ASSUME NEW w \in Command, w.op # "lookup", NEW e \in Entry
    PROVE  Sent(w, e) \in Entry
<1>1. w.left \in Nat /\ w.n \in Nat /\ w.op \in {"create", "reduce", "remove"}
  BY DEF Command
<1>2. QED
  BY <1>1, WritesKeepEntry DEF Sent

LEMMA StoredType ==
    ASSUME NEW w \in Command, w.op # "lookup", NEW left \in Nat
    PROVE  Stored(w, left) \in Nat
BY DEF Command, Stored

LEMMA WriteType ==
    ASSUME TypeOK, NEW r \in Reqs, NEW e \in Entry, Write(r, e)
    PROVE  /\ cmdq' \in Seq(Command) /\ writes' \in Seq(Reqs)
           /\ applies_sent' \in Nat /\ overlay' \in [Holds -> Entry]
<1> DEFINE w == PendingEffect(r)
<1>1. w \in Command /\ w.op # "lookup"
  BY PendingEffectType
<1>2. Sent(w, e) \in Entry
  BY <1>1, SentType
<1>3. \A x \in Entry : Unpinned(r, x) \in Entry
  BY PinsKeepEntry DEF Unpinned
<1>4. CASE writes = <<>> /\ Len(cmdq) < CmdCap
  <2>1. /\ cmdq' = Append(cmdq, w) /\ applies_sent' = applies_sent + 1
        /\ overlay' = [overlay EXCEPT ![tx[r].hold] = Unpinned(r, Sent(w, e))]
        /\ writes' = writes
    BY <1>4 DEF Write
  <2>2. cmdq' \in Seq(Command)
    BY <1>1, <2>1 DEF TypeOK
  <2>3. Unpinned(r, Sent(w, e)) \in Entry
    BY <1>2, <1>3
  <2>4. writes' \in Seq(Reqs) /\ applies_sent' \in Nat
    BY <2>1 DEF TypeOK
  <2> DEFINE x == Unpinned(r, Sent(w, e))
  <2>5. overlay' = [overlay EXCEPT ![tx[r].hold] = x] /\ x \in Entry
    BY <2>1, <2>3
  <2>6. overlay' \in [Holds -> Entry]
    <3> HIDE DEF x
    <3> QED  BY <2>5 DEF TypeOK
  <2>7. QED  BY <2>2, <2>4, <2>6
<1>5. CASE ~(writes = <<>> /\ Len(cmdq) < CmdCap)
  <2>1. /\ writes' = Append(writes, r)
        /\ overlay' = [overlay EXCEPT ![tx[r].hold] = Unpinned(r, e)]
        /\ UNCHANGED <<cmdq, applies_sent>>
    BY <1>5 DEF Write
  <2>2. writes' \in Seq(Reqs)
    BY <2>1 DEF TypeOK
  <2>3. QED  BY <1>3, <2>1, <2>2 DEF TypeOK
<1>6. QED  BY <1>4, <1>5

LEMMA ApplyEffectType ==
    ASSUME TypeOK, ApplyEffect
    PROVE  TypeOK'
<1> DEFINE r == Head(applying.batch)
           h == tx[r].hold
           e == IF ReadsHold(r) THEN ReleaseReservation(overlay[h], effect[r].amount)
                ELSE overlay[h]
<1>1. r \in Reqs /\ Tail(applying.batch) \in Seq(Reqs)
  BY DEF ApplyEffect, TypeOK
<1>2. h \in Holds
  BY <1>1, TxFields
<1>3. overlay[h] \in Entry /\ effect[r].amount \in Nat /\ ledger[h] \in Nat
  BY <1>1, <1>2 DEF TypeOK
<1>4. e \in Entry
  <2>1. effect[r].amount \in Int /\ TRUE \in BOOLEAN
    BY <1>3
  <2>2. ReleaseReservation(overlay[h], effect[r].amount) \in Entry
    BY <1>3, <2>1, ReservationsKeepEntry
  <2>3. QED  BY <1>3, <2>2
<1>5. UNCHANGED <<open, in_flight, failures, deferred, quarantined, answers, fetches,
                  store, applied, published>>
  BY DEF ApplyEffect, engineVars
<1>6. CASE /\ pending + PendingDelta(r) >= 0
           /\ pending' = pending + PendingDelta(r)
           /\ released' = [released EXCEPT ![h] =
                             IF ReadsHold(r) THEN @ + effect[r].amount ELSE @]
           /\ ledger' = [ledger EXCEPT ![h] = Stored(PendingEffect(r), @)]
           /\ Finish(r, "committed")
           /\ Write(r, e)
           /\ applying' = [applying EXCEPT !.batch = Tail(@)]
           /\ UNCHANGED sealed
  <2>1. /\ cmdq' \in Seq(Command) /\ writes' \in Seq(Reqs)
        /\ applies_sent' \in Nat /\ overlay' \in [Holds -> Entry]
    BY <1>1, <1>4, <1>6, WriteType
  <2>2. pending' \in Nat
    <3>1. PendingDelta(r) \in Int
      BY <1>3 DEF PendingDelta
    <3>2. QED  BY <1>6, <3>1 DEF TypeOK
  <2>3. released' \in [Holds -> Nat]
    <3>1. (IF ReadsHold(r) THEN released[h] + effect[r].amount ELSE released[h]) \in Nat
      <4>1. released[h] \in Nat
        BY <1>2 DEF TypeOK
      <4>2. released[h] + effect[r].amount \in Nat
        BY <1>3, <4>1
      <4>3. QED  BY <4>1, <4>2
    <3>2. QED  BY <1>6, <3>1 DEF TypeOK
  <2>4. ledger' \in [Holds -> Nat]
    <3>1. Stored(PendingEffect(r), ledger[h]) \in Nat
      BY <1>1, <1>3, PendingEffectType, StoredType
    <3>2. QED  BY <1>6, <3>1 DEF TypeOK
  <2>5. /\ stage' \in [Reqs -> Stages] /\ outcome' \in [Reqs -> Outcomes]
        /\ UNCHANGED <<tx, deps, sent, expected, record, effect, saw>>
    BY <1>6 DEF Finish, TypeOK, Stages, Outcomes
  <2>6. applying' \in [committed : BOOLEAN, batch : Seq(Reqs)]
    BY <1>1, <1>6 DEF TypeOK
  <2>7. QED
    BY <1>5, <1>6, <2>1, <2>2, <2>3, <2>4, <2>5, <2>6 DEF TypeOK
<1>7. CASE /\ sealed' = TRUE
           /\ applying' = [applying EXCEPT !.batch = <<>>]
           /\ UNCHANGED <<reqVars, overlay, writes, applies_sent, moneyVars, cmdq>>
  <2>1. applying' \in [committed : BOOLEAN, batch : Seq(Reqs)]
    <3>1. <<>> \in Seq(Reqs)
      OBVIOUS
    <3>2. QED  BY <1>7, <3>1 DEF TypeOK
  <2>2. QED  BY <1>5, <1>7, <2>1 DEF TypeOK, reqVars, moneyVars
<1>8. QED  BY <1>6, <1>7 DEF ApplyEffect

LEMMA RollBackType ==
    ASSUME TypeOK, RollBackEffect
    PROVE  TypeOK'
<1> DEFINE r == Head(applying.batch)
           h == tx[r].hold
           b == effect[r].left = 0
           e == IF ReadsHold(r)
                THEN Unpinned(r, Compensate(overlay[h], effect[r].amount, b))
                ELSE overlay[h]
<1>1. r \in Reqs /\ Tail(applying.batch) \in Seq(Reqs)
  BY DEF RollBackEffect, TypeOK
<1>2. h \in Holds
  BY <1>1, TxFields
<1>3. overlay[h] \in Entry /\ effect[r].amount \in Int /\ b \in BOOLEAN
  BY <1>1, <1>2, SMTT(30) DEF TypeOK
<1>4. e \in Entry
  <2>1. Compensate(overlay[h], effect[r].amount, b) \in Entry
    <3> HIDE DEF r, h, b
    <3> QED  BY <1>3, ReservationsKeepEntry
  <2>2. \A x \in Entry : Unpinned(r, x) \in Entry
    BY PinsKeepEntry DEF Unpinned
  <2>3. QED  BY <1>3, <2>1, <2>2
<1>5. /\ Finish(r, "failed")
      /\ overlay' = [overlay EXCEPT ![h] = e]
      /\ applying' = [applying EXCEPT !.batch = Tail(@)]
      /\ UNCHANGED <<deferred, writes, applies_sent, open, in_flight, failures,
                     safetyVars, moneyVars, engineVars, cmdq>>
  BY DEF RollBackEffect
<1> HIDE DEF r, h, e, b
<1>6. /\ stage' \in [Reqs -> Stages] /\ outcome' \in [Reqs -> Outcomes]
      /\ UNCHANGED <<tx, deps, sent, expected, record, effect, saw>>
  BY <1>5 DEF Finish, TypeOK, Stages, Outcomes
<1>7. applying' \in [committed : BOOLEAN, batch : Seq(Reqs)]
  BY <1>1, <1>5 DEF TypeOK, r
<1>8. QED
  BY <1>4, <1>5, <1>6, <1>7 DEF TypeOK, safetyVars, moneyVars, engineVars

LEMMA FlushWriteType ==
    ASSUME TypeOK, FlushWrite
    PROVE  TypeOK'
<1> DEFINE r == Head(writes)
           w == PendingEffect(r)
           h == tx[r].hold
<1>1. r \in Reqs /\ Tail(writes) \in Seq(Reqs)
  BY DEF FlushWrite, TypeOK
<1>2. w \in Command /\ w.op # "lookup"
  BY <1>1, PendingEffectType
<1>3. overlay[h] \in Entry
  BY <1>1, TxFields DEF TypeOK
<1>4. Sent(w, overlay[h]) \in Entry
  BY <1>2, <1>3, SentType
<1>5. /\ cmdq' = Append(cmdq, w)
      /\ overlay' = [overlay EXCEPT ![h] = Sent(w, @)]
      /\ writes' = Tail(writes) /\ applies_sent' = applies_sent + 1
      /\ UNCHANGED <<reqVars, deferred, batchVars, safetyVars, moneyVars, engineVars>>
  BY DEF FlushWrite
<1> HIDE DEF r, w, h
<1>6. cmdq' \in Seq(Command) /\ writes' \in Seq(Reqs) /\ applies_sent' \in Nat
  BY <1>1, <1>2, <1>5 DEF TypeOK, r
<1>7. overlay' \in [Holds -> Entry]
  BY <1>4, <1>5 DEF TypeOK
<1>8. QED
  BY <1>5, <1>6, <1>7 DEF TypeOK, reqVars, batchVars, safetyVars, moneyVars, engineVars

LEMMA EvictIdleType ==
    ASSUME TypeOK, EvictIdle
    PROVE  TypeOK'
<1>1. NoEntry \in Entry
  BY EntryShapes DEF NoEntry, Tags
<1>2. PICK gone \in SUBSET Holds :
         overlay' = [h \in Holds |-> IF h \in gone THEN NoEntry ELSE overlay[h]]
  BY DEF EvictIdle
<1>3. overlay' \in [Holds -> Entry]
  BY <1>1, <1>2 DEF TypeOK
<1>4. QED
  BY <1>3 DEF EvictIdle, TypeOK, reqVars, batchVars, safetyVars, moneyVars, engineVars

LEMMA EngineType ==
    ASSUME TypeOK, Engine
    PROVE  TypeOK'
<1>1. CASE EngineApply
  <2>1. Head(cmdq) \in Command /\ Tail(cmdq) \in Seq(Command) /\ Head(cmdq).op # "lookup"
    BY <1>1 DEF EngineApply, TypeOK
  <2>2. Head(cmdq).req \in Reqs
    BY <2>1 DEF Command
  <2>3. Stored(Head(cmdq), store[tx[Head(cmdq).req].hold]) \in Nat
    BY <2>1, <2>2, TxFields, StoredType DEF TypeOK
  <2>4. store' \in [Holds -> Nat]
    BY <1>1, <2>3 DEF EngineApply, TypeOK
  <2>5. /\ cmdq' = Tail(cmdq) /\ applied' = applied + 1
        /\ UNCHANGED <<reqVars, chanVars, batchVars, safetyVars, moneyVars, answers,
                       fetches, published>>
    BY <1>1 DEF EngineApply
  <2>6. cmdq' \in Seq(Command) /\ applied' \in Nat
    BY <2>1, <2>5 DEF TypeOK
  <2>7. UNCHANGED <<reqVars, chanVars, batchVars, safetyVars, moneyVars, answers,
                    fetches, published>>
    BY <2>5
  <2>8. QED
    BY <2>4, <2>6, <2>7 DEF TypeOK, reqVars, chanVars, batchVars, safetyVars, moneyVars
<1>2. CASE EngineLookup
  <2>1. Head(cmdq) \in Command /\ Tail(cmdq) \in Seq(Command)
    BY <1>2 DEF EngineLookup, TypeOK
  <2>2. Head(cmdq).req \in Reqs
    BY <2>1 DEF Command
  <2>3. store[tx[Head(cmdq).req].hold] \in Nat
    BY <2>2, TxFields DEF TypeOK
  <2>4. Reply(Head(cmdq).req, store[tx[Head(cmdq).req].hold]) \in Answer
    BY <2>2, <2>3 DEF Reply, Answer, TypeOK
  <2> DEFINE r == Head(cmdq).req
             found == store[tx[r].hold]
  <2>5. /\ \/ answers' = answers \cup {Reply(r, found)} /\ fetches' = fetches
           \/ fetches' = fetches \cup {[req |-> r, found |-> found]} /\ answers' = answers
        /\ cmdq' = Tail(cmdq)
        /\ UNCHANGED <<reqVars, chanVars, batchVars, safetyVars, moneyVars, store,
                       applied, published>>
    BY <1>2 DEF EngineLookup
  <2>6. [req |-> r, found |-> found] \in [req : Reqs, found : Nat]
    BY <2>2, <2>3
  <2>7. answers \subseteq Answer /\ fetches \subseteq [req : Reqs, found : Nat]
    BY DEF TypeOK
  <2> HIDE DEF r, found
  <2>8. answers' \subseteq Answer /\ fetches' \subseteq [req : Reqs, found : Nat]
    BY <2>4, <2>5, <2>6, <2>7, Zenon DEF r, found
  <2>9. QED
    BY <2>1, <2>5, <2>8 DEF TypeOK, reqVars, chanVars, batchVars, safetyVars, moneyVars
<1>3. ASSUME NEW f \in fetches, Harvest(f)
      PROVE  TypeOK'
  <2>1. Reply(f.req, f.found) \in Answer
    BY DEF Reply, Answer, TypeOK
  <2>2. answers' \subseteq Answer /\ fetches' \subseteq [req : Reqs, found : Nat]
    BY <1>3, <2>1 DEF Harvest, TypeOK
  <2>3. UNCHANGED <<reqVars, chanVars, batchVars, safetyVars, moneyVars, cmdq,
                    store, applied, published>>
    BY <1>3 DEF Harvest
  <2>4. QED
    BY <2>2, <2>3 DEF TypeOK, reqVars, chanVars, batchVars, safetyVars, moneyVars
<1>4. CASE Publish
  BY <1>4 DEF Publish, TypeOK, reqVars, chanVars, batchVars, safetyVars, moneyVars
<1>5. QED  BY <1>1, <1>2, <1>3, <1>4 DEF Engine

LEMMA NextType ==
    ASSUME TypeOK, [Next]_vars
    PROVE  TypeOK'
<1>1. CASE UNCHANGED vars
  BY <1>1 DEF TypeOK, vars, reqVars, chanVars, batchVars, safetyVars, moneyVars, engineVars
<1>2. CASE Next
  BY <1>2, AdmitType, RetryType, FlushWriteType, IdemAnswerType, PendingAnswerType,
     ProposeType, StartApplyType, ApplyEffectType, RollBackType, EvictIdleType,
     EngineType DEF Next, Drain
<1>3. QED  BY <1>1, <1>2

\* Every variable keeps its type: in particular no step promises more of a
\* hold than the view it judged by has left, no pin count goes below zero and
\* the pending column is never written negative.
THEOREM TypeCorrect == Spec => []TypeOK
<1>1. QED  BY InitType, NextType, PTL DEF Spec

-----------------------------------------------------------------------------
(***************************************************************************)
(* No honest engine gives a stale answer.  StaleInv says more than the     *)
(* absence of a quarantine because an answer is compared with a number     *)
(* noted when the question was put: the queue must hold exactly the        *)
(* decisions sent and not applied, in order, and a question must stand     *)
(* behind all those its answer has to reflect.                             *)
(***************************************************************************)
\* What every step does to the stage of a request that has not come yet.
NewOnlyStays == \A r \in Reqs : stage'[r] = "new" => stage[r] = "new"

LEMMA TailOfRequests ==
    ASSUME TypeOK, deferred # <<>>
    PROVE  /\ Len(Tail(deferred)) \in Nat
           /\ 1 \in 1..Len(deferred) /\ deferred[1] = Head(deferred)
           /\ \A i \in 1..Len(Tail(deferred)) :
                 /\ i + 1 \in 1..Len(deferred) /\ i + 1 # 1
                 /\ Tail(deferred)[i] = deferred[i + 1] /\ deferred[i + 1] \in Reqs
<1>1. deferred \in Seq(Reqs)
  BY DEF TypeOK
<1>2. /\ Len(Tail(deferred)) = Len(deferred) - 1 /\ Len(deferred) \in Nat
      /\ Len(deferred) # 0 /\ Head(deferred) = deferred[1]
      /\ \A i \in 1..Len(Tail(deferred)) : Tail(deferred)[i] = deferred[i + 1]
  BY <1>1, HeadTailProperties
<1>3. \A i \in 1..Len(Tail(deferred)) : i + 1 \in 1..Len(deferred)
  BY <1>2
<1>4. QED  BY <1>1, <1>2, <1>3

LEMMA StaleInit ==
    ASSUME Init
    PROVE  StaleInv
<1>1. Len(cmdq) = 0 /\ Len(deferred) = 0 /\ answers = {} /\ fetches = {}
  BY DEF Init
<1>2. 1..Len(cmdq) = {} /\ 1..Len(deferred) = {}
  BY <1>1
<1>3. AskedOnce
  BY <1>1, <1>2 DEF Init, AskedOnce
<1>4. QueueInOrder
  <2>1. applied = 0 /\ applies_sent = 0
    BY DEF Init
  <2>2. 1..applies_sent = {}
    BY <2>1
  <2>3. QED  BY <1>2, <2>1, <2>2 DEF QueueInOrder
<1>5. AnswersReflectQueue /\ NoStaleAnswer
  BY <1>1 DEF Init, AnswersReflectQueue, NoStaleAnswer
<1>6. QED  BY <1>3, <1>4, <1>5 DEF StaleInv

\* A step away from the queue and its questions.
LEMMA StaleUntouched ==
    ASSUME TypeOK, StaleInv, NewOnlyStays,
           UNCHANGED <<cmdq, applies_sent, applied, expected, sent, deferred,
                       answers, fetches, quarantined>>
    PROVE  StaleInv'
<1>1. AskedOnce'
  <2>1. \A i \in 1..Len(deferred) : deferred[i] \in Reqs
    BY DEF TypeOK
  <2>2. QED  BY <2>1 DEF StaleInv, AskedOnce, NewOnlyStays
<1>2. QueueInOrder'
  BY DEF StaleInv, QueueInOrder
<1>3. QED  BY <1>1, <1>2 DEF StaleInv, AnswersReflectQueue, NoStaleAnswer

\* A decision joins the queue.
LEMMA StalePush ==
    ASSUME TypeOK, StaleInv, NewOnlyStays, NEW w \in Command,
           w.op # "lookup", w.n = applies_sent + 1,
           cmdq' = Append(cmdq, w), applies_sent' = applies_sent + 1,
           UNCHANGED <<applied, expected, sent, deferred, answers, fetches,
                       quarantined>>
    PROVE  StaleInv'
<1>1. /\ Len(cmdq') = Len(cmdq) + 1 /\ Len(cmdq) \in Nat
      /\ \A i \in 1..Len(cmdq) : cmdq'[i] = cmdq[i]
      /\ cmdq'[Len(cmdq) + 1] = w
  BY DEF TypeOK
<1>2. \A i \in 1..Len(cmdq') : i \in 1..Len(cmdq) \/ i = Len(cmdq) + 1
  BY <1>1
<1>3. applies_sent \in Nat /\ applied \in Nat
  BY DEF TypeOK
<1>4. \A i \in 1..Len(cmdq) : cmdq[i].n \in Nat /\ cmdq[i].n <= applies_sent
  <2>1. \A i \in 1..Len(cmdq) : cmdq[i] \in Command
    BY DEF TypeOK
  <2>2. QED  BY <2>1 DEF StaleInv, QueueInOrder, Command
<1>5. AskedOnce'
  <2>1. \A i \in 1..Len(deferred) : deferred[i] \in Reqs
    BY DEF TypeOK
  <2>2. QED  BY <1>1, <1>2, <2>1 DEF StaleInv, AskedOnce, NewOnlyStays
<1>6. QueueInOrder'
  <2>1. applied' <= applies_sent'
    BY <1>3 DEF StaleInv, QueueInOrder
  <2>2. ASSUME NEW i \in 1..Len(cmdq')
        PROVE  IF cmdq'[i].op = "lookup"
               THEN cmdq'[i].n = expected'[cmdq'[i].req] /\ cmdq'[i].n <= applies_sent'
               ELSE applied' < cmdq'[i].n /\ cmdq'[i].n <= applies_sent'
    <3>1. CASE i \in 1..Len(cmdq)
      BY <1>1, <1>3, <1>4, <3>1 DEF StaleInv, QueueInOrder
    <3>2. CASE i = Len(cmdq) + 1
      BY <1>1, <1>3, <3>2 DEF StaleInv, QueueInOrder
    <3>3. QED  BY <1>2, <3>1, <3>2
  <2>3. ASSUME NEW i \in 1..Len(cmdq'), NEW j \in 1..Len(cmdq'),
               i < j, cmdq'[j].op # "lookup"
        PROVE  cmdq'[i].n < cmdq'[j].n
    <3>1. CASE j \in 1..Len(cmdq)
      BY <1>1, <2>3, <3>1 DEF StaleInv, QueueInOrder
    <3>2. CASE j = Len(cmdq) + 1
      BY <1>1, <1>3, <1>4, <2>3, <3>2
    <3>3. QED  BY <1>2, <3>1, <3>2
  <2>4. ASSUME NEW k \in 1..applies_sent', applied' < k
        PROVE  \E i \in 1..Len(cmdq') : cmdq'[i].op # "lookup" /\ cmdq'[i].n = k
    <3>1. CASE k \in 1..applies_sent
      BY <1>1, <2>4, <3>1 DEF StaleInv, QueueInOrder
    <3>2. CASE k = applies_sent + 1
      BY <1>1, <3>2
    <3>3. QED  BY <1>3, <3>1, <3>2
  <2>5. QED  BY <2>1, <2>2, <2>3, <2>4 DEF QueueInOrder
<1>7. QED  BY <1>5, <1>6 DEF StaleInv, AnswersReflectQueue, NoStaleAnswer

\* A question joins the queue: the asker has no other on its way.
LEMMA StaleAsk ==
    ASSUME TypeOK, StaleInv, NewOnlyStays, NEW r \in Reqs,
           "pending" \notin sent[r], stage'[r] # "new",
           Ask(r), sent' = [sent EXCEPT ![r] = Deps],
           \/ UNCHANGED deferred /\ stage[r] = "new"
           \/ deferred # <<>> /\ r = Head(deferred) /\ deferred' = Tail(deferred),
           UNCHANGED <<applies_sent, applied, answers, fetches, quarantined>>
    PROVE  StaleInv'
<1> DEFINE w == [op |-> "lookup", req |-> r, left |-> 0, n |-> applies_sent]
<1>1. /\ cmdq' = Append(cmdq, w)
      /\ expected' = [expected EXCEPT ![r] = applies_sent]
  BY DEF Ask
<1>2. w.op = "lookup" /\ w.req = r /\ w.n = applies_sent
  OBVIOUS
<1> HIDE DEF w
<1>3. /\ Len(cmdq') = Len(cmdq) + 1 /\ Len(cmdq) \in Nat
      /\ \A i \in 1..Len(cmdq) : cmdq'[i] = cmdq[i] /\ cmdq[i].req \in Reqs
      /\ cmdq'[Len(cmdq) + 1] = w
  <2>1. \A i \in 1..Len(cmdq) : cmdq[i] \in Command
    BY DEF TypeOK
  <2>2. w \in Command
    BY DEF w, Command, TypeOK
  <2>3. cmdq \in Seq(Command)
    BY DEF TypeOK
  <2>4. /\ Len(cmdq') = Len(cmdq) + 1 /\ Len(cmdq) \in Nat
        /\ \A i \in 1..Len(cmdq) : cmdq'[i] = cmdq[i]
        /\ cmdq'[Len(cmdq) + 1] = w
    BY <1>1, <2>2, <2>3, AppendProperties
  <2>5. \A i \in 1..Len(cmdq) : cmdq[i].req \in Reqs
    BY <2>1 DEF Command
  <2>6. QED  BY <2>4, <2>5
<1>4. \A i \in 1..Len(cmdq') : i \in 1..Len(cmdq) \/ i = Len(cmdq) + 1
  BY <1>3
<1>5. applies_sent \in Nat /\ applied \in Nat
  BY DEF TypeOK
<1>6. "pending" \in Deps /\ "pending" \in sent'[r]
  BY DEF Deps, TypeOK
<1>7. \A q \in Reqs : q # r => sent'[q] = sent[q] /\ expected'[q] = expected[q]
  BY <1>1 DEF TypeOK
<1>8. AskedOnce'
  <2>1. \A q \in Reqs : stage'[q] = "new" => sent'[q] = {}
    BY <1>7 DEF StaleInv, AskedOnce, NewOnlyStays
  <2>2. ASSUME NEW i \in 1..Len(deferred')
        PROVE  stage'[deferred'[i]] # "new" /\ "pending" \notin sent'[deferred'[i]]
    <3>1. CASE UNCHANGED deferred /\ stage[r] = "new"
      <4>1. deferred[i] \in Reqs /\ i \in 1..Len(deferred) /\ deferred'[i] = deferred[i]
        BY <3>1 DEF TypeOK
      <4>2. stage[deferred[i]] # "new" /\ "pending" \notin sent[deferred[i]]
        BY <4>1 DEF StaleInv, AskedOnce
      <4>3. QED  BY <1>7, <3>1, <4>1, <4>2 DEF NewOnlyStays
    <3>2. CASE deferred # <<>> /\ r = Head(deferred) /\ deferred' = Tail(deferred)
      <4>1. /\ i + 1 \in 1..Len(deferred) /\ deferred'[i] = deferred[i + 1]
            /\ deferred[i + 1] \in Reqs /\ 1 \in 1..Len(deferred) /\ deferred[1] = r
            /\ i + 1 # 1
        BY <3>2, TailOfRequests
      <4>2. /\ stage[deferred[i + 1]] # "new" /\ "pending" \notin sent[deferred[i + 1]]
            /\ deferred[i + 1] # deferred[1]
        BY <4>1 DEF StaleInv, AskedOnce
      <4>3. QED  BY <1>7, <4>1, <4>2 DEF NewOnlyStays
    <3>3. QED  BY <3>1, <3>2
  <2>3. \A i, j \in 1..Len(deferred') : i # j => deferred'[i] # deferred'[j]
    <3>1. CASE UNCHANGED deferred
      BY <3>1 DEF StaleInv, AskedOnce
    <3>2. CASE deferred # <<>> /\ deferred' = Tail(deferred)
      <4>1. /\ \A i \in 1..Len(deferred') :
                 i + 1 \in 1..Len(deferred) /\ deferred'[i] = deferred[i + 1]
            /\ Len(deferred') \in Nat
        BY <3>2, TailOfRequests
      <4>2. QED  BY <4>1 DEF StaleInv, AskedOnce
    <3>3. QED  BY <3>1, <3>2
  <2>4. \A i \in 1..Len(cmdq') : cmdq'[i].op = "lookup" => "pending" \in sent'[cmdq'[i].req]
    BY <1>2, <1>3, <1>4, <1>6, <1>7 DEF StaleInv, AskedOnce
  <2>5. /\ \A a \in answers' : "pending" \in sent'[a.req]
        /\ \A f \in fetches' : "pending" \in sent'[f.req]
    BY <1>6, <1>7 DEF StaleInv, AskedOnce, TypeOK, Answer
  <2>6. QED  BY <2>1, <2>2, <2>3, <2>4, <2>5 DEF AskedOnce
<1>9. QueueInOrder'
  <2>1. ASSUME NEW i \in 1..Len(cmdq')
        PROVE  IF cmdq'[i].op = "lookup"
               THEN cmdq'[i].n = expected'[cmdq'[i].req] /\ cmdq'[i].n <= applies_sent'
               ELSE applied' < cmdq'[i].n /\ cmdq'[i].n <= applies_sent'
    <3>1. CASE i \in 1..Len(cmdq)
      <4>1. cmdq[i].op = "lookup" => cmdq[i].req # r
        BY <3>1 DEF StaleInv, AskedOnce
      <4>2. QED  BY <1>3, <1>7, <3>1, <4>1 DEF StaleInv, QueueInOrder
    <3>2. CASE i = Len(cmdq) + 1
      <4>1. expected'[r] = applies_sent
        BY <1>1 DEF TypeOK
      <4>2. QED  BY <1>2, <1>3, <1>5, <3>2, <4>1
    <3>3. QED  BY <1>4, <3>1, <3>2
  <2>2. ASSUME NEW i \in 1..Len(cmdq'), NEW j \in 1..Len(cmdq'),
               i < j, cmdq'[j].op # "lookup"
        PROVE  cmdq'[i].n < cmdq'[j].n
    <3>1. j \in 1..Len(cmdq)
      BY <1>2, <1>3, <1>4, <2>2
    <3>2. QED  BY <1>3, <2>2, <3>1 DEF StaleInv, QueueInOrder
  <2>3. QED  BY <1>3, <2>1, <2>2 DEF StaleInv, QueueInOrder
<1>10. AnswersReflectQueue'
  <2>1. /\ \A a \in answers : a.req \in Reqs /\ a.req # r
        /\ \A f \in fetches : f.req \in Reqs /\ f.req # r
    BY DEF StaleInv, AskedOnce, TypeOK, Answer
  <2>2. QED  BY <1>7, <2>1 DEF StaleInv, AnswersReflectQueue
<1>11. QED  BY <1>8, <1>9, <1>10 DEF StaleInv, NoStaleAnswer

\* The engine's queue, one command shorter.
LEMMA TailOfQueue ==
    ASSUME TypeOK, cmdq # <<>>
    PROVE  /\ Len(Tail(cmdq)) = Len(cmdq) - 1 /\ Len(cmdq) \in Nat
           /\ 1 \in 1..Len(cmdq) /\ Head(cmdq) = cmdq[1] /\ cmdq[1] \in Command
           /\ \A i \in 1..Len(Tail(cmdq)) :
                 /\ i + 1 \in 1..Len(cmdq) /\ Tail(cmdq)[i] = cmdq[i + 1]
                 /\ cmdq[i + 1] \in Command
<1>1. cmdq \in Seq(Command)
  BY DEF TypeOK
<1>2. /\ Len(Tail(cmdq)) = Len(cmdq) - 1 /\ Len(cmdq) \in Nat
      /\ Len(cmdq) # 0 /\ Head(cmdq) = cmdq[1]
      /\ \A i \in 1..Len(Tail(cmdq)) : Tail(cmdq)[i] = cmdq[i + 1]
  BY <1>1, HeadTailProperties
<1>3. \A i \in 1..Len(Tail(cmdq)) : i + 1 \in 1..Len(cmdq)
  BY <1>2
<1>4. QED  BY <1>1, <1>2, <1>3

\* The decision at the head of the queue is the next one to apply.
LEMMA HeadIsNext ==
    ASSUME TypeOK, StaleInv, cmdq # <<>>
    PROVE  IF cmdq[1].op = "lookup" THEN cmdq[1].n <= applied
                                    ELSE cmdq[1].n = applied + 1
<1>1. /\ 1 \in 1..Len(cmdq) /\ cmdq[1] \in Command /\ cmdq[1].n \in Nat
      /\ applied \in Nat /\ applies_sent \in Nat /\ cmdq[1].n <= applies_sent
      /\ Len(cmdq) \in Nat
  BY TailOfQueue DEF TypeOK, Command, StaleInv, QueueInOrder
<1>2. ASSUME applied < cmdq[1].n
      PROVE  cmdq[1].op # "lookup" /\ cmdq[1].n = applied + 1
  <2>1. applied + 1 \in 1..applies_sent /\ applied < applied + 1
    BY <1>1, <1>2
  <2>2. PICK i \in 1..Len(cmdq) : cmdq[i].op # "lookup" /\ cmdq[i].n = applied + 1
    BY <2>1 DEF StaleInv, QueueInOrder
  <2>3. CASE i = 1
    BY <2>2, <2>3
  <2>4. CASE i # 1
    <3>1. 1 < i
      BY <1>1, <2>4
    <3>2. cmdq[1].n < applied + 1
      BY <1>1, <2>2, <3>1 DEF StaleInv, QueueInOrder
    <3>3. QED  BY <1>1, <1>2, <3>2
  <2>5. QED  BY <2>3, <2>4
<1>3. cmdq[1].op # "lookup" => applied < cmdq[1].n
  BY <1>1 DEF StaleInv, QueueInOrder
<1>4. QED  BY <1>1, <1>2, <1>3

LEMMA StaleApply ==
    ASSUME TypeOK, StaleInv, EngineApply
    PROVE  StaleInv'
<1>1. /\ cmdq # <<>> /\ Head(cmdq).op # "lookup" /\ cmdq' = Tail(cmdq)
      /\ applied' = applied + 1
      /\ UNCHANGED <<stage, expected, sent, deferred, applies_sent, answers,
                     fetches, quarantined>>
  BY DEF EngineApply, reqVars, chanVars, safetyVars
<1>2. cmdq[1].n = applied + 1 /\ cmdq[1].op # "lookup" /\ 1 \in 1..Len(cmdq)
  BY <1>1, HeadIsNext, TailOfQueue
<1>3. /\ Len(cmdq') = Len(cmdq) - 1 /\ Len(cmdq) \in Nat
      /\ \A i \in 1..Len(cmdq') :
            /\ i + 1 \in 1..Len(cmdq) /\ cmdq'[i] = cmdq[i + 1]
            /\ cmdq[i + 1].n \in Nat
  BY <1>1, TailOfQueue DEF Command
<1>4. applied \in Nat /\ applies_sent \in Nat
  BY DEF TypeOK
<1>5. AskedOnce'
  BY <1>1, <1>3 DEF StaleInv, AskedOnce
<1>6. QueueInOrder'
  <2>1. applied' <= applies_sent'
    BY <1>1, <1>2, <1>4 DEF StaleInv, QueueInOrder
  <2>2. ASSUME NEW i \in 1..Len(cmdq')
        PROVE  IF cmdq'[i].op = "lookup"
               THEN cmdq'[i].n = expected'[cmdq'[i].req] /\ cmdq'[i].n <= applies_sent'
               ELSE applied' < cmdq'[i].n /\ cmdq'[i].n <= applies_sent'
    <3>1. i + 1 \in 1..Len(cmdq) /\ cmdq'[i] = cmdq[i + 1] /\ 1 < i + 1
      BY <1>3
    <3>2. cmdq[i + 1].op # "lookup" => cmdq[1].n < cmdq[i + 1].n
      BY <1>2, <3>1 DEF StaleInv, QueueInOrder
    <3>3. QED  BY <1>1, <1>2, <1>4, <3>1, <3>2 DEF StaleInv, QueueInOrder
  <2>3. ASSUME NEW i \in 1..Len(cmdq'), NEW j \in 1..Len(cmdq'),
               i < j, cmdq'[j].op # "lookup"
        PROVE  cmdq'[i].n < cmdq'[j].n
    <3>1. /\ i + 1 \in 1..Len(cmdq) /\ j + 1 \in 1..Len(cmdq) /\ i + 1 < j + 1
          /\ cmdq'[i] = cmdq[i + 1] /\ cmdq'[j] = cmdq[j + 1]
      BY <1>3, <2>3
    <3>2. QED  BY <2>3, <3>1 DEF StaleInv, QueueInOrder
  <2>4. ASSUME NEW k \in 1..applies_sent', applied' < k
        PROVE  \E i \in 1..Len(cmdq') : cmdq'[i].op # "lookup" /\ cmdq'[i].n = k
    <3>1. k \in 1..applies_sent /\ applied < k /\ k # applied + 1
      BY <1>1, <1>4, <2>4
    <3>2. PICK i \in 1..Len(cmdq) : cmdq[i].op # "lookup" /\ cmdq[i].n = k
      BY <3>1 DEF StaleInv, QueueInOrder
    <3>3. i # 1
      BY <1>2, <3>1, <3>2
    <3>4. i - 1 \in 1..Len(cmdq') /\ (i - 1) + 1 = i
      BY <1>3, <3>3
    <3>5. cmdq'[i - 1] = cmdq[i]
      BY <1>3, <3>4
    <3>6. QED  BY <3>2, <3>4, <3>5
  <2>5. QED  BY <2>1, <2>2, <2>3, <2>4 DEF QueueInOrder
<1>7. AnswersReflectQueue'
  <2>1. /\ \A a \in answers : a.req \in Reqs
        /\ \A f \in fetches : f.req \in Reqs
    BY DEF TypeOK, Answer
  <2>2. \A q \in Reqs : expected[q] \in Nat
    BY DEF TypeOK
  <2>3. QED  BY <1>1, <1>4, <2>1, <2>2 DEF StaleInv, AnswersReflectQueue
<1>8. QED  BY <1>1, <1>5, <1>6, <1>7 DEF StaleInv, NoStaleAnswer

LEMMA StaleLookup ==
    ASSUME TypeOK, StaleInv, EngineLookup
    PROVE  StaleInv'
<1> DEFINE r == Head(cmdq).req
           found == store[tx[r].hold]
<1>1. /\ cmdq # <<>> /\ Head(cmdq).op = "lookup" /\ cmdq' = Tail(cmdq)
      /\ UNCHANGED <<stage, expected, sent, deferred, applies_sent, applied,
                     quarantined>>
      /\ \A a \in answers' : a \in answers \/ a = Reply(r, found)
      /\ \A f \in fetches' : f \in fetches \/ f = [req |-> r, found |-> found]
  BY DEF EngineLookup, reqVars, chanVars, safetyVars
<1>2. /\ cmdq[1].n <= applied /\ cmdq[1].op = "lookup" /\ 1 \in 1..Len(cmdq)
      /\ cmdq[1].req = r
  BY <1>1, HeadIsNext, TailOfQueue
<1>3. expected[r] <= applied /\ "pending" \in sent[r]
  BY <1>2 DEF StaleInv, QueueInOrder, AskedOnce
<1>4. Reply(r, found).req = r /\ Reply(r, found).applied = applied
  BY DEF Reply
<1> HIDE DEF r, found
<1>5. /\ Len(cmdq') = Len(cmdq) - 1 /\ Len(cmdq) \in Nat
      /\ \A i \in 1..Len(cmdq') :
            i + 1 \in 1..Len(cmdq) /\ cmdq'[i] = cmdq[i + 1]
  BY <1>1, TailOfQueue
<1>6. AskedOnce'
  <2>1. \A i \in 1..Len(cmdq') : cmdq'[i].op = "lookup" => "pending" \in sent'[cmdq'[i].req]
    BY <1>1, <1>5 DEF StaleInv, AskedOnce
  <2>2. /\ \A a \in answers' : "pending" \in sent'[a.req]
        /\ \A f \in fetches' : "pending" \in sent'[f.req]
    BY <1>1, <1>3, <1>4 DEF StaleInv, AskedOnce
  <2>3. QED  BY <1>1, <2>1, <2>2 DEF StaleInv, AskedOnce
<1>7. QueueInOrder'
  <2>1. ASSUME NEW i \in 1..Len(cmdq'), NEW j \in 1..Len(cmdq'),
               i < j, cmdq'[j].op # "lookup"
        PROVE  cmdq'[i].n < cmdq'[j].n
    <3>1. /\ i + 1 \in 1..Len(cmdq) /\ j + 1 \in 1..Len(cmdq) /\ i + 1 < j + 1
          /\ cmdq'[i] = cmdq[i + 1] /\ cmdq'[j] = cmdq[j + 1]
      BY <1>5, <2>1
    <3>2. QED  BY <2>1, <3>1 DEF StaleInv, QueueInOrder
  <2>2. ASSUME NEW k \in 1..applies_sent', applied' < k
        PROVE  \E i \in 1..Len(cmdq') : cmdq'[i].op # "lookup" /\ cmdq'[i].n = k
    <3>1. PICK i \in 1..Len(cmdq) : cmdq[i].op # "lookup" /\ cmdq[i].n = k
      <4>1. k \in 1..applies_sent /\ applied < k
        BY <1>1, <2>2
      <4>2. QED  BY <4>1 DEF StaleInv, QueueInOrder
    <3>2. i # 1
      BY <1>2, <3>1
    <3>3. i - 1 \in 1..Len(cmdq') /\ (i - 1) + 1 = i
      BY <1>5, <3>2
    <3>4. cmdq'[i - 1] = cmdq[i]
      BY <1>5, <3>3
    <3>5. QED  BY <3>1, <3>3, <3>4
  <2>3. QED  BY <1>1, <1>5, <2>1, <2>2 DEF StaleInv, QueueInOrder
<1>8. AnswersReflectQueue'
  BY <1>1, <1>3, <1>4 DEF StaleInv, AnswersReflectQueue
<1>9. QED  BY <1>1, <1>6, <1>7, <1>8 DEF StaleInv, NoStaleAnswer

LEMMA StaleHarvest ==
    ASSUME TypeOK, StaleInv, NEW f \in fetches, Harvest(f)
    PROVE  StaleInv'
<1>1. /\ fetches' = fetches \ {f} /\ answers' = answers \cup {Reply(f.req, f.found)}
      /\ UNCHANGED <<stage, expected, sent, deferred, applies_sent, applied, cmdq,
                     quarantined>>
  BY DEF Harvest, reqVars, chanVars, safetyVars
<1>2. Reply(f.req, f.found).req = f.req /\ Reply(f.req, f.found).applied = applied
  BY DEF Reply
<1>3. AskedOnce'
  BY <1>1, <1>2 DEF StaleInv, AskedOnce
<1>4. QueueInOrder'
  BY <1>1 DEF StaleInv, QueueInOrder
<1>5. AnswersReflectQueue'
  BY <1>1, <1>2 DEF StaleInv, AnswersReflectQueue
<1>6. QED  BY <1>1, <1>3, <1>4, <1>5 DEF StaleInv, NoStaleAnswer

(***************************************************************************)
(* The reactor's steps.                                                    *)
(***************************************************************************)
LEMMA JudgeStage ==
    ASSUME TypeOK, NEW r \in Reqs, NEW dep, NEW e, NEW found,
           ReleaseDep(r, dep, e, found)
    PROVE  NewOnlyStays
<1>1. CASE deps[r] \subseteq {dep}
  BY <1>1 DEF ReleaseDep, Judge, TypeOK, NewOnlyStays
<1>2. CASE ~(deps[r] \subseteq {dep})
  BY <1>2 DEF ReleaseDep, NewOnlyStays
<1>3. QED  BY <1>1, <1>2

\* A request that finds the queue full waits its turn, having asked nothing.
LEMMA StaleDefer ==
    ASSUME TypeOK, StaleInv, NewOnlyStays, NEW r \in Reqs, stage[r] = "new",
           stage'[r] # "new", sent' = [sent EXCEPT ![r] = {"idem"}],
           deferred' = Append(deferred, r),
           UNCHANGED <<cmdq, applies_sent, applied, expected, answers, fetches,
                       quarantined>>
    PROVE  StaleInv'
<1>1. /\ Len(deferred') = Len(deferred) + 1 /\ Len(deferred) \in Nat
      /\ \A i \in 1..Len(deferred) :
            deferred'[i] = deferred[i] /\ deferred[i] \in Reqs
      /\ deferred'[Len(deferred) + 1] = r
  BY DEF TypeOK
<1>2. \A i \in 1..Len(deferred') : i \in 1..Len(deferred) \/ i = Len(deferred) + 1
  BY <1>1
<1>3. \A q \in Reqs : q # r => sent'[q] = sent[q]
  BY DEF TypeOK
<1>4. sent[r] = {} /\ "pending" \notin sent'[r]
  BY DEF StaleInv, AskedOnce, TypeOK
<1>5. \A i \in 1..Len(deferred) : deferred[i] # r
  BY DEF StaleInv, AskedOnce
<1>6. AskedOnce'
  <2>1. \A q \in Reqs : stage'[q] = "new" => sent'[q] = {}
    BY <1>3 DEF StaleInv, AskedOnce, NewOnlyStays
  <2>2. ASSUME NEW i \in 1..Len(deferred')
        PROVE  stage'[deferred'[i]] # "new" /\ "pending" \notin sent'[deferred'[i]]
    <3>1. CASE i \in 1..Len(deferred)
      BY <1>1, <1>3, <1>5, <3>1 DEF StaleInv, AskedOnce, NewOnlyStays
    <3>2. CASE i = Len(deferred) + 1
      BY <1>1, <1>4, <3>2
    <3>3. QED  BY <1>2, <3>1, <3>2
  <2>3. ASSUME NEW i \in 1..Len(deferred'), NEW j \in 1..Len(deferred'), i # j
        PROVE  deferred'[i] # deferred'[j]
    <3>1. CASE i \in 1..Len(deferred) /\ j \in 1..Len(deferred)
      BY <1>1, <2>3, <3>1 DEF StaleInv, AskedOnce
    <3>2. CASE i = Len(deferred) + 1 \/ j = Len(deferred) + 1
      BY <1>1, <1>2, <1>5, <2>3, <3>2
    <3>3. QED  BY <1>2, <3>1, <3>2
  <2>4. ASSUME NEW i \in 1..Len(cmdq'), cmdq'[i].op = "lookup"
        PROVE  "pending" \in sent'[cmdq'[i].req]
    <3>1. cmdq[i] \in Command /\ i \in 1..Len(cmdq) /\ cmdq[i].op = "lookup"
      BY <2>4 DEF TypeOK
    <3>2. cmdq[i].req \in Reqs /\ "pending" \in sent[cmdq[i].req]
      BY <3>1 DEF StaleInv, AskedOnce, Command
    <3>3. QED  BY <1>3, <1>4, <3>2
  <2>5. /\ \A a \in answers : a.req \in Reqs /\ "pending" \in sent[a.req]
        /\ \A f \in fetches : f.req \in Reqs /\ "pending" \in sent[f.req]
    BY DEF StaleInv, AskedOnce, TypeOK, Answer
  <2>6. /\ \A a \in answers' : "pending" \in sent'[a.req]
        /\ \A f \in fetches' : "pending" \in sent'[f.req]
    BY <1>3, <1>4, <2>5
  <2>7. QED  BY <2>1, <2>2, <2>3, <2>4, <2>6 DEF AskedOnce
<1>7. QueueInOrder' /\ AnswersReflectQueue' /\ NoStaleAnswer'
  BY DEF StaleInv, QueueInOrder, AnswersReflectQueue, NoStaleAnswer
<1>8. QED  BY <1>6, <1>7 DEF StaleInv

\* The pending step is marked done and nothing was asked: the overlay knew.
LEMMA StaleSkip ==
    ASSUME TypeOK, StaleInv, NewOnlyStays, NEW r \in Reqs, stage'[r] # "new",
           sent' \in [Reqs -> SUBSET Deps],
           \A q \in Reqs : q # r => sent'[q] = sent[q],
           sent[r] \subseteq sent'[r],
           \/ UNCHANGED deferred /\ stage[r] = "new"
           \/ deferred # <<>> /\ r = Head(deferred) /\ deferred' = Tail(deferred),
           UNCHANGED <<cmdq, applies_sent, applied, expected, answers, fetches,
                       quarantined>>
    PROVE  StaleInv'
<1>1. AskedOnce'
  <2>1. \A q \in Reqs : stage'[q] = "new" => sent'[q] = {}
    BY DEF StaleInv, AskedOnce, NewOnlyStays
  <2>2. ASSUME NEW i \in 1..Len(deferred')
        PROVE  stage'[deferred'[i]] # "new" /\ "pending" \notin sent'[deferred'[i]]
    <3>1. CASE UNCHANGED deferred /\ stage[r] = "new"
      <4>1. deferred[i] \in Reqs /\ i \in 1..Len(deferred) /\ deferred'[i] = deferred[i]
        BY <3>1 DEF TypeOK
      <4>2. stage[deferred[i]] # "new" /\ "pending" \notin sent[deferred[i]]
        BY <4>1 DEF StaleInv, AskedOnce
      <4>3. QED  BY <3>1, <4>1, <4>2 DEF NewOnlyStays
    <3>2. CASE deferred # <<>> /\ r = Head(deferred) /\ deferred' = Tail(deferred)
      <4>1. /\ i + 1 \in 1..Len(deferred) /\ deferred'[i] = deferred[i + 1]
            /\ deferred[i + 1] \in Reqs /\ 1 \in 1..Len(deferred) /\ deferred[1] = r
            /\ i + 1 # 1
        BY <3>2, TailOfRequests
      <4>2. /\ stage[deferred[i + 1]] # "new" /\ "pending" \notin sent[deferred[i + 1]]
            /\ deferred[i + 1] # deferred[1]
        BY <4>1 DEF StaleInv, AskedOnce
      <4>3. QED  BY <4>1, <4>2 DEF NewOnlyStays
    <3>3. QED  BY <3>1, <3>2
  <2>3. \A i, j \in 1..Len(deferred') : i # j => deferred'[i] # deferred'[j]
    <3>1. CASE UNCHANGED deferred
      BY <3>1 DEF StaleInv, AskedOnce
    <3>2. CASE deferred # <<>> /\ deferred' = Tail(deferred)
      <4>1. /\ \A i \in 1..Len(deferred') :
                 i + 1 \in 1..Len(deferred) /\ deferred'[i] = deferred[i + 1]
            /\ Len(deferred') \in Nat
        BY <3>2, TailOfRequests
      <4>2. QED  BY <4>1 DEF StaleInv, AskedOnce
    <3>3. QED  BY <3>1, <3>2
  <2>4. ASSUME NEW i \in 1..Len(cmdq'), cmdq'[i].op = "lookup"
        PROVE  "pending" \in sent'[cmdq'[i].req]
    <3>1. cmdq[i] \in Command /\ i \in 1..Len(cmdq) /\ cmdq[i].op = "lookup"
      BY <2>4 DEF TypeOK
    <3>2. cmdq[i].req \in Reqs /\ "pending" \in sent[cmdq[i].req]
      BY <3>1 DEF StaleInv, AskedOnce, Command
    <3>3. QED  BY <3>2
  <2>5. /\ \A a \in answers : a.req \in Reqs /\ "pending" \in sent[a.req]
        /\ \A f \in fetches : f.req \in Reqs /\ "pending" \in sent[f.req]
    BY DEF StaleInv, AskedOnce, TypeOK, Answer
  <2>6. /\ \A a \in answers' : "pending" \in sent'[a.req]
        /\ \A f \in fetches' : "pending" \in sent'[f.req]
    BY <2>5
  <2>7. QED  BY <2>1, <2>2, <2>3, <2>4, <2>6 DEF AskedOnce
<1>2. QueueInOrder' /\ AnswersReflectQueue' /\ NoStaleAnswer'
  BY DEF StaleInv, QueueInOrder, AnswersReflectQueue, NoStaleAnswer
<1>3. QED  BY <1>1, <1>2 DEF StaleInv

LEMMA StaleAdmit ==
    ASSUME TypeOK, StaleInv, NEW r \in Reqs, Admit(r)
    PROVE  StaleInv'
<1>1. /\ stage[r] = "new"
      /\ UNCHANGED <<applies_sent, applied, answers, fetches, quarantined>>
  BY DEF Admit, safetyVars, engineVars
<1>2. sent[r] = {}
  BY <1>1 DEF StaleInv, AskedOnce
<1>3. ASSUME NEW waiting, NEW asked, Enter(r, waiting, asked)
      PROVE  NewOnlyStays /\ stage'[r] # "new" /\ sent' = [sent EXCEPT ![r] = asked]
  BY <1>3 DEF Enter, TypeOK, NewOnlyStays
<1>4. CASE AdmitRefused(r)
  <2>1. NewOnlyStays
    BY <1>4 DEF AdmitRefused, TypeOK, NewOnlyStays
  <2>2. UNCHANGED <<cmdq, expected, sent, deferred>>
    BY <1>4 DEF AdmitRefused
  <2>3. QED  BY <1>1, <2>1, <2>2, StaleUntouched
<1>5. CASE AdmitHold(r)
  <2>1. Enter(r, {"idem"}, {"idem"}) /\ UNCHANGED <<expected, deferred, cmdq>>
    BY <1>5 DEF AdmitHold
  <2>2. NewOnlyStays /\ stage'[r] # "new" /\ sent' = [sent EXCEPT ![r] = {"idem"}]
    BY <1>3, <2>1
  <2>3. /\ sent' \in [Reqs -> SUBSET Deps]
        /\ \A q \in Reqs : q # r => sent'[q] = sent[q]
    BY <2>2 DEF TypeOK, Deps
  <2>4. QED  BY <1>1, <1>2, <2>1, <2>2, <2>3, StaleSkip
<1>6. CASE AdmitResolution(r)
  <2>1. CASE Ask(r) /\ Enter(r, Deps, Deps) /\ UNCHANGED deferred
    <3>1. NewOnlyStays /\ stage'[r] # "new" /\ sent' = [sent EXCEPT ![r] = Deps]
      BY <1>3, <2>1
    <3>2. QED  BY <1>1, <1>2, <2>1, <3>1, StaleAsk
  <2>2. CASE Skip(r) /\ Enter(r, {"idem"}, Deps) /\ UNCHANGED <<expected, deferred, cmdq>>
    <3>1. NewOnlyStays /\ stage'[r] # "new" /\ sent' = [sent EXCEPT ![r] = Deps]
      BY <1>3, <2>2
    <3>2. /\ sent' \in [Reqs -> SUBSET Deps]
          /\ \A q \in Reqs : q # r => sent'[q] = sent[q]
      BY <3>1 DEF TypeOK, Deps
    <3>3. QED  BY <1>1, <1>2, <2>2, <3>1, <3>2, StaleSkip
  <2>3. CASE /\ Enter(r, Deps, {"idem"}) /\ deferred' = Append(deferred, r)
             /\ UNCHANGED <<expected, cmdq>>
    <3>1. NewOnlyStays /\ stage'[r] # "new" /\ sent' = [sent EXCEPT ![r] = {"idem"}]
      BY <1>3, <2>3
    <3>2. QED  BY <1>1, <2>3, <3>1, StaleDefer
  <2>4. QED  BY <1>6, <2>1, <2>2, <2>3 DEF AdmitResolution
<1>7. QED  BY <1>4, <1>5, <1>6 DEF Admit

LEMMA StaleRetry ==
    ASSUME TypeOK, StaleInv, RetryDispatch
    PROVE  StaleInv'
<1> DEFINE r == Head(deferred)
           e == Pin(overlay[tx[r].hold])
<1>1. /\ deferred # <<>> /\ deferred' = Tail(deferred)
      /\ sent' = [sent EXCEPT ![r] = Deps]
      /\ UNCHANGED <<applies_sent, applied, answers, fetches, quarantined>>
      /\ \/ Ask(r) /\ UNCHANGED stage
         \/ ReleaseDep(r, "pending", e, 0) /\ UNCHANGED <<expected, cmdq>>
  BY DEF RetryDispatch, safetyVars, engineVars
<1> HIDE DEF e
<1>2. r \in Reqs /\ stage[r] # "new" /\ "pending" \notin sent[r]
  <2>1. r \in Reqs
    BY <1>1 DEF TypeOK
  <2>2. 1 \in 1..Len(deferred) /\ deferred[1] = r
    BY <1>1, TailOfRequests
  <2>3. QED  BY <2>1, <2>2 DEF StaleInv, AskedOnce
<1> HIDE DEF r
<1>3. NewOnlyStays /\ stage'[r] # "new"
  <2>1. NewOnlyStays
    BY <1>1, <1>2, JudgeStage DEF NewOnlyStays
  <2>2. QED  BY <1>2, <2>1 DEF NewOnlyStays
<1>4. CASE Ask(r)
  BY <1>1, <1>2, <1>3, <1>4, StaleAsk DEF r
<1>5. CASE UNCHANGED <<expected, cmdq>>
  <2>1. /\ sent' \in [Reqs -> SUBSET Deps]
        /\ \A q \in Reqs : q # r => sent'[q] = sent[q]
        /\ sent[r] \subseteq sent'[r]
    BY <1>1, <1>2 DEF TypeOK
  <2>2. QED  BY <1>1, <1>2, <1>3, <1>5, <2>1, StaleSkip DEF r
<1>6. QED  BY <1>1, <1>4, <1>5

LEMMA StaleIdemAnswer ==
    ASSUME TypeOK, StaleInv, NEW r \in Reqs, IdemAnswer(r)
    PROVE  StaleInv'
<1>1. UNCHANGED <<cmdq, applies_sent, applied, expected, sent, deferred,
                  answers, fetches, quarantined>>
  BY DEF IdemAnswer, safetyVars, engineVars
<1>2. NewOnlyStays
  BY JudgeStage DEF IdemAnswer
<1>3. QED  BY <1>1, <1>2, StaleUntouched

\* The answer reflects every decision it had to, so it isolates nothing.
LEMMA StalePendingAnswer ==
    ASSUME TypeOK, StaleInv, NEW a \in answers, PendingAnswer(a)
    PROVE  StaleInv'
<1>1. /\ answers' = answers \ {a} /\ quarantined' = (quarantined \/ a.applied < expected[a.req])
      /\ UNCHANGED <<cmdq, applies_sent, applied, expected, sent, deferred, fetches>>
  BY DEF PendingAnswer
<1>2. a.req \in Reqs /\ a.applied \in Nat /\ expected[a.req] \in Nat
  BY DEF TypeOK, Answer
<1>3. expected[a.req] <= a.applied
  BY DEF StaleInv, AnswersReflectQueue
<1>4. NoStaleAnswer'
  <2>1. ~(a.applied < expected[a.req])
    BY <1>2, <1>3
  <2>2. ~quarantined
    BY DEF StaleInv, NoStaleAnswer
  <2>3. QED  BY <1>1, <2>1, <2>2, Zenon DEF NoStaleAnswer
<1>5. NewOnlyStays
  <2>1. ReleaseDep(a.req, "pending", AdmitLookup(overlay[tx[a.req].hold], a.found), a.found)
    BY DEF PendingAnswer
  <2>2. QED  BY <1>2, <2>1, JudgeStage
<1>6. AskedOnce'
  <2>1. \A i \in 1..Len(deferred) : deferred[i] \in Reqs
    BY DEF TypeOK
  <2>2. QED  BY <1>1, <1>5, <2>1 DEF StaleInv, AskedOnce, NewOnlyStays
<1>7. QueueInOrder' /\ AnswersReflectQueue'
  BY <1>1 DEF StaleInv, QueueInOrder, AnswersReflectQueue
<1>8. QED  BY <1>4, <1>6, <1>7 DEF StaleInv

LEMMA StaleApplyEffect ==
    ASSUME TypeOK, StaleInv, ApplyEffect
    PROVE  StaleInv'
<1> DEFINE r == Head(applying.batch)
           e == IF ReadsHold(r)
                THEN ReleaseReservation(overlay[tx[r].hold], effect[r].amount)
                ELSE overlay[tx[r].hold]
<1>1. r \in Reqs
  BY DEF ApplyEffect, TypeOK
<1>2. /\ UNCHANGED <<deferred, quarantined, applied, answers, fetches>>
      /\ \/ Finish(r, "committed") /\ Write(r, e)
         \/ UNCHANGED <<reqVars, applies_sent, cmdq>>
  BY DEF ApplyEffect, engineVars
<1> HIDE DEF r, e
<1>3. CASE UNCHANGED <<reqVars, applies_sent, cmdq>>
  <2>1. UNCHANGED <<stage, expected, sent>>
    BY <1>3 DEF reqVars
  <2>2. NewOnlyStays
    BY <2>1 DEF NewOnlyStays
  <2>3. QED  BY <1>2, <1>3, <2>1, <2>2, StaleUntouched
<1>4. CASE Finish(r, "committed") /\ Write(r, e)
  <2>1. NewOnlyStays /\ UNCHANGED <<expected, sent>>
    BY <1>1, <1>4 DEF Finish, TypeOK, NewOnlyStays
  <2>2. PendingEffect(r) \in Command /\ PendingEffect(r).op # "lookup"
    BY <1>1, PendingEffectType
  <2>3. PendingEffect(r).n = applies_sent + 1
    BY DEF PendingEffect
  <2>4. \/ cmdq' = Append(cmdq, PendingEffect(r)) /\ applies_sent' = applies_sent + 1
        \/ UNCHANGED <<cmdq, applies_sent>>
    BY <1>4 DEF Write
  <2>5. CASE UNCHANGED <<cmdq, applies_sent>>
    BY <1>2, <2>1, <2>5, StaleUntouched
  <2>6. CASE cmdq' = Append(cmdq, PendingEffect(r)) /\ applies_sent' = applies_sent + 1
    BY <1>2, <2>1, <2>2, <2>3, <2>6, StalePush
  <2>7. QED  BY <2>4, <2>5, <2>6
<1>5. QED  BY <1>2, <1>3, <1>4

LEMMA StaleFlushWrite ==
    ASSUME TypeOK, StaleInv, FlushWrite
    PROVE  StaleInv'
<1> DEFINE w == PendingEffect(Head(writes))
<1>1. w \in Command /\ w.op # "lookup" /\ w.n = applies_sent + 1
  <2>1. Head(writes) \in Reqs
    BY DEF FlushWrite, TypeOK
  <2>2. w \in Command /\ w.op # "lookup"
    BY <2>1, PendingEffectType
  <2>3. QED  BY <2>2 DEF PendingEffect
<1>2. /\ cmdq' = Append(cmdq, w) /\ applies_sent' = applies_sent + 1
      /\ UNCHANGED <<stage, applied, expected, sent, deferred, answers, fetches,
                     quarantined>>
  BY DEF FlushWrite, reqVars, safetyVars, engineVars
<1> HIDE DEF w
<1>3. NewOnlyStays
  BY <1>2 DEF NewOnlyStays
<1>4. QED  BY <1>1, <1>2, <1>3, StalePush

LEMMA StaleElsewhere ==
    ASSUME TypeOK, StaleInv,
           Propose \/ StartApply \/ RollBackEffect \/ EvictIdle \/ Publish
              \/ UNCHANGED vars
    PROVE  StaleInv'
<1>1. UNCHANGED <<cmdq, applies_sent, applied, expected, sent, deferred,
                  answers, fetches, quarantined>>
  BY DEF Propose, StartApply, RollBackEffect, Finish, EvictIdle, Publish, vars,
     reqVars, chanVars, safetyVars, engineVars
<1>2. NewOnlyStays
  <2>1. CASE RollBackEffect
    <3>1. Head(applying.batch) \in Reqs /\ Finish(Head(applying.batch), "failed")
      BY <2>1 DEF RollBackEffect, TypeOK
    <3>2. QED  BY <3>1 DEF Finish, TypeOK, NewOnlyStays
  <2>2. CASE ~RollBackEffect
    <3>1. UNCHANGED stage
      BY <2>2 DEF Propose, StartApply, EvictIdle, Publish, vars, reqVars
    <3>2. QED  BY <3>1 DEF NewOnlyStays
  <2>3. QED  BY <2>1, <2>2
<1>3. QED  BY <1>1, <1>2, StaleUntouched

\* StaleInv is inductive, given the types.
LEMMA StaleNext ==
    ASSUME TypeOK, StaleInv, [Next]_vars
    PROVE  StaleInv'
<1>1. CASE \E r \in Reqs : Admit(r)
  BY <1>1, StaleAdmit
<1>2. CASE Drain
  BY <1>2, StaleRetry, StaleFlushWrite, StaleIdemAnswer, StalePendingAnswer,
     StaleApplyEffect, StaleElsewhere DEF Drain
<1>3. CASE EvictIdle \/ UNCHANGED vars
  BY <1>3, StaleElsewhere
<1>4. CASE Engine
  BY <1>4, StaleApply, StaleLookup, StaleHarvest, StaleElsewhere DEF Engine
<1>5. QED  BY <1>1, <1>2, <1>3, <1>4 DEF Next

\* on_stale_answer never isolates the lane while the engine is honest, for any
\* queue size, any number of requests in flight and any order in which the
\* store completes its fetches: the check of expected_applies compares with a
\* number the one FIFO queue guarantees.
THEOREM AnswersAreFresh == Spec => []NoStaleAnswer
<1>1. Init => TypeOK /\ StaleInv
  BY InitType, StaleInit
<1>2. TypeOK /\ StaleInv /\ [Next]_vars => (TypeOK /\ StaleInv)'
  BY NextType, StaleNext
<1>3. TypeOK /\ StaleInv => NoStaleAnswer
  BY DEF StaleInv
<1>4. QED  BY <1>1, <1>2, <1>3, PTL DEF Spec

-----------------------------------------------------------------------------
(***************************************************************************)
(* Where a request is.  It asks the engine once, is judged once and is in  *)
(* one batch once, so what the backlog says of it cannot change any more.  *)
(***************************************************************************)
\* A question of r is on its way: in the queue, with the store, or answered.
Asks(r) ==
    \/ \E i \in 1..Len(cmdq) : cmdq[i].op = "lookup" /\ cmdq[i].req = r
    \/ \E a \in answers : a.req = r
    \/ \E f \in fetches : f.req = r
Deferred(r) == \E i \in 1..Len(deferred) : deferred[i] = r

\* Whoever has asked or has still to ask is waiting for the answer.
WaitInv == \A r \in Reqs : Asks(r) \/ Deferred(r) => stage[r] = "open" /\ "pending" \in deps[r]

\* A question has one place.
OnceInv ==
    /\ \A i, j \in 1..Len(cmdq) :
          /\ cmdq[i].op = "lookup" /\ cmdq[j].op = "lookup" /\ cmdq[i].req = cmdq[j].req => i = j
    /\ \A i \in 1..Len(cmdq) : cmdq[i].op = "lookup" =>
          /\ \A a \in answers : a.req # cmdq[i].req
          /\ \A f \in fetches : f.req # cmdq[i].req
    /\ \A a, b \in answers : a.req = b.req => a = b
    /\ \A f, g \in fetches : f.req = g.req => f = g
    /\ \A a \in answers, f \in fetches : a.req # f.req

\* An effect is in one place of one batch, the open one, one consensus holds or the
\* one being applied, and only then is its request judged and undecided.
OpenInv ==
    /\ \A i \in 1..Len(open) : stage[open[i]] = "judged"
    /\ \A i, j \in 1..Len(open) : open[i] = open[j] => i = j
FlightInv ==
    /\ \A k \in 1..Len(in_flight) : \A i \in 1..Len(in_flight[k]) :
          /\ stage[in_flight[k][i]] = "judged"
          /\ \A j \in 1..Len(open) : open[j] # in_flight[k][i]
    /\ \A k, m \in 1..Len(in_flight) :
          \A i \in 1..Len(in_flight[k]), j \in 1..Len(in_flight[m]) :
             in_flight[k][i] = in_flight[m][j] => k = m /\ i = j
ApplyingInv ==
    /\ \A i \in 1..Len(applying.batch) :
          /\ stage[applying.batch[i]] = "judged"
          /\ \A j \in 1..Len(open) : open[j] # applying.batch[i]
          /\ \A k \in 1..Len(in_flight) : \A j \in 1..Len(in_flight[k]) :
                in_flight[k][j] # applying.batch[i]
    /\ \A i, j \in 1..Len(applying.batch) : applying.batch[i] = applying.batch[j] => i = j
BatchInv == OpenInv /\ FlightInv /\ ApplyingInv
BacklogInv == \A i \in 1..Len(writes) : stage[writes[i]] = "done"

LifeInv == WaitInv /\ OnceInv /\ BatchInv /\ BacklogInv

LEMMA LifeInit ==
    ASSUME Init
    PROVE  LifeInv
<1>1. /\ Len(cmdq) = 0 /\ Len(deferred) = 0 /\ answers = {} /\ fetches = {}
      /\ Len(open) = 0 /\ Len(in_flight) = 0 /\ Len(applying.batch) = 0 /\ Len(writes) = 0
  BY DEF Init
<1>2. 1..0 = {}
  OBVIOUS
<1>3. WaitInv /\ OnceInv /\ BacklogInv
  BY <1>1, <1>2 DEF WaitInv, OnceInv, BacklogInv, Asks, Deferred
<1>4. BatchInv
  BY <1>1, <1>2 DEF BatchInv, OpenInv, FlightInv, ApplyingInv
<1> QED
  BY <1>3, <1>4 DEF LifeInv

\* A command joins the queue: a decision, or the question of one who has asked none.
LEMMA QueueGrows ==
    ASSUME TypeOK, OnceInv, NEW w \in Command, cmdq' = Append(cmdq, w),
           UNCHANGED <<answers, fetches>>, w.op = "lookup" => ~Asks(w.req)
    PROVE  OnceInv' /\ \A q : Asks(q)' => Asks(q) \/ (w.op = "lookup" /\ w.req = q)
<1> DEFINE n == Len(cmdq)
<1>1. /\ n \in Nat /\ Len(cmdq') = n + 1 /\ cmdq'[n + 1] = w
      /\ \A i \in 1..n : cmdq'[i] = cmdq[i]
  BY DEF TypeOK
<1>2. \A i \in 1..Len(cmdq') : i \in 1..n \/ i = n + 1
  BY <1>1
<1> HIDE DEF n
<1>3. w.op = "lookup" => /\ \A i \in 1..n : cmdq[i].op = "lookup" => cmdq[i].req # w.req
                         /\ \A a \in answers : a.req # w.req
                         /\ \A f \in fetches : f.req # w.req
  BY DEF Asks, n
<1>4. OnceInv'
  <2>1. \A i, j \in 1..Len(cmdq') :
          cmdq'[i].op = "lookup" /\ cmdq'[j].op = "lookup" /\ cmdq'[i].req = cmdq'[j].req => i = j
    BY <1>1, <1>2, <1>3 DEF OnceInv, n
  <2>2. \A i \in 1..Len(cmdq') : cmdq'[i].op = "lookup" =>
          /\ \A a \in answers : a.req # cmdq'[i].req
          /\ \A f \in fetches : f.req # cmdq'[i].req
    BY <1>1, <1>2, <1>3 DEF OnceInv, n
  <2> QED
    BY <2>1, <2>2 DEF OnceInv
<1>5. ASSUME NEW q, Asks(q)' PROVE Asks(q) \/ (w.op = "lookup" /\ w.req = q)
  BY <1>1, <1>2, <1>5 DEF Asks, n
<1> QED
  BY <1>4, <1>5

\* The engine takes a command; a question is then with the store, or answered.
LEMMA QueueShrinks ==
    ASSUME TypeOK, OnceInv, cmdq # <<>>, cmdq' = Tail(cmdq),
           \/ UNCHANGED <<answers, fetches>>
           \/ /\ cmdq[1].op = "lookup" /\ UNCHANGED fetches
              /\ \E x : x.req = cmdq[1].req /\ answers' = answers \cup {x}
           \/ /\ cmdq[1].op = "lookup" /\ UNCHANGED answers
              /\ \E x : x.req = cmdq[1].req /\ fetches' = fetches \cup {x}
    PROVE  OnceInv' /\ \A q : Asks(q)' => Asks(q)
<1>1. /\ Len(Tail(cmdq)) = Len(cmdq) - 1 /\ Len(cmdq) \in Nat /\ 1 \in 1..Len(cmdq)
      /\ \A i \in 1..Len(Tail(cmdq)) : i + 1 \in 1..Len(cmdq) /\ Tail(cmdq)[i] = cmdq[i + 1]
  BY TailOfQueue
<1>2. \A i \in 1..Len(cmdq') : /\ i + 1 \in 1..Len(cmdq) /\ i + 1 # 1 /\ cmdq'[i] = cmdq[i + 1]
  BY <1>1
<1>3. \A i, j \in 1..Len(cmdq') :
        cmdq'[i].op = "lookup" /\ cmdq'[j].op = "lookup" /\ cmdq'[i].req = cmdq'[j].req => i = j
  <2> SUFFICES ASSUME NEW i \in 1..Len(cmdq'), NEW j \in 1..Len(cmdq'), cmdq'[i].op = "lookup",
                      cmdq'[j].op = "lookup", cmdq'[i].req = cmdq'[j].req
               PROVE  i = j
    OBVIOUS
  <2>1. i + 1 = j + 1
    BY <1>2 DEF OnceInv
  <2> QED
    BY <2>1
<1>4. \A i \in 1..Len(cmdq') : cmdq'[i].op = "lookup" =>
        /\ \A a \in answers : a.req # cmdq'[i].req
        /\ \A f \in fetches : f.req # cmdq'[i].req
        /\ cmdq[1].op = "lookup" => cmdq[1].req # cmdq'[i].req
  BY <1>1, <1>2 DEF OnceInv
<1>5. /\ \A a, b \in answers : a.req = b.req => a = b
      /\ \A f, g \in fetches : f.req = g.req => f = g
      /\ \A a \in answers, f \in fetches : a.req # f.req
      /\ cmdq[1].op = "lookup" => /\ \A a \in answers : a.req # cmdq[1].req
                                  /\ \A f \in fetches : f.req # cmdq[1].req
  BY <1>1 DEF OnceInv
<1>6. \A q : (\E i \in 1..Len(cmdq') : cmdq'[i].op = "lookup" /\ cmdq'[i].req = q) =>
               \E i \in 1..Len(cmdq) : cmdq[i].op = "lookup" /\ cmdq[i].req = q
  BY <1>2
<1>7. CASE UNCHANGED <<answers, fetches>>
  BY <1>3, <1>4, <1>5, <1>6, <1>7 DEF OnceInv, Asks
<1>8. CASE /\ cmdq[1].op = "lookup" /\ UNCHANGED fetches
           /\ \E x : x.req = cmdq[1].req /\ answers' = answers \cup {x}
  <2>1. PICK x : x.req = cmdq[1].req /\ answers' = answers \cup {x}
    BY <1>8
  <2>2. OnceInv'
    BY <1>3, <1>4, <1>5, <1>8, <2>1 DEF OnceInv
  <2>3. \A q : Asks(q)' => Asks(q)
    BY <1>1, <1>6, <1>8, <2>1 DEF Asks
  <2> QED
    BY <2>2, <2>3
<1>9. CASE /\ cmdq[1].op = "lookup" /\ UNCHANGED answers
           /\ \E x : x.req = cmdq[1].req /\ fetches' = fetches \cup {x}
  <2>1. PICK x : x.req = cmdq[1].req /\ fetches' = fetches \cup {x}
    BY <1>9
  <2>2. OnceInv'
    BY <1>3, <1>4, <1>5, <1>9, <2>1 DEF OnceInv
  <2>3. \A q : Asks(q)' => Asks(q)
    BY <1>1, <1>6, <1>9, <2>1 DEF Asks
  <2> QED
    BY <2>2, <2>3
<1> QED
  BY <1>7, <1>8, <1>9

\* The waiting ones after a step that asks nothing new, and leaves alone whoever waits.
LEMMA StillWaiting ==
    ASSUME WaitInv, \A q \in Reqs : Asks(q)' \/ Deferred(q)' =>
              (Asks(q) \/ Deferred(q)) /\ stage'[q] = stage[q] /\ ("pending" \in deps[q] => "pending" \in deps'[q])
    PROVE  WaitInv'
  BY DEF WaitInv

\* What becomes of a request when an answer it waited for is in.
LEMMA Released ==
    ASSUME TypeOK, NEW r \in Reqs, NEW dep, NEW e, NEW found, ReleaseDep(r, dep, e, found)
    PROVE  /\ \A q \in Reqs : q # r => stage'[q] = stage[q] /\ deps'[q] = deps[q] /\ effect'[q] = effect[q]
           /\ deps'[r] = deps[r] \ {dep}
           /\ \/ ~(deps[r] \subseteq {dep}) /\ UNCHANGED <<stage, effect, open>>
              \/ deps[r] \subseteq {dep} /\ stage'[r] = "judged" /\ open' = Append(open, r)
              \/ deps[r] \subseteq {dep} /\ stage'[r] = "done" /\ UNCHANGED <<effect, open>>
<1>1. /\ stage \in [Reqs -> Stages] /\ deps \in [Reqs -> SUBSET Deps]
      /\ effect \in [Reqs -> [amount : Nat, left : Nat]] /\ deps' = [deps EXCEPT ![r] = @ \ {dep}]
  BY DEF TypeOK, ReleaseDep
<1>2. deps'[r] = deps[r] \ {dep} /\ \A q \in Reqs : q # r => deps'[q] = deps[q]
  BY <1>1
<1>3. CASE deps[r] \subseteq {dep}
  <2>1. \/ /\ stage' = [stage EXCEPT ![r] = "judged"] /\ open' = Append(open, r)
           /\ \E ef : effect' = [effect EXCEPT ![r] = ef]
        \/ stage' = [stage EXCEPT ![r] = "done"] /\ UNCHANGED <<effect, open>>
    BY <1>3 DEF ReleaseDep, Judge
  <2> QED
    BY <1>1, <1>2, <1>3, <2>1
<1>4. CASE ~(deps[r] \subseteq {dep})
  BY <1>2, <1>4 DEF ReleaseDep
<1> QED
  BY <1>3, <1>4

\* A request that is judged joins the open batch; nothing else moves.
LEMMA BatchJudged ==
    ASSUME TypeOK, BatchInv, NEW r \in Reqs, stage[r] # "judged",
           \A q \in Reqs : q # r => stage'[q] = stage[q],
           UNCHANGED open \/ (stage'[r] = "judged" /\ open' = Append(open, r)),
           UNCHANGED <<in_flight, applying>>
    PROVE  BatchInv'
<1>1. /\ \A i \in 1..Len(open) : open[i] \in Reqs /\ open[i] # r
      /\ \A k \in 1..Len(in_flight) : \A i \in 1..Len(in_flight[k]) :
            in_flight[k][i] \in Reqs /\ in_flight[k][i] # r
      /\ \A i \in 1..Len(applying.batch) : applying.batch[i] \in Reqs /\ applying.batch[i] # r
  <2>1. open \in Seq(Reqs) /\ in_flight \in Seq(Seq(Reqs)) /\ applying.batch \in Seq(Reqs)
    BY DEF TypeOK
  <2>2. /\ \A i \in 1..Len(open) : open[i] \in Reqs
        /\ \A i \in 1..Len(applying.batch) : applying.batch[i] \in Reqs
        /\ \A k \in 1..Len(in_flight) : in_flight[k] \in Seq(Reqs)
    BY <2>1
  <2>3. \A k \in 1..Len(in_flight) : \A i \in 1..Len(in_flight[k]) : in_flight[k][i] \in Reqs
    BY <2>2
  <2>4. \A k \in 1..Len(in_flight) : \A i \in 1..Len(in_flight[k]) : in_flight[k][i] # r
    BY DEF BatchInv, OpenInv, FlightInv, ApplyingInv
  <2>5. /\ \A i \in 1..Len(open) : open[i] # r
        /\ \A i \in 1..Len(applying.batch) : applying.batch[i] # r
    BY DEF BatchInv, OpenInv, FlightInv, ApplyingInv
  <2> QED
    BY <2>2, <2>3, <2>4, <2>5
<1>2. CASE UNCHANGED open
  BY <1>1, <1>2 DEF BatchInv, OpenInv, FlightInv, ApplyingInv
<1>3. CASE stage'[r] = "judged" /\ open' = Append(open, r)
  <2> DEFINE n == Len(open)
  <2>1. /\ n \in Nat /\ Len(open') = n + 1 /\ open'[n + 1] = r /\ \A i \in 1..n : open'[i] = open[i]
    BY <1>3 DEF TypeOK
  <2>2. \A i \in 1..Len(open') : i \in 1..n \/ i = n + 1
    BY <2>1
  <2> HIDE DEF n
  <2>3. /\ \A i \in 1..Len(open') : stage'[open'[i]] = "judged"
        /\ \A i, j \in 1..Len(open') : open'[i] = open'[j] => i = j
    BY <1>1, <1>3, <2>1, <2>2 DEF BatchInv, OpenInv, FlightInv, ApplyingInv, n
  <2>b. \A k \in 1..Len(in_flight) : \A i \in 1..Len(in_flight[k]) :
          /\ stage[in_flight[k][i]] = "judged"
          /\ \A j \in 1..n : open[j] # in_flight[k][i]
    BY DEF BatchInv, OpenInv, FlightInv, ApplyingInv, n
  <2>4. \A k \in 1..Len(in_flight) : \A i \in 1..Len(in_flight[k]) :
          /\ stage'[in_flight[k][i]] = "judged"
          /\ \A j \in 1..Len(open') : open'[j] # in_flight[k][i]
    BY <1>1, <2>1, <2>2, <2>b
  <2>5. \A i \in 1..Len(applying.batch) :
          /\ stage'[applying.batch[i]] = "judged"
          /\ \A j \in 1..Len(open') : open'[j] # applying.batch[i]
    BY <1>1, <2>1, <2>2 DEF BatchInv, OpenInv, FlightInv, ApplyingInv, n
  <2> QED
    BY <2>3, <2>4, <2>5 DEF BatchInv, OpenInv, FlightInv, ApplyingInv
<1> QED
  BY <1>2, <1>3

\* The batch being applied, told from its parts.
LEMMA ApplyingShown ==
    ASSUME NEW b, applying'.batch = b, UNCHANGED <<open, in_flight>>,
           \A i \in 1..Len(b) :
             /\ stage'[b[i]] = "judged"
             /\ \A j \in 1..Len(open) : open[j] # b[i]
             /\ \A k \in 1..Len(in_flight) : \A j \in 1..Len(in_flight[k]) : in_flight[k][j] # b[i],
           \A i, j \in 1..Len(b) : b[i] = b[j] => i = j
    PROVE  ApplyingInv'
  BY DEF ApplyingInv

\* The effect at the head of the batch is decided.
LEMMA BatchFinished ==
    ASSUME TypeOK, BatchInv, applying.batch # <<>>, NEW r, r = Head(applying.batch),
           applying' = [applying EXCEPT !.batch = Tail(@)], stage' = [stage EXCEPT ![r] = "done"],
           UNCHANGED <<open, in_flight>>
    PROVE  BatchInv' /\ r \in Reqs /\ stage[r] = "judged"
<1> DEFINE b == applying.batch
<1>1. /\ b \in Seq(Reqs) /\ b # <<>> /\ stage \in [Reqs -> Stages] /\ open \in Seq(Reqs)
      /\ in_flight \in Seq(Seq(Reqs)) /\ applying \in [committed : BOOLEAN, batch : Seq(Reqs)]
  BY DEF TypeOK
<1>2. applying'.batch = Tail(b)
  BY <1>1
<1>3. /\ Len(b) \in Nat /\ 1 \in 1..Len(b) /\ r = b[1] /\ r \in Reqs
      /\ \A i \in 1..Len(Tail(b)) : i + 1 \in 1..Len(b) /\ Tail(b)[i] = b[i + 1] /\ i + 1 # 1
  <2>1. /\ Len(Tail(b)) = Len(b) - 1 /\ Len(b) \in Nat /\ Len(b) # 0 /\ Head(b) = b[1]
        /\ \A i \in 1..Len(Tail(b)) : Tail(b)[i] = b[i + 1]
    BY <1>1, HeadTailProperties
  <2> QED
    BY <1>1, <2>1
<1>4. stage[r] = "judged"
  BY <1>3 DEF BatchInv, OpenInv, FlightInv, ApplyingInv
<1>5. /\ \A i \in 1..Len(open) : open[i] \in Reqs /\ open[i] # r
      /\ \A k \in 1..Len(in_flight) : \A i \in 1..Len(in_flight[k]) :
            in_flight[k][i] \in Reqs /\ in_flight[k][i] # r
  <2>1. \A k \in 1..Len(in_flight) : in_flight[k] \in Seq(Reqs)
    BY <1>1
  <2>2. \A i \in 1..Len(open) : open[i] \in Reqs
    BY <1>1
  <2>3. \A k \in 1..Len(in_flight) : \A i \in 1..Len(in_flight[k]) : in_flight[k][i] \in Reqs
    BY <2>1
  <2>4. /\ \A i \in 1..Len(open) : open[i] # r
        /\ \A k \in 1..Len(in_flight) : \A i \in 1..Len(in_flight[k]) : in_flight[k][i] # r
    BY <1>3 DEF BatchInv, OpenInv, FlightInv, ApplyingInv
  <2> QED
    BY <2>2, <2>3, <2>4
<1> HIDE DEF b
<1>6. /\ \A i, j \in 1..Len(b) : b[i] = b[j] => i = j
      /\ \A i \in 1..Len(b) : /\ stage[b[i]] = "judged" /\ b[i] \in Reqs
                              /\ \A j \in 1..Len(open) : open[j] # b[i]
                              /\ \A k \in 1..Len(in_flight) : \A j \in 1..Len(in_flight[k]) :
                                    in_flight[k][j] # b[i]
  BY <1>1 DEF BatchInv, OpenInv, FlightInv, ApplyingInv, b
<1>7. \A q \in Reqs : q # r => stage'[q] = stage[q]
  BY <1>1, <1>3
<1>8. \A i \in 1..Len(Tail(b)) : Tail(b)[i] # r
  BY <1>3, <1>6
<1>9. \A i, j \in 1..Len(Tail(b)) : Tail(b)[i] = Tail(b)[j] => i = j
  <2> SUFFICES ASSUME NEW i \in 1..Len(Tail(b)), NEW j \in 1..Len(Tail(b)), Tail(b)[i] = Tail(b)[j]
               PROVE  i = j
    OBVIOUS
  <2>1. i + 1 = j + 1
    BY <1>3, <1>6
  <2> QED
    BY <2>1
<1>10. \A i \in 1..Len(Tail(b)) : /\ stage'[Tail(b)[i]] = "judged"
                                  /\ \A j \in 1..Len(open) : open[j] # Tail(b)[i]
                                  /\ \A k \in 1..Len(in_flight) : \A j \in 1..Len(in_flight[k]) :
                                        in_flight[k][j] # Tail(b)[i]
  BY <1>3, <1>6, <1>7, <1>8
<1>11. BatchInv'
  <2>1. \A i \in 1..Len(open) : stage'[open[i]] = "judged"
    BY <1>5, <1>7 DEF BatchInv, OpenInv, FlightInv, ApplyingInv
  <2>2. \A k \in 1..Len(in_flight) : \A i \in 1..Len(in_flight[k]) : stage'[in_flight[k][i]] = "judged"
    BY <1>5, <1>7 DEF BatchInv, OpenInv, FlightInv, ApplyingInv
  <2>3. /\ \A i, j \in 1..Len(open) : open[i] = open[j] => i = j
        /\ \A k \in 1..Len(in_flight) : \A i \in 1..Len(in_flight[k]) :
              \A j \in 1..Len(open) : open[j] # in_flight[k][i]
        /\ \A k, m \in 1..Len(in_flight) :
              \A i \in 1..Len(in_flight[k]), j \in 1..Len(in_flight[m]) :
                 in_flight[k][i] = in_flight[m][j] => k = m /\ i = j
    BY DEF BatchInv, OpenInv, FlightInv, ApplyingInv
  <2>6. OpenInv'
    BY <2>1, <2>3 DEF OpenInv
  <2>7. FlightInv'
    BY <2>2, <2>3 DEF FlightInv
  <2>8. ApplyingInv'
    BY <1>2, <1>9, <1>10, ApplyingShown
  <2> QED
    BY <2>6, <2>7, <2>8 DEF BatchInv
<1> QED
  BY <1>3, <1>4, <1>11

\* Part of the open batch becomes the youngest one consensus holds.
LEMMA BatchProposed ==
    ASSUME TypeOK, BatchInv, Propose
    PROVE  BatchInv'
<1> DEFINE take == IF Len(open) < MaxBatch THEN Len(open) ELSE MaxBatch
           l == Len(open)
           n == Len(in_flight)
           batch == SubSeq(open, 1, take)
           rest == SubSeq(open, take + 1, l)
<1>1. /\ open \in Seq(Reqs) /\ in_flight \in Seq(Seq(Reqs)) /\ open # <<>>
      /\ in_flight' = Append(in_flight, batch) /\ open' = rest
      /\ UNCHANGED <<stage, applying>>
  BY DEF TypeOK, Propose, reqVars
<1>2. l \in Nat /\ n \in Nat /\ take \in 1..l
  BY <1>1, LimitsAssumption
<1> HIDE DEF take
<1>3. /\ batch \in Seq(Reqs) /\ Len(batch) = take
      /\ \A i \in 1..take : i \in 1..l /\ batch[i] = open[i]
  BY <1>1, <1>2
<1>4. /\ Len(rest) = l - take
      /\ \A i \in 1..Len(rest) : take + i \in 1..l /\ rest[i] = open[take + i] /\ take + i \notin 1..take
  BY <1>1, <1>2
<1> HIDE DEF batch, rest
<1>5. /\ Len(in_flight') = n + 1 /\ in_flight'[n + 1] = batch
      /\ \A k \in 1..n : in_flight'[k] = in_flight[k]
      /\ \A k \in 1..Len(in_flight') : k \in 1..n \/ k = n + 1
  BY <1>1, <1>2, <1>3
<1>6. /\ \A i \in 1..l : stage[open[i]] = "judged"
      /\ \A i, j \in 1..l : open[i] = open[j] => i = j
      /\ \A k \in 1..n : \A i \in 1..Len(in_flight[k]) :
           /\ stage[in_flight[k][i]] = "judged"
           /\ \A j \in 1..l : open[j] # in_flight[k][i]
      /\ \A k, m \in 1..n : \A i \in 1..Len(in_flight[k]), j \in 1..Len(in_flight[m]) :
           in_flight[k][i] = in_flight[m][j] => k = m /\ i = j
      /\ \A i \in 1..Len(applying.batch) :
           /\ \A j \in 1..l : open[j] # applying.batch[i]
           /\ \A k \in 1..n : \A j \in 1..Len(in_flight[k]) : in_flight[k][j] # applying.batch[i]
  BY DEF BatchInv, OpenInv, FlightInv, ApplyingInv
<1>7. OpenInv'
  <2>1. \A i \in 1..Len(rest) : stage[rest[i]] = "judged"
    BY <1>4, <1>6
  <2>2. ASSUME NEW i \in 1..Len(rest), NEW j \in 1..Len(rest), rest[i] = rest[j]
        PROVE  i = j
    <3>1. take + i = take + j
      BY <1>4, <1>6, <2>2
    <3> QED
      BY <1>2, <3>1
  <2> QED
    BY <1>1, <2>1, <2>2 DEF OpenInv
<1> DEFINE f == in_flight'
<1>f. /\ f = in_flight' /\ Len(f) = n + 1 /\ f[n + 1] = batch /\ \A k \in 1..n : f[k] = in_flight[k]
      /\ \A k \in 1..Len(f) : k \in 1..n \/ k = n + 1
  BY <1>5
<1> HIDE DEF f, n, l
<1>8. FlightInv'
  <2>1. ASSUME NEW k \in 1..Len(f), NEW i \in 1..Len(f[k])
        PROVE  /\ stage[f[k][i]] = "judged"
               /\ \A j \in 1..Len(rest) : rest[j] # f[k][i]
    <3>1. CASE k \in 1..n
      <4>1. f[k] = in_flight[k] /\ i \in 1..Len(in_flight[k])
        BY <1>f, <3>1
      <4>2. /\ stage[in_flight[k][i]] = "judged"
            /\ \A j \in 1..l : open[j] # in_flight[k][i]
        BY <1>6, <3>1, <4>1, Zenon
      <4>3. ASSUME NEW j \in 1..Len(rest)  PROVE rest[j] # in_flight[k][i]
        <5>1. take + j \in 1..l /\ rest[j] = open[take + j]
          BY <1>4, Zenon
        <5> QED
          BY <4>2, <5>1, Zenon
      <4> QED
        BY <4>1, <4>2, <4>3, Zenon
    <3>2. CASE k = n + 1
      <4>1. f[k] = batch /\ i \in 1..take
        BY <1>3, <1>f, <3>2
      <4>2. f[k][i] = open[i] /\ i \in 1..l
        BY <1>3, <4>1
      <4>3. stage[f[k][i]] = "judged"
        BY <1>6, <4>2
      <4>4. ASSUME NEW j \in 1..Len(rest), rest[j] = f[k][i]  PROVE FALSE
        <5>1. take + j \in 1..l /\ rest[j] = open[take + j] /\ take + j \notin 1..take
          BY <1>4
        <5>2. take + j = i
          BY <1>6, <4>2, <4>4, <5>1
        <5> QED
          BY <4>1, <5>1, <5>2
      <4> QED
        BY <4>3, <4>4
    <3> QED
      BY <1>f, <3>1, <3>2
  <2>2. ASSUME NEW k \in 1..Len(f), NEW m \in 1..Len(f),
               NEW i \in 1..Len(f[k]), NEW j \in 1..Len(f[m]), f[k][i] = f[m][j]
        PROVE  k = m /\ i = j
    <3>1. CASE k \in 1..n /\ m \in 1..n
      <4>1. /\ f[k] = in_flight[k] /\ i \in 1..Len(in_flight[k])
            /\ f[m] = in_flight[m] /\ j \in 1..Len(in_flight[m])
        BY <1>f, <3>1
      <4> QED
        BY <1>6, <2>2, <3>1, <4>1
    <3>2. CASE k = n + 1 /\ m = n + 1
      <4>1. /\ i \in 1..l /\ f[k][i] = open[i]
            /\ j \in 1..l /\ f[m][j] = open[j]
        BY <1>3, <1>f, <3>2
      <4> QED
        BY <1>6, <2>2, <3>2, <4>1
    <3>3. CASE k \in 1..n /\ m = n + 1
      <4>1. /\ f[k] = in_flight[k] /\ i \in 1..Len(in_flight[k])
            /\ j \in 1..l /\ f[m][j] = open[j]
        BY <1>3, <1>f, <3>3
      <4> QED
        BY <1>6, <2>2, <3>3, <4>1
    <3>4. CASE k = n + 1 /\ m \in 1..n
      <4>1. /\ f[m] = in_flight[m] /\ j \in 1..Len(in_flight[m])
            /\ i \in 1..l /\ f[k][i] = open[i]
        BY <1>3, <1>f, <3>4
      <4> QED
        BY <1>6, <2>2, <3>4, <4>1
    <3> QED
      BY <1>f, <3>1, <3>2, <3>3, <3>4
  <2>3. open' = rest /\ stage' = stage
    BY <1>1, Zenon
  <2>4. ASSUME NEW k \in 1..Len(in_flight'), NEW i \in 1..Len(in_flight'[k])
        PROVE  /\ stage'[in_flight'[k][i]] = "judged"
               /\ \A j \in 1..Len(open') : open'[j] # in_flight'[k][i]
    <3>1. /\ stage[in_flight'[k][i]] = "judged"
          /\ \A j \in 1..Len(rest) : rest[j] # in_flight'[k][i]
      BY <2>1, Zenon DEF f
    <3> QED
      BY <2>3, <3>1
  <2>5. ASSUME NEW k \in 1..Len(in_flight'), NEW m \in 1..Len(in_flight'),
               NEW i \in 1..Len(in_flight'[k]), NEW j \in 1..Len(in_flight'[m]),
               in_flight'[k][i] = in_flight'[m][j]
        PROVE  k = m /\ i = j
    BY <2>2, <2>5, Zenon DEF f
  <2> QED
    BY <2>4, <2>5, Zenon DEF FlightInv
<1>9. ApplyingInv'
  <2>a. ASSUME NEW i \in 1..Len(applying.batch)
        PROVE  \A j \in 1..Len(rest) : rest[j] # applying.batch[i]
    BY <1>4, <1>6
  <2>b. ASSUME NEW i \in 1..Len(applying.batch), NEW k \in 1..Len(f), NEW j \in 1..Len(f[k])
        PROVE  f[k][j] # applying.batch[i]
    <3>1. CASE k \in 1..n
      <4>1. f[k] = in_flight[k] /\ j \in 1..Len(in_flight[k])
        BY <1>f, <3>1
      <4> QED
        BY <1>6, <3>1, <4>1
    <3>2. CASE k = n + 1
      <4>1. j \in 1..l /\ f[k][j] = open[j]
        BY <1>3, <1>f, <3>2
      <4> QED
        BY <1>6, <4>1
    <3> QED
      BY <1>f, <3>1, <3>2
  <2>1. \A i \in 1..Len(applying.batch) :
          /\ \A j \in 1..Len(rest) : rest[j] # applying.batch[i]
          /\ \A k \in 1..Len(f) : \A j \in 1..Len(f[k]) : f[k][j] # applying.batch[i]
    BY <2>a, <2>b
  <2>2. /\ \A i \in 1..Len(applying.batch) : stage[applying.batch[i]] = "judged"
        /\ \A i, j \in 1..Len(applying.batch) : applying.batch[i] = applying.batch[j] => i = j
    BY DEF BatchInv, ApplyingInv
  <2> QED
    BY <1>1, <1>f, <2>1, <2>2 DEF ApplyingInv
<1> QED
  BY <1>7, <1>8, <1>9 DEF BatchInv

\* Consensus answers for the oldest batch.
LEMMA BatchAnswered ==
    ASSUME TypeOK, BatchInv, StartApply
    PROVE  BatchInv'
<1> DEFINE b == Head(in_flight)
           f == Tail(in_flight)
<1>1. /\ in_flight \in Seq(Seq(Reqs)) /\ in_flight # <<>> /\ in_flight' = f
      /\ UNCHANGED <<stage, open>> /\ applying'.batch = b
  BY DEF TypeOK, StartApply, reqVars
<1>2. /\ b = in_flight[1] /\ 1 \in 1..Len(in_flight)
      /\ \A k \in 1..Len(f) : k + 1 \in 1..Len(in_flight) /\ f[k] = in_flight[k + 1] /\ k + 1 # 1
  <2>1. /\ Len(f) = Len(in_flight) - 1 /\ Len(in_flight) \in Nat /\ Len(in_flight) # 0
        /\ b = in_flight[1] /\ \A k \in 1..Len(f) : f[k] = in_flight[k + 1]
    BY <1>1, HeadTailProperties
  <2> QED
    BY <2>1
<1> HIDE DEF b, f
<1>3. /\ \A k \in 1..Len(in_flight) : \A i \in 1..Len(in_flight[k]) :
           /\ stage[in_flight[k][i]] = "judged"
           /\ \A j \in 1..Len(open) : open[j] # in_flight[k][i]
      /\ \A k, m \in 1..Len(in_flight) :
           \A i \in 1..Len(in_flight[k]), j \in 1..Len(in_flight[m]) :
              in_flight[k][i] = in_flight[m][j] => k = m /\ i = j
  BY DEF BatchInv, FlightInv
<1>4. OpenInv'
  BY <1>1 DEF BatchInv, OpenInv
<1>5. FlightInv'
  <2>1. \A k \in 1..Len(f) : \A i \in 1..Len(f[k]) :
           /\ stage[f[k][i]] = "judged"
           /\ \A j \in 1..Len(open) : open[j] # f[k][i]
    BY <1>2, <1>3
  <2>2. ASSUME NEW k \in 1..Len(f), NEW m \in 1..Len(f),
               NEW i \in 1..Len(f[k]), NEW j \in 1..Len(f[m]), f[k][i] = f[m][j]
        PROVE  k = m /\ i = j
    <3>1. /\ k + 1 \in 1..Len(in_flight) /\ m + 1 \in 1..Len(in_flight)
          /\ f[k] = in_flight[k + 1] /\ f[m] = in_flight[m + 1]
      BY <1>2
    <3>2. i \in 1..Len(in_flight[k + 1]) /\ j \in 1..Len(in_flight[m + 1])
      BY <3>1
    <3>3. in_flight[k + 1][i] = in_flight[m + 1][j]
      BY <2>2, <3>1
    <3>4. k + 1 = m + 1 /\ i = j
      BY <1>3, <3>1, <3>2, <3>3
    <3> QED
      BY <3>4
  <2> QED
    BY <1>1, <2>1, <2>2 DEF FlightInv
<1>6. ApplyingInv'
  <2>1. \A i \in 1..Len(b) :
           /\ stage[b[i]] = "judged"
           /\ \A j \in 1..Len(open) : open[j] # b[i]
           /\ \A k \in 1..Len(f) : \A j \in 1..Len(f[k]) : f[k][j] # b[i]
    <3>1. ASSUME NEW i \in 1..Len(b), NEW k \in 1..Len(f), NEW j \in 1..Len(f[k]), f[k][j] = b[i]
          PROVE  FALSE
      <4>1. k + 1 \in 1..Len(in_flight) /\ f[k] = in_flight[k + 1] /\ k + 1 # 1
        BY <1>2
      <4>2. /\ j \in 1..Len(in_flight[k + 1]) /\ i \in 1..Len(in_flight[1])
            /\ in_flight[k + 1][j] = in_flight[1][i]
        BY <1>2, <3>1, <4>1
      <4>3. k + 1 = 1
        BY <1>2, <1>3, <4>1, <4>2
      <4> QED
        BY <4>1, <4>3
    <3> QED
      BY <1>2, <1>3, <3>1
  <2>2. \A i, j \in 1..Len(b) : b[i] = b[j] => i = j
    BY <1>2, <1>3
  <2> DEFINE a == applying'.batch
  <2>3. a = b
    BY <1>1
  <2> HIDE DEF a
  <2>4. /\ \A i \in 1..Len(a) :
           /\ stage[a[i]] = "judged"
           /\ \A j \in 1..Len(open) : open[j] # a[i]
           /\ \A k \in 1..Len(f) : \A j \in 1..Len(f[k]) : f[k][j] # a[i]
        /\ \A i, j \in 1..Len(a) : a[i] = a[j] => i = j
    BY <2>1, <2>2, <2>3
  <2> QED
    BY <1>1, <2>4 DEF ApplyingInv, a
<1> QED
  BY <1>4, <1>5, <1>6 DEF BatchInv

\* One request changes its place; whoever else waits goes on waiting.
LEMMA WaitStep ==
    ASSUME WaitInv, NEW r \in Reqs,
           \A q \in Reqs : q # r => stage'[q] = stage[q] /\ deps'[q] = deps[q],
           \A q \in Reqs : q # r => (Asks(q)' => Asks(q)) /\ (Deferred(q)' => Deferred(q)),
           Asks(r)' \/ Deferred(r)' => stage'[r] = "open" /\ "pending" \in deps'[r]
    PROVE  WaitInv'
  BY DEF WaitInv

\* A request that is not done, or stays done, leaves the backlog's requests as they are.
LEMMA BacklogStays ==
    ASSUME TypeOK, BacklogInv, UNCHANGED writes, NEW r \in Reqs,
           stage[r] # "done" \/ stage'[r] = "done",
           \A q \in Reqs : q # r => stage'[q] = stage[q]
    PROVE  BacklogInv'
<1>1. \A i \in 1..Len(writes) : writes[i] \in Reqs
  BY DEF TypeOK
<1> QED
  BY <1>1 DEF BacklogInv

\* Requests enter the deferred list at its end and leave it at its head.
LEMMA DeferredGrows ==
    ASSUME TypeOK, NEW r \in Reqs, deferred' = Append(deferred, r)
    PROVE  \A q \in Reqs : q # r => (Deferred(q)' => Deferred(q))
<1> DEFINE n == Len(deferred)
<1>1. /\ n \in Nat /\ Len(deferred') = n + 1 /\ deferred'[n + 1] = r
      /\ \A i \in 1..n : deferred'[i] = deferred[i]
  BY DEF TypeOK
<1>2. \A i \in 1..Len(deferred') : i \in 1..n \/ i = n + 1
  BY <1>1
<1> HIDE DEF n
<1> QED
  BY <1>1, <1>2 DEF Deferred, n
LEMMA DeferredShrinks ==
    ASSUME TypeOK, AskedOnce, deferred # <<>>, deferred' = Tail(deferred), NEW r, r = Head(deferred)
    PROVE  /\ \A q \in Reqs : Deferred(q)' => Deferred(q)
           /\ r \in Reqs /\ Deferred(r) /\ ~Deferred(r)' /\ ~Asks(r)
<1>1. /\ 1 \in 1..Len(deferred) /\ deferred[1] = r
      /\ \A i \in 1..Len(Tail(deferred)) : /\ i + 1 \in 1..Len(deferred) /\ i + 1 # 1
                                           /\ Tail(deferred)[i] = deferred[i + 1]
  BY TailOfRequests
<1>2. r \in Reqs
  BY DEF TypeOK
<1>3. \A q \in Reqs : Deferred(q)' => Deferred(q)
  BY <1>1 DEF Deferred
<1>4. Deferred(r)
  BY <1>1 DEF Deferred
<1>5. ~Deferred(r)'
  BY <1>1 DEF Deferred, AskedOnce
<1>6. ~Asks(r)
  <2>1. "pending" \notin sent[r]
    BY <1>1 DEF AskedOnce
  <2> QED
    BY <2>1 DEF Asks, AskedOnce
<1> QED
  BY <1>2, <1>3, <1>4, <1>5, <1>6

\* The places of the questions, when a step has nothing to do with them.
LEMMA AsksUnchanged ==
    ASSUME UNCHANGED <<cmdq, answers, fetches>>
    PROVE  (OnceInv => OnceInv') /\ \A q : Asks(q)' = Asks(q)
  BY DEF OnceInv, Asks
LEMMA DeferredUnchanged ==
    ASSUME UNCHANGED deferred
    PROVE  \A q : Deferred(q)' = Deferred(q)
  BY DEF Deferred

LEMMA LifeAdmit ==
    ASSUME TypeOK, StaleInv, LifeInv, NEW r \in Reqs, Admit(r)
    PROVE  LifeInv'
<1>1. /\ stage[r] = "new" /\ UNCHANGED <<answers, fetches, writes, open, in_flight, applying>>
      /\ AdmitRefused(r) \/ AdmitHold(r) \/ AdmitResolution(r)
  BY DEF Admit, engineVars, batchVars
<1>2. ~Asks(r) /\ ~Deferred(r)
  BY <1>1 DEF LifeInv, WaitInv
<1>3. /\ stage \in [Reqs -> Stages] /\ deps \in [Reqs -> SUBSET Deps]
      /\ \A q \in Reqs : q # r => stage'[q] = stage[q] /\ deps'[q] = deps[q]
  BY <1>1 DEF TypeOK, AdmitRefused, AdmitHold, AdmitResolution, Enter
<1>4. BatchInv'
  BY <1>1, <1>3, BatchJudged DEF LifeInv
<1>5. BacklogInv'
  BY <1>1, <1>3, BacklogStays DEF LifeInv
<1>6. CASE UNCHANGED <<cmdq, deferred>>
  <2>1. OnceInv' /\ \A q : (Asks(q)' = Asks(q)) /\ (Deferred(q)' = Deferred(q))
    BY <1>1, <1>6, AsksUnchanged, DeferredUnchanged DEF LifeInv
  <2>2. WaitInv'
    BY <1>2, <1>3, <2>1, WaitStep DEF LifeInv
  <2> QED
    BY <1>4, <1>5, <2>1, <2>2 DEF LifeInv
<1>7. CASE Ask(r) /\ Enter(r, Deps, Deps) /\ UNCHANGED deferred
  <2> DEFINE w == [op |-> "lookup", req |-> r, left |-> 0, n |-> applies_sent]
  <2>1. w \in Command /\ cmdq' = Append(cmdq, w) /\ w.req = r
    BY <1>7 DEF Ask, TypeOK, Command
  <2> HIDE DEF w
  <2>2. OnceInv' /\ \A q : Asks(q)' => Asks(q) \/ r = q
    BY <1>1, <1>2, <2>1, QueueGrows DEF LifeInv
  <2>3. stage'[r] = "open" /\ "pending" \in deps'[r]
    BY <1>3, <1>7 DEF Enter, Deps
  <2>4. WaitInv'
    BY <1>3, <1>7, <2>2, <2>3, WaitStep, DeferredUnchanged DEF LifeInv
  <2> QED
    BY <1>4, <1>5, <2>2, <2>4 DEF LifeInv
<1>8. CASE Enter(r, Deps, {"idem"}) /\ deferred' = Append(deferred, r) /\ UNCHANGED cmdq
  <2>1. OnceInv' /\ \A q : Asks(q)' = Asks(q)
    BY <1>1, <1>8, AsksUnchanged DEF LifeInv
  <2>2. stage'[r] = "open" /\ "pending" \in deps'[r]
    BY <1>3, <1>8 DEF Enter, Deps
  <2>3. WaitInv'
    BY <1>3, <1>8, <2>1, <2>2, WaitStep, DeferredGrows DEF LifeInv
  <2> QED
    BY <1>4, <1>5, <2>1, <2>3 DEF LifeInv
<1> QED
  BY <1>1, <1>6, <1>7, <1>8 DEF AdmitRefused, AdmitHold, AdmitResolution

LEMMA LifeRetry ==
    ASSUME TypeOK, StaleInv, LifeInv, RetryDispatch
    PROVE  LifeInv'
<1>0. PICK r : r = Head(deferred)
  OBVIOUS
<1> DEFINE e == Pin(overlay[tx[r].hold])
<1>1. /\ deferred # <<>> /\ deferred' = Tail(deferred)
      /\ UNCHANGED <<answers, fetches, writes, in_flight, applying>>
      /\ \/ Ask(r) /\ UNCHANGED <<stage, deps, open>>
         \/ ReleaseDep(r, "pending", e, 0) /\ UNCHANGED <<expected, cmdq>>
  BY <1>0 DEF RetryDispatch, engineVars
<1> HIDE DEF e
<1>2. /\ \A q \in Reqs : Deferred(q)' => Deferred(q)
      /\ r \in Reqs /\ Deferred(r) /\ ~Deferred(r)' /\ ~Asks(r)
  BY <1>0, <1>1, DeferredShrinks DEF StaleInv
<1>3. stage[r] = "open" /\ "pending" \in deps[r]
  BY <1>2 DEF LifeInv, WaitInv
<1>4. CASE Ask(r) /\ UNCHANGED <<stage, deps, open>>
  <2> DEFINE w == [op |-> "lookup", req |-> r, left |-> 0, n |-> applies_sent]
  <2>1. w \in Command /\ cmdq' = Append(cmdq, w) /\ w.req = r
    BY <1>2, <1>4 DEF Ask, TypeOK, Command
  <2> HIDE DEF w
  <2>2. OnceInv' /\ \A q : Asks(q)' => Asks(q) \/ r = q
    BY <1>1, <1>2, <2>1, QueueGrows DEF LifeInv
  <2>3. WaitInv'
    BY <1>2, <1>3, <1>4, <2>2, WaitStep DEF LifeInv
  <2>4. BatchInv'
    BY <1>1, <1>2, <1>3, <1>4, BatchJudged DEF LifeInv
  <2>5. BacklogInv'
    BY <1>1, <1>2, <1>3, <1>4, BacklogStays DEF LifeInv
  <2> QED
    BY <2>2, <2>3, <2>4, <2>5 DEF LifeInv
<1>5. CASE ReleaseDep(r, "pending", e, 0) /\ UNCHANGED <<expected, cmdq>>
  <2>1. /\ \A q \in Reqs : q # r => stage'[q] = stage[q] /\ deps'[q] = deps[q]
        /\ UNCHANGED open \/ (stage'[r] = "judged" /\ open' = Append(open, r))
    BY <1>2, <1>5, Released
  <2>2. OnceInv' /\ \A q : Asks(q)' = Asks(q)
    BY <1>1, <1>5, AsksUnchanged DEF LifeInv
  <2>a. ~Asks(r)' /\ \A q \in Reqs : Asks(q)' => Asks(q)
    BY <1>2, <2>2
  <2>3. WaitInv'
    BY <1>2, <2>1, <2>a, WaitStep DEF LifeInv
  <2>4. BatchInv'
    BY <1>1, <1>2, <1>3, <2>1, BatchJudged DEF LifeInv
  <2>5. BacklogInv'
    BY <1>1, <1>2, <1>3, <2>1, BacklogStays DEF LifeInv
  <2> QED
    BY <2>2, <2>3, <2>4, <2>5 DEF LifeInv
<1> QED
  BY <1>1, <1>4, <1>5

LEMMA LifeIdemAnswer ==
    ASSUME TypeOK, StaleInv, LifeInv, NEW r \in Reqs, IdemAnswer(r)
    PROVE  LifeInv'
<1> DEFINE e == overlay[tx[r].hold]
<1>1. /\ stage[r] = "open" /\ ReleaseDep(r, "idem", e, record[r])
      /\ UNCHANGED <<cmdq, answers, fetches, deferred, writes, in_flight, applying>>
  BY DEF IdemAnswer, engineVars
<1> HIDE DEF e
<1>2. /\ \A q \in Reqs : q # r => stage'[q] = stage[q] /\ deps'[q] = deps[q]
      /\ deps'[r] = deps[r] \ {"idem"}
      /\ \/ ~(deps[r] \subseteq {"idem"}) /\ UNCHANGED <<stage, open>>
         \/ deps[r] \subseteq {"idem"} /\ stage'[r] = "judged" /\ open' = Append(open, r)
         \/ deps[r] \subseteq {"idem"} /\ UNCHANGED open
  BY <1>1, Released
<1>3. OnceInv' /\ \A q : (Asks(q)' = Asks(q)) /\ (Deferred(q)' = Deferred(q))
  BY <1>1, AsksUnchanged, DeferredUnchanged DEF LifeInv
<1>4. Asks(r) \/ Deferred(r) => "pending" \in deps[r]
  BY DEF LifeInv, WaitInv
<1>5. WaitInv'
  BY <1>1, <1>2, <1>3, <1>4, WaitStep DEF LifeInv
<1>6. BatchInv'
  BY <1>1, <1>2, BatchJudged DEF LifeInv
<1>7. BacklogInv'
  BY <1>1, <1>2, BacklogStays DEF LifeInv
<1> QED
  BY <1>3, <1>5, <1>6, <1>7 DEF LifeInv

LEMMA LifePendingAnswer ==
    ASSUME TypeOK, StaleInv, LifeInv, NEW a \in answers, PendingAnswer(a)
    PROVE  LifeInv'
<1> DEFINE r == a.req
           e == AdmitLookup(overlay[tx[a.req].hold], a.found)
<1>1. /\ answers' = answers \ {a} /\ ReleaseDep(r, "pending", e, a.found)
      /\ UNCHANGED <<cmdq, fetches, deferred, writes, in_flight, applying>>
  BY DEF PendingAnswer
<1> HIDE DEF e
<1>2. r \in Reqs /\ Asks(r)
  BY DEF TypeOK, Answer, Asks
<1>3. stage[r] = "open"
  BY <1>2 DEF LifeInv, WaitInv
<1>4. ~Deferred(r)'
  BY <1>1 DEF Deferred, StaleInv, AskedOnce
<1>5. OnceInv' /\ ~Asks(r)' /\ \A q : Asks(q)' => Asks(q)
  BY <1>1 DEF LifeInv, OnceInv, Asks
<1>6. /\ \A q \in Reqs : q # r => stage'[q] = stage[q] /\ deps'[q] = deps[q]
      /\ UNCHANGED open \/ (stage'[r] = "judged" /\ open' = Append(open, r))
  BY <1>1, <1>2, Released
<1> HIDE DEF r
<1>7. WaitInv'
  BY <1>1, <1>2, <1>4, <1>5, <1>6, WaitStep, DeferredUnchanged DEF LifeInv
<1>8. BatchInv'
  BY <1>1, <1>2, <1>3, <1>6, BatchJudged DEF LifeInv
<1>9. BacklogInv'
  BY <1>1, <1>2, <1>3, <1>6, BacklogStays DEF LifeInv
<1> QED
  BY <1>5, <1>7, <1>8, <1>9 DEF LifeInv

LEMMA BatchUntouched ==
    ASSUME BatchInv, UNCHANGED <<stage, open, in_flight, applying>>
    PROVE  BatchInv'
  BY DEF BatchInv, OpenInv, FlightInv, ApplyingInv

\* Committed or refused, the effect at the head of the batch is decided.  What is written
\* of it goes to the queue, or to the end of the backlog.
LEMMA LifeDecided ==
    ASSUME TypeOK, StaleInv, LifeInv, NEW r, r = Head(applying.batch), applying.batch # <<>>,
           applying' = [applying EXCEPT !.batch = Tail(@)], stage' = [stage EXCEPT ![r] = "done"],
           UNCHANGED <<open, in_flight, deps, deferred, answers, fetches>>,
           \/ UNCHANGED <<cmdq, writes>>
           \/ UNCHANGED writes /\ \E w \in Command : w.op # "lookup" /\ cmdq' = Append(cmdq, w)
           \/ UNCHANGED cmdq /\ writes' = Append(writes, r)
    PROVE  LifeInv'
<1>1. BatchInv' /\ r \in Reqs /\ stage[r] = "judged"
  BY BatchFinished DEF LifeInv
<1>2. stage'[r] = "done" /\ \A q \in Reqs : q # r => stage'[q] = stage[q]
  BY <1>1 DEF TypeOK
<1>3. OnceInv' /\ \A q : Asks(q)' => Asks(q)
  <2>1. CASE UNCHANGED cmdq
    BY <2>1, AsksUnchanged DEF LifeInv
  <2>2. CASE \E w \in Command : w.op # "lookup" /\ cmdq' = Append(cmdq, w)
    BY <2>2, QueueGrows DEF LifeInv
  <2> QED
    BY <2>1, <2>2
<1>4. ~Asks(r) /\ ~Deferred(r)
  BY <1>1 DEF LifeInv, WaitInv
<1>5. WaitInv'
  <2>1. /\ ~Asks(r)' /\ ~Deferred(r)'
        /\ \A q \in Reqs : (Asks(q)' => Asks(q)) /\ (Deferred(q)' => Deferred(q))
    BY <1>3, <1>4, DeferredUnchanged
  <2> QED
    BY <1>1, <1>2, <2>1, WaitStep DEF LifeInv
<1>6. BacklogInv'
  <2>1. CASE UNCHANGED writes
    BY <1>1, <1>2, <2>1, BacklogStays DEF LifeInv
  <2>2. CASE writes' = Append(writes, r)
    <3> DEFINE n == Len(writes)
    <3>1. /\ n \in Nat /\ Len(writes') = n + 1 /\ writes'[n + 1] = r
          /\ \A i \in 1..n : writes'[i] = writes[i] /\ writes[i] \in Reqs
      <4>1. writes \in Seq(Reqs)
        BY DEF TypeOK
      <4> QED
        BY <2>2, <4>1, <1>1
    <3>2. \A i \in 1..Len(writes') : i \in 1..n \/ i = n + 1
      BY <3>1
    <3> HIDE DEF n
    <3>3. \A i \in 1..n : stage[writes[i]] = "done"
      BY DEF LifeInv, BacklogInv, n
    <3> QED
      BY <1>2, <3>1, <3>2, <3>3 DEF BacklogInv
  <2> QED
    BY <2>1, <2>2
<1> QED
  BY <1>1, <1>3, <1>5, <1>6 DEF LifeInv

LEMMA LifeApplyEffect ==
    ASSUME TypeOK, StaleInv, LifeInv, ApplyEffect
    PROVE  LifeInv'
<1>0. PICK r : r = Head(applying.batch)
  OBVIOUS
<1> DEFINE e == IF ReadsHold(r) THEN ReleaseReservation(overlay[tx[r].hold], effect[r].amount)
                ELSE overlay[tx[r].hold]
<1>1. /\ applying.batch # <<>> /\ UNCHANGED <<open, in_flight, deferred, answers, fetches>>
      /\ \/ /\ Finish(r, "committed") /\ Write(r, e) /\ applying' = [applying EXCEPT !.batch = Tail(@)]
         \/ /\ applying' = [applying EXCEPT !.batch = <<>>]
            /\ UNCHANGED <<stage, deps, writes, cmdq>>
  BY <1>0 DEF ApplyEffect, engineVars, reqVars
<1> HIDE DEF e
<1>2. CASE Finish(r, "committed") /\ Write(r, e) /\ applying' = [applying EXCEPT !.batch = Tail(@)]
  <2>1. r \in Reqs
    BY <1>0, <1>1 DEF TypeOK
  <2>2. PendingEffect(r) \in Command /\ PendingEffect(r).op # "lookup"
    BY <2>1, PendingEffectType
  <2>3. \/ UNCHANGED writes /\ \E w \in Command : w.op # "lookup" /\ cmdq' = Append(cmdq, w)
        \/ UNCHANGED cmdq /\ writes' = Append(writes, r)
    BY <1>2, <2>2 DEF Write
  <2>4. stage' = [stage EXCEPT ![r] = "done"] /\ UNCHANGED deps
    BY <1>2 DEF Finish
  <2> QED
    BY <1>0, <1>1, <1>2, <2>3, <2>4, LifeDecided
<1>3. CASE /\ applying' = [applying EXCEPT !.batch = <<>>] /\ UNCHANGED <<stage, deps, writes, cmdq>>
  <2>1. applying'.batch = <<>> /\ Len(<<>>) = 0
    BY <1>3 DEF TypeOK
  <2>2. ApplyingInv'
    <3> DEFINE b == <<>>
    <3>1. b = applying'.batch /\ 1..Len(b) = {}
      BY <2>1
    <3> HIDE DEF b
    <3> QED
      BY <1>1, <3>1, ApplyingShown
  <2>3. OpenInv' /\ FlightInv'
    BY <1>1, <1>3 DEF LifeInv, BatchInv, OpenInv, FlightInv
  <2>4. OnceInv' /\ WaitInv'
    BY <1>1, <1>3, AsksUnchanged, DeferredUnchanged DEF LifeInv, WaitInv
  <2>5. BacklogInv'
    BY <1>3 DEF LifeInv, BacklogInv
  <2> QED
    BY <2>2, <2>3, <2>4, <2>5 DEF LifeInv, BatchInv
<1> QED
  BY <1>1, <1>2, <1>3

LEMMA LifeRollBack ==
    ASSUME TypeOK, StaleInv, LifeInv, RollBackEffect
    PROVE  LifeInv'
<1>0. PICK r : r = Head(applying.batch)
  OBVIOUS
<1>1. /\ applying.batch # <<>> /\ UNCHANGED <<open, in_flight, deferred, answers, fetches, cmdq, writes>>
      /\ Finish(r, "failed") /\ applying' = [applying EXCEPT !.batch = Tail(@)]
  BY <1>0 DEF RollBackEffect, engineVars
<1>2. stage' = [stage EXCEPT ![r] = "done"] /\ UNCHANGED deps
  BY <1>1 DEF Finish
<1> QED
  BY <1>0, <1>1, <1>2, LifeDecided

LEMMA LifeFlushWrite ==
    ASSUME TypeOK, StaleInv, LifeInv, FlushWrite
    PROVE  LifeInv'
<1> DEFINE w == PendingEffect(Head(writes))
<1>1. /\ w \in Command /\ w.op # "lookup" /\ cmdq' = Append(cmdq, w) /\ writes # <<>>
      /\ UNCHANGED <<stage, deps, deferred, answers, fetches, open, in_flight, applying>>
      /\ writes' = Tail(writes)
  <2>1. Head(writes) \in Reqs
    BY DEF FlushWrite, TypeOK
  <2>2. w \in Command /\ w.op # "lookup"
    BY <2>1, PendingEffectType
  <2> QED
    BY <2>2 DEF FlushWrite, reqVars, engineVars, batchVars
<1> HIDE DEF w
<1>2. OnceInv' /\ \A q : Asks(q)' => Asks(q)
  BY <1>1, QueueGrows DEF LifeInv
<1>3. WaitInv'
  BY <1>1, <1>2, DeferredUnchanged DEF LifeInv, WaitInv
<1>4. BatchInv'
  BY <1>1 DEF LifeInv, BatchInv, OpenInv, FlightInv, ApplyingInv
<1>5. BacklogInv'
  <2>1. writes \in Seq(Reqs)
    BY DEF TypeOK
  <2>2. /\ Len(Tail(writes)) = Len(writes) - 1 /\ Len(writes) \in Nat
        /\ \A i \in 1..Len(Tail(writes)) : Tail(writes)[i] = writes[i + 1]
    BY <1>1, <2>1, HeadTailProperties
  <2>3. \A i \in 1..Len(Tail(writes)) : i + 1 \in 1..Len(writes)
    BY <2>2
  <2>4. \A i \in 1..Len(Tail(writes)) : stage[Tail(writes)[i]] = "done"
    BY <2>2, <2>3 DEF LifeInv, BacklogInv
  <2> QED
    BY <1>1, <2>4 DEF BacklogInv
<1> QED
  BY <1>2, <1>3, <1>4, <1>5 DEF LifeInv

LEMMA LifeElsewhere ==
    ASSUME TypeOK, LifeInv, Propose \/ StartApply \/ EvictIdle \/ Publish \/ UNCHANGED vars
    PROVE  LifeInv'
<1>1. UNCHANGED <<stage, deps, cmdq, answers, fetches, deferred, writes>>
  BY DEF Propose, StartApply, EvictIdle, Publish, vars, reqVars, chanVars, engineVars
<1>2. OnceInv' /\ WaitInv'
  BY <1>1, AsksUnchanged, DeferredUnchanged DEF LifeInv, WaitInv
<1>3. BacklogInv'
  BY <1>1 DEF LifeInv, BacklogInv
<1>4. BatchInv'
  <2>1. CASE EvictIdle \/ Publish \/ UNCHANGED vars
    <3>1. UNCHANGED <<stage, open, in_flight, applying>>
      BY <2>1 DEF EvictIdle, Publish, vars, reqVars, batchVars
    <3> QED
      BY <3>1, BatchUntouched DEF LifeInv
  <2> QED
    BY <2>1, BatchProposed, BatchAnswered DEF LifeInv
<1> QED
  BY <1>2, <1>3, <1>4 DEF LifeInv

LEMMA LifeEngine ==
    ASSUME TypeOK, LifeInv,
           EngineApply \/ EngineLookup \/ (\E f \in fetches : Harvest(f))
    PROVE  LifeInv'
<1>1. UNCHANGED <<stage, deps, deferred, writes, open, in_flight, applying>>
  BY DEF EngineApply, EngineLookup, Harvest, reqVars, chanVars, batchVars
<1>2. OnceInv' /\ \A q : Asks(q)' => Asks(q)
  <2>1. CASE EngineApply
    BY <2>1, QueueShrinks DEF EngineApply, LifeInv
  <2>2. CASE EngineLookup
    <3>1. Head(cmdq) = cmdq[1] /\ cmdq # <<>> /\ cmdq' = Tail(cmdq) /\ cmdq[1].op = "lookup"
      BY <2>2, TailOfQueue DEF EngineLookup
    <3>2. \/ /\ UNCHANGED fetches
             /\ \E x : x.req = cmdq[1].req /\ answers' = answers \cup {x}
          \/ /\ UNCHANGED answers
             /\ \E x : x.req = cmdq[1].req /\ fetches' = fetches \cup {x}
      BY <2>2, <3>1 DEF EngineLookup, Reply
    <3> QED
      BY <3>1, <3>2, QueueShrinks DEF LifeInv
  <2>3. CASE \E f \in fetches : Harvest(f)
    <3>1. PICK f \in fetches : Harvest(f)
      BY <2>3
    <3> DEFINE x == Reply(f.req, f.found)
    <3>2. x.req = f.req /\ fetches' = fetches \ {f} /\ answers' = answers \cup {x} /\ UNCHANGED cmdq
      BY <3>1 DEF Harvest, Reply
    <3> HIDE DEF x
    <3>3. OnceInv'
      BY <3>2 DEF LifeInv, OnceInv
    <3>4. \A q : Asks(q)' => Asks(q)
      BY <3>2 DEF Asks
    <3> QED
      BY <3>3, <3>4
  <2> QED
    BY <2>1, <2>2, <2>3
<1>3. WaitInv'
  BY <1>1, <1>2, DeferredUnchanged DEF LifeInv, WaitInv
<1>4. BatchInv' /\ BacklogInv'
  BY <1>1 DEF LifeInv, BatchInv, OpenInv, FlightInv, ApplyingInv, BacklogInv
<1> QED
  BY <1>2, <1>3, <1>4 DEF LifeInv

\* LifeInv is inductive, given the types and what the questions rest on.
LEMMA LifeNext ==
    ASSUME TypeOK, StaleInv, LifeInv, [Next]_vars
    PROVE  LifeInv'
<1>1. CASE \E r \in Reqs : Admit(r)
  BY <1>1, LifeAdmit
<1>2. CASE Drain
  BY <1>2, LifeRetry, LifeFlushWrite, LifeIdemAnswer, LifePendingAnswer, LifeApplyEffect,
     LifeRollBack, LifeElsewhere DEF Drain
<1>3. CASE EvictIdle \/ UNCHANGED vars
  BY <1>3, LifeElsewhere
<1>4. CASE Engine
  BY <1>4, LifeEngine, LifeElsewhere DEF Engine
<1> QED
  BY <1>1, <1>2, <1>3, <1>4 DEF Next

-----------------------------------------------------------------------------
(***************************************************************************)
(* The engine ends where the log says.  What is on its way to it is one    *)
(* sequence of commands, the queue and the backlog behind it, and what a   *)
(* hold is left with is what a run through the sequence makes of the       *)
(* record the engine has now.                                              *)
(***************************************************************************)
Of(h) == {r \in Reqs : tx[r].hold = h}

\* One command, for the hold the requests of own are about.
Turned(c, own, left) == IF c.op = "lookup" \/ c.req \notin own THEN left ELSE Stored(c, left)
ReplayTurn(c, i, left) == Turned(c.queue[i], c.own, left)
P == INSTANCE FoldTheorems WITH Turn <- ReplayTurn, Pick <- Max

\* f is the run through q from base.
Runs(q, own, base, f) ==
    f[0] = base /\ \A i \in 1..Len(q) : f[i] = Turned(q[i], own, f[i - 1])
\* A run through q from base ends with left.
EndsWith(q, own, base, left) == \E f : Runs(q, own, base, f) /\ f[Len(q)] = left

\* Two queues of the same decisions: a decision's number is not part of it.
SameDecisions(p, q) ==
    /\ Len(p) = Len(q)
    /\ \A i \in 1..Len(q) : p[i].op = q[i].op /\ p[i].req = q[i].req /\ p[i].left = q[i].left

LEMMA SameTurn ==
    ASSUME NEW c, NEW d, c.op = d.op, c.req = d.req, c.left = d.left, NEW own, NEW left
    PROVE  Turned(c, own, left) = Turned(d, own, left)
  BY DEF Turned, Stored

LEMMA RunsOneWay ==
    ASSUME NEW S, NEW q \in Seq(S), NEW own, NEW base, NEW f, NEW g,
           Runs(q, own, base, f), Runs(q, own, base, g)
    PROVE  f[Len(q)] = g[Len(q)]
<1> DEFINE T == {k \in Nat : k <= Len(q) => f[k] = g[k]}
<1>1. 0 \in T
  BY DEF Runs
<1>2. ASSUME NEW k \in Nat, k \in T PROVE k + 1 \in T
  <2>1. CASE k + 1 <= Len(q)
    <3>1. k + 1 \in 1..Len(q) /\ (k + 1) - 1 = k /\ f[k] = g[k]
      BY <1>2, <2>1
    <3>2. f[k + 1] = Turned(q[k + 1], own, f[k]) /\ g[k + 1] = Turned(q[k + 1], own, g[k])
      BY <3>1 DEF Runs
    <3> QED
      BY <3>1, <3>2
  <2> QED
    BY <2>1
<1> HIDE DEF T
<1>3. Nat \subseteq T
  BY <1>1, <1>2, P!SetInduction
<1> QED
  BY <1>3 DEF T

LEMMA EndsOneWay ==
    ASSUME NEW S, NEW q \in Seq(S), NEW own, NEW base, NEW a, NEW b,
           EndsWith(q, own, base, a), EndsWith(q, own, base, b)
    PROVE  a = b
  BY RunsOneWay DEF EndsWith

LEMMA EndsSame ==
    ASSUME NEW S, NEW p \in Seq(S), NEW q \in Seq(S), NEW own, NEW base, NEW left,
           SameDecisions(p, q), EndsWith(q, own, base, left)
    PROVE  EndsWith(p, own, base, left)
<1>1. PICK f : Runs(q, own, base, f) /\ f[Len(q)] = left
  BY DEF EndsWith
<1>2. \A i \in 1..Len(q) : f[i] = Turned(p[i], own, f[i - 1])
  <2> SUFFICES ASSUME NEW i \in 1..Len(q) PROVE f[i] = Turned(p[i], own, f[i - 1])
    OBVIOUS
  <2>1. f[i] = Turned(q[i], own, f[i - 1])
    BY <1>1 DEF Runs
  <2>2. Turned(p[i], own, f[i - 1]) = Turned(q[i], own, f[i - 1])
    BY SameTurn DEF SameDecisions
  <2> QED
    BY <2>1, <2>2
<1>3. Runs(p, own, base, f) /\ f[Len(p)] = left
  BY <1>1, <1>2 DEF Runs, SameDecisions
<1> QED
  BY <1>3 DEF EndsWith

LEMMA EndsAppend ==
    ASSUME NEW S, NEW q \in Seq(S), NEW c \in S, NEW own, NEW base, NEW left,
           EndsWith(q, own, base, left)
    PROVE  EndsWith(Append(q, c), own, base, Turned(c, own, left))
<1> DEFINE n == Len(q)
           p == Append(q, c)
<1>1. PICK f : Runs(q, own, base, f) /\ f[n] = left
  BY DEF EndsWith
<1> DEFINE g == [i \in 0..(n + 1) |-> IF i = n + 1 THEN Turned(c, own, left) ELSE f[i]]
<1>2. /\ n \in Nat /\ Len(p) = n + 1 /\ p[n + 1] = c /\ \A i \in 1..n : p[i] = q[i]
  OBVIOUS
<1>3. /\ g[n + 1] = Turned(c, own, left) /\ \A i \in 0..n : g[i] = f[i]
  BY <1>2
<1> HIDE DEF g, p, n
<1>4. ASSUME NEW i \in 1..Len(p) PROVE g[i] = Turned(p[i], own, g[i - 1])
  <2>1. CASE i = n + 1
    <3>1. i - 1 = n /\ n \in 0..n
      BY <1>2, <2>1
    <3> QED
      BY <1>1, <1>2, <1>3, <2>1, <3>1
  <2>2. CASE i # n + 1
    <3>1. i \in 1..n /\ i \in 0..n /\ i - 1 \in 0..n
      BY <1>2, <2>2
    <3>2. f[i] = Turned(q[i], own, f[i - 1])
      BY <1>1, <3>1 DEF Runs, n
    <3> QED
      BY <1>2, <1>3, <3>1, <3>2
  <2> QED
    BY <2>1, <2>2
<1>5. g[0] = base
  BY <1>1, <1>2, <1>3 DEF Runs
<1>6. Runs(p, own, base, g) /\ g[Len(p)] = Turned(c, own, left)
  BY <1>2, <1>3, <1>4, <1>5 DEF Runs
<1> QED
  BY <1>6 DEF EndsWith, p

LEMMA EndsTail ==
    ASSUME NEW S, NEW q \in Seq(S), q # <<>>, NEW own, NEW base, NEW left,
           EndsWith(q, own, base, left)
    PROVE  EndsWith(Tail(q), own, Turned(q[1], own, base), left)
<1> DEFINE n == Len(q)
           p == Tail(q)
<1>1. PICK f : Runs(q, own, base, f) /\ f[n] = left
  BY DEF EndsWith
<1>2. /\ n \in Nat /\ n # 0 /\ Len(p) = n - 1 /\ \A i \in 1..Len(p) : p[i] = q[i + 1]
  BY HeadTailProperties
<1> DEFINE g == [i \in 0..(n - 1) |-> f[i + 1]]
<1>3. \A i \in 0..(n - 1) : g[i] = f[i + 1]
  OBVIOUS
<1> HIDE DEF g, p
<1>4. g[0] = Turned(q[1], own, base)
  <2>1. 1 \in 1..n /\ 0 \in 0..(n - 1) /\ 0 + 1 = 1 /\ 1 - 1 = 0
    BY <1>2
  <2>2. f[1] = Turned(q[1], own, f[0]) /\ f[0] = base
    BY <1>1, <2>1 DEF Runs
  <2> QED
    BY <1>3, <2>1, <2>2
<1>5. ASSUME NEW i \in 1..Len(p) PROVE g[i] = Turned(p[i], own, g[i - 1])
  <2>1. /\ i + 1 \in 1..n /\ (i + 1) - 1 = i /\ i \in 0..(n - 1) /\ i - 1 \in 0..(n - 1)
        /\ (i - 1) + 1 = i
    BY <1>2
  <2>2. f[i + 1] = Turned(q[i + 1], own, f[i])
    BY <1>1, <2>1 DEF Runs
  <2> QED
    BY <1>2, <1>3, <2>1, <2>2
<1>6. g[Len(p)] = left
  <2>1. Len(p) \in 0..(n - 1) /\ Len(p) + 1 = n
    BY <1>2
  <2> QED
    BY <1>1, <1>3, <2>1
<1>7. Runs(p, own, Turned(q[1], own, base), g)
  BY <1>4, <1>5 DEF Runs
<1> QED
  BY <1>6, <1>7 DEF EndsWith, p

\* A queue and what stands behind it, place by place.
LEMMA QueueAndBacklog ==
    ASSUME NEW S, NEW q \in Seq(S), NEW n \in Nat, NEW b, b = [i \in 1..n |-> b[i]],
           \A i \in 1..n : b[i] \in S
    PROVE  /\ q \o b \in Seq(S) /\ Len(q \o b) = Len(q) + n
           /\ \A i \in 1..Len(q) : (q \o b)[i] = q[i]
           /\ \A i \in 1..n : (q \o b)[Len(q) + i] = b[i]
<1>1. b \in Seq(S) /\ Len(b) = n
  OBVIOUS
<1>2. /\ q \o b \in Seq(S) /\ Len(q \o b) = Len(q) + Len(b)
      /\ \A i \in 1..(Len(q) + Len(b)) :
            (q \o b)[i] = IF i <= Len(q) THEN q[i] ELSE b[i - Len(q)]
  BY <1>1, ConcatProperties
<1>3. \A i \in 1..Len(q) : (q \o b)[i] = q[i]
  BY <1>1, <1>2
<1>4. ASSUME NEW i \in 1..n PROVE (q \o b)[Len(q) + i] = b[i]
  <2>1. /\ Len(q) + i \in 1..(Len(q) + Len(b)) /\ ~(Len(q) + i <= Len(q))
        /\ (Len(q) + i) - Len(q) = i
    BY <1>1
  <2> QED
    BY <1>2, <2>1
<1> QED
  BY <1>1, <1>2, <1>3, <1>4

\* The sequence on its way.
LEMMA HandoverIs ==
    ASSUME TypeOK
    PROVE  /\ Handover \in Seq(Command) /\ Len(Handover) = Len(cmdq) + Len(writes)
           /\ \A i \in 1..Len(cmdq) : Handover[i] = cmdq[i]
           /\ \A i \in 1..Len(writes) : Handover[Len(cmdq) + i] = PendingEffect(writes[i])
<1> DEFINE b == [i \in 1..Len(writes) |-> PendingEffect(writes[i])]
<1>1. cmdq \in Seq(Command) /\ writes \in Seq(Reqs) /\ Len(writes) \in Nat
  BY DEF TypeOK
<1>2. \A i \in 1..Len(writes) : b[i] = PendingEffect(writes[i]) /\ b[i] \in Command
  BY <1>1, PendingEffectType
<1>3. b = [i \in 1..Len(writes) |-> b[i]] /\ Handover = cmdq \o b
  BY DEF Handover
<1> HIDE DEF b
<1> QED
  BY <1>1, <1>2, <1>3, QueueAndBacklog
LEMMA NextCount ==
    ASSUME TypeOK'
    PROVE  applies_sent' + 1 \in Nat
<1>1. applies_sent' \in Nat
  BY DEF TypeOK
<1> DEFINE n == applies_sent'
<1>2. n \in Nat
  BY <1>1
<1> HIDE DEF n
<1>3. n + 1 \in Nat
  BY <1>2
<1> QED
  BY <1>3 DEF n
LEMMA HandoverNext ==
    ASSUME TypeOK'
    PROVE  /\ Handover' \in Seq(Command) /\ Len(Handover') = Len(cmdq') + Len(writes')
           /\ \A i \in 1..Len(cmdq') : Handover'[i] = cmdq'[i]
           /\ \A i \in 1..Len(writes') : Handover'[Len(cmdq') + i] = PendingEffect(writes[i])'
<1> DEFINE b == [i \in 1..Len(writes') |-> PendingEffect(writes[i])']
<1>1. cmdq' \in Seq(Command) /\ writes' \in Seq(Reqs) /\ Len(writes') \in Nat
  BY DEF TypeOK
<1>2. \A i \in 1..Len(writes') : b[i] = PendingEffect(writes[i])' /\ b[i] \in Command
  <2> SUFFICES ASSUME NEW i \in 1..Len(writes') PROVE PendingEffect(writes[i])' \in Command
    OBVIOUS
  <2>1. writes'[i] \in Reqs
    BY <1>1
  <2>2. effect'[writes'[i]].amount \in Nat /\ effect'[writes'[i]].left \in Nat /\ applies_sent' \in Nat
    BY <2>1 DEF TypeOK
  <2> DEFINE r == writes'[i]
  <2> HIDE DEF r
  <2>3. PendingEffect(writes[i])' =
          [op |-> IF tx'[r].kind = "hold" THEN "create" ELSE IF effect'[r].left > 0 THEN "reduce" ELSE "remove",
           req |-> r, left |-> IF tx'[r].kind = "hold" THEN effect'[r].amount ELSE effect'[r].left,
           n |-> applies_sent' + 1]
    BY DEF PendingEffect, r
  <2>4. r \in Reqs /\ effect'[r].amount \in Nat /\ effect'[r].left \in Nat
    BY <2>1, <2>2 DEF r
  <2>5. \A op \in {"create", "reduce", "remove"}, l \in Nat, n \in Nat :
          [op |-> op, req |-> r, left |-> l, n |-> n] \in Command
    BY <2>4 DEF Command
  <2>6. PICK op, l, n : /\ op \in {"create", "reduce", "remove"} /\ l \in Nat /\ n \in Nat
                        /\ PendingEffect(writes[i])' = [op |-> op, req |-> r, left |-> l, n |-> n]
    <3> DEFINE o == IF tx'[r].kind = "hold" THEN "create" ELSE IF effect'[r].left > 0 THEN "reduce" ELSE "remove"
               l == IF tx'[r].kind = "hold" THEN effect'[r].amount ELSE effect'[r].left
    <3>a. o \in {"create", "reduce", "remove"}
      OBVIOUS
    <3>b. l \in Nat
      BY <2>4
    <3>c. applies_sent' + 1 \in Nat
      BY NextCount
    <3>1. o \in {"create", "reduce", "remove"} /\ l \in Nat /\ applies_sent' + 1 \in Nat
      BY <3>a, <3>b, <3>c
    <3>2. PendingEffect(writes[i])' = [op |-> o, req |-> r, left |-> l, n |-> applies_sent' + 1]
      BY <2>3
    <3> HIDE DEF o, l
    <3> QED
      BY <3>1, <3>2
  <2> QED
    BY <2>5, <2>6
<1>3. b = [i \in 1..Len(writes') |-> b[i]] /\ Handover' = cmdq' \o b
  BY DEF Handover
<1> HIDE DEF b
<1> QED
  BY <1>1, <1>2, <1>3, QueueAndBacklog

\* What Replay computes is where the run ends.
LEMMA ReplayEnds ==
    ASSUME TypeOK, NEW h \in Holds
    PROVE  EndsWith(Handover, Of(h), store[h], Replay(h))
<1> DEFINE q == Handover
           own == Of(h)
           c == [queue |-> q, own |-> own]
           Body(f, i) == IF i = 0 THEN store[h]
                         ELSE IF q[i].op = "lookup" \/ tx[q[i].req].hold # h THEN f[i - 1]
                         ELSE Stored(q[i], f[i - 1])
           upto == CHOOSE f : f = [i \in 0..Len(q) |-> Body(f, i)]
<1>1. q \in Seq(Command) /\ Len(q) \in Nat
  BY HandoverIs
<1>2. \A i \in 1..Len(q) : tx[q[i].req].hold # h <=> q[i].req \notin own
  <2>1. \A i \in 1..Len(q) : q[i].req \in Reqs
    <3> HIDE DEF q
    <3>1. \A i \in 1..Len(q) : q[i] \in Command
      BY <1>1
    <3> QED
      BY <3>1 DEF Command
  <2> HIDE DEF q
  <2> QED
    BY <2>1 DEF Of
<1>3. PICK g : P!Recurs(Len(q), c, store[h], g)
  <2> HIDE DEF q, own
  <2> QED
    BY <1>1, P!RecursionExists
<1>4. Replay(h) = upto[Len(q)]
  BY DEF Replay
<1> HIDE DEF q, own
<1>5. g = [i \in 0..Len(q) |-> Body(g, i)]
  <2>1. ASSUME NEW i \in 0..Len(q) PROVE g[i] = Body(g, i)
    <3>1. g[i] = IF i = 0 THEN store[h] ELSE ReplayTurn(c, i, g[i - 1])
      BY <1>3 DEF P!Recurs
    <3>2. CASE i = 0
      BY <3>1, <3>2
    <3>3. CASE i # 0
      <4>1. i \in 1..Len(q)
        BY <1>1, <3>3
      <4>2. g[i] = Turned(q[i], own, g[i - 1])
        BY <3>1, <3>3 DEF ReplayTurn
      <4> QED
        BY <1>2, <3>3, <4>1, <4>2 DEF Turned
    <3> QED
      BY <3>2, <3>3
  <2>2. g = [i \in 0..Len(q) |-> g[i]]
    BY <1>3 DEF P!Recurs
  <2> HIDE DEF Body
  <2> QED
    BY <2>1, <2>2
<1>6. upto = [i \in 0..Len(q) |-> Body(upto, i)]
  <2> HIDE DEF Body
  <2> QED
    BY <1>5
<1> HIDE DEF upto
<1>7. Runs(q, own, store[h], upto)
  <2>1. upto[0] = store[h]
    BY <1>1, <1>6, 0 \in 0..Len(q)
  <2>2. ASSUME NEW i \in 1..Len(q) PROVE upto[i] = Turned(q[i], own, upto[i - 1])
    <3>1. i \in 0..Len(q) /\ i # 0
      BY <1>1
    <3>2. upto[i] = Body(upto, i)
      <4> HIDE DEF Body
      <4> QED
        BY <1>6, <3>1
    <3> QED
      BY <1>2, <3>1, <3>2 DEF Turned
  <2> QED
    BY <2>1, <2>2 DEF Runs
<1> QED
  BY <1>4, <1>7 DEF EndsWith, q, own

\* The property as a fact about runs.
Follows == \A h \in Holds : EndsWith(Handover, Of(h), store[h], ledger[h])
LEMMA FollowsMeans ==
    ASSUME TypeOK, Follows
    PROVE  EngineFollowsCommits
  BY HandoverIs, ReplayEnds, EndsOneWay DEF EngineFollowsCommits, Follows

\* Two commands that say the same of the same hold.
Alike(c, d) == c.op = d.op /\ c.req = d.req /\ c.left = d.left

\* A decision of the backlog is the same after a step that leaves effects alone.
LEMMA BacklogAlike ==
    ASSUME NEW i, UNCHANGED tx, effect'[writes'[i]] = effect[writes'[i]]
    PROVE  Alike(PendingEffect(writes[i])', PendingEffect(writes'[i]))
  BY DEF PendingEffect, Alike

\* Two ways through one sequence: the queue first, then the backlog.
LEMMA SameShown ==
    ASSUME NEW p, NEW q, NEW n \in Nat, NEW m \in Nat, Len(p) = n + m, Len(q) = n + m,
           \A i \in 1..n : p[i] = q[i], \A i \in 1..m : Alike(p[n + i], q[n + i])
    PROVE  SameDecisions(p, q)
<1> SUFFICES ASSUME NEW i \in 1..(n + m) PROVE Alike(p[i], q[i])
  BY DEF SameDecisions, Alike
<1>1. CASE i \in 1..n
  BY <1>1 DEF Alike
<1>2. CASE i \notin 1..n
  <2>1. i - n \in 1..m /\ n + (i - n) = i
    BY <1>2
  <2> QED
    BY <2>1
<1> QED
  BY <1>1, <1>2

\* A step that hands nothing over and takes nothing.
LEMMA HandoverStays ==
    ASSUME TypeOK, TypeOK', UNCHANGED <<tx, cmdq, writes>>,
           \A i \in 1..Len(writes) : effect'[writes[i]] = effect[writes[i]]
    PROVE  SameDecisions(Handover', Handover)
<1> DEFINE p == Handover'
           q == Handover
           n == Len(cmdq)
           m == Len(writes)
<1>0. n \in Nat /\ m \in Nat
  BY DEF TypeOK
<1>1. /\ Len(q) = n + m /\ \A i \in 1..n : q[i] = cmdq[i]
      /\ \A i \in 1..m : q[n + i] = PendingEffect(writes[i])
  BY HandoverIs
<1>2. /\ Len(p) = n + m /\ \A i \in 1..n : p[i] = cmdq[i]
      /\ \A i \in 1..m : p[n + i] = PendingEffect(writes[i])'
  BY HandoverNext
<1>3. \A i \in 1..m : Alike(PendingEffect(writes[i])', PendingEffect(writes[i]))
  BY BacklogAlike
<1> HIDE DEF p, q, n, m
<1>4. SameDecisions(p, q)
  BY <1>0, <1>1, <1>2, <1>3, SameShown
<1> QED
  BY <1>4 DEF p, q

LEMMA QueueTypes ==
    ASSUME TypeOK
    PROVE  cmdq \in Seq(Command) /\ writes \in Seq(Reqs) /\ Len(cmdq) \in Nat /\ Len(writes) \in Nat
  BY DEF TypeOK

\* A command goes to the queue with no backlog before it, or a decision to the backlog's end.
LEMMA HandoverQueues ==
    ASSUME TypeOK, TypeOK', NEW c \in Command, cmdq' = Append(cmdq, c), writes = <<>>, UNCHANGED writes
    PROVE  SameDecisions(Handover', Append(Handover, c))
<1> DEFINE p == Handover'
           q == Handover
           n == Len(cmdq)
<1>0. n \in Nat /\ Len(writes) = 0 /\ cmdq \in Seq(Command)
  BY QueueTypes
<1>1. /\ q \in Seq(Command) /\ Len(q) = n /\ \A i \in 1..n : q[i] = cmdq[i]
  BY <1>0, HandoverIs
<1>2. Len(cmdq') = n + 1 /\ cmdq'[n + 1] = c /\ \A i \in 1..n : cmdq'[i] = cmdq[i]
  BY <1>0
<1>3. Len(p) = n + 1 /\ \A i \in 1..(n + 1) : p[i] = cmdq'[i]
  BY <1>0, <1>2, HandoverNext
<1> DEFINE s == Append(q, c)
<1> HIDE DEF p, q, n
<1>4. Len(s) = n + 1 /\ s[n + 1] = c /\ \A i \in 1..n : s[i] = cmdq[i]
  BY <1>0, <1>1
<1> HIDE DEF s
<1>5. \A i \in 1..(n + 1) : p[i] = s[i]
  <2> SUFFICES ASSUME NEW i \in 1..(n + 1) PROVE p[i] = s[i]
    OBVIOUS
  <2>1. i \in 1..n \/ i = n + 1
    BY <1>0
  <2> QED
    BY <1>2, <1>3, <1>4, <2>1
<1>6. SameDecisions(p, s)
  BY <1>3, <1>4, <1>5 DEF SameDecisions
<1> QED
  BY <1>6 DEF p, q, s
LEMMA HandoverBacklogs ==
    ASSUME TypeOK, TypeOK', NEW r \in Reqs, writes' = Append(writes, r), UNCHANGED <<tx, effect, cmdq>>
    PROVE  SameDecisions(Handover', Append(Handover, PendingEffect(r)))
<1> DEFINE p == Handover'
           q == Handover
           n == Len(cmdq)
           m == Len(writes)
           s == Append(q, PendingEffect(r))
<1>0. n \in Nat /\ m \in Nat /\ writes \in Seq(Reqs)
  BY QueueTypes
<1>1. /\ q \in Seq(Command) /\ Len(q) = n + m /\ \A i \in 1..n : q[i] = cmdq[i]
      /\ \A i \in 1..m : q[n + i] = PendingEffect(writes[i])
  BY HandoverIs
<1>2. Len(writes') = m + 1 /\ writes'[m + 1] = r /\ \A i \in 1..m : writes'[i] = writes[i]
  BY <1>0
<1>3. /\ Len(p) = n + (m + 1) /\ \A i \in 1..n : p[i] = cmdq[i]
      /\ \A i \in 1..(m + 1) : p[n + i] = PendingEffect(writes[i])'
  BY <1>2, HandoverNext
<1>4. PendingEffect(r) \in Command
  BY PendingEffectType
<1>5. \A i \in 1..(m + 1) : Alike(PendingEffect(writes[i])', PendingEffect(writes'[i]))
  BY BacklogAlike
<1> HIDE DEF p, q, n, m
<1>6. /\ Len(s) = n + (m + 1) /\ s[(n + m) + 1] = PendingEffect(r) /\ \A i \in 1..(n + m) : s[i] = q[i]
  BY <1>0, <1>1, <1>4
<1> HIDE DEF s
<1>7. \A i \in 1..n : p[i] = s[i]
  BY <1>0, <1>1, <1>3, <1>6
<1>8. ASSUME NEW i \in 1..(m + 1) PROVE Alike(p[n + i], s[n + i])
  <2>1. p[n + i] = PendingEffect(writes[i])' /\ Alike(PendingEffect(writes[i])', PendingEffect(writes'[i]))
    BY <1>3, <1>5
  <2>2. s[n + i] = PendingEffect(writes'[i])
    <3>1. CASE i = m + 1
      <4>1. n + i = (n + m) + 1
        BY <1>0, <3>1
      <4> QED
        BY <1>2, <1>6, <3>1, <4>1
    <3>2. CASE i # m + 1
      <4>1. i \in 1..m /\ n + i \in 1..(n + m)
        BY <1>0, <3>2
      <4> QED
        BY <1>1, <1>2, <1>6, <4>1
    <3> QED
      BY <3>1, <3>2
  <2> QED
    BY <2>1, <2>2
<1>9. m + 1 \in Nat
  BY <1>0
<1>10. Len(p) = n + (m + 1) /\ Len(s) = n + (m + 1)
  BY <1>3, <1>6
<1>11. SameDecisions(p, s)
  BY <1>0, <1>7, <1>8, <1>9, <1>10, SameShown
<1> QED
  BY <1>11 DEF p, q, s

\* The backlog's oldest decision moves to the queue: the sequence is the same.
LEMMA HandoverFlushes ==
    ASSUME TypeOK, TypeOK', writes # <<>>, cmdq' = Append(cmdq, PendingEffect(Head(writes))),
           writes' = Tail(writes), UNCHANGED <<tx, effect>>
    PROVE  SameDecisions(Handover', Handover)
<1> DEFINE p == Handover'
           q == Handover
           n == Len(cmdq)
           m == Len(writes)
           w == PendingEffect(Head(writes))
<1>0. n \in Nat /\ m \in Nat /\ writes \in Seq(Reqs) /\ cmdq \in Seq(Command)
  BY QueueTypes
<1>1. /\ Len(q) = n + m /\ \A i \in 1..n : q[i] = cmdq[i]
      /\ \A i \in 1..m : q[n + i] = PendingEffect(writes[i])
  BY HandoverIs
<1>2. /\ m # 0 /\ Len(writes') = m - 1 /\ Head(writes) = writes[1] /\ Head(writes) \in Reqs
      /\ \A i \in 1..(m - 1) : writes'[i] = writes[i + 1]
  BY <1>0, HeadTailProperties
<1>w. w \in Command /\ w = PendingEffect(writes[1])
  BY <1>2, PendingEffectType
<1> HIDE DEF w
<1>3. Len(cmdq') = n + 1 /\ cmdq'[n + 1] = w /\ \A i \in 1..n : cmdq'[i] = cmdq[i]
  BY <1>0, <1>w DEF w
<1>4. /\ Len(p) = (n + 1) + (m - 1) /\ \A i \in 1..(n + 1) : p[i] = cmdq'[i]
      /\ \A i \in 1..(m - 1) : p[(n + 1) + i] = PendingEffect(writes[i])'
  BY <1>2, <1>3, HandoverNext
<1>5. \A i \in 1..(m - 1) : Alike(PendingEffect(writes[i])', PendingEffect(writes'[i]))
  BY BacklogAlike
<1> HIDE DEF p, q, n, m
<1>6. ASSUME NEW i \in 1..(n + 1) PROVE p[i] = q[i]
  <2>1. i \in 1..n \/ i = n + 1
    BY <1>0
  <2>2. 1 \in 1..m
    BY <1>0, <1>2
  <2> QED
    BY <1>1, <1>3, <1>4, <1>w, <2>1, <2>2
<1>7. ASSUME NEW i \in 1..(m - 1) PROVE Alike(p[(n + 1) + i], q[(n + 1) + i])
  <2>1. i + 1 \in 1..m /\ (n + 1) + i = n + (i + 1)
    BY <1>0, <1>2
  <2>2. q[(n + 1) + i] = PendingEffect(writes[i + 1])
    BY <1>1, <2>1
  <2> QED
    BY <1>2, <1>4, <1>5, <2>2
<1>8. n + 1 \in Nat /\ m - 1 \in Nat /\ Len(q) = (n + 1) + (m - 1)
  BY <1>0, <1>1, <1>2
<1>9. SameDecisions(p, q)
  BY <1>4, <1>6, <1>7, <1>8, SameShown
<1> QED
  BY <1>9 DEF p, q

\* The engine takes the oldest command.
LEMMA HandoverTaken ==
    ASSUME TypeOK, TypeOK', cmdq # <<>>, cmdq' = Tail(cmdq), UNCHANGED <<tx, effect, writes>>
    PROVE  /\ SameDecisions(Handover', Tail(Handover))
           /\ Handover \in Seq(Command) /\ Handover # <<>> /\ Handover[1] = Head(cmdq)
<1> DEFINE p == Handover'
           q == Handover
           n == Len(cmdq)
           m == Len(writes)
           s == Tail(q)
<1>0. n \in Nat /\ m \in Nat
  <2>1. cmdq \in Seq(Command) /\ writes \in Seq(Reqs)
    BY DEF TypeOK
  <2> QED
    BY <2>1
<1>1. /\ Len(Tail(cmdq)) = n - 1 /\ 1 \in 1..n /\ Head(cmdq) = cmdq[1]
      /\ \A i \in 1..Len(Tail(cmdq)) : i + 1 \in 1..n /\ Tail(cmdq)[i] = cmdq[i + 1]
  BY TailOfQueue
<1>2. /\ q \in Seq(Command) /\ Len(q) = n + m /\ \A i \in 1..n : q[i] = cmdq[i]
      /\ \A i \in 1..m : q[n + i] = PendingEffect(writes[i])
  BY HandoverIs
<1>3. /\ Len(p) = (n - 1) + m /\ \A i \in 1..(n - 1) : p[i] = cmdq'[i]
      /\ \A i \in 1..m : p[(n - 1) + i] = PendingEffect(writes[i])'
  BY <1>1, HandoverNext
<1>4. \A i \in 1..m : Alike(PendingEffect(writes[i])', PendingEffect(writes[i]))
  BY BacklogAlike
<1> HIDE DEF p, q, n, m
<1>5. q # <<>> /\ q[1] = Head(cmdq)
  <2>1. Len(q) # 0
    BY <1>0, <1>1, <1>2
  <2> QED
    BY <1>1, <1>2, <2>1
<1>6. Len(s) = (n + m) - 1 /\ \A i \in 1..((n + m) - 1) : s[i] = q[i + 1]
  BY <1>2, <1>5, HeadTailProperties
<1> HIDE DEF s
<1>7. ASSUME NEW i \in 1..(n - 1) PROVE p[i] = s[i]
  <2>1. i + 1 \in 1..n /\ i \in 1..((n + m) - 1) /\ i \in 1..Len(Tail(cmdq))
    BY <1>0, <1>1
  <2> QED
    BY <1>1, <1>2, <1>3, <1>6, <2>1
<1>8. ASSUME NEW i \in 1..m PROVE Alike(p[(n - 1) + i], s[(n - 1) + i])
  <2>1. (n - 1) + i \in 1..((n + m) - 1) /\ ((n - 1) + i) + 1 = n + i
    BY <1>0, <1>1
  <2>2. s[(n - 1) + i] = PendingEffect(writes[i])
    BY <1>2, <1>6, <2>1
  <2> QED
    BY <1>3, <1>4, <2>2
<1>9. n - 1 \in Nat /\ Len(s) = (n - 1) + m
  BY <1>0, <1>1, <1>6
<1>10. SameDecisions(p, s)
  BY <1>0, <1>3, <1>7, <1>8, <1>9, SameShown
<1> QED
  BY <1>2, <1>5, <1>10 DEF p, q, s

LEMMA OwnStays ==
    ASSUME UNCHANGED tx
    PROVE  \A h : Of(h)' = Of(h)
  BY DEF Of

LEMMA FollowsStays ==
    ASSUME TypeOK, TypeOK', Follows, UNCHANGED <<tx, store, ledger>>, SameDecisions(Handover', Handover)
    PROVE  Follows'
<1> SUFFICES ASSUME NEW h \in Holds PROVE EndsWith(Handover', Of(h), store[h], ledger[h])
  BY OwnStays DEF Follows
<1>1. EndsWith(Handover, Of(h), store[h], ledger[h])
  BY DEF Follows
<1>2. Handover \in Seq(Command) /\ Handover' \in Seq(Command)
  BY HandoverIs, HandoverNext
<1> QED
  BY <1>1, <1>2, EndsSame

LEMMA FollowsAppends ==
    ASSUME TypeOK, TypeOK', Follows, UNCHANGED <<tx, store>>, NEW c \in Command,
           SameDecisions(Handover', Append(Handover, c)),
           \A h \in Holds : ledger'[h] = Turned(c, Of(h), ledger[h])
    PROVE  Follows'
<1> SUFFICES ASSUME NEW h \in Holds
             PROVE  EndsWith(Handover', Of(h), store[h], Turned(c, Of(h), ledger[h]))
  BY OwnStays DEF Follows
<1>1. EndsWith(Handover, Of(h), store[h], ledger[h])
  BY DEF Follows
<1>2. Handover \in Seq(Command) /\ Handover' \in Seq(Command) /\ Append(Handover, c) \in Seq(Command)
  BY HandoverIs, HandoverNext
<1>3. EndsWith(Append(Handover, c), Of(h), store[h], Turned(c, Of(h), ledger[h]))
  BY <1>1, <1>2, EndsAppend
<1> QED
  BY <1>2, <1>3, EndsSame

LEMMA FollowsTakes ==
    ASSUME TypeOK, TypeOK', Follows, UNCHANGED <<tx, ledger>>, Handover # <<>>,
           SameDecisions(Handover', Tail(Handover)),
           \A h \in Holds : store'[h] = Turned(Handover[1], Of(h), store[h])
    PROVE  Follows'
<1> SUFFICES ASSUME NEW h \in Holds
             PROVE  EndsWith(Handover', Of(h), Turned(Handover[1], Of(h), store[h]), ledger[h])
  BY OwnStays DEF Follows
<1>1. EndsWith(Handover, Of(h), store[h], ledger[h])
  BY DEF Follows
<1>2. Handover \in Seq(Command) /\ Handover' \in Seq(Command) /\ Tail(Handover) \in Seq(Command)
  BY HandoverIs, HandoverNext
<1>3. EndsWith(Tail(Handover), Of(h), Turned(Handover[1], Of(h), store[h]), ledger[h])
  BY <1>1, <1>2, EndsTail
<1> QED
  BY <1>2, <1>3, EndsSame

LEMMA FollowsInit ==
    ASSUME Init
    PROVE  Follows
<1>1. TypeOK
  BY InitType
<1>2. Len(cmdq) = 0 /\ Len(writes) = 0
  BY DEF Init
<1>3. Handover \in Seq(Command) /\ Len(Handover) = 0
  BY <1>1, <1>2, HandoverIs
<1>4. ASSUME NEW h \in Holds PROVE EndsWith(Handover, Of(h), store[h], ledger[h])
  <2>1. store[h] = ledger[h]
    BY DEF Init
  <2> DEFINE q == Handover
             f == [i \in 0..0 |-> store[h]]
  <2> HIDE DEF q
  <2>2. f[0] = store[h] /\ 1..0 = {}
    OBVIOUS
  <2> HIDE DEF f
  <2>3. Runs(q, Of(h), store[h], f) /\ f[Len(q)] = ledger[h]
    BY <1>3, <2>1, <2>2 DEF Runs, q
  <2> QED
    BY <2>3 DEF EndsWith, q
<1> QED
  BY <1>4 DEF Follows

\* A command no decision goes by: the question of one request.
LEMMA FollowsAsk ==
    ASSUME TypeOK, TypeOK', Follows, UNCHANGED <<tx, store, ledger, writes>>, NEW r \in Reqs, Ask(r)
    PROVE  Follows'
<1> DEFINE w == [op |-> "lookup", req |-> r, left |-> 0, n |-> applies_sent]
<1>1. w \in Command /\ cmdq' = Append(cmdq, w) /\ w.op = "lookup" /\ writes = <<>>
  BY DEF Ask, BlocksLookups, TypeOK, Command
<1> HIDE DEF w
<1>2. SameDecisions(Handover', Append(Handover, w))
  BY <1>1, HandoverQueues
<1>3. \A h \in Holds : ledger'[h] = Turned(w, Of(h), ledger[h])
  BY <1>1 DEF Turned
<1> QED
  BY <1>1, <1>2, <1>3, FollowsAppends

\* A judged request is not of the backlog, so its effect may be written.
LEMMA FollowsJudged ==
    ASSUME TypeOK, TypeOK', LifeInv, Follows, UNCHANGED <<tx, store, ledger, writes, cmdq>>,
           NEW r \in Reqs, stage[r] # "done", \A q \in Reqs : q # r => effect'[q] = effect[q]
    PROVE  Follows'
<1>1. \A i \in 1..Len(writes) : writes[i] \in Reqs /\ writes[i] # r
  <2>1. \A i \in 1..Len(writes) : writes[i] \in Reqs
    BY QueueTypes
  <2>2. \A i \in 1..Len(writes) : stage[writes[i]] = "done"
    BY DEF LifeInv, BacklogInv
  <2> QED
    BY <2>1, <2>2
<1>2. SameDecisions(Handover', Handover)
  BY <1>1, HandoverStays
<1> QED
  BY <1>2, FollowsStays

LEMMA FollowsAdmit ==
    ASSUME TypeOK, TypeOK', LifeInv, Follows, NEW r \in Reqs, Admit(r)
    PROVE  Follows'
<1>1. /\ UNCHANGED <<tx, store, ledger, writes, effect>>
      /\ Ask(r) \/ UNCHANGED cmdq
  BY DEF Admit, moneyVars, engineVars, AdmitRefused, AdmitHold, AdmitResolution
<1>2. CASE UNCHANGED cmdq
  BY <1>1, <1>2, HandoverStays, FollowsStays
<1> QED
  BY <1>1, <1>2, FollowsAsk

LEMMA FollowsReleased ==
    ASSUME TypeOK, TypeOK', LifeInv, Follows, UNCHANGED <<tx, store, ledger, writes, cmdq>>,
           NEW r \in Reqs, stage[r] = "open", NEW dep, NEW e, NEW found, ReleaseDep(r, dep, e, found)
    PROVE  Follows'
<1>1. \A q \in Reqs : q # r => effect'[q] = effect[q]
  BY Released
<1> QED
  BY <1>1, FollowsJudged

LEMMA FollowsRetry ==
    ASSUME TypeOK, TypeOK', StaleInv, LifeInv, Follows, RetryDispatch
    PROVE  Follows'
<1>0. PICK r : r = Head(deferred)
  OBVIOUS
<1> DEFINE e == Pin(overlay[tx[r].hold])
<1>1. /\ deferred # <<>> /\ deferred' = Tail(deferred)
      /\ UNCHANGED <<tx, store, ledger, writes>>
      /\ \/ Ask(r)
         \/ ReleaseDep(r, "pending", e, 0) /\ UNCHANGED cmdq
  BY <1>0 DEF RetryDispatch, engineVars, moneyVars
<1> HIDE DEF e
<1>2. r \in Reqs /\ Deferred(r)
  BY <1>0, <1>1, DeferredShrinks DEF StaleInv
<1>3. stage[r] = "open"
  BY <1>2 DEF LifeInv, WaitInv
<1> QED
  BY <1>1, <1>2, <1>3, FollowsAsk, FollowsReleased

LEMMA FollowsAnswers ==
    ASSUME TypeOK, TypeOK', LifeInv, Follows,
           (\E r \in Reqs : IdemAnswer(r)) \/ (\E a \in answers : PendingAnswer(a))
    PROVE  Follows'
<1>1. CASE \E r \in Reqs : IdemAnswer(r)
  <2>1. PICK r \in Reqs : IdemAnswer(r)
    BY <1>1
  <2>2. /\ stage[r] = "open" /\ ReleaseDep(r, "idem", overlay[tx[r].hold], record[r])
        /\ UNCHANGED <<tx, store, ledger, writes, cmdq>>
    BY <2>1 DEF IdemAnswer, engineVars, moneyVars
  <2> QED
    BY <2>2, FollowsReleased
<1>2. CASE \E a \in answers : PendingAnswer(a)
  <2>1. PICK a \in answers : PendingAnswer(a)
    BY <1>2
  <2>2. /\ ReleaseDep(a.req, "pending", AdmitLookup(overlay[tx[a.req].hold], a.found), a.found)
        /\ UNCHANGED <<tx, store, ledger, writes, cmdq>>
    BY <2>1 DEF PendingAnswer, moneyVars
  <2>3. a.req \in Reqs /\ Asks(a.req)
    BY DEF TypeOK, Answer, Asks
  <2>4. stage[a.req] = "open"
    BY <2>3 DEF LifeInv, WaitInv
  <2> QED
    BY <2>2, <2>3, <2>4, FollowsReleased
<1> QED
  BY <1>1, <1>2

LEMMA FollowsApplyEffect ==
    ASSUME TypeOK, TypeOK', Follows, ApplyEffect
    PROVE  Follows'
<1>0. PICK r : r = Head(applying.batch)
  OBVIOUS
<1> DEFINE e == IF ReadsHold(r) THEN ReleaseReservation(overlay[tx[r].hold], effect[r].amount)
                ELSE overlay[tx[r].hold]
           w == PendingEffect(r)
<1>1. /\ applying.batch # <<>> /\ UNCHANGED store
      /\ \/ /\ Finish(r, "committed") /\ Write(r, e)
            /\ ledger' = [ledger EXCEPT ![tx[r].hold] = Stored(w, @)]
         \/ UNCHANGED <<tx, effect, ledger, writes, cmdq>>
  BY <1>0 DEF ApplyEffect, engineVars, reqVars, moneyVars
<1> HIDE DEF e
<1>2. r \in Reqs
  <2>1. applying.batch \in Seq(Reqs) /\ applying.batch # <<>>
    BY <1>1 DEF TypeOK
  <2> QED
    BY <1>0, <2>1, HeadTailProperties
<1>3. CASE Finish(r, "committed") /\ Write(r, e) /\ ledger' = [ledger EXCEPT ![tx[r].hold] = Stored(w, @)]
  <2>1. w \in Command /\ w.op # "lookup" /\ w.req = r
    BY <1>2, PendingEffectType
  <2>2. UNCHANGED <<tx, effect>>
    BY <1>3 DEF Finish
  <2>3. \/ writes = <<>> /\ UNCHANGED writes /\ cmdq' = Append(cmdq, w)
        \/ UNCHANGED cmdq /\ writes' = Append(writes, r)
    BY <1>3 DEF Write
  <2>4. SameDecisions(Handover', Append(Handover, w))
    <3>1. CASE writes = <<>> /\ UNCHANGED writes /\ cmdq' = Append(cmdq, w)
      <4> HIDE DEF w
      <4> QED
        BY <2>1, <3>1, HandoverQueues
    <3>2. CASE UNCHANGED cmdq /\ writes' = Append(writes, r)
      BY <1>2, <2>2, <3>2, HandoverBacklogs
    <3> QED
      BY <2>3, <3>1, <3>2
  <2> HIDE DEF w
  <2>5. ASSUME NEW h \in Holds PROVE ledger'[h] = Turned(w, Of(h), ledger[h])
    <3>1. ledger \in [Holds -> Nat] /\ (r \in Of(h) <=> tx[r].hold = h)
      BY <1>2 DEF TypeOK, Of
    <3> QED
      BY <1>3, <2>1, <3>1 DEF Turned
  <2> QED
    BY <1>1, <2>1, <2>2, <2>4, <2>5, FollowsAppends
<1>4. CASE UNCHANGED <<tx, effect, ledger, writes, cmdq>>
  BY <1>1, <1>4, HandoverStays, FollowsStays
<1> QED
  BY <1>1, <1>3, <1>4

LEMMA FollowsFlush ==
    ASSUME TypeOK, TypeOK', Follows, FlushWrite
    PROVE  Follows'
<1>1. /\ writes # <<>> /\ cmdq' = Append(cmdq, PendingEffect(Head(writes))) /\ writes' = Tail(writes)
      /\ UNCHANGED <<tx, effect, store, ledger>>
  BY DEF FlushWrite, reqVars, moneyVars, engineVars
<1>2. SameDecisions(Handover', Handover)
  BY <1>1, HandoverFlushes
<1> QED
  BY <1>1, <1>2, FollowsStays

LEMMA FollowsEngine ==
    ASSUME TypeOK, TypeOK', Follows, EngineApply \/ EngineLookup
    PROVE  Follows'
<1>1. /\ cmdq # <<>> /\ cmdq' = Tail(cmdq) /\ UNCHANGED <<tx, effect, writes, ledger>>
  BY DEF EngineApply, EngineLookup, reqVars, chanVars, moneyVars
<1>2. /\ SameDecisions(Handover', Tail(Handover)) /\ Handover # <<>> /\ Handover[1] = Head(cmdq)
      /\ Head(cmdq) \in Command
  BY <1>1, HandoverTaken, TailOfQueue
<1>3. ASSUME NEW h \in Holds PROVE store'[h] = Turned(Head(cmdq), Of(h), store[h])
  <2>1. CASE EngineApply
    <3>1. /\ store' = [store EXCEPT ![tx[Head(cmdq).req].hold] = Stored(Head(cmdq), @)]
          /\ Head(cmdq).op # "lookup"
      BY <2>1 DEF EngineApply
    <3>2. store \in [Holds -> Nat] /\ Head(cmdq).req \in Reqs
      BY <1>2 DEF TypeOK, Command
    <3>3. Head(cmdq).req \in Of(h) <=> tx[Head(cmdq).req].hold = h
      BY <3>2 DEF Of
    <3> QED
      BY <3>1, <3>2, <3>3 DEF Turned
  <2>2. CASE EngineLookup
    BY <2>2 DEF EngineLookup, Turned
  <2> QED
    BY <2>1, <2>2
<1> QED
  BY <1>1, <1>2, <1>3, FollowsTakes

LEMMA FollowsElsewhere ==
    ASSUME TypeOK, TypeOK', Follows,
           Propose \/ StartApply \/ RollBackEffect \/ EvictIdle \/ Publish \/ UNCHANGED vars
             \/ \E f \in fetches : Harvest(f)
    PROVE  Follows'
<1>1. UNCHANGED <<tx, effect, store, ledger, writes, cmdq>>
  BY DEF Propose, StartApply, RollBackEffect, Finish, EvictIdle, Publish, Harvest, vars, reqVars,
     chanVars, moneyVars, engineVars
<1> QED
  BY <1>1, HandoverStays, FollowsStays

LEMMA FollowsNext ==
    ASSUME TypeOK, TypeOK', StaleInv, LifeInv, Follows, [Next]_vars
    PROVE  Follows'
<1>1. CASE \E r \in Reqs : Admit(r)
  BY <1>1, FollowsAdmit
<1>2. CASE Drain
  BY <1>2, FollowsRetry, FollowsFlush, FollowsAnswers, FollowsApplyEffect, FollowsElsewhere DEF Drain
<1>3. CASE EvictIdle \/ UNCHANGED vars
  BY <1>3, FollowsElsewhere
<1>4. CASE Engine
  BY <1>4, FollowsEngine, FollowsElsewhere DEF Engine
<1> QED
  BY <1>1, <1>2, <1>3, <1>4 DEF Next

\* Whatever the queue refuses, however the backlog and the retries interleave and whichever
\* batches consensus refuses, the engine is handed every committed decision, once, whole and
\* in commit order, and nothing else: it ends where the decisions end.
\* (apply.rs write, reactor.rs flush, engine.rs apply_effect.)
THEOREM EngineFollows == Spec => []EngineFollowsCommits
<1> DEFINE I == TypeOK /\ StaleInv /\ LifeInv /\ Follows
<1>1. Init => I
  BY InitType, StaleInit, LifeInit, FollowsInit
<1>2. I /\ [Next]_vars => I'
  BY NextType, StaleNext, LifeNext, FollowsNext
<1>3. I => EngineFollowsCommits
  BY FollowsMeans
<1> QED
  BY <1>1, <1>2, <1>3, PTL DEF Spec

-----------------------------------------------------------------------------
(***************************************************************************)
(* The overlay's pins.  An entry is pinned once for each request in flight *)
(* that will read it, and a pinned entry is there.                         *)
(***************************************************************************)
\* Only a request that reads a hold asks for it, and who was answered has left its slot.
ReadInv ==
    /\ \A r \in Reqs : "pending" \in sent[r] \/ Deferred(r) => ReadsHold(r)
    /\ \A r \in Reqs : outcome[r] # "none" => stage[r] = "done"

\* The request has its hold pinned.
Pinning(r) == ReadsHold(r) /\ stage[r] \in {"open", "judged"} /\ "pending" \in sent[r]

PinInv == \A h \in Holds : /\ overlay[h].pinned = Cardinality(Pinners(h))
                           /\ overlay[h].tag = "none" => overlay[h].pinned = 0

\* What a reply does to its request and to the request's hold.
LEMMA ReleaseTells ==
    ASSUME TypeOK, NEW r \in Reqs, NEW dep, NEW e, NEW found, ReleaseDep(r, dep, e, found)
    PROVE  /\ \A q \in Reqs : q # r => outcome'[q] = outcome[q]
           /\ \A g \in Holds : g # tx[r].hold => overlay'[g] = overlay[g]
           /\ \/ /\ stage'[r] = stage[r] /\ outcome'[r] = outcome[r] /\ effect'[r] = effect[r]
                 /\ overlay'[tx[r].hold] = e
                 /\ deps'[r] # {} \/ deps[r] = {}
              \/ /\ stage'[r] = "judged" /\ outcome'[r] = outcome[r]
                 /\ Verdict(r, e, found) = "accepted" /\ effect'[r] = Effect(r, e, found)
                 /\ overlay'[tx[r].hold] =
                       IF ReadsHold(r)
                       THEN Reserve(e, effect'[r].amount, effect'[r].left = 0) ELSE e
              \/ /\ stage'[r] = "done" /\ outcome'[r] = Verdict(r, e, found)
                 /\ Verdict(r, e, found) # "accepted" /\ effect'[r] = effect[r]
                 /\ overlay'[tx[r].hold] = Unpinned(r, e)
<1> DEFINE h == tx[r].hold
<1>1. /\ stage \in [Reqs -> Stages] /\ outcome \in [Reqs -> Outcomes] /\ h \in Holds
      /\ effect \in [Reqs -> [amount : Nat, left : Nat]] /\ overlay \in [Holds -> Entry]
      /\ deps \in [Reqs -> SUBSET Deps]
  BY DEF TypeOK, Transfer
<1>2. CASE ~(deps[r] \subseteq {dep})
  <2>1. /\ overlay' = [overlay EXCEPT ![h] = e] /\ UNCHANGED <<stage, effect, outcome>>
        /\ deps' = [deps EXCEPT ![r] = @ \ {dep}]
    BY <1>2 DEF ReleaseDep
  <2>2. deps'[r] = deps[r] \ {dep} /\ deps'[r] # {}
    BY <1>1, <1>2, <2>1
  <2> QED
    BY <1>1, <2>1, <2>2
<1>3. CASE deps[r] \subseteq {dep} /\ Verdict(r, e, found) = "accepted"
  <2>1. PICK ef : ef = Effect(r, e, found)
    OBVIOUS
  <2>2. /\ stage' = [stage EXCEPT ![r] = "judged"] /\ effect' = [effect EXCEPT ![r] = ef]
        /\ overlay' = [overlay EXCEPT ![h] =
                         IF ReadsHold(r) THEN Reserve(e, ef.amount, ef.left = 0) ELSE e]
        /\ UNCHANGED outcome
    BY <1>3, <2>1 DEF ReleaseDep, Judge
  <2>3. effect'[r] = ef
    BY <1>1, <2>2
  <2> QED
    BY <1>1, <1>3, <2>1, <2>2, <2>3
<1>4. CASE deps[r] \subseteq {dep} /\ Verdict(r, e, found) # "accepted"
  <2>1. /\ stage' = [stage EXCEPT ![r] = "done"]
        /\ outcome' = [outcome EXCEPT ![r] = Verdict(r, e, found)]
        /\ overlay' = [overlay EXCEPT ![h] = Unpinned(r, e)]
        /\ UNCHANGED effect
    BY <1>4 DEF ReleaseDep, Judge
  <2> QED
    BY <1>1, <1>4, <2>1
<1> QED
  BY <1>2, <1>3, <1>4

LEMMA ReadInit ==
    ASSUME Init
    PROVE  ReadInv
  BY DEF Init, ReadInv, Deferred

LEMMA ReadAdmit ==
    ASSUME TypeOK, LifeInv, ReadInv, NEW r \in Reqs, Admit(r)
    PROVE  ReadInv'
<1>1. /\ stage[r] = "new" /\ UNCHANGED tx /\ outcome[r] = "none"
      /\ AdmitRefused(r) \/ AdmitHold(r) \/ AdmitResolution(r)
  BY DEF Admit, ReadInv
<1>2. /\ stage \in [Reqs -> Stages] /\ outcome \in [Reqs -> Outcomes] /\ sent \in [Reqs -> SUBSET Deps]
  BY DEF TypeOK
<1>3. /\ \A q \in Reqs : q # r => sent'[q] = sent[q] /\ stage'[q] = stage[q] /\ outcome'[q] = outcome[q]
      /\ outcome'[r] # "none" => stage'[r] = "done"
  BY <1>1, <1>2 DEF AdmitRefused, AdmitHold, AdmitResolution, Enter
<1>4. /\ "pending" \in sent'[r] => ReadsHold(r) \/ "pending" \in sent[r]
      /\ UNCHANGED deferred \/ (deferred' = Append(deferred, r) /\ ReadsHold(r))
  BY <1>1, <1>2 DEF AdmitRefused, AdmitHold, AdmitResolution, Enter, Deps
<1>5. \A q \in Reqs : Deferred(q)' => Deferred(q) \/ (q = r /\ ReadsHold(r))
  BY <1>4, DeferredUnchanged, DeferredGrows
<1>6. \A q : ReadsHold(q)' = ReadsHold(q)
  BY <1>1 DEF ReadsHold
<1> QED
  BY <1>3, <1>4, <1>5, <1>6 DEF ReadInv

\* A reply, and the retry that finds the hold gone.
LEMMA ReadReleased ==
    ASSUME TypeOK, ReadInv, UNCHANGED tx, NEW r \in Reqs, stage[r] = "open",
           \A q \in Reqs : "pending" \in sent'[q] => "pending" \in sent[q] \/ ReadsHold(q),
           \A q \in Reqs : Deferred(q)' => Deferred(q),
           NEW dep, NEW e, NEW found, ReleaseDep(r, dep, e, found)
    PROVE  ReadInv'
<1>1. \A q \in Reqs : q # r => stage'[q] = stage[q] /\ outcome'[q] = outcome[q]
  BY Released, ReleaseTells
<1>2. outcome[r] = "none"
  BY DEF ReadInv
<1>3. outcome'[r] # "none" => stage'[r] = "done"
  BY <1>2, ReleaseTells
<1>4. \A q : ReadsHold(q)' = ReadsHold(q)
  BY DEF ReadsHold
<1> QED
  BY <1>1, <1>3, <1>4 DEF ReadInv

LEMMA ReadStays ==
    ASSUME ReadInv, UNCHANGED <<tx, sent>>, \A q \in Reqs : Deferred(q)' => Deferred(q),
           \A q \in Reqs : outcome'[q] # "none" => stage'[q] = "done"
    PROVE  ReadInv'
  BY DEF ReadInv, ReadsHold

LEMMA ReadRetry ==
    ASSUME TypeOK, StaleInv, LifeInv, ReadInv, RetryDispatch
    PROVE  ReadInv'
<1>0. PICK r : r = Head(deferred)
  OBVIOUS
<1>1. /\ deferred # <<>> /\ deferred' = Tail(deferred) /\ UNCHANGED tx
      /\ sent' = [sent EXCEPT ![r] = Deps]
      /\ \/ UNCHANGED <<stage, outcome>>
         \/ ReleaseDep(r, "pending", Pin(overlay[tx[r].hold]), 0)
  BY <1>0 DEF RetryDispatch
<1>2. /\ \A q \in Reqs : Deferred(q)' => Deferred(q)
      /\ r \in Reqs /\ Deferred(r)
  BY <1>0, <1>1, DeferredShrinks DEF StaleInv
<1>3. stage[r] = "open" /\ ReadsHold(r)
  BY <1>2 DEF LifeInv, WaitInv, ReadInv
<1>4. \A q \in Reqs : "pending" \in sent'[q] => "pending" \in sent[q] \/ ReadsHold(q)
  BY <1>1, <1>3 DEF TypeOK
<1>5. CASE UNCHANGED <<stage, outcome>>
  <2>1. \A q : ReadsHold(q)' = ReadsHold(q)
    BY <1>1 DEF ReadsHold
  <2> QED
    BY <1>2, <1>4, <1>5, <2>1 DEF ReadInv
<1> QED
  BY <1>1, <1>2, <1>3, <1>4, <1>5, ReadReleased

LEMMA ReadAnswers ==
    ASSUME TypeOK, LifeInv, ReadInv,
           (\E r \in Reqs : IdemAnswer(r)) \/ (\E a \in answers : PendingAnswer(a))
    PROVE  ReadInv'
<1>1. CASE \E r \in Reqs : IdemAnswer(r)
  <2>1. PICK r \in Reqs : IdemAnswer(r)
    BY <1>1
  <2>2. /\ stage[r] = "open" /\ ReleaseDep(r, "idem", overlay[tx[r].hold], record[r])
        /\ UNCHANGED <<tx, sent, deferred>>
    BY <2>1 DEF IdemAnswer
  <2> QED
    BY <2>2, ReadReleased, DeferredUnchanged
<1>2. CASE \E a \in answers : PendingAnswer(a)
  <2>1. PICK a \in answers : PendingAnswer(a)
    BY <1>2
  <2>2. /\ ReleaseDep(a.req, "pending", AdmitLookup(overlay[tx[a.req].hold], a.found), a.found)
        /\ UNCHANGED <<tx, sent, deferred>>
    BY <2>1 DEF PendingAnswer
  <2>3. a.req \in Reqs /\ Asks(a.req)
    BY DEF TypeOK, Answer, Asks
  <2>4. stage[a.req] = "open"
    BY <2>3 DEF LifeInv, WaitInv
  <2> QED
    BY <2>2, <2>3, <2>4, ReadReleased, DeferredUnchanged
<1> QED
  BY <1>1, <1>2

LEMMA ReadDecided ==
    ASSUME TypeOK, ReadInv, ApplyEffect \/ RollBackEffect
    PROVE  ReadInv'
<1>0. PICK r : r = Head(applying.batch)
  OBVIOUS
<1>a. applying.batch # <<>> /\ r \in Reqs
  BY <1>0 DEF ApplyEffect, RollBackEffect, TypeOK
<1>1. /\ UNCHANGED <<tx, sent, deferred>>
      /\ \/ Finish(r, "committed") \/ Finish(r, "failed") \/ UNCHANGED <<stage, outcome>>
  BY <1>0 DEF ApplyEffect, RollBackEffect, Finish, reqVars
<1>2. \A q \in Reqs : outcome'[q] # "none" => stage'[q] = "done"
  BY <1>a, <1>1 DEF Finish, TypeOK, ReadInv
<1> QED
  BY <1>1, <1>2, ReadStays, DeferredUnchanged

LEMMA ReadElsewhere ==
    ASSUME ReadInv, FlushWrite \/ Propose \/ StartApply \/ EvictIdle \/ Engine \/ UNCHANGED vars
    PROVE  ReadInv'
<1>1. UNCHANGED <<tx, sent, deferred, stage, outcome>>
  BY DEF FlushWrite, Propose, StartApply, EvictIdle, Engine, EngineApply, EngineLookup, Harvest, Publish,
     vars, reqVars, chanVars
<1> QED
  BY <1>1, DeferredUnchanged, ReadStays DEF ReadInv

LEMMA ReadNext ==
    ASSUME TypeOK, StaleInv, LifeInv, ReadInv, [Next]_vars
    PROVE  ReadInv'
  BY ReadAdmit, ReadRetry, ReadAnswers, ReadDecided, ReadElsewhere DEF Next, Drain

\* What an operation of the overlay that moves no pin leaves alone.
KeepsPins(e, f) == f.pinned = e.pinned /\ (f.tag = "none" => e.tag = "none")

LEMMA OperationsKeepPins ==
    ASSUME NEW e \in Entry
    PROVE  /\ \A found : KeepsPins(e, AdmitLookup(e, found))
           /\ \A left : KeepsPins(e, Created(e, left)) /\ KeepsPins(e, NoteRemaining(e, left))
           /\ \A n : KeepsPins(e, Forget(e, n))
           /\ \A amount : KeepsPins(e, ReleaseReservation(e, amount))
           /\ \A amount, b : KeepsPins(e, Reserve(e, amount, b)) /\ KeepsPins(e, Compensate(e, amount, b))
           /\ BeginLookup(e).tag # "none"
           /\ (e.tag = "none" => e.pinned = 0) => BeginLookup(e).pinned = e.pinned
<1>1. \A found : KeepsPins(e, AdmitLookup(e, found))
  BY DEF KeepsPins, AdmitLookup, Decide, Hold, Bare
<1>2. \A left : KeepsPins(e, Created(e, left)) /\ KeepsPins(e, NoteRemaining(e, left))
  BY DEF KeepsPins, Created, NoteRemaining, Decide, Hold
<1>3. \A n : KeepsPins(e, Forget(e, n))
  BY DEF KeepsPins, Forget
<1>4. \A amount : KeepsPins(e, ReleaseReservation(e, amount))
  BY DEF KeepsPins, ReleaseReservation, Hold
<1>5. \A amount, b : KeepsPins(e, Reserve(e, amount, b)) /\ KeepsPins(e, Compensate(e, amount, b))
  BY DEF KeepsPins, Reserve, Compensate, Hold
<1>6. /\ BeginLookup(e).tag # "none"
      /\ (e.tag = "none" => e.pinned = 0) => BeginLookup(e).pinned = e.pinned
  BY DEF BeginLookup, Bare
<1> QED
  BY <1>1, <1>2, <1>3, <1>4, <1>5, <1>6

LEMMA PinsMove ==
    ASSUME NEW e \in Entry
    PROVE  /\ e.tag # "none" => Pin(e).pinned = e.pinned + 1
           /\ e.pinned > 0 => Unpin(e).pinned = e.pinned - 1
           /\ Pin(e).tag = e.tag /\ Unpin(e).tag = e.tag
           /\ Pin(e).safe_after = e.safe_after /\ Unpin(e).safe_after = e.safe_after
           /\ e.pinned = 0 => Unpin(e) = e
<1>1. e.pinned \in Nat /\ e = [tag |-> e.tag, pinned |-> e.pinned, remaining |-> e.remaining,
                               reserved |-> e.reserved, resolved |-> e.resolved,
                               safe_after |-> e.safe_after]
  BY DEF Entry
<1> QED
  BY <1>1 DEF Pin, Unpin, Entry

\* What the decision that goes with a write leaves of the pins.
LEMMA SentKeepsPins ==
    ASSUME NEW e \in Entry, NEW r \in Reqs
    PROVE  KeepsPins(e, Sent(PendingEffect(r), e))
<1> DEFINE w == PendingEffect(r)
<1>1. w.op \in {"create", "reduce", "remove"}
  BY DEF PendingEffect
<1> HIDE DEF w
<1>2. /\ w.op = "create" => Sent(w, e) = Created(e, w.left)
      /\ w.op = "reduce" => Sent(w, e) = NoteRemaining(e, w.left)
      /\ w.op = "remove" => Sent(w, e) = Forget(e, w.n)
  BY DEF Sent
<1>3. KeepsPins(e, Sent(w, e))
  BY <1>1, <1>2, OperationsKeepPins
<1> QED
  BY <1>3 DEF w

LEMMA PinnersFinite ==
    ASSUME NEW h
    PROVE  /\ IsFiniteSet(Pinners(h)) /\ Cardinality(Pinners(h)) \in Nat
           /\ \A x \in Pinners(h) : x \in Reqs /\ tx[x].hold = h /\ Cardinality(Pinners(h)) > 0
           /\ \A r \in Reqs : r \in Pinners(h) <=> Pinning(r) /\ tx[r].hold = h
<1>1. Pinners(h) \subseteq Reqs
  BY DEF Pinners, Resolutions
<1>2. IsFiniteSet(Pinners(h))
  BY <1>1, FS_Subset, ReqsAssumption
<1>3. Cardinality(Pinners(h)) \in Nat /\ (Pinners(h) # {} => Cardinality(Pinners(h)) # 0)
  BY <1>2, FS_CardinalityType, FS_EmptySet
<1>4. \A x \in Pinners(h) : x \in Reqs /\ tx[x].hold = h
  BY DEF Pinners, Resolutions
<1>5. \A r \in Reqs : r \in Pinners(h) <=> Pinning(r) /\ tx[r].hold = h
  BY DEF Pinners, Resolutions, Pinning
<1> QED
  BY <1>2, <1>3, <1>4, <1>5

\* A step moves the pin of one request, and nobody else's.
LEMMA PinsStep ==
    ASSUME TypeOK, PinInv, UNCHANGED tx, NEW r \in Reqs,
           \A q \in Reqs : q # r => (Pinning(q)' <=> Pinning(q)),
           \A g \in Holds : g # tx[r].hold => KeepsPins(overlay[g], overlay'[g]),
           overlay'[tx[r].hold].tag = "none" => overlay'[tx[r].hold].pinned = 0,
           \/ (Pinning(r)' <=> Pinning(r)) /\ overlay'[tx[r].hold].pinned = overlay[tx[r].hold].pinned
           \/ /\ Pinning(r) /\ ~Pinning(r)'
              /\ overlay[tx[r].hold].pinned > 0
                 => overlay'[tx[r].hold].pinned = overlay[tx[r].hold].pinned - 1
           \/ /\ ~Pinning(r) /\ Pinning(r)'
              /\ overlay'[tx[r].hold].pinned = overlay[tx[r].hold].pinned + 1
    PROVE  PinInv'
<1> SUFFICES ASSUME NEW g \in Holds
             PROVE  /\ overlay'[g].pinned = Cardinality(Pinners(g)')
                    /\ overlay'[g].tag = "none" => overlay'[g].pinned = 0
  BY DEF PinInv
<1>1. \A q \in Reqs : q \in Pinners(g)' <=> Pinning(q)' /\ tx[q].hold = g
  BY DEF Pinners, Resolutions, Pinning, ReadsHold
<1>2. Pinners(g)' \subseteq Reqs /\ Pinners(g) \subseteq Reqs
  BY DEF Pinners, Resolutions
<1>3. \A q \in Reqs : q \in Pinners(g) <=> Pinning(q) /\ tx[q].hold = g
  BY PinnersFinite
<1>4. overlay[g].pinned = Cardinality(Pinners(g)) /\ (overlay[g].tag = "none" => overlay[g].pinned = 0)
  BY DEF PinInv
<1>5. CASE g # tx[r].hold
  <2>1. Pinners(g)' = Pinners(g)
    BY <1>1, <1>2, <1>3, <1>5
  <2> QED
    BY <1>4, <1>5, <2>1 DEF KeepsPins
<1>6. CASE g = tx[r].hold
  <2>1. CASE (Pinning(r)' <=> Pinning(r)) /\ overlay'[g].pinned = overlay[g].pinned
    <3>1. Pinners(g)' = Pinners(g)
      BY <1>1, <1>2, <1>3, <2>1
    <3> QED
      BY <1>4, <1>6, <2>1, <3>1
  <2>2. CASE /\ Pinning(r) /\ ~Pinning(r)'
             /\ overlay[g].pinned > 0 => overlay'[g].pinned = overlay[g].pinned - 1
    <3>1. Pinners(g)' = Pinners(g) \ {r} /\ r \in Pinners(g)
      BY <1>1, <1>2, <1>3, <1>6, <2>2
    <3>2. Cardinality(Pinners(g) \ {r}) = Cardinality(Pinners(g)) - 1 /\ Cardinality(Pinners(g)) > 0
      BY <3>1, PinnersFinite, FS_RemoveElement
    <3> QED
      BY <1>4, <1>6, <2>2, <3>1, <3>2
  <2>3. CASE ~Pinning(r) /\ Pinning(r)' /\ overlay'[g].pinned = overlay[g].pinned + 1
    <3>1. Pinners(g)' = Pinners(g) \cup {r} /\ r \notin Pinners(g)
      BY <1>1, <1>2, <1>3, <1>6, <2>3
    <3>2. Cardinality(Pinners(g) \cup {r}) = Cardinality(Pinners(g)) + 1
      BY <3>1, PinnersFinite, FS_AddElement
    <3> QED
      BY <1>4, <1>6, <2>3, <3>1, <3>2
  <2> QED
    BY <1>6, <2>1, <2>2, <2>3
<1> QED
  BY <1>5, <1>6

\* No pin moves.
LEMMA PinsStay ==
    ASSUME TypeOK, PinInv, UNCHANGED tx, \A q \in Reqs : Pinning(q)' <=> Pinning(q),
           \A g \in Holds : /\ overlay'[g].pinned = overlay[g].pinned
                            /\ overlay'[g].tag = "none" => overlay'[g].pinned = 0
    PROVE  PinInv'
<1> SUFFICES ASSUME NEW g \in Holds PROVE Pinners(g)' = Pinners(g)
  BY DEF PinInv
<1>1. \A q \in Reqs : q \in Pinners(g)' <=> Pinning(q)' /\ tx[q].hold = g
  BY DEF Pinners, Resolutions, Pinning, ReadsHold
<1>2. \A q \in Reqs : q \in Pinners(g) <=> Pinning(q) /\ tx[q].hold = g
  BY PinnersFinite
<1>3. Pinners(g)' \subseteq Reqs /\ Pinners(g) \subseteq Reqs
  BY DEF Pinners, Resolutions
<1> QED
  BY <1>1, <1>2, <1>3

\* The entry of r's hold as the reply finds it: its pin is there, or has just been added.
LEMMA PinsReleased ==
    ASSUME TypeOK, PinInv, UNCHANGED tx, NEW r \in Reqs, stage[r] = "open",
           \A q \in Reqs : q # r => sent'[q] = sent[q],
           NEW dep, NEW e \in Entry, NEW found, ReleaseDep(r, dep, e, found),
           e.tag = "none" => e.pinned = 0,
           \/ sent'[r] = sent[r] /\ e.pinned = overlay[tx[r].hold].pinned
           \/ /\ "pending" \notin sent[r] /\ "pending" \in sent'[r] /\ ReadsHold(r)
              /\ e.pinned = overlay[tx[r].hold].pinned + 1
    PROVE  PinInv'
<1>1. PICK h \in Holds : h = tx[r].hold
  BY DEF TypeOK, Transfer
<1>2. overlay[h] \in Entry /\ overlay[h].pinned \in Nat /\ e.pinned \in Nat
  BY <1>1, EntryFields DEF TypeOK
<1>3. /\ \A q \in Reqs : q # r => (Pinning(q)' <=> Pinning(q))
      /\ \A q \in Reqs : ReadsHold(q)' <=> ReadsHold(q)
  BY Released DEF Pinning, ReadsHold
<1>4. \A g \in Holds : g # h => KeepsPins(overlay[g], overlay'[g])
  BY <1>1, ReleaseTells DEF KeepsPins
<1>5. Pinning(r) => overlay[h].pinned > 0
  BY <1>1, PinnersFinite DEF PinInv
<1>6. CASE stage'[r] \in {"open", "judged"} /\ KeepsPins(e, overlay'[h])
  <2>1. overlay'[h].tag = "none" => overlay'[h].pinned = 0
    BY <1>6 DEF KeepsPins
  <2>2. CASE sent'[r] = sent[r] /\ e.pinned = overlay[h].pinned
    <3>1. Pinning(r)' <=> Pinning(r)
      BY <1>3, <1>6, <2>2 DEF Pinning
    <3>2. overlay'[h].pinned = overlay[h].pinned
      BY <1>6, <2>2 DEF KeepsPins
    <3> QED
      BY <1>1, <1>3, <1>4, <2>1, <3>1, <3>2, PinsStep
  <2>3. CASE /\ "pending" \notin sent[r] /\ "pending" \in sent'[r] /\ ReadsHold(r)
             /\ e.pinned = overlay[h].pinned + 1
    <3>1. ~Pinning(r) /\ Pinning(r)'
      BY <1>3, <1>6, <2>3 DEF Pinning
    <3>2. overlay'[h].pinned = overlay[h].pinned + 1
      BY <1>6, <2>3 DEF KeepsPins
    <3> QED
      BY <1>1, <1>3, <1>4, <2>1, <3>1, <3>2, PinsStep
  <2> QED
    BY <1>1, <2>2, <2>3
<1>7. CASE stage'[r] = "done" /\ overlay'[h] = Unpinned(r, e)
  <2>1. ~Pinning(r)'
    BY <1>7 DEF Pinning
  <2>2. overlay'[h].tag = e.tag
    BY <1>7, PinsMove DEF Unpinned
  <2>3. overlay'[h].tag = "none" => overlay'[h].pinned = 0
    BY <1>2, <1>7, <2>2, PinsMove DEF Unpinned
  <2>4. CASE sent'[r] = sent[r] /\ e.pinned = overlay[h].pinned
    <3>1. ReadsHold(r) /\ "pending" \in sent[r] <=> Pinning(r)
      BY DEF Pinning
    <3>2. CASE Pinning(r)
      <4>1. overlay'[h] = Unpin(e)
        BY <1>7, <2>4, <3>1, <3>2 DEF Unpinned
      <4>2. overlay'[h].pinned = overlay[h].pinned - 1
        BY <1>5, <2>4, <3>2, <4>1, PinsMove
      <4> QED
        BY <1>1, <1>3, <1>4, <2>1, <2>3, <3>2, <4>2, PinsStep
    <3>3. CASE ~Pinning(r)
      <4>1. overlay'[h] = e
        BY <1>7, <2>4, <3>1, <3>3 DEF Unpinned
      <4> QED
        BY <1>1, <1>3, <1>4, <2>1, <2>3, <2>4, <3>3, <4>1, PinsStep
    <3> QED
      BY <3>2, <3>3
  <2>5. CASE /\ "pending" \notin sent[r] /\ "pending" \in sent'[r] /\ ReadsHold(r)
             /\ e.pinned = overlay[h].pinned + 1
    <3>1. overlay'[h] = Unpin(e) /\ ~Pinning(r)
      BY <1>7, <2>5 DEF Unpinned, Pinning
    <3>2. overlay'[h].pinned = overlay[h].pinned
      BY <1>2, <2>5, <3>1, PinsMove
    <3> QED
      BY <1>1, <1>3, <1>4, <2>1, <2>3, <3>1, <3>2, PinsStep
  <2> QED
    BY <1>1, <2>4, <2>5
<1>8. \/ stage'[r] \in {"open", "judged"} /\ KeepsPins(e, overlay'[h])
      \/ stage'[r] = "done" /\ overlay'[h] = Unpinned(r, e)
  <2>1. KeepsPins(e, e) /\ \A amount, b : KeepsPins(e, Reserve(e, amount, b))
    BY OperationsKeepPins DEF KeepsPins
  <2> QED
    BY <1>1, <2>1, ReleaseTells
<1> QED
  BY <1>6, <1>7, <1>8

\* Asking pins an entry that is then there.
LEMMA PinsAsk ==
    ASSUME TypeOK, PinInv, UNCHANGED tx, NEW r \in Reqs, Ask(r), ReadsHold(r),
           "pending" \notin sent[r], "pending" \in sent'[r], stage'[r] = "open",
           \A q \in Reqs : q # r => sent'[q] = sent[q] /\ stage'[q] = stage[q]
    PROVE  PinInv'
<1>1. PICK h \in Holds : h = tx[r].hold
  BY DEF TypeOK, Transfer
<1>2. overlay[h] \in Entry /\ overlay' = [overlay EXCEPT ![h] = Pin(BeginLookup(overlay[h]))]
      /\ overlay \in [Holds -> Entry] /\ overlay[h].pinned \in Nat
  BY <1>1, EntryFields DEF Ask, TypeOK
<1>3. overlay[h].tag = "none" => overlay[h].pinned = 0
  BY DEF PinInv
<1>4. PICK e \in Entry : e = BeginLookup(overlay[h])
  BY <1>2, PinsKeepEntry
<1>5. e.tag # "none" /\ e.pinned = overlay[h].pinned
  BY <1>2, <1>3, <1>4, OperationsKeepPins
<1>6. overlay'[h] = Pin(e) /\ \A g \in Holds : g # h => overlay'[g] = overlay[g]
  BY <1>2, <1>4
<1>7. overlay'[h].pinned = overlay[h].pinned + 1 /\ overlay'[h].tag # "none"
  BY <1>5, <1>6, PinsMove
<1>8. \A g \in Holds : g # h => KeepsPins(overlay[g], overlay'[g])
  BY <1>6 DEF KeepsPins
<1>9. ~Pinning(r) /\ Pinning(r)' /\ \A q \in Reqs : q # r => (Pinning(q)' <=> Pinning(q))
  BY DEF Pinning, ReadsHold
<1> QED
  BY <1>1, <1>7, <1>8, <1>9, PinsStep

LEMMA PinsAdmit ==
    ASSUME TypeOK, StaleInv, LifeInv, PinInv, NEW r \in Reqs, Admit(r)
    PROVE  PinInv'
<1>1. PICK h \in Holds : h = tx[r].hold
  BY DEF TypeOK, Transfer
<1>2. /\ stage[r] = "new" /\ UNCHANGED tx
      /\ AdmitRefused(r) \/ AdmitHold(r) \/ AdmitResolution(r)
  BY DEF Admit
<1>3. /\ stage \in [Reqs -> Stages] /\ sent \in [Reqs -> SUBSET Deps] /\ overlay \in [Holds -> Entry]
      /\ "pending" \notin sent[r]
  BY <1>2 DEF TypeOK, StaleInv, AskedOnce
<1>4. \A q \in Reqs : q # r => sent'[q] = sent[q] /\ stage'[q] = stage[q]
  BY <1>2, <1>3 DEF AdmitRefused, AdmitHold, AdmitResolution, Enter
<1>5. /\ ~Pinning(r) /\ \A q \in Reqs : q # r => (Pinning(q)' <=> Pinning(q))
      /\ \A q \in Reqs : ReadsHold(q)' <=> ReadsHold(q)
  BY <1>2, <1>3, <1>4 DEF Pinning, ReadsHold
<1>6. CASE ~Pinning(r)' /\ UNCHANGED overlay
  BY <1>2, <1>5, <1>6, PinsStay DEF PinInv
<1>7. CASE AdmitRefused(r) \/ AdmitHold(r)
  <2>1. ~Pinning(r)' /\ UNCHANGED overlay
    BY <1>3, <1>5, <1>7 DEF AdmitRefused, AdmitHold, Enter, Pinning
  <2> QED
    BY <1>6, <2>1
<1>8. CASE AdmitResolution(r)
  <2>1. CASE Ask(r) /\ Enter(r, Deps, Deps)
    <3>1. "pending" \in sent'[r] /\ stage'[r] = "open" /\ ReadsHold(r)
      BY <1>3, <1>8, <2>1 DEF AdmitResolution, Enter, Deps
    <3> QED
      BY <1>2, <1>3, <1>4, <2>1, <3>1, PinsAsk
  <2>2. CASE /\ Skip(r) /\ Enter(r, {"idem"}, Deps) /\ overlay' = [overlay EXCEPT ![tx[r].hold] = Pin(@)]
    <3>1. "pending" \in sent'[r] /\ stage'[r] = "open" /\ ReadsHold(r)
      BY <1>3, <1>8, <2>2 DEF AdmitResolution, Enter, Deps
    <3>2. Pinning(r)'
      BY <1>5, <3>1 DEF Pinning
    <3>3. overlay[h] \in Entry /\ overlay[h].tag # "none"
      BY <1>1, <1>3, <2>2 DEF Skip, Gone
    <3>4. overlay'[h] = Pin(overlay[h]) /\ \A g \in Holds : g # h => overlay'[g] = overlay[g]
      BY <1>1, <1>3, <2>2
    <3>5. overlay'[h].pinned = overlay[h].pinned + 1 /\ overlay'[h].tag # "none"
      BY <3>3, <3>4, PinsMove
    <3>6. \A g \in Holds : g # h => KeepsPins(overlay[g], overlay'[g])
      BY <3>4 DEF KeepsPins
    <3> QED
      BY <1>1, <1>2, <1>5, <3>2, <3>5, <3>6, PinsStep
  <2>3. CASE Enter(r, Deps, {"idem"}) /\ UNCHANGED overlay
    <3>1. ~Pinning(r)'
      BY <1>3, <2>3 DEF Enter, Pinning
    <3> QED
      BY <1>6, <2>3, <3>1
  <2> QED
    BY <1>8, <2>1, <2>2, <2>3 DEF AdmitResolution
<1> QED
  BY <1>2, <1>7, <1>8

LEMMA PinsRetry ==
    ASSUME TypeOK, StaleInv, LifeInv, ReadInv, PinInv, RetryDispatch
    PROVE  PinInv'
<1>0. PICK r : r = Head(deferred)
  OBVIOUS
<1>1. /\ deferred # <<>> /\ deferred' = Tail(deferred) /\ UNCHANGED tx
      /\ sent' = [sent EXCEPT ![r] = Deps]
      /\ \/ Ask(r) /\ UNCHANGED stage
         \/ Skip(r) /\ ReleaseDep(r, "pending", Pin(overlay[tx[r].hold]), 0)
  BY <1>0 DEF RetryDispatch
<1>2. r \in Reqs /\ Deferred(r)
  BY <1>0, <1>1, DeferredShrinks DEF StaleInv
<1>3. stage[r] = "open" /\ ReadsHold(r) /\ "pending" \notin sent[r]
  BY <1>2 DEF LifeInv, WaitInv, ReadInv, Deferred, StaleInv, AskedOnce
<1>4. "pending" \in sent'[r] /\ \A q \in Reqs : q # r => sent'[q] = sent[q]
  BY <1>1, <1>2 DEF TypeOK, Deps
<1>5. CASE Ask(r) /\ UNCHANGED stage
  BY <1>1, <1>2, <1>3, <1>4, <1>5, PinsAsk
<1>6. CASE Skip(r) /\ ReleaseDep(r, "pending", Pin(overlay[tx[r].hold]), 0)
  <2>1. overlay[tx[r].hold] \in Entry /\ overlay[tx[r].hold].tag # "none"
    BY <1>2, <1>6 DEF TypeOK, Transfer, Skip, Gone
  <2>2. PICK e \in Entry : e = Pin(overlay[tx[r].hold])
    BY <2>1, PinsKeepEntry
  <2>3. e.pinned = overlay[tx[r].hold].pinned + 1 /\ e.tag # "none"
    BY <2>1, <2>2, PinsMove
  <2> QED
    BY <1>1, <1>2, <1>3, <1>4, <1>6, <2>2, <2>3, PinsReleased
<1> QED
  BY <1>1, <1>5, <1>6

LEMMA PinsAnswers ==
    ASSUME TypeOK, LifeInv, PinInv,
           (\E r \in Reqs : IdemAnswer(r)) \/ (\E a \in answers : PendingAnswer(a))
    PROVE  PinInv'
<1>1. CASE \E r \in Reqs : IdemAnswer(r)
  <2>1. PICK r \in Reqs : IdemAnswer(r)
    BY <1>1
  <2>2. /\ stage[r] = "open" /\ ReleaseDep(r, "idem", overlay[tx[r].hold], record[r])
        /\ UNCHANGED <<tx, sent>> /\ tx[r].hold \in Holds
    BY <2>1 DEF IdemAnswer, TypeOK, Transfer
  <2>3. overlay[tx[r].hold] \in Entry /\ (overlay[tx[r].hold].tag = "none" => overlay[tx[r].hold].pinned = 0)
    BY <2>2 DEF TypeOK, PinInv
  <2> QED
    BY <2>2, <2>3, PinsReleased
<1>2. CASE \E a \in answers : PendingAnswer(a)
  <2>1. PICK a \in answers : PendingAnswer(a)
    BY <1>2
  <2>2. /\ ReleaseDep(a.req, "pending", AdmitLookup(overlay[tx[a.req].hold], a.found), a.found)
        /\ UNCHANGED <<tx, sent>>
    BY <2>1 DEF PendingAnswer
  <2>3. a.req \in Reqs /\ Asks(a.req) /\ a.found \in Nat /\ tx[a.req].hold \in Holds
    BY DEF TypeOK, Answer, Asks, Transfer
  <2>4. stage[a.req] = "open"
    BY <2>3 DEF LifeInv, WaitInv
  <2>5. overlay[tx[a.req].hold] \in Entry
        /\ (overlay[tx[a.req].hold].tag = "none" => overlay[tx[a.req].hold].pinned = 0)
    BY <2>3 DEF TypeOK, PinInv
  <2>6. PICK e \in Entry : e = AdmitLookup(overlay[tx[a.req].hold], a.found)
    BY <2>3, <2>5, AnswersKeepEntry
  <2>7. KeepsPins(overlay[tx[a.req].hold], e)
    BY <2>5, <2>6, OperationsKeepPins
  <2> QED
    BY <2>2, <2>3, <2>4, <2>5, <2>6, <2>7, PinsReleased DEF KeepsPins
<1> QED
  BY <1>1, <1>2

\* The batch's first request is decided: what the write or the rollback makes of the entry
\* keeps its pins, and its own is returned.
LEMMA PinsDecided ==
    ASSUME TypeOK, PinInv, UNCHANGED <<tx, sent>>, NEW r \in Reqs, stage[r] = "judged",
           stage' = [stage EXCEPT ![r] = "done"], NEW e \in Entry,
           KeepsPins(overlay[tx[r].hold], e),
           overlay' = [overlay EXCEPT ![tx[r].hold] = Unpinned(r, e)]
    PROVE  PinInv'
<1>1. PICK h \in Holds : h = tx[r].hold
  BY DEF TypeOK, Transfer
<1>2. /\ overlay[h] \in Entry /\ overlay[h].pinned \in Nat /\ overlay \in [Holds -> Entry]
      /\ e.pinned = overlay[h].pinned
  BY <1>1, EntryFields DEF TypeOK, KeepsPins
<1>3. /\ ~Pinning(r)' /\ \A q \in Reqs : q # r => (Pinning(q)' <=> Pinning(q))
  BY DEF Pinning, ReadsHold, TypeOK
<1>4. overlay'[h] = Unpinned(r, e) /\ \A g \in Holds : g # h => KeepsPins(overlay[g], overlay'[g])
  BY <1>1, <1>2 DEF KeepsPins
<1>5. ReadsHold(r) /\ "pending" \in sent[r] <=> Pinning(r)
  BY DEF Pinning
<1>6. Pinning(r) => overlay[h].pinned > 0
  BY <1>1, PinnersFinite DEF PinInv
<1>7. Unpinned(r, e) = IF Pinning(r) THEN Unpin(e) ELSE e
  BY <1>5 DEF Unpinned
<1>8. overlay'[h].tag = e.tag /\ (e.tag = "none" => overlay[h].tag = "none")
  BY <1>1, <1>4, <1>7, PinsMove DEF KeepsPins
<1>9. overlay[h].tag = "none" => overlay[h].pinned = 0
  BY DEF PinInv
<1>10. CASE Pinning(r)
  <2>1. overlay'[h].pinned = overlay[h].pinned - 1
    BY <1>2, <1>4, <1>6, <1>7, <1>10, PinsMove
  <2>2. overlay'[h].tag # "none"
    BY <1>6, <1>8, <1>9, <1>10
  <2> QED
    BY <1>1, <1>3, <1>4, <1>10, <2>1, <2>2, PinsStep
<1>11. CASE ~Pinning(r)
  <2>1. overlay'[h].pinned = overlay[h].pinned /\ (overlay'[h].tag = "none" => overlay'[h].pinned = 0)
    BY <1>2, <1>4, <1>7, <1>8, <1>9, <1>11
  <2> QED
    BY <1>1, <1>3, <1>4, <1>11, <2>1, PinsStep
<1> QED
  BY <1>10, <1>11

LEMMA HeadJudged ==
    ASSUME TypeOK, LifeInv, applying.batch # <<>>, NEW r, r = Head(applying.batch)
    PROVE  r \in Reqs /\ stage[r] = "judged"
<1>1. applying.batch \in Seq(Reqs)
  BY DEF TypeOK
<1>2. r \in Reqs /\ r = applying.batch[1] /\ 1 \in 1..Len(applying.batch)
  BY <1>1
<1> QED
  BY <1>2 DEF LifeInv, BatchInv, ApplyingInv

\* The three things ApplyEffect comes to: the decision goes to the engine, joins the
\* backlog, or is refused by the accounts.  e is the entry with the reservation given back.
Handing(r, e) ==
    /\ writes = <<>> /\ UNCHANGED writes /\ applies_sent' = applies_sent + 1
    /\ cmdq' = Append(cmdq, PendingEffect(r))
    /\ overlay' = [overlay EXCEPT ![tx[r].hold] = Unpinned(r, Sent(PendingEffect(r), e))]
Backlogging(r, e) ==
    /\ writes' = Append(writes, r) /\ UNCHANGED <<cmdq, applies_sent>>
    /\ overlay' = [overlay EXCEPT ![tx[r].hold] = Unpinned(r, e)]
\* The entry with nothing but its reservation changed.
Returned(e, f) == e.tag = f.tag /\ e.pinned = f.pinned /\ (~Live(f) => e = f)

LEMMA ApplyTells ==
    ASSUME TypeOK, LifeInv, ApplyEffect
    PROVE  /\ UNCHANGED <<deferred, answers, fetches, store, applied, published>>
           /\ \/ \E r \in Reqs, e \in Entry :
                    /\ stage[r] = "judged" /\ Finish(r, "committed")
                    /\ Returned(e, overlay[tx[r].hold])
                    /\ Handing(r, e) \/ Backlogging(r, e)
              \/ UNCHANGED <<reqVars, overlay, writes, applies_sent, cmdq>>
<1>0. PICK r : r = Head(applying.batch)
  OBVIOUS
<1>1. /\ applying.batch # <<>> /\ UNCHANGED <<deferred, answers, fetches, store, applied, published>>
  BY DEF ApplyEffect, engineVars
<1>2. r \in Reqs /\ stage[r] = "judged"
  BY <1>0, <1>1, HeadJudged
<1>3. PICK h \in Holds : h = tx[r].hold
  BY <1>2 DEF TypeOK, Transfer
<1>4. PICK e : e = IF ReadsHold(r) THEN ReleaseReservation(overlay[h], effect[r].amount) ELSE overlay[h]
  OBVIOUS
<1>5. \/ Finish(r, "committed") /\ Write(r, e)
      \/ UNCHANGED <<reqVars, overlay, writes, applies_sent, cmdq>>
  BY <1>0, <1>3, <1>4 DEF ApplyEffect
<1>6. overlay[h] \in Entry /\ effect[r].amount \in Nat
  BY <1>2 DEF TypeOK
<1>7. e \in Entry /\ Returned(e, overlay[h])
  <2>1. ReleaseReservation(overlay[h], effect[r].amount) \in Entry
    <3>1. effect[r].amount \in Int /\ TRUE \in BOOLEAN
      BY <1>6
    <3> QED
      BY <1>6, <3>1, ReservationsKeepEntry
  <2>2. Returned(ReleaseReservation(overlay[h], effect[r].amount), overlay[h])
    BY DEF Returned, ReleaseReservation, Live, Hold
  <2>3. Returned(overlay[h], overlay[h])
    BY DEF Returned
  <2> QED
    BY <1>4, <1>6, <2>1, <2>2, <2>3
<1>8. Write(r, e) => Handing(r, e) \/ Backlogging(r, e)
  BY DEF Write, Handing, Backlogging
<1> QED
  BY <1>1, <1>2, <1>3, <1>5, <1>7, <1>8

LEMMA PinsApply ==
    ASSUME TypeOK, LifeInv, PinInv, ApplyEffect
    PROVE  PinInv'
<1>1. CASE \E r \in Reqs, e \in Entry :
              /\ stage[r] = "judged" /\ Finish(r, "committed") /\ Returned(e, overlay[tx[r].hold])
              /\ Handing(r, e) \/ Backlogging(r, e)
  <2>1. PICK r \in Reqs, e \in Entry :
              /\ stage[r] = "judged" /\ Finish(r, "committed") /\ Returned(e, overlay[tx[r].hold])
              /\ Handing(r, e) \/ Backlogging(r, e)
    BY <1>1
  <2>2. UNCHANGED <<tx, sent>> /\ stage' = [stage EXCEPT ![r] = "done"]
    BY <2>1 DEF Finish
  <2>3. KeepsPins(overlay[tx[r].hold], e)
    BY <2>1 DEF Returned, KeepsPins
  <2>4. PICK s \in Entry : s = Sent(PendingEffect(r), e)
    BY PendingEffectType, SentType
  <2>5. KeepsPins(overlay[tx[r].hold], s)
    BY <2>3, <2>4, SentKeepsPins DEF KeepsPins
  <2>6. CASE Handing(r, e)
    BY <2>1, <2>2, <2>4, <2>5, <2>6, PinsDecided DEF Handing
  <2>7. CASE Backlogging(r, e)
    BY <2>1, <2>2, <2>3, <2>7, PinsDecided DEF Backlogging
  <2> QED
    BY <2>1, <2>6, <2>7
<1>2. CASE UNCHANGED <<reqVars, overlay, writes, applies_sent, cmdq>>
  <2>1. UNCHANGED <<tx, sent, stage, overlay>>
    BY <1>2 DEF reqVars
  <2>2. \A q \in Reqs : Pinning(q)' <=> Pinning(q)
    BY <2>1 DEF Pinning, ReadsHold
  <2> QED
    BY <2>1, <2>2, PinsStay DEF PinInv
<1> QED
  BY <1>1, <1>2, ApplyTells

LEMMA PinsRollBack ==
    ASSUME TypeOK, LifeInv, PinInv, RollBackEffect
    PROVE  PinInv'
<1>0. PICK r : r = Head(applying.batch)
  OBVIOUS
<1>1. r \in Reqs /\ stage[r] = "judged"
  BY <1>0, HeadJudged DEF RollBackEffect
<1>2. PICK h \in Holds : h = tx[r].hold
  BY <1>1 DEF TypeOK, Transfer
<1>3. PICK e : e = IF ReadsHold(r) THEN Compensate(overlay[h], effect[r].amount, effect[r].left = 0)
                   ELSE overlay[h]
  OBVIOUS
<1>4. /\ UNCHANGED <<tx, sent>> /\ stage' = [stage EXCEPT ![r] = "done"]
      /\ overlay' = [overlay EXCEPT ![h] =
           IF ReadsHold(r)
           THEN Unpinned(r, Compensate(@, effect[r].amount, effect[r].left = 0)) ELSE @]
  BY <1>0, <1>2 DEF RollBackEffect, Finish
<1>5. overlay' = [overlay EXCEPT ![h] = Unpinned(r, e)]
  BY <1>3, <1>4 DEF Unpinned
<1>6. overlay[h] \in Entry /\ effect[r].amount \in Nat
  BY <1>1 DEF TypeOK
<1>7. e \in Entry
  <2>1. effect[r].amount \in Int /\ (effect[r].left = 0) \in BOOLEAN
    BY <1>6
  <2>2. Compensate(overlay[h], effect[r].amount, effect[r].left = 0) \in Entry
    BY <1>6, <2>1, ReservationsKeepEntry
  <2> QED
    BY <1>3, <1>6, <2>2
<1>8. KeepsPins(overlay[h], e)
  BY <1>3, <1>6, OperationsKeepPins DEF KeepsPins
<1> QED
  BY <1>1, <1>2, <1>4, <1>5, <1>7, <1>8, PinsDecided

LEMMA PinsFlush ==
    ASSUME TypeOK, PinInv, FlushWrite
    PROVE  PinInv'
<1>0. PICK r : r = Head(writes)
  OBVIOUS
<1>1. r \in Reqs
  BY <1>0 DEF FlushWrite, TypeOK
<1>2. PICK h \in Holds : h = tx[r].hold
  BY <1>1 DEF TypeOK, Transfer
<1>3. /\ UNCHANGED <<tx, sent, stage>>
      /\ overlay' = [overlay EXCEPT ![h] = Sent(PendingEffect(r), overlay[h])]
  BY <1>0, <1>2 DEF FlushWrite, reqVars
<1>4. overlay \in [Holds -> Entry] /\ KeepsPins(overlay[h], Sent(PendingEffect(r), overlay[h]))
  BY <1>1, SentKeepsPins DEF TypeOK
<1>5. \A g \in Holds : KeepsPins(overlay[g], overlay'[g])
  BY <1>3, <1>4 DEF KeepsPins
<1>6. \A q \in Reqs : Pinning(q)' <=> Pinning(q)
  BY <1>3 DEF Pinning, ReadsHold
<1> QED
  BY <1>3, <1>5, <1>6, PinsStay DEF PinInv, KeepsPins

LEMMA PinsElsewhere ==
    ASSUME TypeOK, PinInv, Propose \/ StartApply \/ EvictIdle \/ Engine \/ UNCHANGED vars
    PROVE  PinInv'
<1>1. UNCHANGED <<tx, sent, stage>>
  BY DEF Propose, StartApply, EvictIdle, Engine, EngineApply, EngineLookup, Harvest, Publish,
     vars, reqVars
<1>2. \A q \in Reqs : Pinning(q)' <=> Pinning(q)
  BY <1>1 DEF Pinning, ReadsHold
<1>3. CASE EvictIdle
  <2>1. \A g \in Holds : overlay'[g] = overlay[g] \/ (overlay'[g] = NoEntry /\ Idle(overlay[g], published))
    BY <1>3 DEF EvictIdle
  <2>2. \A g \in Holds : /\ overlay'[g].pinned = overlay[g].pinned
                         /\ overlay'[g].tag = "none" => overlay'[g].pinned = 0
    BY <2>1 DEF Idle, NoEntry, Bare, PinInv
  <2> QED
    BY <1>1, <1>2, <2>2, PinsStay
<1>4. CASE UNCHANGED overlay
  BY <1>1, <1>2, <1>4, PinsStay DEF PinInv
<1> QED
  BY <1>3, <1>4 DEF Propose, StartApply, Engine, EngineApply, EngineLookup, Harvest, Publish, vars, chanVars

LEMMA PinsInit ==
    ASSUME Init
    PROVE  PinInv
<1>1. \A h : Pinners(h) = {}
  BY DEF Init, Pinners, Resolutions
<1> QED
  BY <1>1, FS_EmptySet DEF PinInv, Init, NoEntry, Bare

LEMMA PinsNext ==
    ASSUME TypeOK, StaleInv, LifeInv, ReadInv, PinInv, [Next]_vars
    PROVE  PinInv'
  BY PinsAdmit, PinsRetry, PinsAnswers, PinsApply, PinsRollBack, PinsFlush, PinsElsewhere
     DEF Next, Drain

LEMMA PinsAreMatched ==
    ASSUME PinInv
    PROVE  PinsMatch
  BY PinnersFinite, FS_EmptySet DEF PinInv, PinsMatch

-----------------------------------------------------------------------------
(***************************************************************************)
(* What is known of a hold.  Its creation is handed over first; from then  *)
(* on the engine has it, or will before it takes any question that came    *)
(* after, until a resolution has taken all of it, and the marker of its    *)
(* removal stays for as long as an answer may still show it.               *)
(***************************************************************************)
Backlogged(r) == \E i \in 1..Len(writes) : writes[i] = r

\* The creation of h has been given to the engine.
Handed(h) == \E r \in Reqs : /\ tx[r].kind = "hold" /\ tx[r].hold = h
                             /\ outcome[r] = "committed" /\ ~Backlogged(r)

\* A committed resolution has taken all of the hold.
Resolved(h) == \E q \in Resolutions(h) : outcome[q] = "committed" /\ effect[q].left = 0

\* The engine has the hold, or will before it takes the command at n.
Reaches(h, n) == \/ store[h] > 0
                 \/ \E j \in 1..(n - 1) : cmdq[j].op = "create" /\ tx[cmdq[j].req].hold = h

\* Whose answer must show the hold: a request that saw it acknowledged, and any while the
\* overlay waits for what the engine says of a hold already handed over.
Owed(r) == saw[r] \/ (Handed(tx[r].hold) /\ overlay[tx[r].hold].tag = "watched")

\* The records on their way back.
Replies == answers \cup fetches

\* A decision is committed, and in the backlog once.
WrittenInv ==
    /\ \A i \in 1..Len(writes) : outcome[writes[i]] = "committed"
    /\ \A i, j \in 1..Len(writes) : writes[i] = writes[j] => i = j

\* A hold has one creation, which reserves all of it; only a removal leaves nothing.
CreatedInv ==
    /\ WellFormed(tx)
    /\ \A r \in Reqs : ~ReadsHold(r) /\ (stage[r] = "judged" \/ outcome[r] = "committed")
                       => effect[r].amount = HoldAmount
    /\ \A i \in 1..Len(cmdq) : cmdq[i].op \in {"create", "reduce"} => cmdq[i].left > 0

\* Nobody knows of a hold before its creation was handed over.
KnownInv ==
    /\ \A i \in 1..Len(cmdq) : cmdq[i].op # "lookup" => Handed(tx[cmdq[i].req].hold)
    /\ \A h \in Holds : store[h] > 0 => Handed(h)
    /\ \A h \in Holds : overlay[h].tag \in {"decided", "removed"} => Handed(h)
    /\ \A a \in Replies : a.found > 0 => Handed(tx[a.req].hold)
    /\ \A r \in Reqs : ReadsHold(r) /\ (record[r] > 0 \/ stage[r] = "judged" \/ outcome[r] = "committed")
                       => Handed(tx[r].hold)

\* A removal the engine has not applied is marked, past what was published.
MarkInv ==
    /\ published <= applied
    /\ \A i \in 1..Len(cmdq) : cmdq[i].op = "remove" =>
          /\ overlay[tx[cmdq[i].req].hold].tag = "removed"
          /\ overlay[tx[cmdq[i].req].hold].safe_after >= cmdq[i].n

\* An answer that still shows a hold the queue ends meets the marker.
ReviveInv ==
    \A a \in Replies :
       a.found > 0 /\ EndsWith(cmdq, Of(tx[a.req].hold), store[tx[a.req].hold], 0)
       => overlay[tx[a.req].hold].tag = "removed"

\* Who is told that a hold is not there is told the truth.
ToldInv ==
    /\ \A r \in Reqs : saw[r] => Acknowledged(tx[r].hold)
    /\ \A h \in Holds : overlay[h].tag = "removed" => Resolved(h)
    /\ \A h \in Holds : overlay[h].tag = "missing" /\ Handed(h) => Resolved(h)
    /\ \A r \in Reqs : /\ stage[r] = "open" /\ ReadsHold(r) /\ "pending" \notin deps[r]
                       /\ record[r] = 0 /\ saw[r]
                       => Resolved(tx[r].hold)
    /\ \A r \in Reqs : saw[r] /\ outcome[r] = "not_found" => Resolved(tx[r].hold)

\* What is on its way to the engine and back shows the hold to whom it is owed.
ShownInv ==
    /\ \A i \in 1..Len(cmdq) : cmdq[i].op = "remove" => Resolved(tx[cmdq[i].req].hold)
    /\ \A h \in Holds : Handed(h) => Resolved(h) \/ Reaches(h, Len(cmdq) + 1)
    /\ \A i \in 1..Len(cmdq) : cmdq[i].op = "lookup" /\ Owed(cmdq[i].req)
          => Resolved(tx[cmdq[i].req].hold) \/ Reaches(tx[cmdq[i].req].hold, i)
    /\ \A a \in Replies : a.found = 0 /\ Owed(a.req) => Resolved(tx[a.req].hold)

SeenInv == KnownInv /\ MarkInv /\ ReviveInv /\ ToldInv /\ ShownInv

-----------------------------------------------------------------------------
\* Runs through a queue, backwards: from its end, and from its head.
LEMMA EndsAppended ==
    ASSUME NEW S, NEW q \in Seq(S), NEW c \in S, NEW own, NEW base, NEW left,
           EndsWith(Append(q, c), own, base, left)
    PROVE  \E before : EndsWith(q, own, base, before) /\ left = Turned(c, own, before)
<1> DEFINE n == Len(q)
           p == Append(q, c)
<1>1. PICK f : Runs(p, own, base, f) /\ f[Len(p)] = left
  BY DEF EndsWith
<1>2. /\ n \in Nat /\ Len(p) = n + 1 /\ p[n + 1] = c /\ \A i \in 1..n : p[i] = q[i]
  OBVIOUS
<1> HIDE DEF p, n
<1>3. n + 1 \in 1..Len(p) /\ (n + 1) - 1 = n /\ \A i \in 1..n : i \in 1..Len(p)
  BY <1>2
<1>4. left = Turned(c, own, f[n])
  BY <1>1, <1>2, <1>3 DEF Runs
<1>5. Runs(q, own, base, f)
  BY <1>1, <1>2, <1>3 DEF Runs, n
<1> QED
  BY <1>4, <1>5 DEF EndsWith, n

LEMMA EndsBefore ==
    ASSUME NEW S, NEW q \in Seq(S), q # <<>>, NEW own, NEW base, NEW left,
           EndsWith(Tail(q), own, Turned(q[1], own, base), left)
    PROVE  EndsWith(q, own, base, left)
<1> DEFINE n == Len(q)
           p == Tail(q)
<1>1. PICK f : Runs(p, own, Turned(q[1], own, base), f) /\ f[Len(p)] = left
  BY DEF EndsWith
<1>2. /\ n \in Nat /\ n # 0 /\ Len(p) = n - 1 /\ \A i \in 1..Len(p) : p[i] = q[i + 1]
  BY HeadTailProperties
<1> DEFINE g == [i \in 0..n |-> IF i = 0 THEN base ELSE f[i - 1]]
<1>3. g[0] = base /\ \A i \in 1..n : g[i] = f[i - 1]
  BY <1>2
<1> HIDE DEF g, p, n
<1>4. ASSUME NEW i \in 1..n PROVE g[i] = Turned(q[i], own, g[i - 1])
  <2>1. CASE i = 1
    <3>1. g[1] = f[0] /\ g[0] = base /\ i - 1 = 0
      BY <1>2, <1>3, <2>1
    <3>2. f[0] = Turned(q[1], own, base)
      BY <1>1 DEF Runs
    <3> QED
      BY <2>1, <3>1, <3>2
  <2>2. CASE i # 1
    <3>1. i - 1 \in 1..Len(p) /\ (i - 1) + 1 = i /\ i - 1 \in 1..n
      BY <1>2, <2>2
    <3>2. f[i - 1] = Turned(p[i - 1], own, f[(i - 1) - 1])
      BY <1>1, <3>1 DEF Runs
    <3>3. g[i] = f[i - 1] /\ g[i - 1] = f[(i - 1) - 1] /\ p[i - 1] = q[i]
      BY <1>2, <1>3, <3>1
    <3> QED
      BY <3>2, <3>3
  <2> QED
    BY <2>1, <2>2
<1>5. g[n] = left
  <2>1. n \in 1..n /\ n - 1 = Len(p)
    BY <1>2
  <2> QED
    BY <1>1, <1>3, <2>1
<1>6. Runs(q, own, base, g)
  BY <1>3, <1>4 DEF Runs, n
<1> QED
  BY <1>5, <1>6 DEF EndsWith, n

LEMMA TurnedType ==
    ASSUME NEW c \in Command, NEW own, NEW left \in Nat
    PROVE  Turned(c, own, left) \in Nat
  BY DEF Turned, Stored, Command

\* What a queue leaves of a hold is a number, and nothing only after a removal.
LEMMA EndsType ==
    ASSUME NEW q \in Seq(Command), NEW own, NEW base \in Nat, NEW left,
           EndsWith(q, own, base, left)
    PROVE  left \in Nat
<1>1. PICK f : Runs(q, own, base, f) /\ f[Len(q)] = left
  BY DEF EndsWith
<1> DEFINE T == {k \in Nat : k <= Len(q) => f[k] \in Nat}
<1>2. 0 \in T
  BY <1>1 DEF Runs
<1>3. ASSUME NEW k \in Nat, k \in T PROVE k + 1 \in T
  <2>1. CASE k + 1 <= Len(q)
    <3>1. k + 1 \in 1..Len(q) /\ (k + 1) - 1 = k /\ f[k] \in Nat
      BY <1>3, <2>1
    <3>2. f[k + 1] = Turned(q[k + 1], own, f[k]) /\ q[k + 1] \in Command
      BY <1>1, <3>1 DEF Runs
    <3> QED
      BY <3>1, <3>2, TurnedType
  <2> QED
    BY <2>1
<1> HIDE DEF T
<1>4. Nat \subseteq T
  BY <1>2, <1>3, P!SetInduction
<1> QED
  BY <1>1, <1>4 DEF T

LEMMA OnlyRemovalsEnd ==
    ASSUME NEW q \in Seq(Command), NEW own, NEW base \in Nat, base > 0,
           \A i \in 1..Len(q) : q[i].op \in {"create", "reduce"} => q[i].left > 0,
           EndsWith(q, own, base, 0)
    PROVE  \E i \in 1..Len(q) : q[i].op = "remove" /\ q[i].req \in own
<1> SUFFICES ASSUME \A i \in 1..Len(q) : q[i].op = "remove" => q[i].req \notin own
             PROVE  FALSE
  OBVIOUS
<1>1. PICK f : Runs(q, own, base, f) /\ f[Len(q)] = 0
  BY DEF EndsWith
<1> DEFINE T == {k \in Nat : k <= Len(q) => f[k] \in Nat /\ f[k] > 0}
<1>2. 0 \in T
  BY <1>1 DEF Runs
<1>3. ASSUME NEW k \in Nat, k \in T PROVE k + 1 \in T
  <2>1. CASE k + 1 <= Len(q)
    <3>1. k + 1 \in 1..Len(q) /\ (k + 1) - 1 = k /\ f[k] \in Nat /\ f[k] > 0
      BY <1>3, <2>1
    <3>2. f[k + 1] = Turned(q[k + 1], own, f[k]) /\ q[k + 1] \in Command
      BY <1>1, <3>1 DEF Runs
    <3>3. f[k + 1] \in Nat
      BY <3>1, <3>2, TurnedType
    <3>4. f[k + 1] > 0
      BY <3>1, <3>2 DEF Turned, Stored, Command
    <3> QED
      BY <3>3, <3>4
  <2> QED
    BY <2>1
<1> HIDE DEF T
<1>4. Nat \subseteq T
  BY <1>2, <1>3, P!SetInduction
<1> QED
  BY <1>1, <1>4 DEF T

-----------------------------------------------------------------------------
(***************************************************************************)
(* How far one step takes a request, the queue and the backlog.            *)
(***************************************************************************)
Moved(q) ==
    \/ stage'[q] = stage[q] /\ outcome'[q] = outcome[q] /\ effect'[q] = effect[q]
    \/ /\ stage[q] = "new" /\ stage'[q] \in {"open", "done"} /\ effect'[q] = effect[q]
       /\ outcome'[q] \notin {"committed", "not_found"}
    \/ /\ stage[q] = "open" /\ stage'[q] = "judged" /\ outcome'[q] = outcome[q]
       /\ ~ReadsHold(q) => effect'[q].amount = tx[q].amount
    \/ /\ stage[q] = "open" /\ stage'[q] = "done" /\ effect'[q] = effect[q]
       /\ outcome'[q] # "committed"
    \/ /\ stage[q] = "judged" /\ stage'[q] = "done" /\ effect'[q] = effect[q]
       /\ outcome'[q] \in {"committed", "failed"}

LEMMA MovesReleased ==
    ASSUME TypeOK, NEW r \in Reqs, stage[r] = "open", NEW dep, NEW e, NEW found,
           ReleaseDep(r, dep, e, found)
    PROVE  \A q \in Reqs : Moved(q)
<1>1. \A q \in Reqs : q # r => Moved(q)
  BY Released, ReleaseTells DEF Moved
<1>2. Verdict(r, e, found) # "committed"
  BY DEF Verdict
<1>3. ~ReadsHold(r) => Effect(r, e, found).amount = tx[r].amount
  BY DEF Effect
<1>4. Moved(r)
  BY <1>2, <1>3, ReleaseTells DEF Moved
<1> QED
  BY <1>1, <1>4

LEMMA MovesAdmit ==
    ASSUME TypeOK, ReadInv, NEW r \in Reqs, Admit(r)
    PROVE  UNCHANGED tx /\ \A q \in Reqs : Moved(q)
<1>1. /\ stage[r] = "new" /\ UNCHANGED <<tx, effect>> /\ outcome[r] = "none"
      /\ AdmitRefused(r) \/ AdmitHold(r) \/ AdmitResolution(r)
  BY DEF Admit, ReadInv
<1>2. stage \in [Reqs -> Stages] /\ outcome \in [Reqs -> Outcomes]
  BY DEF TypeOK
<1>3. \A q \in Reqs : q # r => stage'[q] = stage[q] /\ outcome'[q] = outcome[q]
  BY <1>1, <1>2 DEF AdmitRefused, AdmitHold, AdmitResolution, Enter
<1>4. \/ stage'[r] = "open" /\ outcome'[r] = "none"
      \/ stage'[r] = "done" /\ outcome'[r] \in {"fail_stop", "quarantined"}
  BY <1>1, <1>2 DEF AdmitRefused, AdmitHold, AdmitResolution, Enter
<1> QED
  BY <1>1, <1>3, <1>4 DEF Moved

LEMMA MovesDecided ==
    ASSUME TypeOK, LifeInv, ApplyEffect \/ RollBackEffect
    PROVE  UNCHANGED tx /\ \A q \in Reqs : Moved(q)
<1>0. PICK r : r = Head(applying.batch)
  OBVIOUS
<1>1. r \in Reqs /\ stage[r] = "judged"
  BY <1>0, HeadJudged DEF ApplyEffect, RollBackEffect
<1>2. \/ Finish(r, "committed") \/ Finish(r, "failed") \/ UNCHANGED <<tx, stage, outcome, effect>>
  BY <1>0 DEF ApplyEffect, RollBackEffect, reqVars
<1>3. CASE UNCHANGED <<tx, stage, outcome, effect>>
  BY <1>3 DEF Moved
<1>4. CASE Finish(r, "committed") \/ Finish(r, "failed")
  <2>1. UNCHANGED <<tx, effect>> /\ stage \in [Reqs -> Stages] /\ outcome \in [Reqs -> Outcomes]
    BY <1>4 DEF Finish, TypeOK
  <2>2. /\ stage'[r] = "done" /\ outcome'[r] \in {"committed", "failed"}
        /\ \A q \in Reqs : q # r => stage'[q] = stage[q] /\ outcome'[q] = outcome[q]
    BY <1>1, <1>4, <2>1 DEF Finish
  <2> QED
    BY <1>1, <2>1, <2>2 DEF Moved
<1> QED
  BY <1>2, <1>3, <1>4

LEMMA Moves ==
    ASSUME TypeOK, StaleInv, LifeInv, ReadInv, [Next]_vars
    PROVE  UNCHANGED tx /\ \A q \in Reqs : Moved(q)
<1>1. CASE \E r \in Reqs : Admit(r)
  BY <1>1, MovesAdmit
<1>2. CASE RetryDispatch
  <2>0. PICK r : r = Head(deferred)
    OBVIOUS
  <2>1. /\ deferred # <<>> /\ deferred' = Tail(deferred) /\ UNCHANGED tx
        /\ \/ UNCHANGED <<stage, outcome, effect>>
           \/ ReleaseDep(r, "pending", Pin(overlay[tx[r].hold]), 0)
    BY <1>2, <2>0 DEF RetryDispatch
  <2>2. r \in Reqs /\ Deferred(r)
    BY <2>0, <2>1, DeferredShrinks DEF StaleInv
  <2>3. stage[r] = "open"
    BY <2>2 DEF LifeInv, WaitInv
  <2>4. UNCHANGED <<stage, outcome, effect>> => \A q \in Reqs : Moved(q)
    BY DEF Moved
  <2> QED
    BY <2>1, <2>2, <2>3, <2>4, MovesReleased
<1>3. CASE \E r \in Reqs : IdemAnswer(r)
  <2>1. PICK r \in Reqs : IdemAnswer(r)
    BY <1>3
  <2>2. /\ stage[r] = "open" /\ UNCHANGED tx
        /\ ReleaseDep(r, "idem", overlay[tx[r].hold], record[r])
    BY <2>1 DEF IdemAnswer
  <2> QED
    BY <2>2, MovesReleased
<1>4. CASE \E a \in answers : PendingAnswer(a)
  <2>1. PICK a \in answers : PendingAnswer(a)
    BY <1>4
  <2>2. /\ ReleaseDep(a.req, "pending", AdmitLookup(overlay[tx[a.req].hold], a.found), a.found)
        /\ UNCHANGED tx
    BY <2>1 DEF PendingAnswer
  <2>3. a.req \in Reqs /\ Asks(a.req)
    BY DEF TypeOK, Answer, Asks
  <2>4. stage[a.req] = "open"
    BY <2>3 DEF LifeInv, WaitInv
  <2> QED
    BY <2>2, <2>3, <2>4, MovesReleased
<1>5. CASE ApplyEffect \/ RollBackEffect
  BY <1>5, MovesDecided
<1>6. CASE FlushWrite \/ Propose \/ StartApply \/ EvictIdle \/ Engine \/ UNCHANGED vars
  <2>1. UNCHANGED <<tx, stage, outcome, effect>>
    BY <1>6 DEF FlushWrite, Propose, StartApply, EvictIdle, Engine, EngineApply, EngineLookup, Harvest,
       Publish, vars, reqVars
  <2> QED
    BY <2>1 DEF Moved
<1> QED
  BY <1>1, <1>2, <1>3, <1>4, <1>5, <1>6 DEF Next, Drain

\* What was decided stays decided.
LEMMA CommittedStays ==
    ASSUME TypeOK, StaleInv, LifeInv, ReadInv, [Next]_vars
    PROVE  \A q \in Reqs : outcome[q] = "committed" =>
              outcome'[q] = "committed" /\ effect'[q] = effect[q] /\ stage[q] = "done" /\ stage'[q] = "done"
<1> SUFFICES ASSUME NEW q \in Reqs, outcome[q] = "committed"
             PROVE  outcome'[q] = "committed" /\ effect'[q] = effect[q] /\ stage[q] = "done" /\ stage'[q] = "done"
  OBVIOUS
<1>1. stage[q] = "done"
  BY DEF ReadInv
<1>2. Moved(q)
  BY Moves
<1> QED
  BY <1>1, <1>2 DEF Moved

\* The four things a step does to the queue.
LEMMA QueueMoves ==
    ASSUME TypeOK, StaleInv, LifeInv, [Next]_vars
    PROVE  \/ UNCHANGED cmdq
           \/ cmdq # <<>> /\ cmdq' = Tail(cmdq)
           \/ \E w \in Command : w.op = "lookup" /\ cmdq' = Append(cmdq, w)
           \/ \E r \in Reqs : /\ cmdq' = Append(cmdq, PendingEffect(r))
                              /\ stage[r] = "judged" \/ Backlogged(r)
<1>1. \A r \in Reqs : Ask(r) => \E w \in Command : w.op = "lookup" /\ cmdq' = Append(cmdq, w)
  BY DEF Ask, TypeOK, Command
<1>2. CASE \E r \in Reqs : Admit(r)
  <2>1. PICK r \in Reqs : Admit(r)
    BY <1>2
  <2>2. Ask(r) \/ UNCHANGED cmdq
    BY <2>1 DEF Admit, AdmitRefused, AdmitHold, AdmitResolution
  <2> QED
    BY <1>1, <2>2
<1>3. CASE RetryDispatch
  <2>1. Ask(Head(deferred)) \/ UNCHANGED cmdq
    BY <1>3 DEF RetryDispatch
  <2>2. Head(deferred) \in Reqs
    BY <1>3 DEF RetryDispatch, TypeOK
  <2> QED
    BY <1>1, <2>1, <2>2
<1>4. CASE ApplyEffect
  BY <1>4, ApplyTells DEF Handing, Backlogging
<1>5. CASE FlushWrite
  <2>1. cmdq' = Append(cmdq, PendingEffect(Head(writes))) /\ writes # <<>>
    BY <1>5 DEF FlushWrite
  <2>2. Head(writes) \in Reqs /\ 1 \in 1..Len(writes) /\ writes[1] = Head(writes)
    BY <2>1 DEF TypeOK
  <2> QED
    BY <2>1, <2>2 DEF Backlogged
<1>6. CASE Engine
  BY <1>6 DEF Engine, EngineApply, EngineLookup, Harvest, Publish
<1>7. CASE (\E r \in Reqs : IdemAnswer(r)) \/ (\E a \in answers : PendingAnswer(a)) \/ Propose \/ StartApply
             \/ RollBackEffect \/ EvictIdle \/ UNCHANGED vars
  BY <1>7 DEF IdemAnswer, PendingAnswer, Propose, StartApply, RollBackEffect, EvictIdle, vars, engineVars
<1> QED
  BY <1>2, <1>3, <1>4, <1>5, <1>6, <1>7 DEF Next, Drain

\* And the three it does to the backlog.
LEMMA BacklogMoves ==
    ASSUME TypeOK, LifeInv, [Next]_vars
    PROVE  \/ UNCHANGED writes
           \/ writes # <<>> /\ writes' = Tail(writes)
           \/ \E r \in Reqs : /\ writes' = Append(writes, r) /\ stage[r] = "judged"
                              /\ outcome'[r] = "committed"
<1>1. CASE ApplyEffect
  BY <1>1, ApplyTells DEF Handing, Backlogging, Finish, TypeOK
<1>2. CASE FlushWrite
  BY <1>2 DEF FlushWrite
<1>3. CASE (\E r \in Reqs : Admit(r)) \/ RetryDispatch \/ Engine
  BY <1>3 DEF Admit, RetryDispatch, Engine, EngineApply, EngineLookup, Harvest, Publish, chanVars
<1>4. CASE (\E r \in Reqs : IdemAnswer(r)) \/ (\E a \in answers : PendingAnswer(a)) \/ Propose \/ StartApply
             \/ RollBackEffect \/ EvictIdle \/ UNCHANGED vars
  BY <1>4 DEF IdemAnswer, PendingAnswer, Propose, StartApply, RollBackEffect, EvictIdle, vars, chanVars
<1> QED
  BY <1>1, <1>2, <1>3, <1>4 DEF Next, Drain

LEMMA WrittenNext ==
    ASSUME TypeOK, StaleInv, LifeInv, ReadInv, WrittenInv, [Next]_vars
    PROVE  WrittenInv'
<1> DEFINE n == Len(writes)
<1>1. writes \in Seq(Reqs) /\ n \in Nat /\ \A i \in 1..n : writes[i] \in Reqs
  BY DEF TypeOK
<1>2. \A i \in 1..n : outcome'[writes[i]] = "committed" /\ stage[writes[i]] = "done"
  BY <1>1, CommittedStays DEF WrittenInv
<1>3. CASE UNCHANGED writes
  BY <1>2, <1>3 DEF WrittenInv
<1>4. CASE writes # <<>> /\ writes' = Tail(writes)
  <2>1. /\ Len(Tail(writes)) = n - 1
        /\ \A i \in 1..Len(Tail(writes)) : Tail(writes)[i] = writes[i + 1]
    BY <1>1, <1>4, HeadTailProperties
  <2> HIDE DEF n
  <2>2. \A i \in 1..Len(writes') : i + 1 \in 1..n /\ writes'[i] = writes[i + 1]
    BY <1>1, <1>4, <2>1
  <2>3. ASSUME NEW i \in 1..Len(writes'), NEW j \in 1..Len(writes'), writes'[i] = writes'[j] PROVE i = j
    <3>1. i + 1 = j + 1
      BY <2>2, <2>3 DEF WrittenInv, n
    <3> QED
      BY <3>1
  <2> QED
    BY <1>2, <2>2, <2>3 DEF WrittenInv
<1>5. CASE \E r \in Reqs : writes' = Append(writes, r) /\ stage[r] = "judged" /\ outcome'[r] = "committed"
  <2>1. PICK r \in Reqs : writes' = Append(writes, r) /\ stage[r] = "judged" /\ outcome'[r] = "committed"
    BY <1>5
  <2>2. /\ Len(writes') = n + 1 /\ writes'[n + 1] = r /\ \A i \in 1..n : writes'[i] = writes[i]
    BY <1>1, <2>1
  <2>3. \A i \in 1..n : writes[i] # r
    BY <1>2, <2>1
  <2> HIDE DEF n
  <2>4. \A i \in 1..Len(writes') : i \in 1..n \/ i = n + 1
    BY <1>1, <2>2
  <2> QED
    BY <1>2, <2>1, <2>2, <2>3, <2>4 DEF WrittenInv, n
<1> QED
  BY <1>3, <1>4, <1>5, BacklogMoves

LEMMA PendingEffectLeft ==
    ASSUME TypeOK, CreatedInv, NEW r \in Reqs, stage[r] = "judged" \/ outcome[r] = "committed"
    PROVE  PendingEffect(r).op \in {"create", "reduce"} => PendingEffect(r).left > 0
<1>1. effect[r].left \in Nat /\ (~ReadsHold(r) => effect[r].amount = HoldAmount) /\ HoldAmount > 0
  BY HoldAmountAssumption DEF TypeOK, CreatedInv
<1> QED
  BY <1>1 DEF PendingEffect, ReadsHold

LEMMA CreatedNext ==
    ASSUME TypeOK, StaleInv, LifeInv, ReadInv, WrittenInv, CreatedInv, [Next]_vars
    PROVE  CreatedInv'
<1>1. WellFormed(tx)'
  BY Moves DEF CreatedInv, WellFormed
<1>2. ASSUME NEW r \in Reqs, ~ReadsHold(r)', stage'[r] = "judged" \/ outcome'[r] = "committed"
      PROVE  effect'[r].amount = HoldAmount
  <2>1. ~ReadsHold(r) /\ tx[r].kind = "hold"
    BY <1>2, Moves DEF ReadsHold
  <2>2. tx[r].amount = HoldAmount
    BY <2>1 DEF CreatedInv, WellFormed
  <2>3. stage[r] = "judged" \/ outcome[r] = "committed" => effect[r].amount = HoldAmount
    BY <2>1 DEF CreatedInv
  <2>4. Moved(r)
    BY Moves
  <2> QED
    BY <1>2, <2>1, <2>2, <2>3, <2>4 DEF Moved
<1>3. ASSUME NEW i \in 1..Len(cmdq'), cmdq'[i].op \in {"create", "reduce"} PROVE cmdq'[i].left > 0
  <2>0. \A k \in 1..Len(cmdq) : cmdq[k].op \in {"create", "reduce"} => cmdq[k].left > 0
    BY DEF CreatedInv
  <2>1. CASE UNCHANGED cmdq
    BY <1>3, <2>0, <2>1
  <2>2. CASE cmdq # <<>> /\ cmdq' = Tail(cmdq)
    <3>1. i + 1 \in 1..Len(cmdq) /\ cmdq'[i] = cmdq[i + 1]
      BY <2>2, TailOfQueue
    <3> QED
      BY <1>3, <2>0, <3>1
  <2>3. ASSUME NEW w \in Command, cmdq' = Append(cmdq, w),
               w.op \in {"create", "reduce"} => w.left > 0
        PROVE  cmdq'[i].left > 0
    <3>1. cmdq \in Seq(Command)
      BY DEF TypeOK
    <3>2. (i \in 1..Len(cmdq) /\ cmdq'[i] = cmdq[i]) \/ cmdq'[i] = w
      BY <2>3, <3>1
    <3> QED
      BY <1>3, <2>0, <2>3, <3>2
  <2>4. CASE \E w \in Command : w.op = "lookup" /\ cmdq' = Append(cmdq, w)
    BY <2>3, <2>4
  <2>5. CASE \E r \in Reqs : cmdq' = Append(cmdq, PendingEffect(r)) /\ (stage[r] = "judged" \/ Backlogged(r))
    <3>1. PICK r \in Reqs : cmdq' = Append(cmdq, PendingEffect(r)) /\ (stage[r] = "judged" \/ Backlogged(r))
      BY <2>5
    <3>2. stage[r] = "judged" \/ outcome[r] = "committed"
      BY <3>1 DEF Backlogged, WrittenInv
    <3>3. PendingEffect(r) \in Command
      BY PendingEffectType
    <3> QED
      BY <2>3, <3>1, <3>2, <3>3, PendingEffectLeft
  <2> QED
    BY <2>1, <2>2, <2>4, <2>5, QueueMoves
<1> QED
  BY <1>1, <1>2, <1>3 DEF CreatedInv

-----------------------------------------------------------------------------
(***************************************************************************)
(* A step of the reactor that hands no decision over and asks nothing:     *)
(* it may only turn an overlay entry, and the ways it may turn it keep all *)
(* that is known.                                                          *)
(***************************************************************************)
\* Somebody relies on what the overlay has of h.
Needed(h) == \/ \E i \in 1..Len(cmdq) : cmdq[i].op = "remove" /\ tx[cmdq[i].req].hold = h
             \/ \E q \in Reqs : Asks(q) /\ tx[q].hold = h

SameTag(f, e) == f.tag = e.tag /\ (e.tag = "removed" => f.safe_after = e.safe_after)

\* What a step with no decision may make of the entry of h: the same, a decided hold or a
\* missing one where that is known, or nothing where nobody relies on it.
Turns(h, e, f) ==
    \/ SameTag(f, e)
    \/ e.tag # "removed" /\ f.tag = "decided" /\ Handed(h)
    \/ e.tag # "removed" /\ f.tag = "missing" /\ (Handed(h) => Resolved(h))
    \/ f.tag = "none" /\ (e.tag = "removed" => ~Needed(h))

\* A step that hands nothing over and takes nothing from the engine's queues.
Inward ==
    /\ UNCHANGED <<tx, cmdq, store, fetches, applied, published>> /\ answers' \subseteq answers
    /\ \A h \in Holds : /\ Handed(h)' <=> Handed(h)
                        /\ Resolved(h) => Resolved(h)'
                        /\ Acknowledged(h) => Acknowledged(h)'
                        /\ Turns(h, overlay[h], overlay'[h])
    /\ \A q \in Reqs :
          /\ ReadsHold(q) /\ (record'[q] > 0 \/ stage'[q] = "judged" \/ outcome'[q] = "committed")
             => Handed(tx[q].hold)
          /\ saw'[q] => Acknowledged(tx[q].hold)
          /\ Asks(q) => saw'[q] = saw[q]
          /\ /\ stage'[q] = "open" /\ ReadsHold(q) /\ "pending" \notin deps'[q]
             /\ record'[q] = 0 /\ saw'[q]
             => Resolved(tx[q].hold)
          /\ saw'[q] /\ outcome'[q] = "not_found" => Resolved(tx[q].hold)

LEMMA RequestTypes ==
    ASSUME TypeOK
    PROVE  /\ \A i \in 1..Len(cmdq) : cmdq[i] \in Command /\ cmdq[i].req \in Reqs /\ tx[cmdq[i].req].hold \in Holds
           /\ \A a \in Replies : a.req \in Reqs /\ a.found \in Nat /\ tx[a.req].hold \in Holds /\ Asks(a.req)
           /\ \A r \in Reqs : tx[r].hold \in Holds
           /\ \A h \in Holds : store[h] \in Nat /\ overlay[h] \in Entry
           /\ \A i \in 1..Len(cmdq) : cmdq[i].op = "lookup" => Asks(cmdq[i].req)
<1>1. \A r \in Reqs : tx[r].hold \in Holds
  BY DEF TypeOK, Transfer
<1>2. cmdq \in Seq(Command) /\ \A c \in Command : c.req \in Reqs
  BY DEF TypeOK, Command
<1>3. \A i \in 1..Len(cmdq) : cmdq[i] \in Command
  BY <1>2
<1>4. \A a \in Replies : a.req \in Reqs /\ a.found \in Nat /\ Asks(a.req)
  <2>1. \A a \in answers : a.req \in Reqs /\ a.found \in Nat
    BY DEF TypeOK, Answer
  <2>2. \A a \in fetches : a.req \in Reqs /\ a.found \in Nat
    BY DEF TypeOK
  <2> QED
    BY <2>1, <2>2 DEF Replies, Asks
<1>5. \A h \in Holds : store[h] \in Nat /\ overlay[h] \in Entry
  BY DEF TypeOK
<1>6. \A i \in 1..Len(cmdq) : cmdq[i].op = "lookup" => Asks(cmdq[i].req)
  BY DEF Asks
<1> QED
  BY <1>1, <1>2, <1>3, <1>4, <1>5, <1>6

LEMMA InwardKnown ==
    ASSUME TypeOK, KnownInv, Inward
    PROVE  KnownInv'
<1>1. Replies' \subseteq Replies
  BY DEF Inward, Replies
<1>2. \A q : ReadsHold(q)' <=> ReadsHold(q)
  BY DEF Inward, ReadsHold
<1>3. \A h \in Holds : Handed(h)' <=> Handed(h)
  BY DEF Inward
<1>4. \A i \in 1..Len(cmdq') : cmdq'[i].op # "lookup" => Handed(tx[cmdq[i].req].hold)'
  BY <1>3, RequestTypes DEF Inward, KnownInv
<1>5. \A h \in Holds : store'[h] > 0 => Handed(h)'
  BY <1>3 DEF Inward, KnownInv
<1>6. \A h \in Holds : overlay'[h].tag \in {"decided", "removed"} => Handed(h)'
  <2> SUFFICES ASSUME NEW h \in Holds, overlay'[h].tag \in {"decided", "removed"} PROVE Handed(h)
    BY <1>3
  <2>1. Turns(h, overlay[h], overlay'[h])
    BY DEF Inward
  <2> QED
    BY <2>1 DEF Turns, SameTag, KnownInv
<1>7. \A a \in Replies' : a.found > 0 => Handed(tx[a.req].hold)'
  BY <1>1, <1>3, RequestTypes DEF Inward, KnownInv
<1>8. \A r \in Reqs : ReadsHold(r)' /\ (record'[r] > 0 \/ stage'[r] = "judged" \/ outcome'[r] = "committed")
                      => Handed(tx[r].hold)'
  BY <1>2, <1>3, RequestTypes DEF Inward
<1> QED
  BY <1>4, <1>5, <1>6, <1>7, <1>8 DEF KnownInv

LEMMA InwardMark ==
    ASSUME TypeOK, MarkInv, ReviveInv, Inward
    PROVE  MarkInv' /\ ReviveInv'
<1>1. \A h \in Holds : Turns(h, overlay[h], overlay'[h])
  BY DEF Inward
<1>2. UNCHANGED <<tx, cmdq, store, applied, published>> /\ Replies' \subseteq Replies
  BY DEF Inward, Replies
<1>3. MarkInv'
  <2>1. ASSUME NEW i \in 1..Len(cmdq), cmdq[i].op = "remove"
        PROVE  /\ overlay'[tx[cmdq[i].req].hold].tag = "removed"
               /\ overlay'[tx[cmdq[i].req].hold].safe_after >= cmdq[i].n
    <3>1. PICK h \in Holds : h = tx[cmdq[i].req].hold
      BY RequestTypes
    <3>2. overlay[h].tag = "removed" /\ overlay[h].safe_after >= cmdq[i].n
      BY <2>1, <3>1 DEF MarkInv
    <3>3. Needed(h)
      BY <2>1, <3>1 DEF Needed
    <3> QED
      BY <1>1, <3>1, <3>2, <3>3 DEF Turns, SameTag
  <2> QED
    BY <1>2, <2>1 DEF MarkInv
<1>4. ReviveInv'
  <2>1. \A h \in Holds : Of(h)' = Of(h)
    BY <1>2, OwnStays
  <2> SUFFICES ASSUME NEW a \in Replies, a.found > 0,
                      EndsWith(cmdq, Of(tx[a.req].hold), store[tx[a.req].hold], 0)
               PROVE  overlay'[tx[a.req].hold].tag = "removed"
    BY <1>2, <2>1, RequestTypes DEF ReviveInv
  <2>2. PICK h \in Holds : h = tx[a.req].hold
    BY RequestTypes
  <2>3. overlay[h].tag = "removed" /\ Needed(h)
    BY <2>2, RequestTypes DEF ReviveInv, Needed
  <2> QED
    BY <1>1, <2>2, <2>3 DEF Turns, SameTag
<1> QED
  BY <1>3, <1>4

LEMMA InwardTold ==
    ASSUME TypeOK, ToldInv, Inward
    PROVE  ToldInv'
<1>1. /\ UNCHANGED tx /\ \A r \in Reqs : tx[r].hold \in Holds
      /\ \A h \in Holds : /\ Handed(h)' <=> Handed(h)
                          /\ Resolved(h) => Resolved(h)'
                          /\ Acknowledged(h) => Acknowledged(h)'
                          /\ Turns(h, overlay[h], overlay'[h])
      /\ \A q : ReadsHold(q)' <=> ReadsHold(q)
  BY RequestTypes DEF Inward, ReadsHold
<1>2. \A r \in Reqs : saw'[r] => Acknowledged(tx[r].hold)'
  BY <1>1 DEF Inward
<1>3. \A h \in Holds : overlay'[h].tag = "removed" => Resolved(h)'
  BY <1>1 DEF Turns, SameTag, ToldInv
<1>4. \A h \in Holds : overlay'[h].tag = "missing" /\ Handed(h)' => Resolved(h)'
  BY <1>1 DEF Turns, SameTag, ToldInv
<1>5. \A r \in Reqs : /\ stage'[r] = "open" /\ ReadsHold(r)' /\ "pending" \notin deps'[r]
                      /\ record'[r] = 0 /\ saw'[r]
                      => Resolved(tx[r].hold)'
  BY <1>1 DEF Inward
<1>6. \A r \in Reqs : saw'[r] /\ outcome'[r] = "not_found" => Resolved(tx[r].hold)'
  BY <1>1 DEF Inward
<1> QED
  BY <1>2, <1>3, <1>4, <1>5, <1>6 DEF ToldInv

LEMMA InwardShown ==
    ASSUME TypeOK, ShownInv, Inward
    PROVE  ShownInv'
<1>1. /\ UNCHANGED <<tx, cmdq, store>> /\ \A r \in Reqs : tx[r].hold \in Holds
      /\ \A h \in Holds : /\ Handed(h)' <=> Handed(h)
                          /\ Resolved(h) => Resolved(h)'
                          /\ Turns(h, overlay[h], overlay'[h])
      /\ \A q \in Reqs : Asks(q) => saw'[q] = saw[q]
      /\ Replies' \subseteq Replies
  BY RequestTypes DEF Inward, Replies
<1>2. \A h, n : Reaches(h, n)' <=> Reaches(h, n)
  BY <1>1 DEF Reaches
<1>3. \A q \in Reqs : Asks(q) /\ Owed(q)' => Owed(q)
  <2> SUFFICES ASSUME NEW q \in Reqs, Asks(q), Owed(q)' PROVE Owed(q)
    OBVIOUS
  <2>1. PICK h \in Holds : h = tx[q].hold
    BY <1>1
  <2>2. saw[q] \/ (Handed(h)' /\ overlay'[h].tag = "watched")
    BY <1>1, <2>1 DEF Owed
  <2> QED
    BY <1>1, <2>1, <2>2 DEF Owed, Turns, SameTag
<1>4. \A i \in 1..Len(cmdq) : cmdq[i].op = "remove" => Resolved(tx[cmdq[i].req].hold)'
  BY <1>1, RequestTypes DEF ShownInv
<1>5. \A h \in Holds : Handed(h)' => Resolved(h)' \/ Reaches(h, Len(cmdq) + 1)'
  BY <1>1, <1>2 DEF ShownInv
<1>6. \A i \in 1..Len(cmdq) : cmdq[i].op = "lookup" /\ Owed(cmdq[i].req)'
        => Resolved(tx[cmdq[i].req].hold)' \/ Reaches(tx[cmdq[i].req].hold, i)'
  BY <1>1, <1>2, <1>3, RequestTypes DEF ShownInv
<1>7. \A a \in Replies' : a.found = 0 /\ Owed(a.req)' => Resolved(tx[a.req].hold)'
  BY <1>1, <1>3, RequestTypes DEF ShownInv
<1> QED
  BY <1>1, <1>4, <1>5, <1>6, <1>7 DEF ShownInv

LEMMA InwardSeen ==
    ASSUME TypeOK, SeenInv, Inward
    PROVE  SeenInv'
  BY InwardKnown, InwardMark, InwardTold, InwardShown DEF SeenInv

LEMMA StandingStays ==
    ASSUME TypeOK, UNCHANGED <<tx, writes>>,
           \A q \in Reqs : /\ outcome'[q] = "committed" <=> outcome[q] = "committed"
                           /\ outcome[q] = "committed" => effect'[q] = effect[q]
    PROVE  \A h \in Holds : /\ Handed(h)' <=> Handed(h)
                            /\ Resolved(h) => Resolved(h)'
                            /\ Acknowledged(h) => Acknowledged(h)'
<1>1. \A h \in Holds : Handed(h)' <=> Handed(h)
  BY DEF Handed, Backlogged
<1>2. \A h \in Holds : Resolved(h) => Resolved(h)'
  BY DEF Resolved, Resolutions, ReadsHold
<1>3. \A h \in Holds : Acknowledged(h) => Acknowledged(h)'
  BY DEF Acknowledged
<1> QED
  BY <1>1, <1>2, <1>3

\* A step that moves one request leaves what is known of the others.
LEMMA OthersTold ==
    ASSUME TypeOK, KnownInv, ToldInv, UNCHANGED tx, NEW r \in Reqs,
           \A q \in Reqs : q # r => /\ stage'[q] = stage[q] /\ deps'[q] = deps[q] /\ record'[q] = record[q]
                                    /\ outcome'[q] = outcome[q] /\ saw'[q] = saw[q]
    PROVE  \A q \in Reqs : q # r =>
              /\ ReadsHold(q) /\ (record'[q] > 0 \/ stage'[q] = "judged" \/ outcome'[q] = "committed")
                 => Handed(tx[q].hold)
              /\ saw'[q] => Acknowledged(tx[q].hold)
              /\ Asks(q) => saw'[q] = saw[q]
              /\ /\ stage'[q] = "open" /\ ReadsHold(q) /\ "pending" \notin deps'[q]
                 /\ record'[q] = 0 /\ saw'[q]
                 => Resolved(tx[q].hold)
              /\ saw'[q] /\ outcome'[q] = "not_found" => Resolved(tx[q].hold)
<1>1. \A q \in Reqs : q # r =>
        /\ ReadsHold(q) /\ (record'[q] > 0 \/ stage'[q] = "judged" \/ outcome'[q] = "committed")
           => Handed(tx[q].hold)
  BY DEF KnownInv
<1>2. \A q \in Reqs : q # r =>
        /\ saw'[q] => Acknowledged(tx[q].hold)
        /\ /\ stage'[q] = "open" /\ ReadsHold(q) /\ "pending" \notin deps'[q]
           /\ record'[q] = 0 /\ saw'[q]
           => Resolved(tx[q].hold)
        /\ saw'[q] /\ outcome'[q] = "not_found" => Resolved(tx[q].hold)
  BY DEF ToldInv
<1> QED
  BY <1>1, <1>2

LEMMA SameTags ==
    ASSUME NEW e \in Entry
    PROVE  /\ SameTag(e, e)
           /\ \A r : SameTag(Unpinned(r, e), e)
           /\ SameTag(Pin(e), e)
           /\ \A amount, b : SameTag(Reserve(e, amount, b), e) /\ SameTag(Compensate(e, amount, b), e)
           /\ \A f : Returned(f, e) => SameTag(f, e)
<1>1. SameTag(e, e) /\ SameTag(Pin(e), e) /\ SameTag(Unpin(e), e)
  BY PinsMove DEF SameTag
<1>2. \A r : SameTag(Unpinned(r, e), e)
  BY <1>1 DEF Unpinned
<1>3. \A amount, b : SameTag(Reserve(e, amount, b), e) /\ SameTag(Compensate(e, amount, b), e)
  BY DEF SameTag, Reserve, Compensate, Hold, Live
<1>4. \A f : Returned(f, e) => SameTag(f, e)
  BY DEF SameTag, Returned, Live
<1> QED
  BY <1>1, <1>2, <1>3, <1>4

LEMMA TurnsOn ==
    ASSUME NEW h, NEW x, NEW e, NEW f, Turns(h, x, e), SameTag(f, e)
    PROVE  Turns(h, x, f)
  BY DEF Turns, SameTag

LEMMA InwardReleased ==
    ASSUME TypeOK, LifeInv, ReadInv, SeenInv,
           NEW r \in Reqs, stage[r] = "open", NEW dep, NEW e \in Entry, NEW found,
           ReleaseDep(r, dep, e, found),
           UNCHANGED <<tx, writes, cmdq, store, fetches, applied, published, saw>>,
           answers' \subseteq answers,
           Turns(tx[r].hold, overlay[tx[r].hold], e),
           ReadsHold(r) /\ found # 0 => Handed(tx[r].hold),
           deps[r] \subseteq {dep} /\ ReadsHold(r) /\ found = 0 /\ saw[r] => Resolved(tx[r].hold),
           \A q \in Reqs : q # r => record'[q] = record[q],
           ReadsHold(r) /\ record'[r] > 0 => Handed(tx[r].hold),
           ReadsHold(r) /\ record'[r] = 0 /\ "pending" \notin deps'[r] /\ saw[r] => Resolved(tx[r].hold)
    PROVE  Inward
<1>1. PICK h \in Holds : h = tx[r].hold
  BY RequestTypes
<1>2. /\ \A q \in Reqs : q # r => stage'[q] = stage[q] /\ deps'[q] = deps[q] /\ outcome'[q] = outcome[q]
                                  /\ effect'[q] = effect[q]
      /\ \A g \in Holds : g # h => overlay'[g] = overlay[g]
  BY <1>1, Released, ReleaseTells
<1>3. outcome[r] = "none"
  BY DEF ReadInv
<1>4. PICK v : v = Verdict(r, e, found)
  OBVIOUS
<1>41. v # "committed"
  BY <1>4 DEF Verdict
<1>42. v = "not_found" => ReadsHold(r) /\ found = 0
  BY <1>4 DEF Verdict
<1>43. v = "accepted" /\ ReadsHold(r) => found # 0
  BY <1>4 DEF Verdict
<1>5. \/ stage'[r] = "open" /\ outcome'[r] = "none" /\ overlay'[h] = e
      \/ /\ stage'[r] = "judged" /\ outcome'[r] = "none" /\ v = "accepted"
         /\ overlay'[h] = e \/ \E amount, b : overlay'[h] = Reserve(e, amount, b)
      \/ stage'[r] = "done" /\ outcome'[r] = v /\ overlay'[h] = Unpinned(r, e)
  BY <1>1, <1>3, <1>4, ReleaseTells
<1>6. \A g \in Holds : /\ Handed(g)' <=> Handed(g)
                       /\ Resolved(g) => Resolved(g)'
                       /\ Acknowledged(g) => Acknowledged(g)'
  <2>1. outcome[r] # "committed" /\ outcome'[r] # "committed"
    BY <1>3, <1>41, <1>42, <1>43, <1>5
  <2>2. \A q \in Reqs : /\ outcome'[q] = "committed" <=> outcome[q] = "committed"
                        /\ outcome[q] = "committed" => effect'[q] = effect[q]
    BY <1>2, <2>1
  <2>3. UNCHANGED <<tx, writes>>
    OBVIOUS
  <2> QED
    BY <2>2, <2>3, StandingStays
<1>7. \A g \in Holds : Turns(g, overlay[g], overlay'[g])
  <2>1. SameTag(overlay'[h], e)
    BY <1>5, SameTags
  <2>2. Turns(h, overlay[h], overlay'[h])
    BY <1>1, <2>1, TurnsOn
  <2>3. \A g \in Holds : Turns(g, overlay[g], overlay[g])
    BY DEF Turns, SameTag
  <2> QED
    BY <1>2, <2>2, <2>3
<1>8. /\ ReadsHold(r) /\ (record'[r] > 0 \/ stage'[r] = "judged" \/ outcome'[r] = "committed")
         => Handed(h)
      /\ saw'[r] => Acknowledged(h)
      /\ saw'[r] = saw[r]
      /\ stage'[r] = "open" /\ ReadsHold(r) /\ "pending" \notin deps'[r] /\ record'[r] = 0 /\ saw'[r]
         => Resolved(h)
  BY <1>1, <1>3, <1>41, <1>42, <1>43, <1>5 DEF SeenInv, ToldInv
<1>9. saw'[r] /\ outcome'[r] = "not_found" => Resolved(h)
  <2> SUFFICES ASSUME saw'[r], outcome'[r] = "not_found" PROVE Resolved(h)
    OBVIOUS
  <2>1. stage'[r] = "done" /\ v = "not_found"
    BY <1>5
  <2>2. deps[r] \subseteq {dep}
    BY <2>1, Released
  <2> QED
    BY <1>1, <1>41, <1>42, <1>43, <2>1, <2>2
<1>10. \A q \in Reqs :
          /\ ReadsHold(q) /\ (record'[q] > 0 \/ stage'[q] = "judged" \/ outcome'[q] = "committed")
             => Handed(tx[q].hold)
          /\ saw'[q] => Acknowledged(tx[q].hold)
          /\ Asks(q) => saw'[q] = saw[q]
          /\ /\ stage'[q] = "open" /\ ReadsHold(q) /\ "pending" \notin deps'[q]
             /\ record'[q] = 0 /\ saw'[q]
             => Resolved(tx[q].hold)
          /\ saw'[q] /\ outcome'[q] = "not_found" => Resolved(tx[q].hold)
  <2>1. \A q \in Reqs : q # r =>
          /\ ReadsHold(q) /\ (record'[q] > 0 \/ stage'[q] = "judged" \/ outcome'[q] = "committed")
             => Handed(tx[q].hold)
          /\ saw'[q] => Acknowledged(tx[q].hold)
          /\ Asks(q) => saw'[q] = saw[q]
          /\ /\ stage'[q] = "open" /\ ReadsHold(q) /\ "pending" \notin deps'[q]
             /\ record'[q] = 0 /\ saw'[q]
             => Resolved(tx[q].hold)
          /\ saw'[q] /\ outcome'[q] = "not_found" => Resolved(tx[q].hold)
    BY <1>2, OthersTold DEF SeenInv
  <2> QED
    BY <1>1, <1>8, <1>9, <2>1
<1> QED
  BY <1>6, <1>7, <1>10 DEF Inward

\* With no backlog, a hold the overlay says is gone was taken whole, or was never acknowledged.
LEMMA GoneTold ==
    ASSUME TypeOK, ToldInv, writes = <<>>, NEW h \in Holds, Acknowledged(h)
    PROVE  Handed(h) /\ (Gone(overlay[h]) => Resolved(h))
<1>1. \A r : ~Backlogged(r)
  BY DEF Backlogged
<1>2. Handed(h)
  BY <1>1 DEF Acknowledged, Handed
<1> QED
  BY <1>2 DEF Gone, ToldInv

\* Whoever waits for the engine has its hold pinned.
LEMMA AsksPins ==
    ASSUME TypeOK, StaleInv, LifeInv, ReadInv, PinInv, NEW q \in Reqs, Asks(q)
    PROVE  /\ stage[q] = "open" /\ "pending" \in deps[q] /\ ReadsHold(q)
           /\ overlay[tx[q].hold].pinned > 0 /\ overlay[tx[q].hold].tag # "none"
<1>1. PICK h \in Holds : h = tx[q].hold
  BY RequestTypes
<1>2. stage[q] = "open" /\ "pending" \in deps[q]
  BY DEF LifeInv, WaitInv
<1>3. "pending" \in sent[q]
  BY DEF Asks, StaleInv, AskedOnce
<1>4. Pinning(q)
  BY <1>2, <1>3 DEF ReadInv, Pinning
<1>5. q \in Pinners(h)
  BY <1>1, <1>4, PinnersFinite
<1>6. overlay[h].pinned > 0
  BY <1>5, PinnersFinite DEF PinInv
<1> QED
  BY <1>1, <1>2, <1>4, <1>6 DEF Pinning, PinInv

LEMMA InwardIdemAnswer ==
    ASSUME TypeOK, StaleInv, LifeInv, ReadInv, PinInv, SeenInv, NEW r \in Reqs, IdemAnswer(r)
    PROVE  Inward
<1>1. /\ stage[r] = "open" /\ ReleaseDep(r, "idem", overlay[tx[r].hold], record[r])
      /\ UNCHANGED <<tx, writes, cmdq, store, fetches, applied, published, saw, answers, record>>
  BY DEF IdemAnswer, engineVars
<1>2. PICK h \in Holds : h = tx[r].hold
  BY RequestTypes
<1>3. overlay[h] \in Entry /\ Turns(h, overlay[h], overlay[h])
  BY RequestTypes DEF Turns, SameTag
<1>4. record[r] \in Nat /\ (ReadsHold(r) /\ record[r] > 0 => Handed(h))
  BY <1>2 DEF SeenInv, KnownInv, TypeOK
<1>5. deps'[r] = deps[r] \ {"idem"}
  BY <1>1, Released
<1>6. "pending" \notin deps[r] /\ ReadsHold(r) /\ record[r] = 0 /\ saw[r] => Resolved(h)
  BY <1>1, <1>2 DEF SeenInv, ToldInv
<1>7. (deps[r] \subseteq {"idem"} => "pending" \notin deps[r]) /\ ("pending" \notin deps'[r] => "pending" \notin deps[r])
  BY <1>5
<1>8. ReadsHold(r) /\ record[r] # 0 => Handed(h)
  BY <1>4
<1>9. deps[r] \subseteq {"idem"} /\ ReadsHold(r) /\ record[r] = 0 /\ saw[r] => Resolved(h)
  BY <1>6, <1>7
<1>10. ReadsHold(r) /\ record'[r] > 0 => Handed(h)
  BY <1>1, <1>4
<1>11. ReadsHold(r) /\ record'[r] = 0 /\ "pending" \notin deps'[r] /\ saw[r] => Resolved(h)
  BY <1>1, <1>6, <1>7
<1> QED
  BY <1>1, <1>2, <1>3, <1>8, <1>9, <1>10, <1>11, InwardReleased

LEMMA InwardPendingAnswer ==
    ASSUME TypeOK, StaleInv, LifeInv, ReadInv, PinInv, SeenInv, NEW a \in answers, PendingAnswer(a)
    PROVE  Inward
<1>1. PICK r \in Reqs : r = a.req /\ Asks(r)
  BY DEF TypeOK, Answer, Asks
<1>2. PICK h \in Holds : h = tx[r].hold
  BY RequestTypes
<1>3. PICK e : e = AdmitLookup(overlay[h], a.found)
  OBVIOUS
<1>4. /\ ReleaseDep(r, "pending", e, a.found) /\ answers' \subseteq answers
      /\ record' = [record EXCEPT ![r] = a.found]
      /\ UNCHANGED <<tx, writes, cmdq, store, fetches, applied, published, saw>>
  BY <1>1, <1>2, <1>3 DEF PendingAnswer
<1>5. overlay[h] \in Entry /\ a.found \in Nat /\ a \in Replies /\ e \in Entry
  <2>1. overlay[h] \in Entry /\ a.found \in Nat /\ a \in Replies
    BY RequestTypes DEF Replies
  <2> QED
    BY <1>3, <2>1, AnswersKeepEntry
<1>6. record'[r] = a.found /\ \A q \in Reqs : q # r => record'[q] = record[q]
  BY <1>4 DEF TypeOK
<1>7. stage[r] = "open" /\ overlay[h].tag # "none"
  BY <1>1, <1>2, AsksPins
<1>8. a.found > 0 => Handed(h)
  BY <1>1, <1>2, <1>5 DEF SeenInv, KnownInv
<1>9. a.found = 0 /\ (saw[r] \/ (Handed(h) /\ overlay[h].tag = "watched")) => Resolved(h)
  BY <1>1, <1>2, <1>5 DEF SeenInv, ShownInv, Owed
<1>10. Turns(h, overlay[h], e)
  <2>1. CASE Live(overlay[h]) \/ Gone(overlay[h])
    <3>1. e = overlay[h]
      BY <1>3, <2>1 DEF AdmitLookup
    <3> QED
      BY <3>1 DEF Turns, SameTag
  <2>2. CASE ~Live(overlay[h]) /\ ~Gone(overlay[h])
    <3>1. overlay[h].tag = "watched"
      BY <1>5, <1>7, <2>2 DEF Live, Gone, Entry, Tags
    <3>2. CASE a.found > 0
      <4>1. e.tag = "decided"
        BY <1>3, <2>2, <3>2 DEF AdmitLookup, Decide, Hold
      <4> QED
        BY <1>8, <3>1, <3>2, <4>1 DEF Turns
    <3>3. CASE a.found = 0
      <4>1. e.tag = "missing"
        BY <1>3, <2>2, <3>3 DEF AdmitLookup, Bare
      <4> QED
        BY <1>9, <3>1, <3>3, <4>1 DEF Turns
    <3> QED
      BY <1>5, <3>2, <3>3
  <2> QED
    BY <2>1, <2>2
<1>11. a.found # 0 => Handed(h)
  BY <1>5, <1>8
<1>12. a.found = 0 /\ saw[r] => Resolved(h)
  BY <1>9
<1> QED
  BY <1>2, <1>4, <1>5, <1>6, <1>7, <1>8, <1>10, <1>11, <1>12, InwardReleased

\* A step that moves no request and hands nothing over.
LEMMA InwardStill ==
    ASSUME TypeOK, SeenInv,
           UNCHANGED <<tx, stage, deps, record, effect, outcome, saw, writes, cmdq, store, fetches,
                       answers, applied, published>>,
           \A h \in Holds : Turns(h, overlay[h], overlay'[h])
    PROVE  Inward
<1>1. \A h \in Holds : /\ Handed(h)' <=> Handed(h)
                       /\ Resolved(h) => Resolved(h)'
                       /\ Acknowledged(h) => Acknowledged(h)'
  BY StandingStays
<1>2. \A q \in Reqs :
        /\ ReadsHold(q) /\ (record'[q] > 0 \/ stage'[q] = "judged" \/ outcome'[q] = "committed")
           => Handed(tx[q].hold)
  BY DEF SeenInv, KnownInv
<1>3. \A q \in Reqs :
        /\ saw'[q] => Acknowledged(tx[q].hold)
        /\ Asks(q) => saw'[q] = saw[q]
        /\ /\ stage'[q] = "open" /\ ReadsHold(q) /\ "pending" \notin deps'[q]
           /\ record'[q] = 0 /\ saw'[q]
           => Resolved(tx[q].hold)
        /\ saw'[q] /\ outcome'[q] = "not_found" => Resolved(tx[q].hold)
  BY DEF SeenInv, ToldInv
<1> QED
  BY <1>1, <1>2, <1>3 DEF Inward

\* One that moves one request.
LEMMA InwardOne ==
    ASSUME TypeOK, SeenInv, NEW r \in Reqs,
           UNCHANGED <<tx, writes, cmdq, store, fetches, answers, applied, published>>,
           \A q \in Reqs : q # r => /\ stage'[q] = stage[q] /\ deps'[q] = deps[q] /\ record'[q] = record[q]
                                    /\ outcome'[q] = outcome[q] /\ saw'[q] = saw[q] /\ effect'[q] = effect[q],
           outcome[r] # "committed", outcome'[r] \notin {"committed", "not_found"},
           record'[r] = record[r], stage'[r] # "judged",
           saw'[r] => Acknowledged(tx[r].hold), Asks(r) => saw'[r] = saw[r],
           /\ stage'[r] = "open" /\ ReadsHold(r) /\ "pending" \notin deps'[r] /\ saw'[r]
           => Resolved(tx[r].hold),
           \A h \in Holds : Turns(h, overlay[h], overlay'[h])
    PROVE  Inward
<1>1. \A q \in Reqs : /\ outcome'[q] = "committed" <=> outcome[q] = "committed"
                      /\ outcome[q] = "committed" => effect'[q] = effect[q]
  OBVIOUS
<1>2. \A h \in Holds : /\ Handed(h)' <=> Handed(h)
                       /\ Resolved(h) => Resolved(h)'
                       /\ Acknowledged(h) => Acknowledged(h)'
  BY <1>1, StandingStays
<1>3. \A q \in Reqs : q # r => /\ stage'[q] = stage[q] /\ deps'[q] = deps[q] /\ record'[q] = record[q]
                               /\ outcome'[q] = outcome[q] /\ saw'[q] = saw[q]
  OBVIOUS
<1>4. \A q \in Reqs : q # r =>
              /\ ReadsHold(q) /\ (record'[q] > 0 \/ stage'[q] = "judged" \/ outcome'[q] = "committed")
                 => Handed(tx[q].hold)
              /\ saw'[q] => Acknowledged(tx[q].hold)
              /\ Asks(q) => saw'[q] = saw[q]
              /\ /\ stage'[q] = "open" /\ ReadsHold(q) /\ "pending" \notin deps'[q]
                 /\ record'[q] = 0 /\ saw'[q]
                 => Resolved(tx[q].hold)
              /\ saw'[q] /\ outcome'[q] = "not_found" => Resolved(tx[q].hold)
  BY <1>3, OthersTold DEF SeenInv
<1>5. ReadsHold(r) /\ (record'[r] > 0 \/ stage'[r] = "judged" \/ outcome'[r] = "committed")
      => Handed(tx[r].hold)
  BY DEF SeenInv, KnownInv
<1> QED
  BY <1>2, <1>4, <1>5 DEF Inward

LEMMA InwardAdmit ==
    ASSUME TypeOK, StaleInv, LifeInv, ReadInv, SeenInv, NEW r \in Reqs, Admit(r), ~Ask(r)
    PROVE  Inward
<1>1. PICK h \in Holds : h = tx[r].hold
  BY RequestTypes
<1>2. /\ stage[r] = "new" /\ saw' = [saw EXCEPT ![r] = Acknowledged(h)]
      /\ UNCHANGED <<tx, record, effect, writes, store, fetches, answers, applied, published>>
      /\ \/ AdmitRefused(r) \/ AdmitHold(r)
         \/ AdmitResolution(r)
  BY <1>1 DEF Admit, engineVars
<1>3. /\ stage \in [Reqs -> Stages] /\ deps \in [Reqs -> SUBSET Deps] /\ outcome \in [Reqs -> Outcomes]
      /\ saw \in [Reqs -> BOOLEAN] /\ overlay \in [Holds -> Entry]
  BY DEF TypeOK
<1>4. \A q \in Reqs : q # r => /\ stage'[q] = stage[q] /\ deps'[q] = deps[q] /\ outcome'[q] = outcome[q]
                               /\ saw'[q] = saw[q]
  BY <1>2, <1>3 DEF AdmitRefused, AdmitHold, AdmitResolution, Enter
<1>5. outcome[r] = "none" /\ ~Asks(r)
  BY <1>2 DEF ReadInv, LifeInv, WaitInv
<1>6. saw'[r] <=> Acknowledged(h)
  BY <1>2, <1>3
<1>7. \A g \in Holds : Turns(g, overlay[g], overlay[g])
  BY DEF Turns, SameTag
<1>8. UNCHANGED cmdq
  BY <1>2 DEF AdmitRefused, AdmitHold, AdmitResolution
<1>9. /\ outcome'[r] \in {"none", "fail_stop", "quarantined"} /\ stage'[r] \in {"open", "done"}
  BY <1>2, <1>3, <1>5 DEF AdmitRefused, AdmitHold, AdmitResolution, Enter
<1>10. \/ UNCHANGED overlay /\ (stage'[r] = "open" => "pending" \in deps'[r] \/ ~ReadsHold(r))
       \/ Skip(r) /\ overlay' = [overlay EXCEPT ![h] = Pin(@)]
  BY <1>1, <1>2, <1>3 DEF AdmitRefused, AdmitHold, AdmitResolution, Enter, Deps
<1>11. /\ stage'[r] = "open" /\ ReadsHold(r) /\ "pending" \notin deps'[r] /\ saw'[r]
       => Resolved(h)
  BY <1>1, <1>6, <1>10, GoneTold DEF Skip, BlocksLookups, SeenInv
<1>12. \A g \in Holds : Turns(g, overlay[g], overlay'[g])
  <2>1. CASE UNCHANGED overlay
    BY <1>7, <2>1
  <2>2. CASE overlay' = [overlay EXCEPT ![h] = Pin(@)]
    <3>1. overlay[h] \in Entry /\ overlay'[h] = Pin(overlay[h])
          /\ \A g \in Holds : g # h => overlay'[g] = overlay[g]
      BY <1>3, <2>2
    <3>2. SameTag(overlay'[h], overlay[h])
      BY <3>1, SameTags
    <3> QED
      BY <1>7, <3>1, <3>2 DEF Turns
  <2> QED
    BY <1>10, <2>1, <2>2
<1>13. /\ \A q \in Reqs : q # r => /\ stage'[q] = stage[q] /\ deps'[q] = deps[q] /\ record'[q] = record[q]
                                   /\ outcome'[q] = outcome[q] /\ saw'[q] = saw[q] /\ effect'[q] = effect[q]
       /\ outcome[r] # "committed" /\ outcome'[r] \notin {"committed", "not_found"}
       /\ record'[r] = record[r] /\ stage'[r] # "judged"
  BY <1>2, <1>4, <1>5, <1>9
<1>14. (saw'[r] => Acknowledged(tx[r].hold)) /\ (Asks(r) => saw'[r] = saw[r])
  BY <1>1, <1>5, <1>6
<1>15. UNCHANGED <<tx, writes, cmdq, store, fetches, answers, applied, published>>
  BY <1>2, <1>8
<1>16. /\ stage'[r] = "open" /\ ReadsHold(r) /\ "pending" \notin deps'[r] /\ saw'[r]
       => Resolved(tx[r].hold)
  BY <1>1, <1>11
<1> HIDE <1>2, <1>3, <1>9
<1> QED
  BY <1>12, <1>13, <1>14, <1>15, <1>16, InwardOne

LEMMA InwardRetry ==
    ASSUME TypeOK, StaleInv, LifeInv, ReadInv, SeenInv, RetryDispatch, ~Ask(Head(deferred))
    PROVE  Inward
<1>0. PICK r : r = Head(deferred)
  OBVIOUS
<1>1. /\ deferred # <<>> /\ deferred' = Tail(deferred)
      /\ Skip(r) /\ ReleaseDep(r, "pending", Pin(overlay[tx[r].hold]), 0)
      /\ UNCHANGED <<tx, writes, cmdq, store, fetches, applied, published, saw, answers, record>>
  BY <1>0 DEF RetryDispatch, engineVars
<1>2. r \in Reqs /\ Deferred(r)
  BY <1>0, <1>1, DeferredShrinks DEF StaleInv
<1>3. stage[r] = "open"
  BY <1>2 DEF LifeInv, WaitInv
<1>4. PICK h \in Holds : h = tx[r].hold
  BY <1>2, RequestTypes
<1>5. PICK e \in Entry : e = Pin(overlay[h])
  BY RequestTypes, PinsKeepEntry
<1>6. Turns(h, overlay[h], e)
  BY <1>5, RequestTypes, SameTags DEF Turns
<1>7. saw[r] => Resolved(h)
  BY <1>1, <1>2, <1>4, GoneTold DEF Skip, BlocksLookups, SeenInv, ToldInv
<1>8. ReadsHold(r) /\ record'[r] > 0 => Handed(h)
  BY <1>1, <1>2, <1>4 DEF SeenInv, KnownInv
<1>9. answers' \subseteq answers /\ \A q \in Reqs : q # r => record'[q] = record[q]
  BY <1>1
<1>10. ReleaseDep(r, "pending", e, 0)
  BY <1>1, <1>4, <1>5
<1>11. /\ ReadsHold(r) /\ 0 # 0 => Handed(tx[r].hold)
       /\ deps[r] \subseteq {"pending"} /\ ReadsHold(r) /\ 0 = 0 /\ saw[r] => Resolved(tx[r].hold)
       /\ ReadsHold(r) /\ record'[r] > 0 => Handed(tx[r].hold)
       /\ ReadsHold(r) /\ record'[r] = 0 /\ "pending" \notin deps'[r] /\ saw[r] => Resolved(tx[r].hold)
       /\ Turns(tx[r].hold, overlay[tx[r].hold], e)
  BY <1>4, <1>6, <1>7, <1>8
<1>12. UNCHANGED <<tx, writes, cmdq, store, fetches, applied, published, saw>>
  BY <1>1
<1> HIDE <1>1
<1> QED
  BY <1>2, <1>3, <1>9, <1>10, <1>11, <1>12, InwardReleased

LEMMA InwardRollBack ==
    ASSUME TypeOK, LifeInv, ReadInv, SeenInv, RollBackEffect
    PROVE  Inward
<1>0. PICK r : r = Head(applying.batch)
  OBVIOUS
<1>1. r \in Reqs /\ stage[r] = "judged"
  BY <1>0, HeadJudged DEF RollBackEffect
<1>2. PICK h \in Holds : h = tx[r].hold
  BY <1>1, RequestTypes
<1>3. PICK c : c = Compensate(overlay[h], effect[r].amount, effect[r].left = 0)
  OBVIOUS
<1>4. /\ UNCHANGED <<tx, deps, record, effect, saw, writes, cmdq, store, fetches, answers, applied, published>>
      /\ stage' = [stage EXCEPT ![r] = "done"] /\ outcome' = [outcome EXCEPT ![r] = "failed"]
      /\ overlay' = [overlay EXCEPT ![h] = IF ReadsHold(r) THEN Unpinned(r, c) ELSE @]
  BY <1>0, <1>2, <1>3 DEF RollBackEffect, Finish, engineVars
<1>5. outcome[r] = "none" /\ overlay[h] \in Entry /\ effect[r].amount \in Nat
  BY <1>1 DEF ReadInv, TypeOK
<1>6. c \in Entry
  <2>1. effect[r].amount \in Int /\ (effect[r].left = 0) \in BOOLEAN
    BY <1>5
  <2> QED
    BY <1>3, <1>5, <2>1, ReservationsKeepEntry
<1>7. SameTag(Unpinned(r, c), c) /\ SameTag(c, overlay[h]) /\ SameTag(overlay[h], overlay[h])
  BY <1>3, <1>5, <1>6, SameTags
<1>8. /\ overlay'[h] = IF ReadsHold(r) THEN Unpinned(r, c) ELSE overlay[h]
      /\ \A g \in Holds : g # h => overlay'[g] = overlay[g]
  BY <1>4 DEF TypeOK
<1>9. SameTag(overlay'[h], overlay[h])
  BY <1>7, <1>8 DEF SameTag
<1>10. \A g \in Holds : Turns(g, overlay[g], overlay'[g])
  BY <1>8, <1>9 DEF Turns, SameTag
<1>11. /\ stage'[r] = "done" /\ outcome'[r] = "failed"
       /\ \A q \in Reqs : q # r => stage'[q] = stage[q] /\ outcome'[q] = outcome[q]
  BY <1>1, <1>4 DEF TypeOK
<1>12. /\ \A q \in Reqs : q # r => /\ stage'[q] = stage[q] /\ deps'[q] = deps[q] /\ record'[q] = record[q]
                                   /\ outcome'[q] = outcome[q] /\ saw'[q] = saw[q] /\ effect'[q] = effect[q]
       /\ outcome[r] # "committed" /\ outcome'[r] \notin {"committed", "not_found"}
       /\ record'[r] = record[r] /\ stage'[r] # "judged"
       /\ stage'[r] # "open" /\ saw'[r] = saw[r]
  BY <1>4, <1>5, <1>11
<1>13. saw[r] => Acknowledged(tx[r].hold)
  BY <1>1 DEF SeenInv, ToldInv
<1>14. UNCHANGED <<tx, writes, cmdq, store, fetches, answers, applied, published>>
  BY <1>4
<1> HIDE <1>4
<1> QED
  BY <1>1, <1>10, <1>12, <1>13, <1>14, InwardOne

LEMMA InwardBacklogs ==
    ASSUME TypeOK, LifeInv, ReadInv, SeenInv, NEW r \in Reqs, NEW e \in Entry,
           stage[r] = "judged", Finish(r, "committed"), Returned(e, overlay[tx[r].hold]),
           Backlogging(r, e), UNCHANGED <<answers, fetches, store, applied, published>>
    PROVE  Inward
<1>1. PICK h \in Holds : h = tx[r].hold
  BY RequestTypes
<1>2. /\ UNCHANGED <<tx, deps, record, effect, saw, cmdq>>
      /\ stage' = [stage EXCEPT ![r] = "done"] /\ outcome' = [outcome EXCEPT ![r] = "committed"]
      /\ overlay' = [overlay EXCEPT ![h] = Unpinned(r, e)] /\ writes' = Append(writes, r)
  BY <1>1 DEF Finish, Backlogging
<1>3. outcome[r] = "none"
  BY DEF ReadInv
<1>4. /\ stage'[r] = "done" /\ outcome'[r] = "committed"
      /\ \A q \in Reqs : q # r => stage'[q] = stage[q] /\ outcome'[q] = outcome[q]
      /\ overlay'[h] = Unpinned(r, e) /\ \A g \in Holds : g # h => overlay'[g] = overlay[g]
  BY <1>2 DEF TypeOK
<1>5. \A q : Backlogged(q)' <=> Backlogged(q) \/ q = r
  <2>1. /\ Len(writes') = Len(writes) + 1 /\ writes'[Len(writes) + 1] = r /\ Len(writes) \in Nat
        /\ \A i \in 1..Len(writes) : writes'[i] = writes[i]
    <3>1. writes \in Seq(Reqs) /\ writes' = Append(writes, r)
      BY <1>2 DEF TypeOK
    <3> QED
      BY <3>1
  <2>2. \A i : i \in 1..Len(writes') <=> i \in 1..Len(writes) \/ i = Len(writes) + 1
    BY <2>1
  <2> QED
    BY <2>1, <2>2 DEF Backlogged
<1>6. \A g \in Holds : Handed(g)' <=> Handed(g)
  <2>1. \A q \in Reqs : outcome'[q] = "committed" /\ ~Backlogged(q)' <=> outcome[q] = "committed" /\ ~Backlogged(q)
    BY <1>3, <1>4, <1>5
  <2> QED
    BY <1>2, <2>1 DEF Handed
<1>7. \A g \in Holds : Resolved(g) => Resolved(g)'
  BY <1>2, <1>3, <1>4 DEF Resolved, Resolutions, ReadsHold
<1>8. \A g \in Holds : Acknowledged(g) => Acknowledged(g)'
  BY <1>2, <1>3, <1>4 DEF Acknowledged
<1>9. \A g \in Holds : Turns(g, overlay[g], overlay'[g])
  <2>1. SameTag(Unpinned(r, e), e)
    BY SameTags
  <2>2. SameTag(e, overlay[h])
    BY <1>1 DEF Returned, SameTag, Live
  <2>3. SameTag(overlay'[h], overlay[h])
    BY <1>4, <2>1, <2>2 DEF SameTag
  <2> QED
    BY <1>4, <2>3 DEF Turns, SameTag
<1>10. \A q \in Reqs : q # r => /\ stage'[q] = stage[q] /\ deps'[q] = deps[q] /\ record'[q] = record[q]
                                /\ outcome'[q] = outcome[q] /\ saw'[q] = saw[q]
  BY <1>2, <1>4
<1>11. \A q \in Reqs : q # r =>
              /\ ReadsHold(q) /\ (record'[q] > 0 \/ stage'[q] = "judged" \/ outcome'[q] = "committed")
                 => Handed(tx[q].hold)
              /\ saw'[q] => Acknowledged(tx[q].hold)
              /\ Asks(q) => saw'[q] = saw[q]
              /\ /\ stage'[q] = "open" /\ ReadsHold(q) /\ "pending" \notin deps'[q]
                 /\ record'[q] = 0 /\ saw'[q]
                 => Resolved(tx[q].hold)
              /\ saw'[q] /\ outcome'[q] = "not_found" => Resolved(tx[q].hold)
  BY <1>2, <1>10, OthersTold DEF SeenInv
<1>12. ReadsHold(r) => Handed(tx[r].hold)
  BY DEF SeenInv, KnownInv
<1>13. saw'[r] = saw[r] /\ (saw[r] => Acknowledged(tx[r].hold))
  BY <1>2 DEF SeenInv, ToldInv
<1>14. answers' \subseteq answers /\ UNCHANGED <<tx, cmdq, store, fetches, applied, published>>
  BY <1>2
<1> HIDE <1>2
<1> QED
  BY <1>4, <1>6, <1>7, <1>8, <1>9, <1>11, <1>12, <1>13, <1>14 DEF Inward

\* An entry that may go is no removal's marker somebody still relies on.
LEMMA InwardEvict ==
    ASSUME TypeOK, StaleInv, LifeInv, ReadInv, PinInv, SeenInv, EvictIdle
    PROVE  Inward
<1>1. /\ UNCHANGED <<tx, stage, deps, record, effect, outcome, saw, writes, cmdq, store, fetches,
                     answers, applied, published>>
      /\ \A g \in Holds : overlay'[g] = overlay[g] \/ (overlay'[g] = NoEntry /\ Idle(overlay[g], published))
  BY DEF EvictIdle, reqVars, engineVars
<1>2. ASSUME NEW h \in Holds, overlay[h].tag = "removed", Idle(overlay[h], published), Needed(h)
      PROVE  FALSE
  <2>1. overlay[h].pinned = 0 /\ published >= overlay[h].safe_after
    BY <1>2 DEF Idle
  <2>2. CASE \E q \in Reqs : Asks(q) /\ tx[q].hold = h
    BY <2>1, <2>2, AsksPins
  <2>3. ASSUME NEW i \in 1..Len(cmdq), cmdq[i].op = "remove", tx[cmdq[i].req].hold = h PROVE FALSE
    <3>1. overlay[h].safe_after >= cmdq[i].n /\ published <= applied
      BY <2>3 DEF SeenInv, MarkInv
    <3>2. applied < cmdq[i].n
      BY <2>3 DEF StaleInv, QueueInOrder
    <3>3. cmdq[i].n \in Nat /\ applied \in Nat /\ published \in Nat /\ overlay[h].safe_after \in Nat
      BY QueueTypes, RequestTypes DEF TypeOK, Command, Entry
    <3> QED
      BY <2>1, <3>1, <3>2, <3>3
  <2> QED
    BY <1>2, <2>2, <2>3 DEF Needed
<1>3. \A h \in Holds : Turns(h, overlay[h], overlay'[h])
  BY <1>1, <1>2 DEF Turns, SameTag, NoEntry, Bare
<1> QED
  BY <1>1, <1>3, InwardStill

LEMMA InwardElsewhere ==
    ASSUME TypeOK, StaleInv, LifeInv, ReadInv, PinInv, SeenInv,
           \/ Propose \/ StartApply \/ UNCHANGED vars
           \/ UNCHANGED <<reqVars, overlay, writes, cmdq, engineVars>>
    PROVE  Inward
<1>1. UNCHANGED <<tx, stage, deps, record, effect, outcome, saw, writes, cmdq, store, fetches,
                  answers, applied, published, overlay>>
  BY DEF Propose, StartApply, reqVars, chanVars, engineVars, vars
<1>2. \A h \in Holds : Turns(h, overlay[h], overlay'[h])
  BY <1>1 DEF Turns, SameTag
<1> QED
  BY <1>1, <1>2, InwardStill

LEMMA SeenPublish ==
    ASSUME TypeOK, SeenInv, Publish
    PROVE  SeenInv'
<1>1. /\ published' = applied
      /\ UNCHANGED <<tx, stage, deps, record, effect, outcome, saw, writes, cmdq, store, fetches,
                     answers, applied, overlay>>
  BY DEF Publish, reqVars, chanVars
<1>2. \A h : Handed(h)' <=> Handed(h)
  BY <1>1 DEF Handed, Backlogged
<1>3. \A h : Resolved(h)' <=> Resolved(h)
  BY <1>1 DEF Resolved, Resolutions, ReadsHold
<1>4. \A h : Acknowledged(h)' <=> Acknowledged(h)
  BY <1>1 DEF Acknowledged
<1>5. \A h, n : Reaches(h, n)' <=> Reaches(h, n)
  BY <1>1 DEF Reaches
<1>6. (\A r : ReadsHold(r)' <=> ReadsHold(r)) /\ Replies' = Replies
  BY <1>1 DEF ReadsHold, Replies
<1>7. \A r : Owed(r)' <=> Owed(r)
  BY <1>1, <1>2 DEF Owed
<1>8. KnownInv'
  BY <1>1, <1>2, <1>6 DEF SeenInv, KnownInv
<1>9. applied <= applied
  BY DEF TypeOK
<1>10. MarkInv'
  BY <1>1, <1>9 DEF SeenInv, MarkInv
<1>11. ReviveInv'
  BY <1>1, <1>6, OwnStays DEF SeenInv, ReviveInv
<1>12. ToldInv'
  BY <1>1, <1>2, <1>3, <1>4, <1>6 DEF SeenInv, ToldInv
<1>13. ShownInv'
  BY <1>1, <1>2, <1>3, <1>5, <1>6, <1>7 DEF SeenInv, ShownInv
<1> QED
  BY <1>8, <1>10, <1>11, <1>12, <1>13 DEF SeenInv

-----------------------------------------------------------------------------
(***************************************************************************)
(* The engine's steps, the questions and the decisions handed over: the    *)
(* steps that move what is on its way.                                     *)
(***************************************************************************)
\* What the engine does, nothing of it changes what has been decided.
LEMMA EngineStands ==
    ASSUME UNCHANGED <<tx, stage, deps, record, effect, outcome, saw, writes, overlay>>
    PROVE  /\ \A h : /\ Handed(h)' <=> Handed(h)
                     /\ Resolved(h)' <=> Resolved(h)
                     /\ Acknowledged(h)' <=> Acknowledged(h)
                     /\ Of(h)' = Of(h)
           /\ \A r : (ReadsHold(r)' <=> ReadsHold(r)) /\ (Owed(r)' <=> Owed(r))
           /\ ToldInv => ToldInv'
<1>1. \A h : Handed(h)' <=> Handed(h)
  BY DEF Handed, Backlogged
<1>2. \A r : ReadsHold(r)' <=> ReadsHold(r)
  BY DEF ReadsHold
<1>3. \A h : Resolved(h)' <=> Resolved(h)
  BY DEF Resolved, Resolutions, ReadsHold
<1>4. \A h : Acknowledged(h)' <=> Acknowledged(h)
  BY DEF Acknowledged
<1>5. \A r : Owed(r)' <=> Owed(r)
  BY <1>1 DEF Owed
<1>6. ToldInv => ToldInv'
  BY <1>1, <1>2, <1>3, <1>4 DEF ToldInv
<1> QED
  BY <1>1, <1>2, <1>3, <1>4, <1>5, <1>6, OwnStays

LEMMA SeenHarvest ==
    ASSUME TypeOK, SeenInv, NEW f \in fetches, Harvest(f)
    PROVE  SeenInv'
<1>1. /\ UNCHANGED <<tx, stage, deps, record, effect, outcome, saw, writes, overlay, cmdq, store,
                     applied, published>>
      /\ fetches' = fetches \ {f} /\ answers' = answers \cup {Reply(f.req, f.found)}
  BY DEF Harvest, reqVars, chanVars
<1>2. PICK b : b = Reply(f.req, f.found)
  OBVIOUS
<1>3. b.req = f.req /\ b.found = f.found
  BY <1>2 DEF Reply
<1>4. \A a \in Replies' : \E c \in Replies : a.req = c.req /\ a.found = c.found
  BY <1>1, <1>2, <1>3 DEF Replies
<1>5. /\ \A h : /\ Handed(h)' <=> Handed(h)
                /\ Resolved(h)' <=> Resolved(h)
                /\ Of(h)' = Of(h)
      /\ \A r : (ReadsHold(r)' <=> ReadsHold(r)) /\ (Owed(r)' <=> Owed(r))
      /\ ToldInv'
  BY <1>1, EngineStands DEF SeenInv
<1>6. \A h, n : Reaches(h, n)' <=> Reaches(h, n)
  BY <1>1 DEF Reaches
<1>7. KnownInv'
  BY <1>1, <1>4, <1>5 DEF SeenInv, KnownInv
<1>8. MarkInv'
  BY <1>1 DEF SeenInv, MarkInv
<1>9. ReviveInv'
  <2> SUFFICES ASSUME NEW a \in Replies', a.found > 0,
                      EndsWith(cmdq, Of(tx[a.req].hold), store[tx[a.req].hold], 0)
               PROVE  overlay[tx[a.req].hold].tag = "removed"
    BY <1>1, <1>5 DEF ReviveInv
  <2>1. PICK c \in Replies : a.req = c.req /\ a.found = c.found
    BY <1>4
  <2> QED
    BY <2>1 DEF SeenInv, ReviveInv
<1>10. ShownInv'
  BY <1>1, <1>4, <1>5, <1>6 DEF SeenInv, ShownInv
<1> QED
  BY <1>5, <1>7, <1>8, <1>9, <1>10 DEF SeenInv

\* What the head of the queue brings the engine stays with it, unless a removal took it.
LEMMA ReachTaken ==
    ASSUME TypeOK, CreatedInv, ShownInv, cmdq # <<>>, cmdq' = Tail(cmdq), UNCHANGED tx, NEW h \in Holds,
           store'[h] = Turned(cmdq[1], Of(h), store[h]),
           NEW n \in Nat, n <= Len(cmdq), Reaches(h, n + 1)
    PROVE  Resolved(h) \/ Reaches(h, n)'
<1>1. /\ cmdq[1] \in Command /\ 1 \in 1..Len(cmdq)
      /\ \A i \in 1..Len(cmdq') : cmdq'[i] = cmdq[i + 1]
      /\ Len(cmdq') = Len(cmdq) - 1 /\ Len(cmdq) \in Nat
  BY TailOfQueue
<1>2. store[h] \in Nat
  BY RequestTypes
<1>3. \/ store[h] > 0
      \/ \E j \in 1..((n + 1) - 1) : cmdq[j].op = "create" /\ tx[cmdq[j].req].hold = h
  BY DEF Reaches
<1>4. PICK w \in Command : w = cmdq[1]
  BY <1>1
<1>5. w.req \in Reqs /\ w.left \in Nat /\ w.op \in {"lookup", "create", "reduce", "remove"}
  BY DEF Command
<1>6. w.op \in {"create", "reduce"} => w.left > 0
  BY <1>1, <1>4 DEF CreatedInv
<1>7. w.req \in Of(h) <=> tx[w.req].hold = h
  BY <1>5 DEF Of
<1>8. w.op = "remove" /\ tx[w.req].hold = h => Resolved(h)
  BY <1>1, <1>4 DEF ShownInv
<1>9. CASE store[h] > 0
  <2>1. (w.op = "remove" /\ tx[w.req].hold = h) \/ store'[h] > 0
    BY <1>2, <1>4, <1>5, <1>6, <1>7, <1>9 DEF Turned, Stored
  <2> QED
    BY <1>8, <2>1 DEF Reaches
<1>10. ASSUME NEW j \in 1..n, cmdq[j].op = "create", tx[cmdq[j].req].hold = h
       PROVE  Reaches(h, n)'
  <2>1. CASE j = 1
    <3>1. store'[h] > 0
      BY <1>4, <1>5, <1>6, <1>7, <1>10, <2>1 DEF Turned, Stored
    <3> QED
      BY <3>1 DEF Reaches
  <2>2. CASE j # 1
    <3>1. PICK k : k = j - 1
      OBVIOUS
    <3>2. k \in 1..(n - 1) /\ k \in 1..Len(cmdq') /\ k + 1 = j
      BY <1>1, <2>2, <3>1
    <3>3. cmdq'[k] = cmdq[j]
      BY <1>1, <3>2
    <3> QED
      BY <1>10, <3>2, <3>3 DEF Reaches
  <2> QED
    BY <2>1, <2>2
<1>11. (n + 1) - 1 = n
  OBVIOUS
<1> QED
  BY <1>3, <1>9, <1>10, <1>11

\* The head of the queue is taken: the part every command has.
LEMMA ShownTaken ==
    ASSUME TypeOK, CreatedInv, SeenInv, cmdq # <<>>, cmdq' = Tail(cmdq),
           UNCHANGED <<tx, stage, deps, record, effect, outcome, saw, writes, overlay>>,
           \A h \in Holds : store'[h] = Turned(cmdq[1], Of(h), store[h])
    PROVE  /\ \A i \in 1..Len(cmdq') : cmdq'[i].op # "lookup" => Handed(tx[cmdq'[i].req].hold)
           /\ \A i \in 1..Len(cmdq') : cmdq'[i].op = "remove" =>
                 /\ overlay[tx[cmdq'[i].req].hold].tag = "removed"
                 /\ overlay[tx[cmdq'[i].req].hold].safe_after >= cmdq'[i].n
                 /\ Resolved(tx[cmdq'[i].req].hold)
           /\ \A h \in Holds : Handed(h) => Resolved(h) \/ Reaches(h, Len(cmdq) + 1)'
           /\ \A i \in 1..Len(cmdq') : cmdq'[i].op = "lookup" /\ Owed(cmdq'[i].req)
                 => Resolved(tx[cmdq'[i].req].hold) \/ Reaches(tx[cmdq[i].req].hold, i)'
           /\ \A a \in Replies : a.found > 0 /\ EndsWith(cmdq', Of(tx[a.req].hold), store'[tx[a.req].hold], 0)
                 => overlay[tx[a.req].hold].tag = "removed"
<1>1. /\ \A i \in 1..Len(cmdq') : i + 1 \in 1..Len(cmdq) /\ cmdq'[i] = cmdq[i + 1]
      /\ Len(cmdq') = Len(cmdq) - 1 /\ Len(cmdq) \in Nat /\ cmdq \in Seq(Command)
  BY TailOfQueue DEF TypeOK
<1>2. \A i \in 1..Len(cmdq') : cmdq'[i].op # "lookup" => Handed(tx[cmdq'[i].req].hold)
  BY <1>1 DEF SeenInv, KnownInv
<1>3. \A i \in 1..Len(cmdq') : cmdq'[i].op = "remove" =>
         /\ overlay[tx[cmdq'[i].req].hold].tag = "removed"
         /\ overlay[tx[cmdq'[i].req].hold].safe_after >= cmdq'[i].n
  BY <1>1 DEF SeenInv, MarkInv
<1>4. \A i \in 1..Len(cmdq') : cmdq'[i].op = "remove" => Resolved(tx[cmdq'[i].req].hold)
  BY <1>1 DEF SeenInv, ShownInv
<1>5. ASSUME NEW h \in Holds, Handed(h) PROVE Resolved(h) \/ Reaches(h, Len(cmdq) + 1)'
  <2>1. Resolved(h) \/ Reaches(h, Len(cmdq) + 1)
    BY <1>5 DEF SeenInv, ShownInv
  <2>2. Len(cmdq) <= Len(cmdq) /\ Len(cmdq') + 1 = Len(cmdq)
    BY <1>1
  <2>3. PICK n \in Nat : n = Len(cmdq)
    BY <1>1
  <2>4. Resolved(h) \/ Reaches(h, n)'
    BY <2>1, <2>2, <2>3, ReachTaken DEF SeenInv
  <2> QED
    BY <2>2, <2>3, <2>4
<1>6. ASSUME NEW i \in 1..Len(cmdq'), cmdq'[i].op = "lookup", Owed(cmdq'[i].req)
      PROVE  Resolved(tx[cmdq'[i].req].hold) \/ Reaches(tx[cmdq[i].req].hold, i)'
  <2>1. i + 1 \in 1..Len(cmdq) /\ cmdq'[i] = cmdq[i + 1] /\ i \in Nat /\ i <= Len(cmdq)
    BY <1>1
  <2>2. PICK h \in Holds : h = tx[cmdq[i + 1].req].hold
    BY <2>1, RequestTypes
  <2>3. Resolved(h) \/ Reaches(h, i + 1)
    BY <1>6, <2>1, <2>2 DEF SeenInv, ShownInv
  <2>4. Resolved(h) \/ Reaches(h, i)'
    BY <2>1, <2>3, ReachTaken DEF SeenInv
  <2>5. h = tx[cmdq'[i].req].hold
    BY <2>1, <2>2
  <2> QED
    BY <2>4, <2>5
<1>7. ASSUME NEW a \in Replies, a.found > 0,
             EndsWith(cmdq', Of(tx[a.req].hold), store'[tx[a.req].hold], 0)
      PROVE  overlay[tx[a.req].hold].tag = "removed"
  <2>1. PICK h \in Holds : h = tx[a.req].hold
    BY RequestTypes
  <2>2. EndsWith(Tail(cmdq), Of(h), Turned(cmdq[1], Of(h), store[h]), 0)
    BY <1>7, <2>1
  <2>3. EndsWith(cmdq, Of(h), store[h], 0)
    BY <1>1, <2>2, EndsBefore
  <2> QED
    BY <1>7, <2>1, <2>3 DEF SeenInv, ReviveInv
<1> QED
  BY <1>2, <1>3, <1>4, <1>5, <1>6, <1>7

LEMMA SeenEngineApply ==
    ASSUME TypeOK, CreatedInv, SeenInv, EngineApply
    PROVE  SeenInv'
<1>1. /\ cmdq # <<>> /\ cmdq' = Tail(cmdq) /\ Head(cmdq).op # "lookup"
      /\ store' = [store EXCEPT ![tx[Head(cmdq).req].hold] = Stored(Head(cmdq), @)]
      /\ applied' = applied + 1
      /\ UNCHANGED <<tx, stage, deps, record, effect, outcome, saw, writes, overlay, answers, fetches,
                     published>>
  BY DEF EngineApply, reqVars, chanVars
<1>2. 1 \in 1..Len(cmdq) /\ Head(cmdq) = cmdq[1] /\ cmdq[1].req \in Reqs
  BY <1>1, TailOfQueue DEF Command
<1>3. PICK g \in Holds : g = tx[cmdq[1].req].hold
  BY <1>2, RequestTypes
<1>4. store'[g] = Stored(cmdq[1], store[g]) /\ \A h \in Holds : h # g => store'[h] = store[h]
  BY <1>1, <1>2, <1>3 DEF TypeOK
<1>5. \A h \in Holds : store'[h] = Turned(cmdq[1], Of(h), store[h])
  <2>1. \A h : cmdq[1].req \in Of(h) <=> h = g
    BY <1>2, <1>3 DEF Of
  <2> QED
    BY <1>1, <1>2, <1>4, <2>1 DEF Turned
<1>6. UNCHANGED <<tx, stage, deps, record, effect, outcome, saw, writes, overlay>>
  BY <1>1
<1>7. /\ \A h : /\ Handed(h)' <=> Handed(h)
                /\ Resolved(h)' <=> Resolved(h)
                /\ Of(h)' = Of(h)
      /\ \A r : (ReadsHold(r)' <=> ReadsHold(r)) /\ (Owed(r)' <=> Owed(r))
      /\ ToldInv'
  BY <1>6, EngineStands DEF SeenInv
<1>8. /\ \A i \in 1..Len(cmdq') : cmdq'[i].op # "lookup" => Handed(tx[cmdq'[i].req].hold)
      /\ \A i \in 1..Len(cmdq') : cmdq'[i].op = "remove" =>
            /\ overlay[tx[cmdq'[i].req].hold].tag = "removed"
            /\ overlay[tx[cmdq'[i].req].hold].safe_after >= cmdq'[i].n
            /\ Resolved(tx[cmdq'[i].req].hold)
      /\ \A h \in Holds : Handed(h) => Resolved(h) \/ Reaches(h, Len(cmdq) + 1)'
      /\ \A i \in 1..Len(cmdq') : cmdq'[i].op = "lookup" /\ Owed(cmdq'[i].req)
            => Resolved(tx[cmdq'[i].req].hold) \/ Reaches(tx[cmdq[i].req].hold, i)'
      /\ \A a \in Replies : a.found > 0 /\ EndsWith(cmdq', Of(tx[a.req].hold), store'[tx[a.req].hold], 0)
            => overlay[tx[a.req].hold].tag = "removed"
  BY <1>1, <1>5, <1>6, ShownTaken
<1>9. Replies' = Replies
  BY <1>1 DEF Replies
<1>10. KnownInv'
  <2>1. \A h \in Holds : store'[h] > 0 => Handed(h)
    <3>1. Handed(g)
      BY <1>1, <1>2, <1>3 DEF SeenInv, KnownInv
    <3> QED
      BY <1>4, <3>1 DEF SeenInv, KnownInv
  <2>2. \A i \in 1..Len(cmdq') : cmdq'[i].op # "lookup" => Handed(tx[cmdq[i].req].hold)'
    BY <1>6, <1>7, <1>8
  <2>3. \A h \in Holds : overlay'[h].tag \in {"decided", "removed"} => Handed(h)'
    BY <1>6, <1>7 DEF SeenInv, KnownInv
  <2>4. \A a \in Replies' : a.found > 0 => Handed(tx[a.req].hold)'
    BY <1>6, <1>7, <1>9 DEF SeenInv, KnownInv
  <2>5. \A r \in Reqs : ReadsHold(r)' /\ (record'[r] > 0 \/ stage'[r] = "judged" \/ outcome'[r] = "committed")
                      => Handed(tx[r].hold)'
    BY <1>6, <1>7 DEF SeenInv, KnownInv
  <2> QED
    BY <1>7, <2>1, <2>2, <2>3, <2>4, <2>5 DEF KnownInv
<1>11. MarkInv'
  <2>1. published' <= applied'
    <3>1. published <= applied /\ applied \in Nat /\ published \in Nat
      BY DEF SeenInv, MarkInv, TypeOK
    <3> QED
      BY <1>1, <3>1
  <2> QED
    BY <1>6, <1>8, <2>1 DEF MarkInv
<1>12. ReviveInv'
  BY <1>6, <1>7, <1>8, <1>9 DEF ReviveInv
<1>13. ShownInv'
  <2>1. \A a \in Replies' : a.found = 0 /\ Owed(a.req)' => Resolved(tx[a.req].hold)'
    BY <1>6, <1>7, <1>9 DEF SeenInv, ShownInv
  <2>2. \A i \in 1..Len(cmdq') : cmdq'[i].op = "remove" => Resolved(tx[cmdq[i].req].hold)'
    BY <1>6, <1>7, <1>8
  <2>3. \A h \in Holds : Handed(h)' => Resolved(h)' \/ Reaches(h, Len(cmdq) + 1)'
    BY <1>7, <1>8
  <2>4. \A i \in 1..Len(cmdq') : cmdq'[i].op = "lookup" /\ Owed(cmdq[i].req)'
            => Resolved(tx[cmdq[i].req].hold)' \/ Reaches(tx[cmdq[i].req].hold, i)'
    BY <1>6, <1>7, <1>8
  <2> QED
    BY <2>1, <2>2, <2>3, <2>4 DEF ShownInv
<1> QED
  BY <1>7, <1>10, <1>11, <1>12, <1>13 DEF SeenInv

LEMMA SeenEngineLookup ==
    ASSUME TypeOK, CreatedInv, SeenInv, EngineLookup
    PROVE  SeenInv'
<1>0. PICK r : r = Head(cmdq).req
  OBVIOUS
<1>1. /\ cmdq # <<>> /\ cmdq' = Tail(cmdq) /\ Head(cmdq).op = "lookup"
      /\ UNCHANGED <<tx, stage, deps, record, effect, outcome, saw, writes, overlay, store, applied,
                     published>>
      /\ \/ answers' = answers \cup {Reply(r, store[tx[r].hold])} /\ UNCHANGED fetches
         \/ fetches' = fetches \cup {[req |-> r, found |-> store[tx[r].hold]]} /\ UNCHANGED answers
  BY <1>0 DEF EngineLookup, reqVars, chanVars
<1>2. 1 \in 1..Len(cmdq) /\ Head(cmdq) = cmdq[1] /\ r \in Reqs /\ r = cmdq[1].req /\ cmdq \in Seq(Command)
  BY <1>0, <1>1, TailOfQueue DEF Command, TypeOK
<1>3. PICK h \in Holds : h = tx[r].hold
  BY <1>2, RequestTypes
<1>4. \A a \in Replies' : a \in Replies \/ (a.req = r /\ a.found = store[h])
  BY <1>1, <1>3 DEF Replies, Reply
<1>5. \A g \in Holds : store'[g] = Turned(cmdq[1], Of(g), store[g])
  BY <1>1, <1>2 DEF Turned
<1>6. UNCHANGED <<tx, stage, deps, record, effect, outcome, saw, writes, overlay>>
  BY <1>1
<1>7. /\ \A g : /\ Handed(g)' <=> Handed(g)
                /\ Resolved(g)' <=> Resolved(g)
                /\ Of(g)' = Of(g)
      /\ \A q : (ReadsHold(q)' <=> ReadsHold(q)) /\ (Owed(q)' <=> Owed(q))
      /\ ToldInv'
  BY <1>6, EngineStands DEF SeenInv
<1>8. /\ \A i \in 1..Len(cmdq') : cmdq'[i].op # "lookup" => Handed(tx[cmdq'[i].req].hold)
      /\ \A i \in 1..Len(cmdq') : cmdq'[i].op = "remove" =>
            /\ overlay[tx[cmdq'[i].req].hold].tag = "removed"
            /\ overlay[tx[cmdq'[i].req].hold].safe_after >= cmdq'[i].n
            /\ Resolved(tx[cmdq'[i].req].hold)
      /\ \A g \in Holds : Handed(g) => Resolved(g) \/ Reaches(g, Len(cmdq) + 1)'
      /\ \A i \in 1..Len(cmdq') : cmdq'[i].op = "lookup" /\ Owed(cmdq'[i].req)
            => Resolved(tx[cmdq'[i].req].hold) \/ Reaches(tx[cmdq[i].req].hold, i)'
      /\ \A a \in Replies : a.found > 0 /\ EndsWith(cmdq', Of(tx[a.req].hold), store'[tx[a.req].hold], 0)
            => overlay[tx[a.req].hold].tag = "removed"
  BY <1>1, <1>5, <1>6, ShownTaken
<1>9. store[h] \in Nat /\ (store[h] > 0 => Handed(h))
  BY RequestTypes DEF SeenInv, KnownInv
<1>10. KnownInv'
  <2>1. \A g \in Holds : store'[g] > 0 => Handed(g)'
    BY <1>1, <1>7 DEF SeenInv, KnownInv
  <2>2. \A i \in 1..Len(cmdq') : cmdq'[i].op # "lookup" => Handed(tx[cmdq[i].req].hold)'
    BY <1>6, <1>7, <1>8
  <2>3. \A g \in Holds : overlay'[g].tag \in {"decided", "removed"} => Handed(g)'
    BY <1>6, <1>7 DEF SeenInv, KnownInv
  <2>4. \A a \in Replies' : a.found > 0 => Handed(tx[a.req].hold)'
    BY <1>3, <1>4, <1>6, <1>7, <1>9 DEF SeenInv, KnownInv
  <2>5. \A q \in Reqs : ReadsHold(q)' /\ (record'[q] > 0 \/ stage'[q] = "judged" \/ outcome'[q] = "committed")
                      => Handed(tx[q].hold)'
    BY <1>6, <1>7 DEF SeenInv, KnownInv
  <2> QED
    BY <2>1, <2>2, <2>3, <2>4, <2>5 DEF KnownInv
<1>11. MarkInv'
  <2>1. published' <= applied'
    BY <1>1 DEF SeenInv, MarkInv
  <2> QED
    BY <1>6, <1>8, <2>1 DEF MarkInv
<1>12. ReviveInv'
  <2> SUFFICES ASSUME NEW a \in Replies', a.found > 0,
                      EndsWith(cmdq', Of(tx[a.req].hold), store'[tx[a.req].hold], 0)
               PROVE  overlay[tx[a.req].hold].tag = "removed"
    BY <1>6, <1>7 DEF ReviveInv
  <2>1. CASE a \in Replies
    BY <1>8, <2>1
  <2>2. CASE a.req = r /\ a.found = store[h]
    <3>1. EndsWith(Tail(cmdq), Of(h), Turned(cmdq[1], Of(h), store[h]), 0)
      BY <1>1, <1>3, <1>5, <2>2
    <3>2. EndsWith(cmdq, Of(h), store[h], 0)
      BY <1>1, <1>2, <3>1, EndsBefore
    <3>3. \A i \in 1..Len(cmdq) : cmdq[i].op \in {"create", "reduce"} => cmdq[i].left > 0
      BY DEF CreatedInv
    <3>4. PICK i \in 1..Len(cmdq) : cmdq[i].op = "remove" /\ cmdq[i].req \in Of(h)
      BY <1>2, <1>9, <2>2, <3>2, <3>3, OnlyRemovalsEnd
    <3>5. tx[cmdq[i].req].hold = h
      BY <3>4 DEF Of
    <3> QED
      BY <1>3, <2>2, <3>4, <3>5 DEF SeenInv, MarkInv
  <2> QED
    BY <1>4, <2>1, <2>2
<1>13. ShownInv'
  <2>1. \A a \in Replies' : a.found = 0 /\ Owed(a.req)' => Resolved(tx[a.req].hold)'
    <3>1. \A a \in Replies : a.found = 0 /\ Owed(a.req) => Resolved(tx[a.req].hold)
      BY DEF SeenInv, ShownInv
    <3>2. store[h] = 0 /\ Owed(r) => Resolved(h)
      <4>1. Owed(r) => Resolved(h) \/ Reaches(h, 1)
        BY <1>1, <1>2, <1>3 DEF SeenInv, ShownInv
      <4>2. ~(\E j \in 1..(1 - 1) : TRUE)
        OBVIOUS
      <4> QED
        BY <4>1, <4>2 DEF Reaches
    <3> QED
      BY <1>3, <1>4, <1>6, <1>7, <3>1, <3>2
  <2>2. \A i \in 1..Len(cmdq') : cmdq'[i].op = "remove" => Resolved(tx[cmdq[i].req].hold)'
    BY <1>6, <1>7, <1>8
  <2>3. \A g \in Holds : Handed(g)' => Resolved(g)' \/ Reaches(g, Len(cmdq) + 1)'
    BY <1>7, <1>8
  <2>4. \A i \in 1..Len(cmdq') : cmdq'[i].op = "lookup" /\ Owed(cmdq[i].req)'
            => Resolved(tx[cmdq[i].req].hold)' \/ Reaches(tx[cmdq[i].req].hold, i)'
    BY <1>6, <1>7, <1>8
  <2> QED
    BY <2>1, <2>2, <2>3, <2>4 DEF ShownInv
<1> QED
  BY <1>7, <1>10, <1>11, <1>12, <1>13 DEF SeenInv

\* What is ahead in the queue stays ahead of what joins it.
LEMMA ReachKept ==
    ASSUME TypeOK, NEW w \in Command, cmdq' = Append(cmdq, w), UNCHANGED <<tx, store>>, NEW h, NEW n \in Nat,
           NEW m \in Nat, n <= m, n <= Len(cmdq) + 1, Reaches(h, n)
    PROVE  Reaches(h, m)'
<1>1. \A j \in 1..(n - 1) : j \in 1..(m - 1) /\ cmdq'[j] = cmdq[j]
  BY DEF TypeOK
<1> QED
  BY <1>1 DEF Reaches

LEMMA Joined ==
    ASSUME NEW S, NEW q \in Seq(S), NEW w \in S
    PROVE  /\ Len(Append(q, w)) = Len(q) + 1 /\ Append(q, w)[Len(q) + 1] = w
           /\ \A i \in 1..Len(q) : Append(q, w)[i] = q[i]
           /\ \A i \in 1..Len(Append(q, w)) : i \in 1..Len(q) \/ i = Len(q) + 1
<1>1. /\ Len(Append(q, w)) = Len(q) + 1 /\ Append(q, w)[Len(q) + 1] = w /\ Len(q) \in Nat
      /\ \A i \in 1..Len(q) : Append(q, w)[i] = q[i]
  OBVIOUS
<1>2. \A i \in 1..Len(Append(q, w)) : i \in 1..Len(q) \/ i = Len(q) + 1
  BY <1>1
<1> QED
  BY <1>1, <1>2

\* The hold's entry waits for the engine's answer from the first question on.
LEMMA AskedTag ==
    ASSUME NEW e \in Entry, NEW f, f = Pin(BeginLookup(e))
    PROVE  IF e.tag = "none" THEN f.tag = "watched" ELSE SameTag(f, e)
<1>1. BeginLookup(e) \in Entry
  BY PinsKeepEntry
<1>2. f.tag = BeginLookup(e).tag /\ f.safe_after = BeginLookup(e).safe_after
  BY <1>1, PinsMove
<1> QED
  BY <1>2 DEF BeginLookup, Bare, SameTag

LEMMA SeenAsk ==
    ASSUME TypeOK, StaleInv, LifeInv, ReadInv, PinInv, SeenInv, NEW r \in Reqs, Ask(r),
           UNCHANGED <<tx, record, effect, outcome, writes, store, fetches, answers, applied, published>>,
           \A q \in Reqs : q # r => stage'[q] = stage[q] /\ deps'[q] = deps[q] /\ saw'[q] = saw[q],
           stage'[r] = "open", "pending" \in deps'[r], outcome[r] = "none", ~Asks(r),
           saw'[r] => Acknowledged(tx[r].hold)
    PROVE  SeenInv'
<1>1. PICK h \in Holds : h = tx[r].hold
  BY RequestTypes
<1>2. PICK w : w = [op |-> "lookup", req |-> r, left |-> 0, n |-> applies_sent]
  OBVIOUS
<1>3. /\ writes = <<>> /\ cmdq' = Append(cmdq, w)
      /\ overlay' = [overlay EXCEPT ![h] = Pin(BeginLookup(overlay[h]))]
  BY <1>1, <1>2 DEF Ask, BlocksLookups
<1>4. w \in Command /\ w.op = "lookup" /\ w.req = r
  BY <1>2 DEF Command, TypeOK
<1>5. PICK n \in Nat : n = Len(cmdq)
  BY QueueTypes
<1>6. /\ Len(cmdq') = n + 1 /\ cmdq'[n + 1] = w /\ \A i \in 1..n : cmdq'[i] = cmdq[i]
      /\ \A i \in 1..Len(cmdq') : i \in 1..n \/ i = n + 1
  BY <1>3, <1>4, <1>5, QueueTypes, Joined
<1>7. /\ IF overlay[h].tag = "none" THEN overlay'[h].tag = "watched" ELSE SameTag(overlay'[h], overlay[h])
      /\ \A g \in Holds : g # h => overlay'[g] = overlay[g]
  BY <1>3, AskedTag DEF TypeOK
<1>8. \A g \in Holds : /\ overlay'[g].tag # "watched" => SameTag(overlay'[g], overlay[g])
                       /\ overlay[g].tag # "none" => SameTag(overlay'[g], overlay[g])
  BY <1>7 DEF SameTag
<1>9. /\ \A g : /\ Handed(g)' <=> Handed(g)
                /\ Resolved(g)' <=> Resolved(g)
                /\ Acknowledged(g)' <=> Acknowledged(g)
                /\ Of(g)' = Of(g)
      /\ \A q : ReadsHold(q)' <=> ReadsHold(q)
      /\ Replies' = Replies
  <2>1. UNCHANGED <<tx, effect, outcome, writes, answers, fetches>>
    OBVIOUS
  <2>2. \A g : Handed(g)' <=> Handed(g)
    BY <2>1 DEF Handed, Backlogged
  <2>3. \A g : Resolved(g)' <=> Resolved(g)
    BY <2>1 DEF Resolved, Resolutions, ReadsHold
  <2>4. \A g : Acknowledged(g)' <=> Acknowledged(g)
    BY <2>1 DEF Acknowledged
  <2>5. (\A q : ReadsHold(q)' <=> ReadsHold(q)) /\ Replies' = Replies
    BY <2>1 DEF ReadsHold, Replies
  <2> QED
    BY <2>2, <2>3, <2>4, <2>5, OwnStays
<1>10. saw'[r] \/ Handed(h) => Handed(h)
  BY <1>1, <1>3, GoneTold DEF SeenInv
<1>11. KnownInv'
  <2>1. \A i \in 1..Len(cmdq') : cmdq'[i].op # "lookup" => Handed(tx[cmdq[i].req].hold)'
    BY <1>4, <1>5, <1>6, <1>9 DEF SeenInv, KnownInv
  <2>2. \A g \in Holds : overlay'[g].tag \in {"decided", "removed"} => Handed(g)'
    BY <1>8, <1>9 DEF SeenInv, KnownInv, SameTag
  <2>3. \A q \in Reqs : ReadsHold(q)' /\ (record'[q] > 0 \/ stage'[q] = "judged" \/ outcome'[q] = "committed")
                      => Handed(tx[q].hold)'
    BY <1>9 DEF SeenInv, KnownInv
  <2>4. \A g \in Holds : store'[g] > 0 => Handed(g)'
    BY <1>9 DEF SeenInv, KnownInv
  <2>5. \A a \in Replies' : a.found > 0 => Handed(tx[a.req].hold)'
    BY <1>9 DEF SeenInv, KnownInv
  <2> QED
    BY <2>1, <2>2, <2>3, <2>4, <2>5 DEF KnownInv
<1>12. MarkInv'
  <2>1. ASSUME NEW i \in 1..n, cmdq[i].op = "remove"
        PROVE  /\ overlay'[tx[cmdq[i].req].hold].tag = "removed"
               /\ overlay'[tx[cmdq[i].req].hold].safe_after >= cmdq[i].n
    <3>1. PICK g \in Holds : g = tx[cmdq[i].req].hold
      BY <1>5, RequestTypes
    <3>2. overlay[g].tag = "removed" /\ overlay[g].safe_after >= cmdq[i].n
      BY <1>5, <2>1, <3>1 DEF SeenInv, MarkInv
    <3> QED
      BY <1>8, <3>1, <3>2 DEF SameTag
  <2>2. \A i \in 1..Len(cmdq') : cmdq'[i].op = "remove" => i \in 1..n /\ cmdq'[i] = cmdq[i] /\ cmdq[i].op = "remove"
    BY <1>4, <1>6
  <2>3. published <= applied
    BY DEF SeenInv, MarkInv
  <2> QED
    BY <2>1, <2>2, <2>3 DEF MarkInv
<1>13. ReviveInv'
  <2> SUFFICES ASSUME NEW a \in Replies, a.found > 0,
                      EndsWith(cmdq', Of(tx[a.req].hold), store[tx[a.req].hold], 0)
               PROVE  overlay'[tx[a.req].hold].tag = "removed"
    BY <1>9 DEF ReviveInv
  <2>1. PICK g \in Holds : g = tx[a.req].hold
    BY RequestTypes
  <2>2. EndsWith(Append(cmdq, w), Of(g), store[g], 0) /\ cmdq \in Seq(Command)
    BY <1>3, <2>1 DEF TypeOK
  <2>3. PICK before : EndsWith(cmdq, Of(g), store[g], before) /\ 0 = Turned(w, Of(g), before)
    BY <1>4, <2>2, EndsAppended
  <2>4. before = 0
    BY <1>4, <2>3 DEF Turned
  <2>5. overlay[g].tag = "removed"
    BY <2>1, <2>3, <2>4 DEF SeenInv, ReviveInv
  <2> QED
    BY <1>8, <2>1, <2>5 DEF SameTag
<1>14. ToldInv'
  <2>1. \A q \in Reqs : saw'[q] => Acknowledged(tx[q].hold)'
    BY <1>9 DEF SeenInv, ToldInv
  <2>2. \A g \in Holds : overlay'[g].tag = "removed" => Resolved(g)'
    BY <1>8, <1>9 DEF SeenInv, ToldInv, SameTag
  <2>3. \A g \in Holds : overlay'[g].tag = "missing" /\ Handed(g)' => Resolved(g)'
    BY <1>8, <1>9 DEF SeenInv, ToldInv, SameTag
  <2>4. \A q \in Reqs : /\ stage'[q] = "open" /\ ReadsHold(q)' /\ "pending" \notin deps'[q]
                        /\ record'[q] = 0 /\ saw'[q]
                        => Resolved(tx[q].hold)'
    BY <1>9 DEF SeenInv, ToldInv
  <2>5. \A q \in Reqs : saw'[q] /\ outcome'[q] = "not_found" => Resolved(tx[q].hold)'
    BY <1>9 DEF SeenInv, ToldInv
  <2> QED
    BY <2>1, <2>2, <2>3, <2>4, <2>5 DEF ToldInv
<1>15. \A q \in Reqs : Asks(q) /\ Owed(q)' => Owed(q)
  <2> SUFFICES ASSUME NEW q \in Reqs, Asks(q), Owed(q)' PROVE Owed(q)
    OBVIOUS
  <2>1. PICK g \in Holds : g = tx[q].hold
    BY RequestTypes
  <2>2. q # r /\ overlay[g].tag # "none"
    BY <2>1, AsksPins
  <2>3. saw[q] \/ (Handed(g) /\ overlay'[g].tag = "watched")
    BY <1>9, <2>1, <2>2 DEF Owed
  <2> QED
    BY <1>8, <2>1, <2>2, <2>3 DEF Owed, SameTag
<1>16. ShownInv'
  <2>1. \A i \in 1..Len(cmdq') : cmdq'[i].op = "remove" => Resolved(tx[cmdq[i].req].hold)'
    BY <1>4, <1>5, <1>6, <1>9 DEF SeenInv, ShownInv
  <2>2. ASSUME NEW g \in Holds, Handed(g) PROVE Resolved(g) \/ Reaches(g, n + 1)
    BY <1>5, <2>2 DEF SeenInv, ShownInv
  <2>3. \A g \in Holds : Reaches(g, n + 1) => Reaches(g, n + 1)' /\ Reaches(g, n + 2)'
    <3>1. n + 1 \in Nat /\ n + 2 \in Nat /\ n + 1 <= n + 1 /\ n + 1 <= n + 2 /\ n + 1 <= Len(cmdq) + 1
      BY <1>5
    <3> QED
      BY <1>3, <1>4, <3>1, ReachKept
  <2>4. \A g \in Holds : Handed(g)' => Resolved(g)' \/ Reaches(g, Len(cmdq) + 1)'
    <3>1. Len(cmdq') + 1 = n + 2
      BY <1>6
    <3> QED
      BY <1>9, <2>2, <2>3, <3>1
  <2>5. ASSUME NEW i \in 1..Len(cmdq'), cmdq'[i].op = "lookup", Owed(cmdq[i].req)'
        PROVE  Resolved(tx[cmdq[i].req].hold)' \/ Reaches(tx[cmdq[i].req].hold, i)'
    <3>1. CASE i \in 1..n
      <4>1. cmdq'[i] = cmdq[i] /\ cmdq[i].op = "lookup" /\ cmdq[i].req \in Reqs /\ Asks(cmdq[i].req)
        BY <1>5, <1>6, <2>5, <3>1, RequestTypes
      <4>2. PICK q \in Reqs : q = cmdq[i].req
        BY <4>1
      <4>3. Owed(q)
        BY <1>15, <2>5, <4>1, <4>2
      <4>4. Resolved(tx[q].hold) \/ Reaches(tx[q].hold, i)
        BY <1>5, <3>1, <4>1, <4>2, <4>3 DEF SeenInv, ShownInv
      <4>5. i \in Nat /\ i <= i /\ i <= Len(cmdq) + 1
        BY <1>5, <3>1
      <4>6. Reaches(tx[q].hold, i) => Reaches(tx[q].hold, i)'
        BY <1>3, <1>4, <4>5, ReachKept
      <4> QED
        BY <1>9, <4>1, <4>2, <4>4, <4>6
    <3>2. CASE i = n + 1
      <4>1. cmdq'[i].req = r
        BY <1>4, <1>6, <3>2
      <4>2. saw'[r] \/ Handed(h)
        BY <1>1, <1>9, <2>5, <4>1 DEF Owed
      <4>3. Resolved(h) \/ Reaches(h, n + 1)'
        BY <1>10, <2>2, <2>3, <4>2
      <4> QED
        BY <1>1, <1>9, <3>2, <4>1, <4>3
    <3> QED
      BY <1>6, <3>1, <3>2
  <2>6. \A a \in Replies' : a.found = 0 /\ Owed(a.req)' => Resolved(tx[a.req].hold)'
    BY <1>9, <1>15, RequestTypes DEF SeenInv, ShownInv
  <2> QED
    BY <2>1, <2>4, <2>5, <2>6 DEF ShownInv
<1> QED
  BY <1>11, <1>12, <1>13, <1>14, <1>16 DEF SeenInv

\* A committed decision goes to the engine, at once or from the backlog; e is the entry it
\* is told to.
HandsOver(r, e) ==
    /\ stage[r] = "judged" \/ outcome[r] = "committed"
    /\ outcome[r] = "committed" => Backlogged(r)
    /\ ~Backlogged(r)' /\ \A q \in Reqs : q # r => (Backlogged(q)' <=> Backlogged(q))
    /\ UNCHANGED <<tx, deps, record, effect, saw, store, answers, fetches, applied, published>>
    /\ stage'[r] = "done" /\ outcome'[r] = "committed"
    /\ \A q \in Reqs : q # r => stage'[q] = stage[q] /\ outcome'[q] = outcome[q]
    /\ cmdq' = Append(cmdq, PendingEffect(r))
    /\ SameTag(e, overlay[tx[r].hold]) /\ SameTag(overlay'[tx[r].hold], Sent(PendingEffect(r), e))
    /\ \A g \in Holds : g # tx[r].hold => overlay'[g] = overlay[g]

\* What one decision handed over changes of what is known.
Changes(r, h, w) ==
    /\ w.op \in {"create", "reduce", "remove"} /\ w.req = r /\ w.n = applies_sent + 1
    /\ w.op \in {"create", "reduce"} => w.left > 0
    /\ \A g \in Holds : /\ Handed(g)' <=> Handed(g) \/ g = h
                        /\ Resolved(g) => Resolved(g)'
                        /\ Acknowledged(g) => Acknowledged(g)'
                        /\ g # h => overlay'[g] = overlay[g]
    /\ w.op = "create" => ~Handed(h) /\ overlay'[h].tag \in {"none", "decided"}
    /\ w.op # "create" => Handed(h)
    /\ w.op = "reduce" => SameTag(overlay'[h], overlay[h])
    /\ w.op = "remove" => Resolved(h)' /\ overlay'[h].tag = "removed" /\ overlay'[h].safe_after = w.n

LEMMA SentTag ==
    ASSUME NEW r \in Reqs, NEW e, NEW f, NEW w, w = PendingEffect(r), SameTag(f, Sent(w, e))
    PROVE  /\ w.op = "create" => f.tag \in {"none", "decided"}
           /\ w.op = "reduce" => SameTag(f, e)
           /\ w.op = "remove" => f.tag = "removed" /\ f.safe_after = w.n
<1>1. /\ w.op = "create" => Sent(w, e) = Created(e, w.left)
      /\ w.op = "reduce" => Sent(w, e) = NoteRemaining(e, w.left)
      /\ w.op = "remove" => Sent(w, e) = Forget(e, w.n)
  BY DEF Sent
<1>2. Created(e, w.left).tag \in {"none", "decided"}
  BY DEF Created, Decide, Hold
<1>3. SameTag(NoteRemaining(e, w.left), e)
  BY DEF NoteRemaining, Hold, Live, SameTag
<1>4. Forget(e, w.n).tag = "removed" /\ Forget(e, w.n).safe_after = w.n
  BY DEF Forget
<1> QED
  BY <1>1, <1>2, <1>3, <1>4 DEF SameTag

LEMMA HandsChanges ==
    ASSUME TypeOK, ReadInv, CreatedInv, SeenInv, NEW r \in Reqs, NEW e, HandsOver(r, e),
           NEW h \in Holds, h = tx[r].hold, NEW w, w = PendingEffect(r)
    PROVE  Changes(r, h, w)
<1>1. /\ effect[r].left \in Nat /\ applies_sent \in Nat
      /\ UNCHANGED <<tx, effect>> /\ (stage[r] = "judged" \/ outcome[r] = "committed")
      /\ outcome'[r] = "committed" /\ \A q \in Reqs : q # r => outcome'[q] = outcome[q]
  BY DEF TypeOK, HandsOver
<1>2. /\ w.op \in {"create", "reduce", "remove"} /\ w.req = r /\ w.n = applies_sent + 1
      /\ w.op = "create" <=> ~ReadsHold(r)
      /\ w.op = "remove" => effect[r].left = 0
  BY <1>1 DEF PendingEffect, ReadsHold
<1>3. w.op \in {"create", "reduce"} => w.left > 0
  BY <1>1, PendingEffectLeft DEF HandsOver
<1>4. w.op # "create" => Handed(h)
  BY <1>1, <1>2 DEF SeenInv, KnownInv
<1>5. w.op = "create" => ~Handed(h)
  <2> SUFFICES ASSUME ~ReadsHold(r), NEW q \in Reqs, tx[q].kind = "hold", tx[q].hold = h,
                      outcome[q] = "committed", ~Backlogged(q)
               PROVE  FALSE
    BY <1>2 DEF Handed
  <2>1. q = r
    BY DEF CreatedInv, WellFormed, ReadsHold
  <2> QED
    BY <2>1 DEF HandsOver
<1>6. \A g \in Holds : Handed(g)' <=> Handed(g) \/ g = h
  <2>1. \A g \in Holds : Handed(g) => Handed(g)'
    <3> SUFFICES ASSUME NEW g \in Holds, NEW q \in Reqs, tx[q].kind = "hold", tx[q].hold = g,
                        outcome[q] = "committed", ~Backlogged(q)
                 PROVE  Handed(g)'
      BY DEF Handed
    <3>1. q # r
      BY DEF HandsOver
    <3>2. outcome'[q] = "committed" /\ ~Backlogged(q)' /\ tx'[q].kind = "hold" /\ tx'[q].hold = g
      BY <1>1, <3>1 DEF HandsOver
    <3> QED
      BY <3>2 DEF Handed
  <2>2. Handed(h)'
    <3>1. CASE ReadsHold(r)
      BY <1>2, <1>4, <2>1, <3>1
    <3>2. CASE ~ReadsHold(r)
      <4>1. outcome'[r] = "committed" /\ ~Backlogged(r)' /\ tx'[r].kind = "hold" /\ tx'[r].hold = h
        BY <1>1, <3>2 DEF HandsOver, ReadsHold
      <4> QED
        BY <4>1 DEF Handed
    <3> QED
      BY <3>1, <3>2
  <2>3. ASSUME NEW g \in Holds, g # h, NEW q \in Reqs, tx'[q].kind = "hold", tx'[q].hold = g,
               outcome'[q] = "committed", ~Backlogged(q)'
        PROVE  Handed(g)
    <3>1. q # r
      BY <1>1, <2>3
    <3>2. outcome[q] = "committed" /\ ~Backlogged(q) /\ tx[q].kind = "hold" /\ tx[q].hold = g
      BY <1>1, <2>3, <3>1 DEF HandsOver
    <3> QED
      BY <3>2 DEF Handed
  <2>4. \A g \in Holds : g # h /\ Handed(g)' => Handed(g)
    BY <2>3 DEF Handed
  <2> QED
    BY <2>1, <2>2, <2>4
<1>7. \A g \in Holds : Resolved(g) => Resolved(g)'
  BY <1>1 DEF Resolved, Resolutions, ReadsHold
<1>8. \A g \in Holds : Acknowledged(g) => Acknowledged(g)'
  BY <1>1 DEF Acknowledged
<1>9. w.op = "remove" => Resolved(h)'
  BY <1>1, <1>2 DEF Resolved, Resolutions, ReadsHold
<1>10. /\ SameTag(e, overlay[h]) /\ SameTag(overlay'[h], Sent(w, e))
       /\ \A g \in Holds : g # h => overlay'[g] = overlay[g]
  BY DEF HandsOver
<1>11. /\ w.op = "create" => overlay'[h].tag \in {"none", "decided"}
       /\ w.op = "reduce" => SameTag(overlay'[h], e)
       /\ w.op = "remove" => overlay'[h].tag = "removed" /\ overlay'[h].safe_after = w.n
  BY <1>10, SentTag
<1>12. w.op = "reduce" => SameTag(overlay'[h], overlay[h])
  BY <1>10, <1>11 DEF SameTag
<1> QED
  BY <1>2, <1>3, <1>4, <1>5, <1>6, <1>7, <1>8, <1>9, <1>10, <1>11, <1>12 DEF Changes

LEMMA HandsKnown ==
    ASSUME TypeOK, SeenInv, NEW r \in Reqs, NEW e, HandsOver(r, e),
           NEW h \in Holds, h = tx[r].hold, NEW w \in Command, w = PendingEffect(r), Changes(r, h, w)
    PROVE  KnownInv'
<1>1. /\ cmdq \in Seq(Command) /\ Len(cmdq) \in Nat /\ cmdq' = Append(cmdq, w)
      /\ UNCHANGED <<tx, record, store, answers, fetches>>
      /\ \A q \in Reqs : q # r => stage'[q] = stage[q] /\ outcome'[q] = outcome[q]
      /\ \A q \in Reqs : tx[q].hold \in Holds
  BY QueueTypes, RequestTypes DEF HandsOver
<1>2. /\ \A g \in Holds : Handed(g) => Handed(g)'
      /\ Handed(h)' /\ w.req = r
      /\ \A g \in Holds : g # h => overlay'[g] = overlay[g]
  BY DEF Changes
<1>3. \A i \in 1..Len(cmdq') : cmdq'[i].op # "lookup" => Handed(tx[cmdq[i].req].hold)'
  <2> SUFFICES ASSUME NEW i \in 1..Len(cmdq'), cmdq'[i].op # "lookup" PROVE Handed(tx[cmdq[i].req].hold)'
    OBVIOUS
  <2>1. (i \in 1..Len(cmdq) /\ cmdq'[i] = cmdq[i]) \/ cmdq'[i] = w
    BY <1>1, Joined
  <2>2. CASE i \in 1..Len(cmdq) /\ cmdq'[i] = cmdq[i]
    <3>1. PICK g \in Holds : g = tx[cmdq[i].req].hold
      BY <2>2, RequestTypes
    <3>2. Handed(g)
      BY <2>2, <3>1 DEF SeenInv, KnownInv
    <3> QED
      BY <1>1, <1>2, <2>2, <3>1, <3>2
  <2>3. CASE cmdq'[i] = w
    BY <1>1, <1>2, <2>3
  <2> QED
    BY <2>1, <2>2, <2>3
<1>4. \A g \in Holds : store'[g] > 0 => Handed(g)'
  BY <1>1, <1>2 DEF SeenInv, KnownInv
<1>5. \A g \in Holds : overlay'[g].tag \in {"decided", "removed"} => Handed(g)'
  BY <1>2 DEF SeenInv, KnownInv
<1>6. \A a \in Replies' : a.found > 0 => Handed(tx[a.req].hold)'
  BY <1>1, <1>2, RequestTypes DEF SeenInv, KnownInv, Replies
<1>7. \A q \in Reqs : ReadsHold(q)' /\ (record'[q] > 0 \/ stage'[q] = "judged" \/ outcome'[q] = "committed")
                      => Handed(tx[q].hold)'
  <2>1. \A q \in Reqs : ReadsHold(q)' <=> ReadsHold(q)
    BY <1>1 DEF ReadsHold
  <2> QED
    BY <1>1, <1>2, <2>1 DEF SeenInv, KnownInv
<1> QED
  BY <1>3, <1>4, <1>5, <1>6, <1>7 DEF KnownInv

\* Its marker outlives every removal of the hold handed over before.
LEMMA HandsMark ==
    ASSUME TypeOK, StaleInv, SeenInv, NEW r \in Reqs, NEW e, HandsOver(r, e),
           NEW h \in Holds, h = tx[r].hold, NEW w \in Command, w = PendingEffect(r), Changes(r, h, w)
    PROVE  MarkInv'
<1>1. /\ cmdq \in Seq(Command) /\ Len(cmdq) \in Nat /\ cmdq' = Append(cmdq, w)
      /\ UNCHANGED <<tx, applied, published>>
  BY QueueTypes DEF HandsOver
<1>2. /\ w.req = r /\ w.n = applies_sent + 1 /\ w.op \in {"create", "reduce", "remove"}
      /\ \A g \in Holds : g # h => overlay'[g] = overlay[g]
  BY DEF Changes
<1>3. ASSUME NEW i \in 1..Len(cmdq), cmdq[i].op = "remove"
      PROVE  /\ overlay'[tx[cmdq[i].req].hold].tag = "removed"
             /\ overlay'[tx[cmdq[i].req].hold].safe_after >= cmdq[i].n
  <2>1. PICK g \in Holds : g = tx[cmdq[i].req].hold
    BY RequestTypes
  <2>2. overlay[g].tag = "removed" /\ overlay[g].safe_after >= cmdq[i].n /\ Handed(g)
    BY <1>3, <2>1 DEF SeenInv, MarkInv, KnownInv
  <2>3. CASE g # h
    BY <1>2, <2>1, <2>2, <2>3
  <2>4. CASE g = h /\ w.op = "create"
    BY <2>2, <2>4 DEF Changes
  <2>5. CASE g = h /\ w.op = "reduce"
    BY <2>1, <2>2, <2>5 DEF Changes, SameTag
  <2>6. CASE g = h /\ w.op = "remove"
    <3>1. overlay'[h].tag = "removed" /\ overlay'[h].safe_after = applies_sent + 1
      BY <1>2, <2>6 DEF Changes
    <3>2. cmdq[i].n <= applies_sent /\ cmdq[i].n \in Nat /\ applies_sent \in Nat
      BY <1>3, RequestTypes DEF StaleInv, QueueInOrder, TypeOK, Command
    <3>3. applies_sent + 1 >= cmdq[i].n
      BY <3>2
    <3> QED
      BY <2>1, <2>6, <3>1, <3>3
  <2> QED
    BY <1>2, <2>3, <2>4, <2>5, <2>6
<1>4. w.op = "remove" => overlay'[h].tag = "removed" /\ overlay'[h].safe_after >= w.n
  <2>1. w.n \in Nat /\ w.n >= w.n
    BY DEF Command
  <2> QED
    BY <2>1 DEF Changes
<1>5. \A i \in 1..Len(cmdq') : (i \in 1..Len(cmdq) /\ cmdq'[i] = cmdq[i]) \/ cmdq'[i] = w
  BY <1>1, Joined
<1>6. published <= applied
  BY DEF SeenInv, MarkInv
<1>7. \A i \in 1..Len(cmdq') : cmdq'[i].op = "remove" =>
         /\ overlay'[tx[cmdq'[i].req].hold].tag = "removed"
         /\ overlay'[tx[cmdq'[i].req].hold].safe_after >= cmdq'[i].n
  BY <1>2, <1>3, <1>4, <1>5
<1> QED
  BY <1>1, <1>6, <1>7 DEF MarkInv

LEMMA HandsRevive ==
    ASSUME TypeOK, SeenInv, NEW r \in Reqs, NEW e, HandsOver(r, e),
           NEW h \in Holds, h = tx[r].hold, NEW w \in Command, w = PendingEffect(r), Changes(r, h, w)
    PROVE  ReviveInv'
<1>1. /\ cmdq \in Seq(Command) /\ cmdq' = Append(cmdq, w) /\ UNCHANGED <<tx, store>> /\ Replies' = Replies
      /\ \A g : Of(g)' = Of(g)
  BY QueueTypes, OwnStays DEF HandsOver, Replies
<1> SUFFICES ASSUME NEW a \in Replies, a.found > 0,
                    EndsWith(Append(cmdq, w), Of(tx[a.req].hold), store[tx[a.req].hold], 0)
             PROVE  overlay'[tx[a.req].hold].tag = "removed"
  BY <1>1 DEF ReviveInv
<1>2. PICK g \in Holds : g = tx[a.req].hold
  BY RequestTypes
<1>3. PICK before : EndsWith(cmdq, Of(g), store[g], before) /\ 0 = Turned(w, Of(g), before)
  BY <1>1, <1>2, EndsAppended
<1>4. w.req = r /\ w.op \in {"create", "reduce", "remove"} /\ w.left \in Nat
  BY DEF Changes, Command
<1>5. before \in Nat
  BY <1>1, <1>2, <1>3, EndsType, RequestTypes
<1>6. before = 0 => overlay[g].tag = "removed"
  BY <1>2, <1>3 DEF SeenInv, ReviveInv
<1>7. Handed(g)
  BY <1>2 DEF SeenInv, KnownInv
<1>8. CASE g # h
  <2>1. w.req \notin Of(g)
    BY <1>4, <1>8 DEF Of
  <2>2. before = 0
    BY <1>3, <2>1 DEF Turned
  <2> QED
    BY <1>2, <1>6, <1>8, <2>2 DEF Changes
<1>9. CASE g = h /\ w.op = "create"
  BY <1>7, <1>9 DEF Changes
<1>10. CASE g = h /\ w.op = "reduce"
  <2>1. w.req \in Of(g) /\ w.left > 0
    BY <1>4, <1>10 DEF Of, Changes
  <2>2. 0 = IF before > 0 THEN w.left ELSE 0
    BY <1>3, <1>10, <2>1 DEF Turned, Stored
  <2>3. before = 0
    BY <1>4, <1>5, <2>1, <2>2
  <2> QED
    BY <1>2, <1>6, <1>10, <2>3 DEF Changes, SameTag
<1>11. CASE g = h /\ w.op = "remove"
  BY <1>2, <1>11 DEF Changes
<1> QED
  BY <1>4, <1>8, <1>9, <1>10, <1>11

LEMMA HandsTold ==
    ASSUME TypeOK, SeenInv, NEW r \in Reqs, NEW e, HandsOver(r, e),
           NEW h \in Holds, h = tx[r].hold, NEW w \in Command, w = PendingEffect(r), Changes(r, h, w)
    PROVE  ToldInv'
<1>1. /\ UNCHANGED <<tx, record, deps, saw>> /\ stage'[r] = "done" /\ outcome'[r] = "committed"
      /\ \A q \in Reqs : q # r => stage'[q] = stage[q] /\ outcome'[q] = outcome[q]
      /\ \A q \in Reqs : tx[q].hold \in Holds
  BY RequestTypes DEF HandsOver
<1>2. \A g \in Holds : /\ Handed(g)' <=> Handed(g) \/ g = h
                       /\ Resolved(g) => Resolved(g)'
                       /\ Acknowledged(g) => Acknowledged(g)'
                       /\ g # h => overlay'[g] = overlay[g]
  BY DEF Changes
<1>3. w.op \in {"create", "reduce", "remove"}
  BY DEF Changes
<1>4. \A q \in Reqs : saw'[q] => Acknowledged(tx[q].hold)'
  BY <1>1, <1>2 DEF SeenInv, ToldInv
<1>5. \A g \in Holds : overlay'[g].tag = "removed" => Resolved(g)'
  <2>1. overlay'[h].tag = "removed" => Resolved(h)'
    BY <1>2, <1>3 DEF Changes, SameTag, SeenInv, ToldInv
  <2> QED
    BY <1>2, <2>1 DEF SeenInv, ToldInv
<1>6. \A g \in Holds : overlay'[g].tag = "missing" /\ Handed(g)' => Resolved(g)'
  <2>1. overlay'[h].tag = "missing" => Resolved(h)'
    BY <1>2, <1>3 DEF Changes, SameTag, SeenInv, ToldInv
  <2> QED
    BY <1>2, <2>1 DEF SeenInv, ToldInv
<1>7. \A q \in Reqs : ReadsHold(q)' <=> ReadsHold(q)
  BY <1>1 DEF ReadsHold
<1>8. \A q \in Reqs : /\ stage'[q] = "open" /\ ReadsHold(q)' /\ "pending" \notin deps'[q]
                      /\ record'[q] = 0 /\ saw'[q]
                      => Resolved(tx[q].hold)'
  BY <1>1, <1>2, <1>7 DEF SeenInv, ToldInv
<1>9. \A q \in Reqs : saw'[q] /\ outcome'[q] = "not_found" => Resolved(tx[q].hold)'
  BY <1>1, <1>2 DEF SeenInv, ToldInv
<1> QED
  BY <1>4, <1>5, <1>6, <1>8, <1>9 DEF ToldInv

LEMMA HandsShown ==
    ASSUME TypeOK, SeenInv, NEW r \in Reqs, NEW e, HandsOver(r, e),
           NEW h \in Holds, h = tx[r].hold, NEW w \in Command, w = PendingEffect(r), Changes(r, h, w)
    PROVE  ShownInv'
<1>1. /\ cmdq \in Seq(Command) /\ cmdq' = Append(cmdq, w) /\ Replies' = Replies
      /\ UNCHANGED <<tx, saw, store>> /\ \A q \in Reqs : tx[q].hold \in Holds
  BY QueueTypes, RequestTypes DEF HandsOver, Replies
<1>2. /\ \A g \in Holds : /\ Handed(g)' <=> Handed(g) \/ g = h
                          /\ Resolved(g) => Resolved(g)'
                          /\ g # h => overlay'[g] = overlay[g]
      /\ w.op \in {"create", "reduce", "remove"} /\ w.req = r
  BY DEF Changes
<1>3. PICK n \in Nat : n = Len(cmdq)
  BY QueueTypes
<1>4. /\ Len(cmdq') = n + 1 /\ cmdq'[n + 1] = w /\ \A i \in 1..n : cmdq'[i] = cmdq[i]
      /\ \A i \in 1..Len(cmdq') : i \in 1..n \/ i = n + 1
  BY <1>1, <1>3, Joined
<1>5. \A q \in Reqs : Owed(q)' => Owed(q)
  <2> SUFFICES ASSUME NEW q \in Reqs, Owed(q)', ~saw[q] PROVE Owed(q)
    BY <1>1 DEF Owed
  <2>1. PICK g \in Holds : g = tx[q].hold
    BY <1>1
  <2>2. Handed(g)' /\ overlay'[g].tag = "watched"
    BY <1>1, <2>1 DEF Owed
  <2>3. Handed(g) /\ overlay[g].tag = "watched"
    BY <1>2, <2>2 DEF Changes, SameTag
  <2> QED
    BY <2>1, <2>3 DEF Owed
<1>6. \A i \in 1..Len(cmdq') : cmdq'[i].op = "remove" => Resolved(tx[cmdq[i].req].hold)'
  <2> SUFFICES ASSUME NEW i \in 1..Len(cmdq'), cmdq'[i].op = "remove" PROVE Resolved(tx[cmdq[i].req].hold)'
    OBVIOUS
  <2>1. CASE i \in 1..n
    <3>1. PICK g \in Holds : g = tx[cmdq[i].req].hold
      BY <1>3, <2>1, RequestTypes
    <3>2. cmdq'[i] = cmdq[i] /\ Resolved(g)
      BY <1>3, <1>4, <2>1, <3>1 DEF SeenInv, ShownInv
    <3> QED
      BY <1>1, <1>2, <3>1, <3>2
  <2>2. CASE i = n + 1
    <3>1. cmdq'[i] = w /\ Resolved(h)'
      BY <1>4, <2>2 DEF Changes
    <3> QED
      BY <1>1, <1>2, <3>1
  <2> QED
    BY <1>4, <2>1, <2>2
<1>7. ASSUME NEW g \in Holds, Handed(g)' PROVE Resolved(g)' \/ Reaches(g, Len(cmdq) + 1)'
  <2>0. Len(cmdq') + 1 = n + 2
    BY <1>4
  <2>1. CASE Handed(g)
    <3>1. Resolved(g) \/ Reaches(g, n + 1)
      BY <1>3, <2>1 DEF SeenInv, ShownInv
    <3>2. n + 1 \in Nat /\ n + 2 \in Nat /\ n + 1 <= n + 2 /\ n + 1 <= Len(cmdq) + 1
      BY <1>3
    <3>3. Reaches(g, n + 1) => Reaches(g, n + 2)'
      BY <1>1, <3>2, ReachKept
    <3> QED
      BY <1>2, <2>0, <3>1, <3>3
  <2>2. CASE ~Handed(g)
    <3>1. g = h /\ w.op = "create"
      BY <1>2, <1>7, <2>2 DEF Changes
    <3>2. n + 1 \in 1..((n + 2) - 1) /\ cmdq'[n + 1].op = "create" /\ tx'[cmdq'[n + 1].req].hold = g
      BY <1>1, <1>2, <1>4, <3>1
    <3>3. Reaches(g, n + 2)'
      BY <3>2 DEF Reaches
    <3> QED
      BY <2>0, <3>3
  <2> QED
    BY <2>1, <2>2
<1>8. ASSUME NEW i \in 1..Len(cmdq'), cmdq'[i].op = "lookup", Owed(cmdq[i].req)'
      PROVE  Resolved(tx[cmdq[i].req].hold)' \/ Reaches(tx[cmdq[i].req].hold, i)'
  <2>1. i \in 1..n /\ cmdq'[i] = cmdq[i]
    BY <1>2, <1>4, <1>8
  <2>2. PICK q \in Reqs : q = cmdq[i].req
    BY <1>3, <2>1, RequestTypes
  <2>3. Owed(q)
    BY <1>5, <1>8, <2>1, <2>2
  <2>4. Resolved(tx[q].hold) \/ Reaches(tx[q].hold, i)
    BY <1>3, <1>8, <2>1, <2>2, <2>3 DEF SeenInv, ShownInv
  <2>5. i \in Nat /\ i <= i /\ i <= Len(cmdq) + 1
    BY <1>3, <2>1
  <2>6. Reaches(tx[q].hold, i) => Reaches(tx[q].hold, i)'
    BY <1>1, <2>5, ReachKept
  <2> QED
    BY <1>1, <1>2, <2>1, <2>2, <2>4, <2>6
<1>9. \A a \in Replies' : a.found = 0 /\ Owed(a.req)' => Resolved(tx[a.req].hold)'
  BY <1>1, <1>2, <1>5, RequestTypes DEF SeenInv, ShownInv
<1> QED
  BY <1>6, <1>7, <1>8, <1>9 DEF ShownInv

LEMMA SeenHands ==
    ASSUME TypeOK, StaleInv, ReadInv, CreatedInv, SeenInv, NEW r \in Reqs, NEW e, HandsOver(r, e)
    PROVE  SeenInv'
<1>1. PICK h \in Holds : h = tx[r].hold
  BY RequestTypes
<1>2. PICK w \in Command : w = PendingEffect(r)
  BY PendingEffectType
<1>3. Changes(r, h, w)
  BY <1>1, <1>2, HandsChanges
<1> QED
  BY <1>1, <1>2, <1>3, HandsKnown, HandsMark, HandsRevive, HandsTold, HandsShown DEF SeenInv

LEMMA SeenApply ==
    ASSUME TypeOK, StaleInv, LifeInv, ReadInv, PinInv, CreatedInv, SeenInv, ApplyEffect
    PROVE  SeenInv'
<1>0. UNCHANGED <<deferred, answers, fetches, store, applied, published>>
  BY ApplyTells
<1>1. CASE \E r \in Reqs, e \in Entry :
              /\ stage[r] = "judged" /\ Finish(r, "committed") /\ Returned(e, overlay[tx[r].hold])
              /\ Handing(r, e) \/ Backlogging(r, e)
  <2>1. PICK r \in Reqs, e \in Entry :
              /\ stage[r] = "judged" /\ Finish(r, "committed") /\ Returned(e, overlay[tx[r].hold])
              /\ Handing(r, e) \/ Backlogging(r, e)
    BY <1>1
  <2>2. CASE Backlogging(r, e)
    <3>1. UNCHANGED <<answers, fetches, store, applied, published>>
      BY <1>0
    <3> QED
      BY <2>1, <2>2, <3>1, InwardBacklogs, InwardSeen
  <2>3. CASE Handing(r, e)
    <3>1. PICK h \in Holds : h = tx[r].hold
      BY RequestTypes
    <3>2. PICK s \in Entry : s = Sent(PendingEffect(r), e)
      BY <2>1, PendingEffectType, SentType
    <3>3. /\ writes = <<>> /\ UNCHANGED writes /\ cmdq' = Append(cmdq, PendingEffect(r))
          /\ overlay' = [overlay EXCEPT ![h] = Unpinned(r, s)]
      BY <2>3, <3>1, <3>2 DEF Handing
    <3>4. /\ UNCHANGED <<tx, deps, record, effect, saw>>
          /\ stage' = [stage EXCEPT ![r] = "done"] /\ outcome' = [outcome EXCEPT ![r] = "committed"]
      BY <2>1 DEF Finish
    <3>5. /\ stage'[r] = "done" /\ outcome'[r] = "committed"
          /\ \A q \in Reqs : q # r => stage'[q] = stage[q] /\ outcome'[q] = outcome[q]
      BY <3>4 DEF TypeOK
    <3>6. overlay'[h] = Unpinned(r, s) /\ \A g \in Holds : g # h => overlay'[g] = overlay[g]
      BY <3>3 DEF TypeOK
    <3>7. SameTag(overlay'[h], s)
      BY <3>6, SameTags
    <3>8. SameTag(e, overlay[h])
      BY <2>1, <3>1 DEF Returned, SameTag, Live
    <3>9. outcome[r] # "committed"
      BY <2>1 DEF ReadInv
    <3>10. (\A q : ~Backlogged(q)) /\ \A q : ~Backlogged(q)'
      BY <3>3 DEF Backlogged
    <3>11. HandsOver(r, e)
      BY <1>0, <2>1, <3>1, <3>2, <3>3, <3>4, <3>5, <3>6, <3>7, <3>8, <3>9, <3>10 DEF HandsOver
    <3> QED
      BY <3>11, SeenHands
  <2> QED
    BY <2>1, <2>2, <2>3
<1>2. CASE UNCHANGED <<reqVars, overlay, writes, applies_sent, cmdq>>
  <2>1. UNCHANGED <<reqVars, overlay, writes, cmdq, engineVars>>
    BY <1>0, <1>2 DEF engineVars
  <2> QED
    BY <2>1, InwardElsewhere, InwardSeen
<1> QED
  BY <1>1, <1>2, ApplyTells

LEMMA SeenFlush ==
    ASSUME TypeOK, StaleInv, ReadInv, WrittenInv, CreatedInv, SeenInv, FlushWrite
    PROVE  SeenInv'
<1>0. PICK r : r = Head(writes)
  OBVIOUS
<1>1. /\ writes # <<>> /\ writes' = Tail(writes) /\ writes \in Seq(Reqs)
      /\ cmdq' = Append(cmdq, PendingEffect(r))
      /\ overlay' = [overlay EXCEPT ![tx[r].hold] = Sent(PendingEffect(r), @)]
      /\ UNCHANGED <<tx, stage, deps, record, effect, outcome, saw, store, answers, fetches, applied, published>>
  BY <1>0 DEF FlushWrite, reqVars, engineVars, TypeOK
<1>2. /\ r = writes[1] /\ 1 \in 1..Len(writes) /\ r \in Reqs
      /\ Len(Tail(writes)) = Len(writes) - 1 /\ Len(writes) \in Nat
      /\ \A i \in 1..Len(Tail(writes)) : Tail(writes)[i] = writes[i + 1]
  BY <1>0, <1>1, HeadTailProperties
<1>3. outcome[r] = "committed" /\ Backlogged(r) /\ stage[r] = "done"
  BY <1>2 DEF WrittenInv, Backlogged, ReadInv
<1>4. \A i \in 1..Len(writes') : i + 1 \in 1..Len(writes) /\ writes'[i] = writes[i + 1] /\ i + 1 # 1
  BY <1>1, <1>2
<1>5. ~Backlogged(r)'
  BY <1>2, <1>4 DEF Backlogged, WrittenInv
<1>6. \A q \in Reqs : q # r => (Backlogged(q)' <=> Backlogged(q))
  <2>1. \A q \in Reqs : Backlogged(q)' => Backlogged(q)
    BY <1>4 DEF Backlogged
  <2>2. ASSUME NEW q \in Reqs, q # r, NEW i \in 1..Len(writes), writes[i] = q PROVE Backlogged(q)'
    <3>1. PICK k : k = i - 1
      OBVIOUS
    <3>2. k \in 1..Len(writes') /\ k + 1 = i
      BY <1>1, <1>2, <2>2, <3>1
    <3> QED
      BY <1>4, <2>2, <3>2 DEF Backlogged
  <2> QED
    BY <2>1, <2>2 DEF Backlogged
<1>7. PICK h \in Holds : h = tx[r].hold
  BY <1>2, RequestTypes
<1>8. PICK e : e = overlay[h]
  OBVIOUS
<1>9. overlay'[h] = Sent(PendingEffect(r), e) /\ \A g \in Holds : g # h => overlay'[g] = overlay[g]
  BY <1>1, <1>7, <1>8 DEF TypeOK
<1>10. SameTag(e, overlay[h]) /\ SameTag(overlay'[h], Sent(PendingEffect(r), e))
  BY <1>8, <1>9 DEF SameTag
<1>11. HandsOver(r, e)
  BY <1>1, <1>3, <1>5, <1>6, <1>7, <1>9, <1>10 DEF HandsOver
<1> QED
  BY <1>2, <1>11, SeenHands

LEMMA AskGrows ==
    ASSUME TypeOK, NEW r, Ask(r)
    PROVE  cmdq' # cmdq
<1>1. Len(cmdq') = Len(cmdq) + 1 /\ Len(cmdq) \in Nat
  BY DEF Ask, TypeOK
<1> QED
  BY <1>1

LEMMA SeenAdmit ==
    ASSUME TypeOK, StaleInv, LifeInv, ReadInv, PinInv, SeenInv, NEW r \in Reqs, Admit(r)
    PROVE  SeenInv'
<1>1. CASE ~Ask(r)
  BY <1>1, InwardAdmit, InwardSeen
<1>2. CASE Ask(r)
  <2>1. /\ stage[r] = "new" /\ saw' = [saw EXCEPT ![r] = Acknowledged(tx[r].hold)]
        /\ UNCHANGED <<tx, record, effect, writes, store, fetches, answers, applied, published>>
        /\ AdmitRefused(r) \/ AdmitHold(r) \/ AdmitResolution(r)
    BY DEF Admit, engineVars
  <2>2. cmdq' # cmdq
    BY <1>2, AskGrows
  <2>3. Enter(r, Deps, Deps)
    BY <2>1, <2>2 DEF AdmitRefused, AdmitHold, AdmitResolution
  <2>4. /\ stage' = [stage EXCEPT ![r] = "open"] /\ deps' = [deps EXCEPT ![r] = Deps] /\ UNCHANGED outcome
    BY <2>3 DEF Enter
  <2>5. /\ stage'[r] = "open" /\ "pending" \in deps'[r] /\ (saw'[r] => Acknowledged(tx[r].hold))
        /\ \A q \in Reqs : q # r => stage'[q] = stage[q] /\ deps'[q] = deps[q] /\ saw'[q] = saw[q]
    BY <2>1, <2>4 DEF TypeOK, Deps
  <2>6. outcome[r] = "none" /\ ~Asks(r)
    BY <2>1 DEF ReadInv, LifeInv, WaitInv
  <2>7. UNCHANGED <<tx, record, effect, outcome, writes, store, fetches, answers, applied, published>>
    BY <2>1, <2>4
  <2> QED
    BY <1>2, <2>5, <2>6, <2>7, SeenAsk
<1> QED
  BY <1>1, <1>2

LEMMA SeenRetry ==
    ASSUME TypeOK, StaleInv, LifeInv, ReadInv, PinInv, SeenInv, RetryDispatch
    PROVE  SeenInv'
<1>1. CASE ~Ask(Head(deferred))
  BY <1>1, InwardRetry, InwardSeen
<1>2. CASE Ask(Head(deferred))
  <2>0. PICK r : r = Head(deferred)
    OBVIOUS
  <2>1. cmdq' # cmdq
    BY <1>2, AskGrows
  <2>2. /\ deferred # <<>> /\ deferred' = Tail(deferred)
        /\ UNCHANGED <<tx, record, effect, outcome, stage, deps, saw, writes, store, fetches, answers,
                       applied, published>>
    BY <2>1 DEF RetryDispatch, engineVars
  <2>3. r \in Reqs /\ Deferred(r)
    BY <2>0, <2>2, DeferredShrinks DEF StaleInv
  <2>4. stage[r] = "open" /\ "pending" \in deps[r] /\ outcome[r] = "none"
    BY <2>3 DEF LifeInv, WaitInv, ReadInv
  <2>5. "pending" \notin sent[r]
    BY <2>3 DEF Deferred, StaleInv, AskedOnce
  <2>6. ~Asks(r)
    BY <2>5 DEF Asks, StaleInv, AskedOnce
  <2>7. saw[r] => Acknowledged(tx[r].hold)
    BY <2>3 DEF SeenInv, ToldInv
  <2>8. /\ UNCHANGED <<tx, record, effect, outcome, writes, store, fetches, answers, applied, published>>
        /\ \A q \in Reqs : q # r => stage'[q] = stage[q] /\ deps'[q] = deps[q] /\ saw'[q] = saw[q]
        /\ stage'[r] = "open" /\ "pending" \in deps'[r]
        /\ saw'[r] => Acknowledged(tx[r].hold)
    BY <2>2, <2>4, <2>7
  <2> QED
    BY <1>2, <2>0, <2>3, <2>4, <2>6, <2>8, SeenAsk
<1> QED
  BY <1>1, <1>2

-----------------------------------------------------------------------------
(***************************************************************************)
(* Everything together.                                                    *)
(***************************************************************************)
LEMMA SeenNext ==
    ASSUME TypeOK, StaleInv, LifeInv, ReadInv, PinInv, WrittenInv, CreatedInv, SeenInv, [Next]_vars
    PROVE  SeenInv'
<1>1. CASE \E r \in Reqs : Admit(r)
  BY <1>1, SeenAdmit
<1>2. CASE RetryDispatch \/ FlushWrite \/ ApplyEffect
  BY <1>2, SeenRetry, SeenFlush, SeenApply
<1>3. CASE (\E r \in Reqs : IdemAnswer(r)) \/ (\E a \in answers : PendingAnswer(a))
  BY <1>3, InwardIdemAnswer, InwardPendingAnswer, InwardSeen
<1>4. CASE RollBackEffect \/ EvictIdle \/ Propose \/ StartApply \/ UNCHANGED vars
  BY <1>4, InwardRollBack, InwardEvict, InwardElsewhere, InwardSeen
<1>5. CASE Engine
  BY <1>5, SeenEngineApply, SeenEngineLookup, SeenHarvest, SeenPublish DEF Engine
<1> QED
  BY <1>1, <1>2, <1>3, <1>4, <1>5 DEF Next, Drain

LEMMA SeenInit ==
    ASSUME Init
    PROVE  WrittenInv /\ CreatedInv /\ SeenInv
<1>1. /\ \A r \in Reqs : stage[r] = "new" /\ record[r] = 0 /\ outcome[r] = "none" /\ saw[r] = FALSE
      /\ \A h \in Holds : overlay[h].tag = "none" /\ store[h] = 0
      /\ cmdq = <<>> /\ writes = <<>> /\ answers = {} /\ fetches = {} /\ published = 0 /\ applied = 0
      /\ WellFormed(tx)
  BY DEF Init, NoEntry, Bare
<1>2. /\ \A h : ~Handed(h)
      /\ \A h : ~Acknowledged(h)
      /\ Replies = {} /\ Len(cmdq) = 0 /\ Len(writes) = 0 /\ 1..0 = {}
  BY <1>1 DEF Handed, Acknowledged, Replies
<1>3. WrittenInv /\ CreatedInv
  BY <1>1, <1>2 DEF WrittenInv, CreatedInv
<1>4. KnownInv /\ MarkInv /\ ReviveInv
  BY <1>1, <1>2 DEF KnownInv, MarkInv, ReviveInv
<1>5. ToldInv /\ ShownInv
  BY <1>1, <1>2 DEF ToldInv, ShownInv
<1> QED
  BY <1>3, <1>4, <1>5 DEF SeenInv

\* With no backlog what is on its way is what the queue holds.
LEMMA MarkersStand ==
    ASSUME TypeOK, MarkInv, ReviveInv
    PROVE  MarkerStands
<1>1. ASSUME NEW a \in Replies, a.found > 0, Replay(tx[a.req].hold) = 0, writes = <<>>
      PROVE  overlay[tx[a.req].hold].tag = "removed"
  <2>1. PICK h \in Holds : h = tx[a.req].hold
    BY RequestTypes
  <2>2. EndsWith(Handover, Of(h), store[h], 0)
    BY <1>1, <2>1, ReplayEnds
  <2>3. Len(writes) = 0 /\ Len(cmdq) \in Nat /\ cmdq \in Seq(Command)
    BY <1>1, QueueTypes
  <2>4. SameDecisions(cmdq, Handover) /\ Handover \in Seq(Command)
    BY <2>3, HandoverIs DEF SameDecisions
  <2>5. EndsWith(cmdq, Of(h), store[h], 0)
    BY <2>2, <2>3, <2>4, EndsSame
  <2> QED
    BY <1>1, <2>1, <2>5 DEF ReviveInv
<1> QED
  BY <1>1 DEF MarkerStands, MarkInv, Replies

\* All that a hold's overlay entry, its requests and the engine know of each other.
OverlayInv == /\ TypeOK /\ StaleInv /\ LifeInv /\ ReadInv /\ PinInv
              /\ WrittenInv /\ CreatedInv /\ SeenInv

LEMMA OverlayInvariant == Spec => []OverlayInv
<1>1. Init => OverlayInv
  BY InitType, StaleInit, LifeInit, ReadInit, PinsInit, SeenInit DEF OverlayInv
<1>2. OverlayInv /\ [Next]_vars => OverlayInv'
  BY NextType, StaleNext, LifeNext, ReadNext, PinsNext, WrittenNext, CreatedNext, SeenNext DEF OverlayInv
<1> QED
  BY <1>1, <1>2, PTL DEF Spec

\* Whatever admissions, retries, answers, decisions, rollbacks and evictions interleave with the
\* engine's thread, an entry carries one pin for each request in flight that will read it, and the
\* marker of a removal stands while the engine has not applied it or an answer still shows the
\* hold alive.  (overlay.rs pin, unpin, forget, idle.)
THEOREM OverlayHolds == Spec => []OverlaySound
<1>1. OverlayInv => OverlaySound
  BY PinsAreMatched, MarkersStand DEF OverlayInv, SeenInv, OverlaySound
<1> QED
  BY <1>1, OverlayInvariant, PTL

\* A client that has seen its hold acknowledged is never told it does not exist, unless a
\* committed resolution took all of it: the creation is handed over before any question asked
\* after it, and the overlay answers for what the engine has not applied yet.
\* (reactor.rs dispatch, apply.rs write, overlay.rs admit_lookup.)
THEOREM ReadsOwnWrites == Spec => []ReadYourWrites
<1>1. OverlayInv => ReadYourWrites
  BY DEF OverlayInv, SeenInv, ToldInv, ReadYourWrites, Resolved
<1> QED
  BY <1>1, OverlayInvariant, PTL

-----------------------------------------------------------------------------
(***************************************************************************)
(* What is promised of a hold: sums of the amounts judged effects take.    *)
(***************************************************************************)
AnyOf(S) == CHOOSE x \in S : TRUE
Taking(e) == e.amount
AmountTurn(ef, x, acc) == Taking(ef[x]) + acc
M == INSTANCE FoldTheorems WITH Turn <- AmountTurn, Pick <- AnyOf

Total(ef, S) == MapThenSumSet(LAMBDA q : ef[q].amount, S)
Amounts(ef, S) == \A x \in S : ef[x].amount \in Nat

\* The function the sum is taken with, and its recursion.
LEMMA TotalFolds ==
    ASSUME NEW S, IsFiniteSet(S), NEW ef
    PROVE  \E g : M!Folds(S, ef, 0, g) /\ Total(ef, S) = g[S]
<1> DEFINE Body(g, t) == IF t = {} THEN 0 ELSE AmountTurn(ef, AnyOf(t), g[t \ {AnyOf(t)}])
           iter == CHOOSE g : g = [t \in SUBSET S |-> Body(g, t)]
<1>1. Total(ef, S) = iter[S]
  BY DEF Total, MapThenSumSet, MapThenFoldSet, AmountTurn, Taking, AnyOf
<1>2. M!Picks(S) /\ M!IsFiniteSet(S)
  BY DEF M!Picks, AnyOf, IsFiniteSet, M!IsFiniteSet
<1>4. PICK g : M!Folds(S, ef, 0, g)
  BY <1>2, M!FoldExists
<1>5. g = [t \in SUBSET S |-> Body(g, t)]
  BY <1>4 DEF M!Folds, AmountTurn, Taking
<1>6. iter = [t \in SUBSET S |-> Body(iter, t)]
  <2> HIDE DEF Body
  <2> QED
    BY <1>5
<1> HIDE DEF iter
<1>7. M!Folds(S, ef, 0, iter)
  BY <1>6 DEF M!Folds, Body, AmountTurn, Taking
<1> QED
  BY <1>1, <1>7

LEMMA TotalEmpty == \A ef : Total(ef, {}) = 0
<1> TAKE ef
<1>1. IsFiniteSet({})
  BY FS_EmptySet
<1>2. PICK g : M!Folds({}, ef, 0, g) /\ Total(ef, {}) = g[{}]
  BY <1>1, TotalFolds
<1> QED
  BY <1>2 DEF M!Folds

\* Any member may be counted last.
LEMMA TotalAnyOrder ==
    ASSUME NEW S, IsFiniteSet(S), NEW ef, Amounts(ef, S), NEW g, M!Folds(S, ef, 0, g)
    PROVE  \A t \in SUBSET S : g[t] \in Nat /\ \A x \in t : g[t] = ef[x].amount + g[t \ {x}]
<1>1. M!Picks(S) /\ M!IsFiniteSet(S)
  BY DEF M!Picks, AnyOf, IsFiniteSet, M!IsFiniteSet
<1>2. M!Commutes(S, ef, Nat)
  BY DEF M!Commutes, AmountTurn, Taking, Amounts
<1> DEFINE zero == 0  D == Nat
<1>3. zero \in D /\ M!Commutes(S, ef, D) /\ M!Folds(S, ef, zero, g)
  BY <1>2
<1> HIDE DEF zero, D
<1>4. \A t \in SUBSET S : g[t] \in D /\ \A x \in t : g[t] = AmountTurn(ef, x, g[t \ {x}])
  BY <1>1, <1>3, M!FoldAnyOrder
<1> QED
  BY <1>4 DEF AmountTurn, Taking, D

\* A sum over a subset is what the larger one's fold has there.
LEMMA TotalSame ==
    ASSUME NEW T, IsFiniteSet(T), NEW S, S \subseteq T, NEW ef, NEW ff, NEW g,
           M!Folds(T, ef, 0, g), \A x \in S : Taking(ff[x]) = Taking(ef[x])
    PROVE  Total(ff, S) = g[S]
<1>1. IsFiniteSet(S)
  BY FS_Subset
<1>2. M!Picks(S) /\ M!IsFiniteSet(S)
  BY <1>1 DEF M!Picks, AnyOf, IsFiniteSet, M!IsFiniteSet
<1>3. PICK h : M!Folds(S, ff, 0, h) /\ Total(ff, S) = h[S]
  BY <1>1, TotalFolds
<1>4. \A x \in S : \A a : AmountTurn(ef, x, a) = AmountTurn(ff, x, a)
  BY DEF AmountTurn, Taking
<1> DEFINE zero == 0
<1>0. M!Folds(T, ef, zero, g) /\ M!Folds(S, ff, zero, h)
  BY <1>3
<1> HIDE DEF zero
<1>5. \A t \in SUBSET S : g[t] = h[t]
  BY <1>0, <1>2, <1>4, M!FoldSame
<1> QED
  BY <1>3, <1>5

LEMMA TotalType ==
    ASSUME NEW S, IsFiniteSet(S), NEW ef, Amounts(ef, S)
    PROVE  Total(ef, S) \in Nat
<1>1. PICK g : M!Folds(S, ef, 0, g) /\ Total(ef, S) = g[S]
  BY TotalFolds
<1> QED
  BY <1>1, TotalAnyOrder, S \in SUBSET S

\* Only the amounts matter.
LEMMA TotalCong ==
    ASSUME NEW S, IsFiniteSet(S), NEW ef, NEW ff, \A x \in S : Taking(ff[x]) = Taking(ef[x])
    PROVE  Total(ff, S) = Total(ef, S)
<1>1. PICK g : M!Folds(S, ef, 0, g) /\ Total(ef, S) = g[S]
  BY TotalFolds
<1>2. PICK T : T = S
  OBVIOUS
<1>3. IsFiniteSet(T) /\ S \subseteq T /\ M!Folds(T, ef, 0, g)
  BY <1>1, <1>2
<1>4. Total(ff, S) = g[S]
  BY <1>3, TotalSame
<1> QED
  BY <1>1, <1>4

\* One member is taken out.
LEMMA TotalRemove ==
    ASSUME NEW S, IsFiniteSet(S), NEW ef, Amounts(ef, S), NEW x \in S
    PROVE  /\ Total(ef, S) = ef[x].amount + Total(ef, S \ {x})
           /\ Total(ef, S) \in Nat /\ Total(ef, S \ {x}) \in Nat /\ ef[x].amount \in Nat
<1>1. PICK g : M!Folds(S, ef, 0, g) /\ Total(ef, S) = g[S]
  BY TotalFolds
<1>2. S \in SUBSET S /\ S \ {x} \subseteq S
  OBVIOUS
<1>3. Total(ef, S \ {x}) = g[S \ {x}]
  BY <1>1, <1>2, TotalSame
<1>4. g[S] = ef[x].amount + g[S \ {x}] /\ g[S] \in Nat /\ g[S \ {x}] \in Nat
  BY <1>1, <1>2, TotalAnyOrder
<1>5. ef[x].amount \in Nat
  BY DEF Amounts
<1> QED
  BY <1>1, <1>3, <1>4, <1>5

\* One member is put in.
LEMMA TotalInsert ==
    ASSUME NEW S, IsFiniteSet(S), NEW x, x \notin S, NEW ef, Amounts(ef, S \cup {x})
    PROVE  Total(ef, S \cup {x}) = ef[x].amount + Total(ef, S)
<1> DEFINE T == S \cup {x}
<1>1. IsFiniteSet(T) /\ x \in T /\ T \ {x} = S
  BY FS_AddElement
<1> HIDE DEF T
<1>2. Total(ef, T) = ef[x].amount + Total(ef, T \ {x})
  BY <1>1, TotalRemove DEF T
<1> QED
  BY <1>1, <1>2 DEF T

-----------------------------------------------------------------------------
(***************************************************************************)
(* What a step makes of a hold's entry and of the resolutions judged on it.*)
(***************************************************************************)
\* A resolution judged and not decided yet.
Promising(q) == ReadsHold(q) /\ stage[q] = "judged"
JudgedOf(h) == {q \in Resolutions(h) : stage[q] = "judged"}

\* Nothing but the pins of an entry differs.
SameHold(f, e) == /\ f.tag = e.tag /\ f.remaining = e.remaining /\ f.reserved = e.reserved
                  /\ f.resolved = e.resolved /\ f.safe_after = e.safe_after

\* What admissions and answers make of an entry: a question is noted, and its answer
\* taken where the overlay knew nothing.
Learns(h, e, f) ==
    \/ SameHold(f, e)
    \/ e.tag = "none" /\ f.tag = "watched"
    \/ /\ e.tag \in {"none", "watched"}
       /\ \/ f.tag = "missing"
          \/ /\ f.tag = "decided" /\ f.reserved = 0 /\ f.resolved = FALSE
             /\ \E a \in answers : tx[a.req].hold = h /\ a.found = f.remaining /\ a.found > 0

\* No decision, and no resolution newly judged or given up: at most an entry learns from
\* the engine, or an unpinned one goes.
Quietly ==
    /\ UNCHANGED <<tx, writes, applies_sent, released, ledger>>
    /\ \A q \in Reqs : /\ Promising(q)' <=> Promising(q)
                       /\ Promising(q) => effect'[q] = effect[q]
    /\ \A h \in Holds : \/ Learns(h, overlay[h], overlay'[h])
                        \/ overlay'[h] = NoEntry /\ overlay[h].pinned = 0

\* r, a resolution, is judged: e is the entry it is judged on, found the record.
JudgedOn(r, e, found) ==
    /\ UNCHANGED <<tx, writes, applies_sent, released, ledger, failures>>
    /\ ReadsHold(r) /\ stage[r] = "open" /\ stage'[r] = "judged"
    /\ \A q \in Reqs : q # r => stage'[q] = stage[q] /\ effect'[q] = effect[q]
    /\ Verdict(r, e, found) = "accepted" /\ effect'[r] = Effect(r, e, found)
    /\ Learns(tx[r].hold, overlay[tx[r].hold], e) /\ Live(e)
    /\ found = record[r] \/ \E a \in answers : a.req = r /\ a.found = found
    /\ overlay'[tx[r].hold] = Reserve(e, effect'[r].amount, effect'[r].left = 0)
    /\ \A g \in Holds : g # tx[r].hold => overlay'[g] = overlay[g]
    /\ "pending" \in sent'[r] /\ open' = Append(open, r)
    /\ UNCHANGED <<applying, in_flight, sealed>>

\* The entry with r's reservation given back.
GivenBack(r) == IF ReadsHold(r) THEN ReleaseReservation(overlay[tx[r].hold], effect[r].amount)
                ELSE overlay[tx[r].hold]

\* r commits: its decision goes to the engine or joins the backlog.
Commits(r) ==
    /\ applying.batch # <<>> /\ r = Head(applying.batch)
    /\ UNCHANGED <<tx, sent, effect, record, failures, sealed, store, answers, fetches>>
    /\ stage[r] = "judged" /\ stage'[r] = "done" /\ outcome'[r] = "committed"
    /\ \A q \in Reqs : q # r => stage'[q] = stage[q] /\ outcome'[q] = outcome[q]
    /\ Handing(r, GivenBack(r)) \/ Backlogging(r, GivenBack(r))
    /\ released' = [released EXCEPT ![tx[r].hold] = IF ReadsHold(r) THEN @ + effect[r].amount ELSE @]
    /\ ledger' = [ledger EXCEPT ![tx[r].hold] = Stored(PendingEffect(r), @)]

\* r, a resolution, is refused with its batch.
Refuses(r) ==
    /\ applying.batch # <<>> /\ ~applying.committed
    /\ UNCHANGED <<tx, sent, effect, record, writes, applies_sent, released, ledger, failures, sealed>>
    /\ ReadsHold(r) /\ stage[r] = "judged" /\ stage'[r] = "done"
    /\ \A q \in Reqs : q # r => stage'[q] = stage[q]
    /\ overlay' = [overlay EXCEPT ![tx[r].hold] =
                     Unpinned(r, Compensate(@, effect[r].amount, effect[r].left = 0))]

\* Pins move nothing else.
LEMMA PinsMoveOnly ==
    ASSUME NEW e \in Entry, NEW r
    PROVE  SameHold(Pin(e), e) /\ SameHold(Unpin(e), e) /\ SameHold(Unpinned(r, e), e)
<1>1. e = [tag |-> e.tag, pinned |-> e.pinned, remaining |-> e.remaining, reserved |-> e.reserved,
           resolved |-> e.resolved, safe_after |-> e.safe_after]
  BY DEF Entry
<1>2. SameHold(Pin(e), e) /\ SameHold(Unpin(e), e)
  BY <1>1 DEF Pin, Unpin, SameHold
<1> QED
  BY <1>2 DEF Unpinned, SameHold

LEMMA AnswerTeaches ==
    ASSUME NEW e \in Entry, NEW found \in Nat, NEW h
    PROVE  /\ (\E a \in answers : tx[a.req].hold = h /\ a.found = found)
                => Learns(h, e, AdmitLookup(e, found))
           /\ Learns(h, e, BeginLookup(e)) /\ Learns(h, e, e)
           /\ AdmitLookup(e, found).tag \in {"decided", "removed", "missing"}
<1>1. Learns(h, e, e)
  BY DEF Learns, SameHold
<1>2. Learns(h, e, BeginLookup(e))
  BY <1>1 DEF BeginLookup, Bare, Learns
<1>0. e.tag \in Tags
  BY DEF Entry
<1>3. AdmitLookup(e, found).tag \in {"decided", "removed", "missing"}
  BY <1>0 DEF AdmitLookup, Live, Gone, Decide, Hold, Bare, Tags
<1>4. /\ e.tag \in {"none", "watched"}
      /\ \E a \in answers : tx[a.req].hold = h /\ a.found = found
      => Learns(h, e, AdmitLookup(e, found))
  BY DEF AdmitLookup, Live, Gone, Decide, Hold, Bare, Learns
<1> QED
  BY <1>0, <1>1, <1>2, <1>3, <1>4 DEF AdmitLookup, Live, Gone, Tags
LEMMA SameLearns ==
    ASSUME NEW h, NEW e, NEW f, NEW g, Learns(h, e, f), SameHold(g, f)
    PROVE  Learns(h, e, g)
  BY DEF Learns, SameHold

\* Whose judging and deciding the rest is about.
LEMMA PromisingIs ==
    ASSUME UNCHANGED tx
    PROVE  \A q : /\ ReadsHold(q)' <=> ReadsHold(q)
                  /\ stage'[q] = stage[q] => (Promising(q)' <=> Promising(q))
  BY DEF Promising, ReadsHold

LEMMA KindAdmit ==
    ASSUME TypeOK, NEW r \in Reqs, Admit(r)
    PROVE  Quietly
<1>1. PICK h \in Holds : h = tx[r].hold
  BY RequestTypes
<1>2. /\ stage[r] = "new" /\ UNCHANGED <<tx, effect, writes, applies_sent, released, ledger>>
      /\ AdmitRefused(r) \/ AdmitHold(r) \/ AdmitResolution(r)
  BY DEF Admit, moneyVars
<1>3. /\ stage \in [Reqs -> Stages] /\ overlay \in [Holds -> Entry] /\ overlay[h] \in Entry
  BY DEF TypeOK
<1>4. stage'[r] # "judged" /\ \A q \in Reqs : q # r => stage'[q] = stage[q]
  BY <1>2, <1>3 DEF AdmitRefused, AdmitHold, AdmitResolution, Enter
<1>5. \A q \in Reqs : Promising(q)' <=> Promising(q)
  BY <1>2, <1>4, PromisingIs DEF Promising
<1>6. \/ UNCHANGED overlay
      \/ overlay' = [overlay EXCEPT ![h] = Pin(BeginLookup(overlay[h]))]
      \/ overlay' = [overlay EXCEPT ![h] = Pin(overlay[h])]
  BY <1>1, <1>2 DEF AdmitRefused, AdmitHold, AdmitResolution, Ask
<1>7. BeginLookup(overlay[h]) \in Entry /\ Learns(h, overlay[h], BeginLookup(overlay[h]))
      /\ Learns(h, overlay[h], overlay[h])
  BY <1>3, PinsKeepEntry, AnswerTeaches
<1>8. Learns(h, overlay[h], Pin(BeginLookup(overlay[h]))) /\ Learns(h, overlay[h], Pin(overlay[h]))
  BY <1>3, <1>7, PinsMoveOnly, SameLearns
<1>9. \A g \in Holds : Learns(g, overlay[g], overlay'[g])
  <2>1. \A g \in Holds : Learns(g, overlay[g], overlay[g])
    BY DEF Learns, SameHold
  <2> QED
    BY <1>3, <1>6, <1>8, <2>1
<1> QED
  BY <1>2, <1>5, <1>9 DEF Quietly

\* A dependency went: at most its request was judged.
LEMMA KindReleased ==
    ASSUME TypeOK, LifeInv, NEW r \in Reqs, stage[r] = "open", NEW dep, NEW e \in Entry, NEW found,
           ReleaseDep(r, dep, e, found), Learns(tx[r].hold, overlay[tx[r].hold], e),
           ReadsHold(r) /\ ~Live(e) /\ ~Gone(e) => found = 0,
           ReadsHold(r) /\ found # 0 => "pending" \in sent'[r],
           found # 0 => found = record[r] \/ \E a \in answers : a.req = r /\ a.found = found,
           UNCHANGED <<tx, writes, applies_sent, released, ledger, failures, applying, in_flight, sealed>>
    PROVE  Quietly \/ JudgedOn(r, e, found)
<1>1. PICK h \in Holds : h = tx[r].hold
  BY RequestTypes
<1>2. /\ \A q \in Reqs : q # r => stage'[q] = stage[q] /\ effect'[q] = effect[q]
      /\ \A g \in Holds : g # h => overlay'[g] = overlay[g]
  BY <1>1, Released, ReleaseTells
<1>3. ~Promising(r) /\ \A q \in Reqs : q # r => (Promising(q)' <=> Promising(q))
  BY <1>2, PromisingIs DEF Promising
<1>4. CASE ~Promising(r)'
  <2>1. Learns(h, overlay[h], overlay'[h])
    <3>1. stage'[r] # "judged" \/ ~ReadsHold(r)
      BY <1>4, PromisingIs DEF Promising
    <3>2. overlay'[h] = e \/ overlay'[h] = Unpinned(r, e)
      BY <1>1, <3>1, ReleaseTells
    <3> QED
      BY <1>1, <3>2, PinsMoveOnly, SameLearns
  <2>2. \A g \in Holds : g # h => Learns(g, overlay[g], overlay'[g])
    BY <1>2 DEF Learns, SameHold
  <2>3. \A q \in Reqs : (Promising(q)' <=> Promising(q)) /\ (Promising(q) => effect'[q] = effect[q])
    BY <1>2, <1>3, <1>4
  <2> QED
    BY <2>1, <2>2, <2>3 DEF Quietly
<1>5. CASE Promising(r)'
  <2>1. ReadsHold(r) /\ stage'[r] = "judged"
    BY <1>5, PromisingIs DEF Promising
  <2>2. /\ Verdict(r, e, found) = "accepted" /\ effect'[r] = Effect(r, e, found)
        /\ overlay'[h] = Reserve(e, effect'[r].amount, effect'[r].left = 0)
    BY <1>1, <2>1, ReleaseTells
  <2>3. open' = Append(open, r)
    BY <2>1, Released
  <2>4. found # 0 /\ ~Gone(e)
    BY <2>1, <2>2 DEF Verdict, ViewResolved
  <2>5. Live(e) /\ "pending" \in sent'[r]
    BY <2>1, <2>4
  <2>6. found = record[r] \/ \E a \in answers : a.req = r /\ a.found = found
    BY <2>4
  <2> QED
    BY <1>1, <1>2, <2>1, <2>2, <2>3, <2>5, <2>6 DEF JudgedOn
<1> QED
  BY <1>4, <1>5

\* A record the request holds: the overlay has known its hold since.
RecordInv ==
    \A r \in Reqs : record[r] > 0 =>
        /\ ReadsHold(r) /\ "pending" \in sent[r]
        /\ stage[r] = "open" => overlay[tx[r].hold].tag \in {"decided", "removed", "missing"}

LEMMA KindRetry ==
    ASSUME TypeOK, StaleInv, LifeInv, RetryDispatch
    PROVE  Quietly
<1>0. PICK r : r = Head(deferred)
  OBVIOUS
<1>1. /\ deferred # <<>> /\ deferred' = Tail(deferred)
      /\ UNCHANGED <<tx, writes, applies_sent, released, ledger, failures, applying, in_flight, sealed>>
      /\ \/ Ask(r) /\ UNCHANGED <<stage, effect>>
         \/ Skip(r) /\ ReleaseDep(r, "pending", Pin(overlay[tx[r].hold]), 0)
  BY <1>0 DEF RetryDispatch, moneyVars, safetyVars
<1>2. r \in Reqs /\ Deferred(r)
  BY <1>0, <1>1, DeferredShrinks DEF StaleInv
<1>3. stage[r] = "open"
  BY <1>2 DEF LifeInv, WaitInv
<1>4. PICK h \in Holds : h = tx[r].hold
  BY <1>2, RequestTypes
<1>5. overlay[h] \in Entry /\ overlay \in [Holds -> Entry]
  BY DEF TypeOK
<1>6. CASE Ask(r) /\ UNCHANGED <<stage, effect>>
  <2>1. BeginLookup(overlay[h]) \in Entry /\ Learns(h, overlay[h], BeginLookup(overlay[h]))
    BY <1>5, PinsKeepEntry, AnswerTeaches
  <2>2. Learns(h, overlay[h], Pin(BeginLookup(overlay[h])))
    BY <2>1, PinsMoveOnly, SameLearns
  <2>3. overlay' = [overlay EXCEPT ![h] = Pin(BeginLookup(overlay[h]))]
    BY <1>4, <1>6 DEF Ask
  <2>4. \A g \in Holds : Learns(g, overlay[g], overlay'[g])
    BY <1>5, <2>2, <2>3 DEF Learns, SameHold
  <2>5. \A q \in Reqs : (Promising(q)' <=> Promising(q)) /\ effect'[q] = effect[q]
    BY <1>1, <1>6, PromisingIs
  <2> QED
    BY <1>1, <2>4, <2>5 DEF Quietly
<1>7. CASE Skip(r) /\ ReleaseDep(r, "pending", Pin(overlay[tx[r].hold]), 0)
  <2>1. PICK e \in Entry : e = Pin(overlay[h])
    BY <1>5, PinsKeepEntry
  <2>2. Learns(h, overlay[h], e)
    <3>1. Learns(h, overlay[h], overlay[h])
      BY DEF Learns, SameHold
    <3> QED
      BY <1>5, <2>1, <3>1, PinsMoveOnly, SameLearns
  <2>3. Quietly \/ JudgedOn(r, e, 0)
    BY <1>1, <1>2, <1>3, <1>4, <1>7, <2>1, <2>2, KindReleased
  <2>4. ~JudgedOn(r, e, 0)
    BY DEF JudgedOn, Verdict
  <2> QED
    BY <2>3, <2>4
<1> QED
  BY <1>1, <1>6, <1>7

LEMMA KindIdemAnswer ==
    ASSUME TypeOK, LifeInv, RecordInv, NEW r \in Reqs, IdemAnswer(r)
    PROVE  Quietly \/ JudgedOn(r, overlay[tx[r].hold], record[r])
<1>1. /\ stage[r] = "open" /\ ReleaseDep(r, "idem", overlay[tx[r].hold], record[r])
      /\ UNCHANGED <<tx, sent, writes, applies_sent, released, ledger, failures, applying, in_flight, sealed>>
  BY DEF IdemAnswer, moneyVars, safetyVars
<1>2. PICK e \in Entry : e = overlay[tx[r].hold]
  BY RequestTypes
<1>3. Learns(tx[r].hold, overlay[tx[r].hold], e)
  BY <1>2 DEF Learns, SameHold
<1>4. record[r] \in Nat
  BY DEF TypeOK
<1>5. ReadsHold(r) /\ ~Live(e) /\ ~Gone(e) => record[r] = 0
  BY <1>1, <1>2, <1>4 DEF RecordInv, Live, Gone
<1>6. record[r] # 0 => "pending" \in sent'[r]
  BY <1>1, <1>4 DEF RecordInv
<1> QED
  BY <1>1, <1>2, <1>3, <1>5, <1>6, KindReleased

LEMMA KindPendingAnswer ==
    ASSUME TypeOK, StaleInv, LifeInv, NEW a \in answers, PendingAnswer(a)
    PROVE  Quietly \/ JudgedOn(a.req, AdmitLookup(overlay[tx[a.req].hold], a.found), a.found)
<1>1. /\ ReleaseDep(a.req, "pending", AdmitLookup(overlay[tx[a.req].hold], a.found), a.found)
      /\ UNCHANGED <<tx, sent, writes, applies_sent, released, ledger, failures, applying, in_flight, sealed>>
  BY DEF PendingAnswer, moneyVars
<1>2. a.req \in Reqs /\ a.found \in Nat /\ Asks(a.req)
  BY RequestTypes DEF Replies
<1>3. stage[a.req] = "open" /\ "pending" \in sent[a.req]
  BY <1>2 DEF LifeInv, WaitInv, StaleInv, AskedOnce
<1>4. overlay[tx[a.req].hold] \in Entry
  BY <1>2, RequestTypes
<1>5. PICK e \in Entry : e = AdmitLookup(overlay[tx[a.req].hold], a.found)
  BY <1>2, <1>4, AnswersKeepEntry
<1>6. Learns(tx[a.req].hold, overlay[tx[a.req].hold], e) /\ e.tag \in {"decided", "removed", "missing"}
  <2>1. \E b \in answers : tx[b.req].hold = tx[a.req].hold /\ b.found = a.found
    OBVIOUS
  <2> QED
    BY <1>2, <1>4, <1>5, <2>1, AnswerTeaches
<1>7. ReadsHold(a.req) /\ ~Live(e) /\ ~Gone(e) => a.found = 0
  BY <1>6 DEF Live, Gone
<1> QED
  BY <1>1, <1>2, <1>3, <1>5, <1>6, <1>7, KindReleased

\* The oldest decision of the backlog goes to the engine.
Flushes(r) ==
    /\ UNCHANGED <<tx, stage, sent, record, effect, outcome, released, ledger, failures, sealed>>
    /\ writes # <<>> /\ r = Head(writes) /\ writes' = Tail(writes) /\ applies_sent' = applies_sent + 1
    /\ cmdq' = Append(cmdq, PendingEffect(r))
    /\ overlay' = [overlay EXCEPT ![tx[r].hold] = Sent(PendingEffect(r), @)]

LEMMA KindApply ==
    ASSUME TypeOK, LifeInv, ApplyEffect
    PROVE  (Quietly /\ UNCHANGED <<outcome, cmdq>>) \/ Commits(Head(applying.batch))
<1>0. PICK r : r = Head(applying.batch)
  OBVIOUS
<1>1. r \in Reqs /\ stage[r] = "judged"
  BY <1>0, HeadJudged DEF ApplyEffect
<1>2. UNCHANGED <<failures, store, answers, fetches>>
  BY DEF ApplyEffect, engineVars
<1>3. \/ /\ Finish(r, "committed") /\ Write(r, GivenBack(r)) /\ UNCHANGED sealed
         /\ released' = [released EXCEPT ![tx[r].hold] =
                           IF ReadsHold(r) THEN @ + effect[r].amount ELSE @]
         /\ ledger' = [ledger EXCEPT ![tx[r].hold] = Stored(PendingEffect(r), @)]
      \/ UNCHANGED <<tx, stage, effect, outcome, cmdq, overlay, writes, applies_sent, released, ledger>>
  BY <1>0 DEF ApplyEffect, GivenBack, reqVars, moneyVars
<1>4. CASE /\ Finish(r, "committed") /\ Write(r, GivenBack(r)) /\ UNCHANGED sealed
           /\ released' = [released EXCEPT ![tx[r].hold] =
                             IF ReadsHold(r) THEN @ + effect[r].amount ELSE @]
           /\ ledger' = [ledger EXCEPT ![tx[r].hold] = Stored(PendingEffect(r), @)]
  <2>1. /\ UNCHANGED <<tx, sent, effect, record>> /\ stage'[r] = "done" /\ outcome'[r] = "committed"
        /\ \A q \in Reqs : q # r => stage'[q] = stage[q] /\ outcome'[q] = outcome[q]
    BY <1>1, <1>4 DEF Finish, TypeOK
  <2>2. Handing(r, GivenBack(r)) \/ Backlogging(r, GivenBack(r))
    BY <1>4 DEF Write, Handing, Backlogging
  <2> QED
    BY <1>0, <1>1, <1>2, <1>4, <2>1, <2>2 DEF Commits, ApplyEffect
<1>5. CASE UNCHANGED <<tx, stage, effect, outcome, cmdq, overlay, writes, applies_sent, released, ledger>>
  <2>1. \A q \in Reqs : (Promising(q)' <=> Promising(q)) /\ (Promising(q) => effect'[q] = effect[q])
    BY <1>5, PromisingIs
  <2> QED
    BY <1>5, <2>1 DEF Quietly, Learns, SameHold
<1> QED
  BY <1>3, <1>4, <1>5

LEMMA KindRollBack ==
    ASSUME TypeOK, LifeInv, RollBackEffect
    PROVE  Quietly \/ Refuses(Head(applying.batch))
<1>0. PICK r : r = Head(applying.batch)
  OBVIOUS
<1>1. r \in Reqs /\ stage[r] = "judged"
  BY <1>0, HeadJudged DEF RollBackEffect
<1>2. /\ UNCHANGED <<tx, sent, effect, record, writes, applies_sent, released, ledger, failures, sealed>>
      /\ stage'[r] = "done" /\ \A q \in Reqs : q # r => stage'[q] = stage[q]
  BY <1>0, <1>1 DEF RollBackEffect, Finish, TypeOK, moneyVars, safetyVars
<1>3. overlay' = [overlay EXCEPT ![tx[r].hold] =
         IF ReadsHold(r) THEN Unpinned(r, Compensate(@, effect[r].amount, effect[r].left = 0)) ELSE @]
  BY <1>0 DEF RollBackEffect
<1>4. CASE ReadsHold(r)
  BY <1>0, <1>1, <1>2, <1>3, <1>4 DEF Refuses, RollBackEffect
<1>5. CASE ~ReadsHold(r)
  <2>1. \A q \in Reqs : (Promising(q)' <=> Promising(q)) /\ effect'[q] = effect[q]
    BY <1>2, <1>5, PromisingIs DEF Promising
  <2>2. \A g \in Holds : overlay'[g] = overlay[g]
    BY <1>3, <1>5 DEF TypeOK
  <2> QED
    BY <1>2, <2>1, <2>2 DEF Quietly, Learns, SameHold
<1> QED
  BY <1>4, <1>5

LEMMA KindFlush ==
    ASSUME TypeOK, FlushWrite
    PROVE  Flushes(Head(writes)) /\ Head(writes) \in Reqs
<1>1. Head(writes) \in Reqs
  BY DEF FlushWrite, TypeOK
<1> QED
  BY <1>1 DEF FlushWrite, Flushes, reqVars, moneyVars, batchVars, safetyVars

LEMMA KindElsewhere ==
    ASSUME TypeOK, Propose \/ StartApply \/ EvictIdle \/ Engine \/ UNCHANGED vars
    PROVE  Quietly
<1>1. UNCHANGED <<tx, stage, effect, writes, applies_sent, released, ledger>>
  BY DEF Propose, StartApply, EvictIdle, Engine, EngineApply, EngineLookup, Harvest, Publish,
     vars, reqVars, chanVars, moneyVars
<1>2. \A q \in Reqs : (Promising(q)' <=> Promising(q)) /\ effect'[q] = effect[q]
  BY <1>1, PromisingIs
<1>3. CASE EvictIdle
  <2>1. \A g \in Holds : overlay'[g] = overlay[g] \/ (overlay'[g] = NoEntry /\ Idle(overlay[g], published))
    BY <1>3 DEF EvictIdle
  <2> QED
    BY <1>1, <1>2, <2>1 DEF Quietly, Learns, SameHold, Idle
<1>4. CASE UNCHANGED overlay
  BY <1>1, <1>2, <1>4 DEF Quietly, Learns, SameHold
<1> QED
  BY <1>3, <1>4 DEF Propose, StartApply, Engine, EngineApply, EngineLookup, Harvest, Publish, vars, chanVars

\* Every step is one of these.
LEMMA StepKinds ==
    ASSUME TypeOK, StaleInv, LifeInv, RecordInv, [Next]_vars
    PROVE  \/ Quietly
           \/ \E r \in Reqs, e \in Entry, found \in Nat : JudgedOn(r, e, found)
           \/ \E r \in Reqs : Commits(r) \/ Refuses(r) \/ Flushes(r)
<1>1. CASE \E r \in Reqs : Admit(r)
  BY <1>1, KindAdmit
<1>2. CASE RetryDispatch
  BY <1>2, KindRetry
<1>3. CASE \E r \in Reqs : IdemAnswer(r)
  <2>1. PICK r \in Reqs : IdemAnswer(r)
    BY <1>3
  <2>2. overlay[tx[r].hold] \in Entry /\ record[r] \in Nat
    BY RequestTypes DEF TypeOK
  <2> QED
    BY <2>1, <2>2, KindIdemAnswer
<1>4. CASE \E a \in answers : PendingAnswer(a)
  <2>1. PICK a \in answers : PendingAnswer(a)
    BY <1>4
  <2>2. a.req \in Reqs /\ a.found \in Nat
    BY RequestTypes DEF Replies
  <2>3. AdmitLookup(overlay[tx[a.req].hold], a.found) \in Entry
    BY <2>2, RequestTypes, AnswersKeepEntry
  <2> QED
    BY <2>1, <2>2, <2>3, KindPendingAnswer
<1>5. CASE ApplyEffect \/ RollBackEffect
  <2>1. Head(applying.batch) \in Reqs
    BY <1>5, HeadJudged DEF ApplyEffect, RollBackEffect
  <2> QED
    BY <1>5, <2>1, KindApply, KindRollBack
<1>6. CASE FlushWrite
  BY <1>6, KindFlush
<1>7. CASE Propose \/ StartApply \/ EvictIdle \/ Engine \/ UNCHANGED vars
  BY <1>7, KindElsewhere
<1> QED
  BY <1>1, <1>2, <1>3, <1>4, <1>5, <1>6, <1>7 DEF Next, Drain

-----------------------------------------------------------------------------
(***************************************************************************)
(* Reservations.  A decided entry's is what is promised of its hold, its   *)
(* mark of a full resolution has somebody behind it, and a marker can      *)
(* always be passed.                                                       *)
(***************************************************************************)
ReservedInv == \A h \in Holds : Live(overlay[h]) => overlay[h].reserved = Promised(h)

\* The hold of a promising resolution is pinned, and decided until it is removed.
HeldInv == \A r \in Reqs : Promising(r) =>
              "pending" \in sent[r] /\ overlay[tx[r].hold].tag \in {"decided", "removed"}

\* Who takes all of the hold, and is undecided or waits in the backlog.
Wholly(r) == effect[r].left = 0 /\ (stage[r] = "judged" \/ Backlogged(r))
ResolvedInv == \A h \in Holds : Live(overlay[h]) /\ overlay[h].resolved
                  => \E r \in Resolutions(h) : Wholly(r)

MarkedInv == \A h \in Holds : overlay[h].tag = "removed" => overlay[h].safe_after <= applies_sent

ReserveInv == RecordInv /\ HeldInv /\ ReservedInv /\ ResolvedInv /\ MarkedInv

LEMMA JudgedFinite ==
    ASSUME TypeOK, NEW h
    PROVE  /\ IsFiniteSet(JudgedOf(h)) /\ Amounts(effect, JudgedOf(h))
           /\ \A r \in Reqs : r \in JudgedOf(h) <=> Promising(r) /\ tx[r].hold = h
           /\ JudgedOf(h) \subseteq Reqs
           /\ Promised(h) = Total(effect, JudgedOf(h)) /\ Promised(h) \in Nat
<1>1. JudgedOf(h) \subseteq Reqs
  BY DEF JudgedOf, Resolutions
<1>2. IsFiniteSet(JudgedOf(h))
  BY <1>1, FS_Subset, ReqsAssumption
<1>3. Amounts(effect, JudgedOf(h))
  BY <1>1 DEF Amounts, TypeOK
<1>4. \A r \in Reqs : r \in JudgedOf(h) <=> Promising(r) /\ tx[r].hold = h
  BY DEF JudgedOf, Resolutions, Promising
<1>5. Promised(h) = Total(effect, JudgedOf(h))
  BY DEF Promised, Total, JudgedOf
<1>6. Total(effect, JudgedOf(h)) \in Nat
  BY <1>2, <1>3, TotalType
<1> QED
  BY <1>1, <1>2, <1>3, <1>4, <1>5, <1>6

LEMMA PromisedNext ==
    ASSUME UNCHANGED tx, NEW h
    PROVE  /\ \A r \in Reqs : r \in JudgedOf(h)' <=> Promising(r)' /\ tx[r].hold = h
           /\ JudgedOf(h)' \subseteq Reqs
           /\ Promised(h)' = Total(effect', JudgedOf(h)')
<1>1. JudgedOf(h)' \subseteq Reqs
  BY DEF JudgedOf, Resolutions
<1>2. \A r \in Reqs : r \in JudgedOf(h)' <=> Promising(r)' /\ tx[r].hold = h
  BY DEF JudgedOf, Resolutions, Promising, ReadsHold
<1>3. Promised(h)' = Total(effect', JudgedOf(h)')
  BY DEF Promised, Total, JudgedOf, MapThenSumSet, MapThenFoldSet
<1> QED
  BY <1>1, <1>2, <1>3

\* Nobody of h is judged or decided.
LEMMA PromisedStays ==
    ASSUME TypeOK, UNCHANGED tx, NEW h,
           \A q \in Reqs : tx[q].hold = h =>
              (Promising(q)' <=> Promising(q)) /\ (Promising(q) => effect'[q] = effect[q])
    PROVE  Promised(h)' = Promised(h) /\ JudgedOf(h)' = JudgedOf(h)
<1>0. /\ JudgedOf(h) \subseteq Reqs /\ JudgedOf(h)' \subseteq Reqs
      /\ \A q \in Reqs : /\ q \in JudgedOf(h) <=> Promising(q) /\ tx[q].hold = h
                         /\ q \in JudgedOf(h)' <=> Promising(q)' /\ tx[q].hold = h
  BY JudgedFinite, PromisedNext
<1>1. JudgedOf(h)' = JudgedOf(h)
  BY <1>0
<1>2. \A x \in JudgedOf(h) : Taking(effect'[x]) = Taking(effect[x])
  BY JudgedFinite
<1>3. Total(effect', JudgedOf(h)) = Total(effect, JudgedOf(h))
  BY <1>2, JudgedFinite, TotalCong
<1> QED
  BY <1>1, <1>3, JudgedFinite, PromisedNext

\* r is judged.
LEMMA PromisedGrows ==
    ASSUME TypeOK, TypeOK', UNCHANGED tx, NEW r \in Reqs, ~Promising(r), Promising(r)',
           \A q \in Reqs : q # r =>
              (Promising(q)' <=> Promising(q)) /\ (Promising(q) => effect'[q] = effect[q])
    PROVE  Promised(tx[r].hold)' = Promised(tx[r].hold) + effect'[r].amount
<1>1. PICK h : h = tx[r].hold
  OBVIOUS
<1>2. JudgedOf(h)' = JudgedOf(h) \cup {r} /\ r \notin JudgedOf(h)
  BY <1>1, JudgedFinite, PromisedNext
<1>3. \A x \in JudgedOf(h) : Taking(effect'[x]) = Taking(effect[x])
  BY <1>2, JudgedFinite
<1>4. Total(effect', JudgedOf(h)) = Total(effect, JudgedOf(h))
  BY <1>3, JudgedFinite, TotalCong
<1>5. Amounts(effect', JudgedOf(h) \cup {r})
  <2>1. JudgedOf(h) \cup {r} \subseteq Reqs
    BY JudgedFinite
  <2>2. \A q \in Reqs : effect'[q].amount \in Nat
    BY DEF TypeOK
  <2> QED
    BY <2>1, <2>2 DEF Amounts
<1>6. Total(effect', JudgedOf(h) \cup {r}) = effect'[r].amount + Total(effect', JudgedOf(h))
  BY <1>2, <1>5, JudgedFinite, TotalInsert
<1>7. Promised(h) \in Nat /\ effect'[r].amount \in Nat
  BY JudgedFinite DEF TypeOK
<1>70. Promised(h) = Total(effect, JudgedOf(h)) /\ Promised(h)' = Total(effect', JudgedOf(h) \cup {r})
  BY <1>2, JudgedFinite, PromisedNext
<1>8. Promised(h)' = Promised(h) + effect'[r].amount
  BY <1>4, <1>6, <1>7, <1>70
<1> QED
  BY <1>1, <1>8

\* r is decided.
LEMMA PromisedShrinks ==
    ASSUME TypeOK, UNCHANGED tx, NEW r \in Reqs, Promising(r), ~Promising(r)',
           \A q \in Reqs : q # r =>
              (Promising(q)' <=> Promising(q)) /\ (Promising(q) => effect'[q] = effect[q])
    PROVE  /\ Promised(tx[r].hold) = Promised(tx[r].hold)' + effect[r].amount
           /\ Promised(tx[r].hold)' \in Nat /\ effect[r].amount \in Nat
<1>1. PICK h : h = tx[r].hold
  OBVIOUS
<1>2. JudgedOf(h)' = JudgedOf(h) \ {r} /\ r \in JudgedOf(h)
  BY <1>1, JudgedFinite, PromisedNext
<1>3. \A x \in JudgedOf(h) \ {r} : Taking(effect'[x]) = Taking(effect[x])
  BY <1>2, JudgedFinite
<1>4. IsFiniteSet(JudgedOf(h) \ {r})
  BY JudgedFinite, FS_Subset
<1>5. Total(effect', JudgedOf(h) \ {r}) = Total(effect, JudgedOf(h) \ {r})
  BY <1>3, <1>4, TotalCong
<1>6. /\ Total(effect, JudgedOf(h)) = effect[r].amount + Total(effect, JudgedOf(h) \ {r})
      /\ Total(effect, JudgedOf(h) \ {r}) \in Nat /\ effect[r].amount \in Nat
  <2>1. IsFiniteSet(JudgedOf(h)) /\ Amounts(effect, JudgedOf(h))
    BY JudgedFinite
  <2> QED
    BY <1>2, <2>1, TotalRemove
<1>7. Promised(h) = Total(effect, JudgedOf(h)) /\ Promised(h)' = Total(effect, JudgedOf(h) \ {r})
  BY <1>2, <1>5, JudgedFinite, PromisedNext
<1> QED
  BY <1>1, <1>6, <1>7

-----------------------------------------------------------------------------
(* The parts of ReserveInv, kept by every kind of step.                    *)

\* What an entry has learnt it keeps.
KeepsTag(e, f) == /\ e.tag \in {"decided", "removed"} => f.tag \in {"decided", "removed"}
                  /\ Gone(e) \/ Live(e) => Gone(f) \/ Live(f)

LEMMA OperationsKeepTag ==
    ASSUME NEW e
    PROVE  /\ \A f, h : SameHold(f, e) \/ Learns(h, e, f) => KeepsTag(e, f)
           /\ \A amount, b : KeepsTag(e, Reserve(e, amount, b)) /\ KeepsTag(e, Compensate(e, amount, b))
           /\ \A amount : KeepsTag(e, ReleaseReservation(e, amount))
           /\ \A r : KeepsTag(e, Sent(PendingEffect(r), e))
<1>1. \A f, h : SameHold(f, e) \/ Learns(h, e, f) => KeepsTag(e, f)
  BY DEF SameHold, Learns, KeepsTag, Gone, Live
<1>2. \A amount, b : KeepsTag(e, Reserve(e, amount, b)) /\ KeepsTag(e, Compensate(e, amount, b))
  BY DEF Reserve, Compensate, Hold, KeepsTag, Gone, Live
<1>3. \A amount : KeepsTag(e, ReleaseReservation(e, amount))
  BY DEF ReleaseReservation, Hold, KeepsTag, Gone, Live
<1>4. ASSUME NEW r PROVE KeepsTag(e, Sent(PendingEffect(r), e))
  <2> DEFINE w == PendingEffect(r)
  <2>1. w.op \in {"create", "reduce", "remove"}
    BY DEF PendingEffect
  <2> HIDE DEF w
  <2>2. KeepsTag(e, Created(e, w.left)) /\ KeepsTag(e, NoteRemaining(e, w.left)) /\ KeepsTag(e, Forget(e, w.n))
    BY DEF Created, NoteRemaining, Forget, Decide, Hold, KeepsTag, Gone, Live
  <2>3. KeepsTag(e, Sent(w, e))
    BY <2>1, <2>2 DEF Sent
  <2> QED
    BY <2>3 DEF w
<1> QED
  BY <1>1, <1>2, <1>3, <1>4

LEMMA KeepsTagOn ==
    ASSUME NEW e, NEW f, NEW g, KeepsTag(e, f), KeepsTag(f, g)
    PROVE  KeepsTag(e, g)
  BY DEF KeepsTag

\* What the entry of r's hold is once r commits.
LEMMA CommitsEntry ==
    ASSUME TypeOK, NEW r \in Reqs, Commits(r)
    PROVE  /\ GivenBack(r) \in Entry
           /\ \A g \in Holds : g # tx[r].hold => overlay'[g] = overlay[g]
           /\ \/ Handing(r, GivenBack(r)) /\ SameHold(overlay'[tx[r].hold], Sent(PendingEffect(r), GivenBack(r)))
              \/ Backlogging(r, GivenBack(r)) /\ SameHold(overlay'[tx[r].hold], GivenBack(r))
<1>1. PICK h \in Holds : h = tx[r].hold
  BY RequestTypes
<1>2. overlay[h] \in Entry /\ effect[r].amount \in Int /\ overlay \in [Holds -> Entry] /\ TRUE \in BOOLEAN
  BY DEF TypeOK
<1>3. ReleaseReservation(overlay[h], effect[r].amount) \in Entry
  BY <1>2, ReservationsKeepEntry
<1>4. PICK e \in Entry : e = GivenBack(r)
  BY <1>1, <1>2, <1>3 DEF GivenBack
<1>5. PICK s \in Entry : s = Sent(PendingEffect(r), e)
  BY PendingEffectType, SentType
<1>6. \/ Handing(r, e) /\ overlay' = [overlay EXCEPT ![h] = Unpinned(r, s)]
      \/ Backlogging(r, e) /\ overlay' = [overlay EXCEPT ![h] = Unpinned(r, e)]
  BY <1>1, <1>4, <1>5 DEF Commits, Handing, Backlogging
<1>7. SameHold(Unpinned(r, s), s) /\ SameHold(Unpinned(r, e), e)
  BY PinsMoveOnly
<1>8. \/ Handing(r, e) /\ overlay'[h] = Unpinned(r, s)
      \/ Backlogging(r, e) /\ overlay'[h] = Unpinned(r, e)
  BY <1>2, <1>6
<1>9. \A g \in Holds : g # h => overlay'[g] = overlay[g]
  BY <1>2, <1>6
<1>10. \/ Handing(r, e) /\ SameHold(overlay'[h], s)
       \/ Backlogging(r, e) /\ SameHold(overlay'[h], e)
  BY <1>7, <1>8
<1> QED
  BY <1>1, <1>4, <1>5, <1>9, <1>10

LEMMA RefusesEntry ==
    ASSUME TypeOK, NEW r \in Reqs, Refuses(r)
    PROVE  /\ \A g \in Holds : g # tx[r].hold => overlay'[g] = overlay[g]
           /\ SameHold(overlay'[tx[r].hold],
                       Compensate(overlay[tx[r].hold], effect[r].amount, effect[r].left = 0))
<1>1. PICK h \in Holds : h = tx[r].hold
  BY RequestTypes
<1>2. /\ overlay[h] \in Entry /\ effect[r].amount \in Int /\ overlay \in [Holds -> Entry]
      /\ (effect[r].left = 0) \in BOOLEAN
  BY DEF TypeOK
<1>3. PICK e \in Entry : e = Compensate(overlay[h], effect[r].amount, effect[r].left = 0)
  BY <1>2, ReservationsKeepEntry
<1>4. overlay' = [overlay EXCEPT ![h] = Unpinned(r, e)]
  BY <1>1, <1>3 DEF Refuses
<1>5. overlay'[h] = Unpinned(r, e) /\ \A g \in Holds : g # h => overlay'[g] = overlay[g]
  BY <1>2, <1>4
<1>6. SameHold(overlay'[h], e)
  BY <1>5, PinsMoveOnly
<1> QED
  BY <1>1, <1>3, <1>5, <1>6

LEMMA FlushesEntry ==
    ASSUME TypeOK, NEW r \in Reqs, Flushes(r)
    PROVE  /\ \A g \in Holds : g # tx[r].hold => overlay'[g] = overlay[g]
           /\ overlay'[tx[r].hold] = Sent(PendingEffect(r), overlay[tx[r].hold])
  BY RequestTypes DEF Flushes, TypeOK

LEMMA TagsKept ==
    ASSUME TypeOK, StaleInv, LifeInv, RecordInv, [Next]_vars, NEW h \in Holds
    PROVE  KeepsTag(overlay[h], overlay'[h]) \/ overlay[h].pinned = 0
<1>0. KeepsTag(overlay[h], overlay[h])
  BY DEF KeepsTag
<1>1. CASE Quietly
  BY <1>1, OperationsKeepTag DEF Quietly
<1>2. ASSUME NEW r \in Reqs, NEW e \in Entry, NEW found \in Nat, JudgedOn(r, e, found)
      PROVE  KeepsTag(overlay[h], overlay'[h])
  <2>1. CASE h # tx[r].hold
    BY <1>0, <1>2, <2>1 DEF JudgedOn
  <2>2. CASE h = tx[r].hold
    <3>1. PICK amount, b : overlay'[h] = Reserve(e, amount, b)
      BY <1>2, <2>2 DEF JudgedOn
    <3>a. Learns(h, overlay[h], e)
      BY <1>2, <2>2 DEF JudgedOn
    <3>2. KeepsTag(overlay[h], e) /\ KeepsTag(e, Reserve(e, amount, b))
      BY <3>a, OperationsKeepTag
    <3> QED
      BY <3>1, <3>2, KeepsTagOn
  <2> QED
    BY <2>1, <2>2
<1>3. ASSUME NEW r \in Reqs, Commits(r)
      PROVE  KeepsTag(overlay[h], overlay'[h])
  <2>1. CASE h # tx[r].hold
    BY <1>0, <1>3, <2>1, CommitsEntry
  <2>2. CASE h = tx[r].hold
    <3>1. PICK e : e = GivenBack(r)
      OBVIOUS
    <3>2. KeepsTag(overlay[h], e)
      BY <1>0, <2>2, <3>1, OperationsKeepTag DEF GivenBack
    <3>3. SameHold(overlay'[h], e) \/ SameHold(overlay'[h], Sent(PendingEffect(r), e))
      BY <1>3, <2>2, <3>1, CommitsEntry
    <3>4. KeepsTag(e, Sent(PendingEffect(r), e))
      BY OperationsKeepTag
    <3>5. KeepsTag(e, overlay'[h])
      BY <3>3, <3>4, OperationsKeepTag, KeepsTagOn
    <3> QED
      BY <3>2, <3>5, KeepsTagOn
  <2> QED
    BY <2>1, <2>2
<1>4. ASSUME NEW r \in Reqs, Refuses(r)
      PROVE  KeepsTag(overlay[h], overlay'[h])
  <2>1. CASE h # tx[r].hold
    BY <1>0, <1>4, <2>1, RefusesEntry
  <2>2. CASE h = tx[r].hold
    <3>1. PICK f : f = Compensate(overlay[h], effect[r].amount, effect[r].left = 0)
      OBVIOUS
    <3>2. KeepsTag(overlay[h], f)
      BY <3>1, OperationsKeepTag
    <3>3. SameHold(overlay'[h], f)
      BY <1>4, <2>2, <3>1, RefusesEntry
    <3> QED
      BY <3>2, <3>3, OperationsKeepTag, KeepsTagOn
  <2> QED
    BY <2>1, <2>2
<1>5. ASSUME NEW r \in Reqs, Flushes(r)
      PROVE  KeepsTag(overlay[h], overlay'[h])
  BY <1>0, <1>5, FlushesEntry, OperationsKeepTag
<1> QED
  BY <1>1, <1>2, <1>3, <1>4, <1>5, StepKinds

\* A question put is not forgotten.
LEMMA SentStays ==
    ASSUME TypeOK, StaleInv, [Next]_vars
    PROVE  \A q \in Reqs : "pending" \in sent[q] => "pending" \in sent'[q]
<1>1. sent \in [Reqs -> SUBSET Deps]
  BY DEF TypeOK
<1>2. CASE \E r \in Reqs : Admit(r)
  <2>1. PICK r \in Reqs : Admit(r)
    BY <1>2
  <2>2. sent[r] = {} /\ \A q \in Reqs : q # r => sent'[q] = sent[q]
    BY <1>1, <2>1 DEF Admit, AdmitRefused, AdmitHold, AdmitResolution, Enter, StaleInv, AskedOnce
  <2> QED
    BY <2>2
<1>3. CASE RetryDispatch
  <2>1. PICK r : sent' = [sent EXCEPT ![r] = Deps]
    BY <1>3 DEF RetryDispatch
  <2> QED
    BY <1>1, <2>1 DEF Deps
<1>4. CASE (\E r \in Reqs : IdemAnswer(r)) \/ (\E a \in answers : PendingAnswer(a)) \/ Propose \/ StartApply
           \/ ApplyEffect \/ RollBackEffect \/ FlushWrite \/ EvictIdle \/ Engine \/ UNCHANGED vars
  <2>1. UNCHANGED sent
    BY <1>4 DEF IdemAnswer, PendingAnswer, Propose, StartApply, ApplyEffect, RollBackEffect, Finish, FlushWrite,
       EvictIdle, Engine, EngineApply, EngineLookup, Harvest, Publish, vars, reqVars
  <2> QED
    BY <2>1
<1> QED
  BY <1>2, <1>3, <1>4 DEF Next, Drain

\* A pinned hold's entry keeps what it has learnt.
LEMMA PinnedKeeps ==
    ASSUME TypeOK, StaleInv, LifeInv, PinInv, RecordInv, [Next]_vars, NEW q \in Reqs, Pinning(q)
    PROVE  KeepsTag(overlay[tx[q].hold], overlay'[tx[q].hold])
<1>1. PICK h \in Holds : h = tx[q].hold
  BY RequestTypes
<1>2. overlay[h].pinned # 0
  BY <1>1, PinnersFinite DEF PinInv
<1> QED
  BY <1>1, <1>2, TagsKept

LEMMA HeldNext ==
    ASSUME TypeOK, StaleInv, LifeInv, ReadInv, PinInv, RecordInv, HeldInv, [Next]_vars
    PROVE  HeldInv'
<1>0. UNCHANGED tx
  BY Moves
<1> SUFFICES ASSUME NEW q \in Reqs, Promising(q)'
             PROVE  "pending" \in sent'[q] /\ overlay'[tx[q].hold].tag \in {"decided", "removed"}
  BY <1>0 DEF HeldInv
<1>1. CASE Promising(q)
  <2>1. "pending" \in sent[q] /\ overlay[tx[q].hold].tag \in {"decided", "removed"}
    BY <1>1 DEF HeldInv
  <2>2. Pinning(q)
    BY <1>1, <2>1 DEF Promising, Pinning
  <2>3. KeepsTag(overlay[tx[q].hold], overlay'[tx[q].hold])
    BY <2>2, PinnedKeeps
  <2> QED
    BY <2>1, <2>3, SentStays DEF KeepsTag
<1>2. CASE ~Promising(q)
  <2>1. stage[q] # "judged" /\ stage'[q] = "judged"
    BY <1>0, <1>2 DEF Promising, ReadsHold
  <2>2. ~Quietly /\ ~\E r \in Reqs : Commits(r) \/ Refuses(r) \/ Flushes(r)
    BY <1>2, <2>1 DEF Quietly, Commits, Refuses, Flushes
  <2>3. PICK r \in Reqs, e \in Entry, found \in Nat : JudgedOn(r, e, found)
    BY <2>2, StepKinds
  <2>4. q = r
    BY <2>1, <2>3 DEF JudgedOn
  <2>5. overlay'[tx[q].hold].tag = "decided"
    BY <2>3, <2>4 DEF JudgedOn, Reserve, Live, Hold
  <2> QED
    BY <2>3, <2>4, <2>5 DEF JudgedOn
<1> QED
  BY <1>1, <1>2

\* Only an answer brings a record.
LEMMA RecordMoves ==
    ASSUME TypeOK, [Next]_vars, NEW q \in Reqs
    PROVE  record'[q] = record[q] \/ \E a \in answers : a.req = q /\ PendingAnswer(a) /\ record'[q] = a.found
<1>1. CASE \E a \in answers : PendingAnswer(a)
  <2>1. PICK a \in answers : PendingAnswer(a)
    BY <1>1
  <2>2. record' = [record EXCEPT ![a.req] = a.found] /\ a.req \in Reqs
    BY <2>1, RequestTypes DEF PendingAnswer, Replies
  <2> QED
    BY <2>1, <2>2 DEF TypeOK
<1>2. CASE (\E r \in Reqs : Admit(r)) \/ RetryDispatch \/ (\E r \in Reqs : IdemAnswer(r)) \/ Propose \/ StartApply
  BY <1>2 DEF Admit, RetryDispatch, IdemAnswer, Propose, StartApply, reqVars
<1>3. CASE ApplyEffect \/ RollBackEffect \/ FlushWrite \/ EvictIdle \/ Engine \/ UNCHANGED vars
  <2>1. UNCHANGED record
    BY <1>3 DEF ApplyEffect, RollBackEffect, Finish, FlushWrite,
       EvictIdle, Engine, EngineApply, EngineLookup, Harvest, Publish, vars, reqVars
  <2> QED
    BY <2>1
<1> QED
  BY <1>1, <1>2, <1>3 DEF Next, Drain

\* Who is open now was open or new.
LEMMA WasOpen ==
    ASSUME TypeOK, StaleInv, LifeInv, ReadInv, [Next]_vars, NEW q \in Reqs, stage'[q] = "open"
    PROVE  stage[q] \in {"open", "new"}
  BY Moves DEF Moved

LEMMA RecordNext ==
    ASSUME TypeOK, StaleInv, LifeInv, ReadInv, PinInv, RecordInv, [Next]_vars
    PROVE  RecordInv'
<1>0. UNCHANGED tx
  BY Moves
<1> SUFFICES ASSUME NEW q \in Reqs, record'[q] > 0
             PROVE  /\ ReadsHold(q) /\ "pending" \in sent'[q]
                    /\ stage'[q] = "open" => Gone(overlay'[tx[q].hold]) \/ Live(overlay'[tx[q].hold])
  BY <1>0 DEF RecordInv, ReadsHold, Gone, Live
<1>1. CASE record'[q] = record[q]
  <2>1. ReadsHold(q) /\ "pending" \in sent[q] /\ "pending" \in sent'[q]
    BY <1>1, SentStays DEF RecordInv
  <2>2. ASSUME stage'[q] = "open" PROVE Gone(overlay'[tx[q].hold]) \/ Live(overlay'[tx[q].hold])
    <3>1. stage[q] = "open"
      BY <2>1, <2>2, WasOpen DEF StaleInv, AskedOnce
    <3>2. Gone(overlay[tx[q].hold]) \/ Live(overlay[tx[q].hold])
      BY <1>1, <3>1 DEF RecordInv, Gone, Live
    <3>3. KeepsTag(overlay[tx[q].hold], overlay'[tx[q].hold])
      BY <2>1, <3>1, PinnedKeeps DEF Pinning
    <3> QED
      BY <3>2, <3>3 DEF KeepsTag
  <2> QED
    BY <2>1, <2>2
<1>2. CASE \E a \in answers : a.req = q /\ PendingAnswer(a) /\ record'[q] = a.found
  <2>1. PICK a \in answers : a.req = q /\ PendingAnswer(a)
    BY <1>2
  <2>2. "pending" \in sent[q] /\ ReadsHold(q) /\ UNCHANGED sent
    BY <2>1 DEF StaleInv, AskedOnce, ReadInv, PendingAnswer
  <2>3. a.found \in Nat /\ overlay[tx[q].hold] \in Entry /\ Asks(q)
    BY <2>1, RequestTypes DEF Replies
  <2>4. PICK e \in Entry : e = AdmitLookup(overlay[tx[q].hold], a.found)
    BY <2>3, AnswersKeepEntry
  <2>5. e.tag \in {"decided", "removed", "missing"}
    BY <2>3, <2>4, AnswerTeaches
  <2>6. ReleaseDep(q, "pending", e, a.found)
    BY <2>1, <2>4 DEF PendingAnswer
  <2>7. stage'[q] = "open" => overlay'[tx[q].hold] = e
    BY <2>6, ReleaseTells
  <2> QED
    BY <2>2, <2>5, <2>7 DEF Gone, Live
<1> QED
  BY <1>1, <1>2, RecordMoves

\* Who is on record as the creation of a hold nobody can have resolved yet.
LEMMA NobodyPromised ==
    ASSUME TypeOK, ReadInv, CreatedInv, SeenInv, NEW r \in Reqs, ~ReadsHold(r),
           stage[r] = "judged" \/ Backlogged(r)
    PROVE  JudgedOf(tx[r].hold) = {} /\ ~Handed(tx[r].hold)
<1>1. ~Handed(tx[r].hold)
  <2> SUFFICES ASSUME NEW q \in Reqs, tx[q].kind = "hold", tx[q].hold = tx[r].hold,
                      outcome[q] = "committed", ~Backlogged(q)
               PROVE  FALSE
    BY DEF Handed
  <2>1. q = r
    BY DEF CreatedInv, WellFormed, ReadsHold
  <2> QED
    BY <2>1 DEF ReadInv
<1>2. \A q \in Reqs : Promising(q) => Handed(tx[q].hold)
  BY DEF SeenInv, KnownInv, Promising
<1> QED
  BY <1>1, <1>2, JudgedFinite

\* What a committed decision says of a hold.
LEMMA DecisionIs ==
    ASSUME TypeOK, NEW r \in Reqs
    PROVE  /\ PendingEffect(r).op = "create" <=> ~ReadsHold(r)
           /\ PendingEffect(r).op = "reduce" <=> ReadsHold(r) /\ effect[r].left > 0
           /\ PendingEffect(r).op = "remove" <=> ReadsHold(r) /\ effect[r].left = 0
           /\ ReadsHold(r) => PendingEffect(r).left = effect[r].left
           /\ ~ReadsHold(r) => PendingEffect(r).left = effect[r].amount
           /\ \A e : Sent(PendingEffect(r), e) =
                       IF ~ReadsHold(r) THEN Created(e, effect[r].amount)
                       ELSE IF effect[r].left > 0 THEN NoteRemaining(e, effect[r].left)
                       ELSE Forget(e, applies_sent + 1)
<1>1. effect[r].left \in Nat
  BY DEF TypeOK
<1> QED
  BY <1>1 DEF PendingEffect, ReadsHold, Sent

LEMMA ReservedNext ==
    ASSUME TypeOK, TypeOK', StaleInv, LifeInv, ReadInv, PinInv, CreatedInv, SeenInv,
           RecordInv, HeldInv, ReservedInv, [Next]_vars
    PROVE  ReservedInv'
<1>0. UNCHANGED tx
  BY Moves
<1> SUFFICES ASSUME NEW h \in Holds, Live(overlay'[h])
             PROVE  overlay'[h].reserved = Promised(h)'
  BY DEF ReservedInv
<1>a. Promised(h) \in Nat /\ (JudgedOf(h) = {} => Promised(h) = 0)
  BY JudgedFinite, TotalEmpty
<1>b. overlay[h].tag \notin {"decided", "removed"} => JudgedOf(h) = {}
  BY JudgedFinite DEF HeldInv
\* An entry that has at most learnt something.
<1>c. ASSUME NEW e, Learns(h, overlay[h], e), Live(e)
      PROVE  e.reserved = Promised(h)
  <2>1. CASE SameHold(e, overlay[h])
    <3>1. e.reserved = overlay[h].reserved /\ Live(overlay[h])
      BY <1>c, <2>1 DEF SameHold, Live
    <3> QED
      BY <3>1 DEF ReservedInv
  <2>2. CASE ~SameHold(e, overlay[h])
    <3>1. e.reserved = 0 /\ overlay[h].tag \in {"none", "watched"}
      BY <1>c, <2>2 DEF Learns, Live
    <3> QED
      BY <1>a, <1>b, <3>1
  <2> QED
    BY <2>1, <2>2
<1>1. CASE Quietly
  <2>1. Promised(h)' = Promised(h)
    BY <1>0, <1>1, PromisedStays DEF Quietly
  <2>2. Learns(h, overlay[h], overlay'[h])
    BY <1>1 DEF Quietly, NoEntry, Bare, Live
  <2> QED
    BY <1>c, <2>1, <2>2
<1>2. ASSUME NEW r \in Reqs, NEW e \in Entry, NEW found \in Nat, JudgedOn(r, e, found)
      PROVE  overlay'[h].reserved = Promised(h)'
  <2>0. /\ ~Promising(r) /\ Promising(r)'
        /\ \A q \in Reqs : q # r => (Promising(q)' <=> Promising(q)) /\ (Promising(q) => effect'[q] = effect[q])
    BY <1>0, <1>2, PromisingIs DEF JudgedOn, Promising
  <2>1. CASE h # tx[r].hold
    <3>1. Promised(h)' = Promised(h) /\ overlay'[h] = overlay[h]
      BY <1>0, <1>2, <2>0, <2>1, PromisedStays DEF JudgedOn
    <3> QED
      BY <3>1 DEF ReservedInv
  <2>2. CASE h = tx[r].hold
    <3>1. Promised(h)' = Promised(h) + effect'[r].amount
      BY <1>0, <2>0, <2>2, PromisedGrows
    <3>2. e.reserved = Promised(h)
      BY <1>2, <1>c, <2>2 DEF JudgedOn
    <3>3. overlay'[h].reserved = e.reserved + effect'[r].amount
      BY <1>2, <2>2 DEF JudgedOn, Reserve, Hold
    <3> QED
      BY <3>1, <3>2, <3>3
  <2> QED
    BY <2>1, <2>2
\* A resolution leaves the promised.
<1>d. ASSUME NEW r \in Reqs, ReadsHold(r), stage[r] = "judged", stage'[r] = "done",
             \A q \in Reqs : q # r => stage'[q] = stage[q], UNCHANGED effect
      PROVE  /\ h # tx[r].hold => Promised(h)' = Promised(h)
             /\ h = tx[r].hold => /\ Promised(h) = Promised(h)' + effect[r].amount
                                  /\ Promised(h)' \in Nat /\ effect[r].amount \in Nat
  <2>1. /\ Promising(r) /\ ~Promising(r)'
        /\ \A q \in Reqs : q # r => (Promising(q)' <=> Promising(q)) /\ (Promising(q) => effect'[q] = effect[q])
    BY <1>0, <1>d, PromisingIs DEF Promising
  <2> QED
    BY <1>0, <2>1, PromisedStays, PromisedShrinks
<1>3. ASSUME NEW r \in Reqs, Refuses(r)
      PROVE  overlay'[h].reserved = Promised(h)'
  <2>1. CASE h # tx[r].hold
    BY <1>3, <1>d, <2>1, RefusesEntry DEF ReservedInv, Refuses
  <2>2. CASE h = tx[r].hold
    <3>1. PICK f : f = Compensate(overlay[h], effect[r].amount, effect[r].left = 0)
      OBVIOUS
    <3>2. SameHold(overlay'[h], f)
      BY <1>3, <2>2, <3>1, RefusesEntry
    <3>3. Live(overlay[h]) /\ f.reserved = overlay[h].reserved - effect[r].amount
      BY <3>1, <3>2 DEF Compensate, Hold, SameHold, Live
    <3>4. overlay[h].reserved = Promised(h)
      BY <3>3 DEF ReservedInv
    <3>5. /\ Promised(h) = Promised(h)' + effect[r].amount
          /\ Promised(h)' \in Nat /\ effect[r].amount \in Nat
      BY <1>3, <1>d, <2>2 DEF Refuses
    <3> QED
      BY <3>2, <3>3, <3>4, <3>5 DEF SameHold
  <2> QED
    BY <2>1, <2>2
\* A creation finds nothing promised of its hold.
<1>e. ASSUME NEW r \in Reqs, ~ReadsHold(r), stage[r] = "judged" \/ Backlogged(r), h = tx[r].hold,
             \A q \in Reqs : q # r => stage'[q] = stage[q], UNCHANGED effect
      PROVE  JudgedOf(h) = {} /\ Promised(h)' = 0
  <2>1. \A q \in Reqs : Promising(q)' <=> Promising(q)
    BY <1>0, <1>e, PromisingIs DEF Promising
  <2>2. Promised(h)' = Promised(h)
    BY <1>0, <1>e, <2>1, PromisedStays
  <2>3. JudgedOf(h) = {}
    BY <1>e, NobodyPromised
  <2> QED
    BY <1>a, <2>2, <2>3
<1>4. ASSUME NEW r \in Reqs, Commits(r)
      PROVE  overlay'[h].reserved = Promised(h)'
  <2>0. PICK e \in Entry : e = GivenBack(r)
    BY <1>4, CommitsEntry
  <2>1. CASE h # tx[r].hold
    <3>1. overlay'[h] = overlay[h]
      BY <1>4, <2>1, CommitsEntry
    <3>2. \A q \in Reqs : tx[q].hold = h => (Promising(q)' <=> Promising(q))
      BY <1>0, <1>4, <2>1, PromisingIs DEF Commits
    <3>3. Promised(h)' = Promised(h)
      BY <1>0, <1>4, <3>2, PromisedStays DEF Commits
    <3> QED
      BY <3>1, <3>3 DEF ReservedInv
  <2>2. CASE h = tx[r].hold /\ ReadsHold(r)
    <3>1. SameHold(overlay'[h], e) \/ SameHold(overlay'[h], Sent(PendingEffect(r), e))
      BY <1>4, <2>0, <2>2, CommitsEntry
    <3>2. Live(e) /\ overlay'[h].reserved = e.reserved
      BY <2>2, <3>1, DecisionIs DEF NoteRemaining, Forget, Hold, SameHold, Live
    <3>3. Live(overlay[h]) /\ e.reserved = IF overlay[h].reserved > effect[r].amount
                                           THEN overlay[h].reserved - effect[r].amount ELSE 0
      BY <2>0, <2>2, <3>2 DEF GivenBack, ReleaseReservation, Hold, Live
    <3>4. overlay[h].reserved = Promised(h)
      BY <3>3 DEF ReservedInv
    <3>5. /\ Promised(h) = Promised(h)' + effect[r].amount
          /\ Promised(h)' \in Nat /\ effect[r].amount \in Nat
      BY <1>4, <1>d, <2>2 DEF Commits
    <3> QED
      BY <3>2, <3>3, <3>4, <3>5
  <2>3. CASE h = tx[r].hold /\ ~ReadsHold(r)
    <3>1. JudgedOf(h) = {} /\ Promised(h)' = 0
      BY <1>4, <1>e, <2>3 DEF Commits
    <3>2. e = overlay[h]
      BY <2>0, <2>3 DEF GivenBack
    <3>3. SameHold(overlay'[h], e) \/ SameHold(overlay'[h], Created(e, effect[r].amount))
      BY <1>4, <2>0, <2>3, CommitsEntry, DecisionIs
    <3>4. CASE SameHold(overlay'[h], e)
      BY <1>a, <3>1, <3>2, <3>4 DEF SameHold, Live, ReservedInv
    <3>5. CASE SameHold(overlay'[h], Created(e, effect[r].amount))
      BY <3>1, <3>5 DEF SameHold, Live, Created, Decide, Hold
    <3> QED
      BY <3>3, <3>4, <3>5
  <2> QED
    BY <2>1, <2>2, <2>3
<1>5. ASSUME NEW r \in Reqs, Flushes(r)
      PROVE  overlay'[h].reserved = Promised(h)'
  <2>1. UNCHANGED <<stage, effect>>
    BY <1>5 DEF Flushes
  <2>2. Promised(h)' = Promised(h)
    BY <1>0, <2>1, PromisedStays, PromisingIs
  <2>3. CASE h # tx[r].hold
    BY <1>5, <2>2, <2>3, FlushesEntry DEF ReservedInv
  <2>4. CASE h = tx[r].hold /\ ReadsHold(r)
    <3>1. Live(overlay[h]) /\ overlay'[h].reserved = overlay[h].reserved
      BY <1>5, <2>4, FlushesEntry, DecisionIs DEF NoteRemaining, Forget, Hold, Live
    <3> QED
      BY <2>2, <3>1 DEF ReservedInv
  <2>5. CASE h = tx[r].hold /\ ~ReadsHold(r)
    <3>1. Backlogged(r)
      <4>1. writes # <<>> /\ writes \in Seq(Reqs) /\ r = Head(writes)
        BY <1>5 DEF Flushes, TypeOK
      <4>2. 1 \in 1..Len(writes) /\ writes[1] = r
        BY <4>1
      <4> QED
        BY <4>2 DEF Backlogged
    <3>2. Promised(h)' = 0
      BY <1>e, <2>1, <2>5, <3>1
    <3>3. overlay'[h] = Created(overlay[h], effect[r].amount)
      BY <1>5, <2>5, FlushesEntry, DecisionIs
    <3>4. overlay'[h].reserved = 0
      BY <3>3 DEF Created, Decide, Hold, Live
    <3> QED
      BY <3>2, <3>4
  <2> QED
    BY <2>3, <2>4, <2>5
<1> QED
  BY <1>1, <1>2, <1>3, <1>4, <1>5, StepKinds

\* Who took all of a hold still has, by the end of the step.
LEMMA BacklogKeeps ==
    ASSUME TypeOK
    PROVE  /\ UNCHANGED writes => \A q : Backlogged(q)' <=> Backlogged(q)
           /\ \A r \in Reqs : writes' = Append(writes, r)
                 => Backlogged(r)' /\ \A q : Backlogged(q) => Backlogged(q)'
           /\ writes # <<>> /\ writes' = Tail(writes)
                 => \A q : q # Head(writes) /\ Backlogged(q) => Backlogged(q)'
<1>0. writes \in Seq(Reqs) /\ Len(writes) \in Nat
  BY DEF TypeOK
<1>1. UNCHANGED writes => \A q : Backlogged(q)' <=> Backlogged(q)
  BY DEF Backlogged
<1>2. ASSUME NEW r \in Reqs, writes' = Append(writes, r)
      PROVE  Backlogged(r)' /\ \A q : Backlogged(q) => Backlogged(q)'
  <2>1. Len(writes') = Len(writes) + 1 /\ writes'[Len(writes) + 1] = r
        /\ \A i \in 1..Len(writes) : writes'[i] = writes[i]
    BY <1>0, <1>2
  <2>2. Len(writes) + 1 \in 1..Len(writes') /\ \A i \in 1..Len(writes) : i \in 1..Len(writes')
    BY <1>0, <2>1
  <2> QED
    BY <2>1, <2>2 DEF Backlogged
<1>3. ASSUME writes # <<>>, writes' = Tail(writes), NEW q, q # Head(writes), Backlogged(q)
      PROVE  Backlogged(q)'
  <2>1. Len(writes') = Len(writes) - 1 /\ \A i \in 1..Len(writes') : writes'[i] = writes[i + 1]
    BY <1>0, <1>3, HeadTailProperties
  <2>2. PICK i \in 1..Len(writes) : writes[i] = q
    BY <1>3 DEF Backlogged
  <2>3. i # 1
    BY <1>0, <1>3, <2>2
  <2>4. PICK k : k = i - 1
    OBVIOUS
  <2>5. k \in 1..Len(writes') /\ k + 1 = i
    BY <1>0, <2>1, <2>2, <2>3, <2>4
  <2> QED
    BY <2>1, <2>2, <2>5 DEF Backlogged
<1> QED
  BY <1>1, <1>2, <1>3

LEMMA ResolvedNext ==
    ASSUME TypeOK, StaleInv, LifeInv, ReadInv, WrittenInv, RecordInv, ResolvedInv, [Next]_vars
    PROVE  ResolvedInv'
<1>0. UNCHANGED tx
  BY Moves
<1> DEFINE Waits(q) == effect'[q].left = 0 /\ (stage'[q] = "judged" \/ Backlogged(q)')
<1>z. ASSUME NEW h \in Holds, NEW q \in Resolutions(h), Waits(q)
      PROVE  \E p \in Resolutions(h)' : Wholly(p)'
  BY <1>0, <1>z DEF Resolutions, ReadsHold, Wholly
<1> SUFFICES ASSUME NEW h \in Holds, Live(overlay'[h]), overlay'[h].resolved
             PROVE  \E q \in Resolutions(h) : Waits(q)
  <2>1. \A h \in Holds : Live(overlay'[h]) /\ overlay'[h].resolved => \E q \in Resolutions(h) : Waits(q)
    OBVIOUS
  <2> HIDE DEF Waits
  <2>2. \A h \in Holds : Live(overlay'[h]) /\ overlay'[h].resolved => \E p \in Resolutions(h)' : Wholly(p)'
    BY <1>z, <2>1
  <2> QED
    BY <2>2 DEF ResolvedInv
\* Whoever it was still does.
<1>a. ASSUME Live(overlay[h]), overlay[h].resolved,
             \A q \in Resolutions(h) : Wholly(q) => /\ effect'[q] = effect[q]
                                                    /\ stage'[q] = "judged" \/ Backlogged(q)'
      PROVE  \E q \in Resolutions(h) : Waits(q)
  <2>1. PICK q \in Resolutions(h) : Wholly(q)
    BY <1>a DEF ResolvedInv
  <2> QED
    BY <1>a, <2>1 DEF Wholly
<1>b. \A q \in Reqs : Backlogged(q) => stage[q] = "done" /\ effect'[q] = effect[q]
  BY CommittedStays DEF Backlogged, WrittenInv
<1>c. \A q \in Resolutions(h) : q \in Reqs /\ ReadsHold(q) /\ tx[q].hold = h
  BY DEF Resolutions
\* An entry that has at most learnt something.
<1>d. ASSUME NEW e, Learns(h, overlay[h], e), Live(e), e.resolved
      PROVE  Live(overlay[h]) /\ overlay[h].resolved
  BY <1>d DEF Learns, SameHold, Live
<1> HIDE DEF Waits
<1>1. CASE Quietly
  <2>1. Learns(h, overlay[h], overlay'[h])
    BY <1>1 DEF Quietly, NoEntry, Bare, Live
  <2>2. Live(overlay[h]) /\ overlay[h].resolved
    BY <1>d, <2>1
  <2>3. \A q \in Reqs : /\ Promising(q)' <=> Promising(q)
                        /\ Promising(q) => effect'[q] = effect[q]
                        /\ Backlogged(q)' <=> Backlogged(q)
    BY <1>1, BacklogKeeps DEF Quietly
  <2>4. ASSUME NEW q \in Resolutions(h), Wholly(q)
        PROVE  effect'[q] = effect[q] /\ (stage'[q] = "judged" \/ Backlogged(q)')
    <3>1. CASE stage[q] = "judged"
      BY <1>c, <2>3, <3>1 DEF Promising
    <3>2. CASE Backlogged(q)
      BY <1>b, <1>c, <2>3, <3>2
    <3> QED
      BY <2>4, <3>1, <3>2 DEF Wholly
  <2> QED
    BY <1>a, <2>2, <2>4
<1>2. ASSUME NEW r \in Reqs, NEW e \in Entry, NEW found \in Nat, JudgedOn(r, e, found)
      PROVE  \E q \in Resolutions(h) : Waits(q)
  <2>1. ASSUME NEW q \in Resolutions(h), Wholly(q)
        PROVE  effect'[q] = effect[q] /\ (stage'[q] = "judged" \/ Backlogged(q)')
    <3>1. q # r
      BY <1>2, <1>b, <2>1 DEF JudgedOn, Wholly
    <3>2. stage'[q] = stage[q] /\ effect'[q] = effect[q] /\ UNCHANGED writes
      BY <1>2, <1>c, <3>1 DEF JudgedOn
    <3> QED
      BY <2>1, <3>2, BacklogKeeps DEF Wholly
  <2>2. CASE h # tx[r].hold
    BY <1>2, <1>a, <2>1, <2>2 DEF JudgedOn
  <2>3. CASE h = tx[r].hold /\ effect'[r].left = 0
    BY <1>2, <2>3 DEF JudgedOn, Resolutions, Waits
  <2>4. CASE h = tx[r].hold /\ effect'[r].left # 0
    <3>1. Learns(h, overlay[h], e) /\ Live(e) /\ overlay'[h] = Reserve(e, effect'[r].amount, FALSE)
      BY <1>2, <2>4 DEF JudgedOn
    <3>2. e.resolved
      <4>1. PICK mark : mark = (e.resolved \/ FALSE)
        OBVIOUS
      <4>2. overlay'[h] = Hold(e.pinned, e.remaining, e.reserved + effect'[r].amount, mark)
        BY <3>1, <4>1, Zenon DEF Reserve
      <4>3. overlay'[h].resolved = mark
        BY <4>2 DEF Hold
      <4> QED
        BY <4>1, <4>3, Zenon
    <3>3. Live(overlay[h]) /\ overlay[h].resolved
      BY <1>d, <3>1, <3>2
    <3> QED
      BY <1>a, <2>1, <3>3
  <2> QED
    BY <2>2, <2>3, <2>4
\* Others than r do.
<1>e. ASSUME NEW r \in Reqs, \A q \in Reqs : q # r => stage'[q] = stage[q], UNCHANGED effect,
             \A q \in Reqs : q # r /\ Backlogged(q) => Backlogged(q)',
             Live(overlay[h]), overlay[h].resolved,
             h # tx[r].hold \/ ~ReadsHold(r) \/ effect[r].left # 0
      PROVE  \E q \in Resolutions(h) : Waits(q)
  <2>1. ASSUME NEW q \in Resolutions(h), Wholly(q)
        PROVE  effect'[q] = effect[q] /\ (stage'[q] = "judged" \/ Backlogged(q)')
    <3>1. q # r /\ q \in Reqs
      BY <1>c, <1>e, <2>1 DEF Wholly
    <3> QED
      BY <1>e, <2>1, <3>1 DEF Wholly
  <2> QED
    BY <1>a, <1>e, <2>1
<1>3. ASSUME NEW r \in Reqs, Refuses(r)
      PROVE  \E q \in Resolutions(h) : Waits(q)
  <2>0. /\ UNCHANGED effect /\ \A q \in Reqs : q # r => stage'[q] = stage[q]
        /\ \A q \in Reqs : Backlogged(q) => Backlogged(q)'
    BY <1>3, BacklogKeeps DEF Refuses
  <2>1. CASE h # tx[r].hold
    <3>1. overlay'[h] = overlay[h]
      BY <1>3, <2>1, RefusesEntry
    <3> QED
      BY <1>e, <2>0, <2>1, <3>1
  <2>2. CASE h = tx[r].hold
    <3>1. PICK f : f = Compensate(overlay[h], effect[r].amount, effect[r].left = 0)
      OBVIOUS
    <3>2. SameHold(overlay'[h], f)
      BY <1>3, <2>2, <3>1, RefusesEntry
    <3>3. Live(f) /\ f.resolved
      BY <3>2 DEF SameHold, Live
    <3>4. Live(overlay[h]) /\ overlay[h].resolved /\ effect[r].left # 0
      BY <3>1, <3>3 DEF Compensate, Hold, Live
    <3> QED
      BY <1>e, <2>0, <3>4
  <2> QED
    BY <2>1, <2>2
\* What a decision makes of a mark.
<1>f. ASSUME NEW r \in Reqs, NEW e, Live(Sent(PendingEffect(r), e)), Sent(PendingEffect(r), e).resolved
      PROVE  Live(e) /\ e.resolved /\ ReadsHold(r) /\ effect[r].left # 0
  <2>1. ReadsHold(r)
    BY <1>f, DecisionIs DEF Created, Decide, Hold, Live
  <2>2. effect[r].left > 0
    BY <1>f, <2>1, DecisionIs DEF Forget, Live
  <2>3. Live(NoteRemaining(e, effect[r].left)) /\ NoteRemaining(e, effect[r].left).resolved
    BY <1>f, <2>1, <2>2, DecisionIs
  <2>4. Live(e) /\ e.resolved
    BY <2>3 DEF NoteRemaining, Hold, Live
  <2> QED
    BY <2>1, <2>2, <2>4
<1>4. ASSUME NEW r \in Reqs, Commits(r)
      PROVE  \E q \in Resolutions(h) : Waits(q)
  <2>0. /\ UNCHANGED effect /\ \A q \in Reqs : q # r => stage'[q] = stage[q]
        /\ \A q \in Reqs : Backlogged(q) => Backlogged(q)'
    BY <1>4, BacklogKeeps DEF Commits, Handing, Backlogging
  <2>1. CASE h # tx[r].hold
    <3>1. overlay'[h] = overlay[h]
      BY <1>4, <2>1, CommitsEntry
    <3> QED
      BY <1>e, <2>0, <2>1, <3>1
  <2>2. CASE h = tx[r].hold
    <3>1. PICK e : e = GivenBack(r)
      OBVIOUS
    <3>2. Live(e) /\ e.resolved => Live(overlay[h]) /\ overlay[h].resolved
      BY <2>2, <3>1 DEF GivenBack, ReleaseReservation, Hold, Live
    <3>3. CASE SameHold(overlay'[h], Sent(PendingEffect(r), e))
      <4>1. Live(Sent(PendingEffect(r), e)) /\ Sent(PendingEffect(r), e).resolved
        BY <3>3 DEF SameHold, Live
      <4>2. Live(e) /\ e.resolved /\ effect[r].left # 0
        BY <1>f, <4>1
      <4> QED
        BY <1>e, <2>0, <3>2, <4>2
    <3>4. CASE Backlogging(r, e) /\ SameHold(overlay'[h], e)
      <4>1. Live(overlay[h]) /\ overlay[h].resolved
        BY <3>2, <3>4 DEF SameHold, Live
      <4>2. CASE ReadsHold(r) /\ effect[r].left = 0
        <5>1. Backlogged(r)' /\ effect'[r] = effect[r]
          BY <2>0, <3>4, BacklogKeeps DEF Backlogging
        <5> QED
          BY <2>2, <4>2, <5>1 DEF Waits, Resolutions
      <4>3. CASE ~(ReadsHold(r) /\ effect[r].left = 0)
        BY <1>e, <2>0, <4>1, <4>3
      <4> QED
        BY <4>2, <4>3
    <3> QED
      BY <1>4, <2>2, <3>1, <3>3, <3>4, CommitsEntry
  <2> QED
    BY <2>1, <2>2
<1>5. ASSUME NEW r \in Reqs, Flushes(r)
      PROVE  \E q \in Resolutions(h) : Waits(q)
  <2>0. /\ UNCHANGED <<stage, effect>>
        /\ \A q \in Reqs : q # r /\ Backlogged(q) => Backlogged(q)'
    BY <1>5, BacklogKeeps DEF Flushes
  <2>1. CASE h # tx[r].hold
    <3>1. overlay'[h] = overlay[h]
      BY <1>5, <2>1, FlushesEntry
    <3> QED
      BY <1>e, <2>0, <2>1, <3>1
  <2>2. CASE h = tx[r].hold
    <3>1. overlay'[h] = Sent(PendingEffect(r), overlay[h])
      BY <1>5, <2>2, FlushesEntry
    <3>2. Live(overlay[h]) /\ overlay[h].resolved /\ effect[r].left # 0
      BY <1>f, <3>1
    <3> QED
      BY <1>e, <2>0, <3>2
  <2> QED
    BY <2>1, <2>2
<1> QED
  BY <1>1, <1>2, <1>3, <1>4, <1>5, StepKinds

\* A marker is made with the decision that is handed over with it.
LEMMA MarkedNext ==
    ASSUME TypeOK, StaleInv, LifeInv, RecordInv, MarkedInv, [Next]_vars
    PROVE  MarkedInv'
<1> SUFFICES ASSUME NEW h \in Holds, overlay'[h].tag = "removed"
             PROVE  overlay'[h].safe_after <= applies_sent'
  BY DEF MarkedInv
<1>0. applies_sent \in Nat
  BY DEF TypeOK
<1>a. ASSUME NEW e, SameHold(overlay'[h], e), e.tag = "removed" => e = overlay[h]
      PROVE  overlay'[h].safe_after <= applies_sent /\ overlay'[h].safe_after <= applies_sent + 1
  <2>1. overlay[h].safe_after \in Nat
    BY DEF TypeOK, Entry
  <2>2. overlay'[h].safe_after = overlay[h].safe_after /\ overlay[h].safe_after <= applies_sent
    BY <1>a DEF SameHold, MarkedInv
  <2> QED
    BY <1>0, <2>1, <2>2
<1>b. SameHold(overlay'[h], overlay'[h])
  BY DEF SameHold
<1>1. CASE Quietly
  <2>1. Learns(h, overlay[h], overlay'[h]) /\ UNCHANGED applies_sent
    BY <1>1 DEF Quietly, NoEntry, Bare
  <2>2. SameHold(overlay'[h], overlay[h])
    BY <2>1 DEF Learns
  <2> QED
    BY <1>a, <2>1, <2>2
<1>2. ASSUME NEW r \in Reqs, NEW e \in Entry, NEW found \in Nat, JudgedOn(r, e, found)
      PROVE  overlay'[h].safe_after <= applies_sent'
  <2>1. h # tx[r].hold
    BY <1>2 DEF JudgedOn, Reserve, Hold, Live
  <2> QED
    BY <1>2, <1>a, <1>b, <2>1 DEF JudgedOn
<1>3. ASSUME NEW r \in Reqs, Refuses(r)
      PROVE  overlay'[h].safe_after <= applies_sent'
  <2>1. PICK f : f = Compensate(overlay[h], effect[r].amount, effect[r].left = 0)
    OBVIOUS
  <2>2. f.tag = "removed" => f = overlay[h]
    BY <2>1 DEF Compensate, Hold
  <2>3. overlay'[h] = overlay[h] \/ SameHold(overlay'[h], f)
    BY <1>3, <2>1, RefusesEntry
  <2> QED
    BY <1>3, <1>a, <1>b, <2>2, <2>3 DEF Refuses
\* What a decision makes of a marker.
<1>c. ASSUME NEW r \in Reqs, NEW e, e.tag = "removed" => e = overlay[h],
             SameHold(overlay'[h], Sent(PendingEffect(r), e)), applies_sent' = applies_sent + 1
      PROVE  overlay'[h].safe_after <= applies_sent'
  <2>1. \/ Sent(PendingEffect(r), e) = Created(e, effect[r].amount)
        \/ Sent(PendingEffect(r), e) = NoteRemaining(e, effect[r].left)
        \/ Sent(PendingEffect(r), e) = Forget(e, applies_sent + 1)
    BY DecisionIs
  <2>2. CASE Sent(PendingEffect(r), e) = Created(e, effect[r].amount)
    BY <1>c, <2>2 DEF Created, Decide, Hold, SameHold
  <2>3. CASE Sent(PendingEffect(r), e) = NoteRemaining(e, effect[r].left)
    <3>1. SameHold(overlay'[h], e)
      BY <1>c, <2>3 DEF NoteRemaining, Hold, SameHold
    <3> QED
      BY <1>a, <1>c, <3>1
  <2>4. CASE Sent(PendingEffect(r), e) = Forget(e, applies_sent + 1)
    BY <1>0, <1>c, <2>4 DEF Forget, SameHold
  <2> QED
    BY <2>1, <2>2, <2>3, <2>4
<1>4. ASSUME NEW r \in Reqs, Commits(r)
      PROVE  overlay'[h].safe_after <= applies_sent'
  <2>0. applies_sent' = applies_sent \/ applies_sent' = applies_sent + 1
    BY <1>4 DEF Commits, Handing, Backlogging
  <2>1. CASE h # tx[r].hold
    BY <1>4, <1>a, <1>b, <2>0, <2>1, CommitsEntry
  <2>2. CASE h = tx[r].hold
    <3>1. PICK e : e = GivenBack(r)
      OBVIOUS
    <3>2. e.tag = "removed" => e = overlay[h]
      BY <2>2, <3>1 DEF GivenBack, ReleaseReservation, Hold
    <3>3. \/ Handing(r, e) /\ SameHold(overlay'[h], Sent(PendingEffect(r), e))
          \/ Backlogging(r, e) /\ SameHold(overlay'[h], e)
      BY <1>4, <2>2, <3>1, CommitsEntry
    <3> QED
      BY <1>a, <1>c, <3>2, <3>3 DEF Handing, Backlogging
  <2> QED
    BY <2>1, <2>2
<1>5. ASSUME NEW r \in Reqs, Flushes(r)
      PROVE  overlay'[h].safe_after <= applies_sent'
  <2>0. applies_sent' = applies_sent + 1
    BY <1>5 DEF Flushes
  <2>1. CASE h # tx[r].hold
    BY <1>5, <1>a, <1>b, <2>0, <2>1, FlushesEntry
  <2>2. CASE h = tx[r].hold
    <3>1. SameHold(overlay'[h], Sent(PendingEffect(r), overlay[h]))
      BY <1>5, <1>b, <2>2, FlushesEntry
    <3> QED
      BY <1>c, <1>5, <2>0, <3>1
  <2> QED
    BY <2>1, <2>2
<1> QED
  BY <1>1, <1>2, <1>3, <1>4, <1>5, StepKinds

LEMMA ReserveInit ==
    ASSUME Init
    PROVE  ReserveInv
<1>1. /\ \A r \in Reqs : stage[r] = "new" /\ record[r] = 0
      /\ \A h \in Holds : overlay[h].tag = "none"
  BY DEF Init, NoEntry, Bare
<1>2. RecordInv /\ HeldInv
  BY <1>1 DEF RecordInv, HeldInv, Promising
<1>3. ReservedInv /\ ResolvedInv /\ MarkedInv
  BY <1>1 DEF ReservedInv, ResolvedInv, MarkedInv, Live
<1> QED
  BY <1>2, <1>3 DEF ReserveInv

LEMMA ReserveInvariant == Spec => [](OverlayInv /\ ReserveInv)
<1>1. OverlayInv /\ ReserveInv /\ [Next]_vars => ReserveInv'
  <2> SUFFICES ASSUME OverlayInv, ReserveInv, [Next]_vars
               PROVE  ReserveInv'
    OBVIOUS
  <2>0. /\ TypeOK /\ StaleInv /\ LifeInv /\ ReadInv /\ PinInv /\ WrittenInv /\ CreatedInv /\ SeenInv
        /\ RecordInv /\ HeldInv /\ ReservedInv /\ ResolvedInv /\ MarkedInv
    BY DEF OverlayInv, ReserveInv
  <2>1. TypeOK'
    BY <2>0, NextType
  <2>2. RecordInv' /\ HeldInv'
    BY <2>0, RecordNext, HeldNext
  <2>3. ReservedInv'
    BY <2>0, <2>1, ReservedNext
  <2>4. ResolvedInv' /\ MarkedInv'
    BY <2>0, ResolvedNext, MarkedNext
  <2> QED
    BY <2>2, <2>3, <2>4 DEF ReserveInv
<1> QED
  BY <1>1, ReserveInit, OverlayInvariant, PTL DEF Spec

\* With nothing in flight, whatever committed, was refused, waited in the backlog or was answered
\* late on the way there, every entry the overlay still has may be evicted: no reservation, no mark
\* of a full resolution and no pin was leaked, and the engine has published past every marker.
\* (overlay.rs reserve, release_reservation, compensate, idle.)
THEOREM NothingIsKept == Spec => []NothingLeaks
<1>1. ASSUME OverlayInv, ReserveInv, Quiet, NEW h \in Holds, overlay[h].tag # "none"
      PROVE  Idle(overlay[h], published)
  <2>0. /\ TypeOK /\ StaleInv /\ PinInv
        /\ ReservedInv /\ ResolvedInv /\ MarkedInv
    BY <1>1 DEF OverlayInv, ReserveInv
  <2>1. /\ \A r \in Reqs : stage[r] \notin {"open", "judged"}
        /\ cmdq = <<>> /\ writes = <<>> /\ published = applied
    BY <1>1 DEF Quiet
  <2>2. overlay[h].pinned = 0
    <3>1. Pinners(h) = {}
      BY <2>1 DEF Pinners, Resolutions
    <3> QED
      BY <2>0, <3>1, FS_EmptySet DEF PinInv
  <2>3. Live(overlay[h]) => overlay[h].reserved = 0
    <3>1. JudgedOf(h) = {}
      BY <2>1 DEF JudgedOf, Resolutions
    <3>2. Promised(h) = 0
      BY <2>0, <3>1, JudgedFinite, TotalEmpty
    <3> QED
      BY <2>0, <3>2 DEF ReservedInv
  <2>4. Live(overlay[h]) => ~overlay[h].resolved
    <3>1. \A r \in Resolutions(h) : ~Wholly(r)
      BY <2>1 DEF Wholly, Backlogged, Resolutions
    <3> QED
      BY <2>0, <3>1 DEF ResolvedInv
  <2>5. overlay[h].tag = "removed" => published >= overlay[h].safe_after
    <3>1. overlay[h].safe_after \in Nat /\ applies_sent \in Nat /\ applied \in Nat
      BY <2>0 DEF TypeOK, Entry
    <3>2. \A k \in 1..applies_sent : ~(applied < k)
      BY <2>0, <2>1 DEF StaleInv, QueueInOrder
    <3>3. applies_sent <= applied
      BY <3>1, <3>2
    <3> QED
      BY <2>0, <2>1, <3>1, <3>3 DEF MarkedInv
  <2> QED
    BY <1>1, <2>2, <2>3, <2>4, <2>5 DEF Idle
<1>2. OverlayInv /\ ReserveInv => NothingLeaks
  BY <1>1 DEF NothingLeaks
<1> QED
  BY <1>2, ReserveInvariant, PTL

===============================================================================
