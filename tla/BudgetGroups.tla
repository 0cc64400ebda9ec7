------------------------------ MODULE BudgetGroups ------------------------------
(***************************************************************************)
(* Shared budget groups: holds that must be resolved together.  The engine *)
(* keeps the members and the total of every group and reports them with    *)
(* each record it answers; the sequencer judges a resolution, alone or in  *)
(* a chain, by what was reported.  Between the two lie a queue, a fetch    *)
(* that may take its time, and the decisions of other requests.            *)
(*                                                                         *)
(* Sources: src/sequencer/src/rules/budget.rs, rules/linked.rs,            *)
(* reactor/judge.rs, src/pending/src/engine.rs, src/base/src/transfer.rs.  *)
(*                                                                         *)
(* The overlay is module HoldPath and is here one number for each hold,    *)
(* what the decisions so far have left of it; the order within a lane is   *)
(* module Lanes, the sweep that offers an expiry void module Sweep.        *)
(***************************************************************************)
EXTENDS Integers, Sequences, FiniteSets, SequencesExt, FiniteSetsExt

CONSTANTS
    Holds,
    Size,          \* hold -> the amount it is for
    Group,         \* hold -> the group its transfer names, or None
    Lane,          \* hold -> the account it debits
    Units,         \* the client's submissions: sequences of legs, a chain if longer than 1
    Expiring,      \* the holds that outlive their retention
    MaxFailures,   \* batches consensus may refuse
    None

Leg == [op : {"hold", "settle", "void", "expire"}, hold : Holds, amount : Nat]
Groups == {Group[h] : h \in Holds} \ {None}
\* The one place an expiry void is built: a request on its own.
ExpiryVoid(h) == <<[op |-> "expire", hold |-> h, amount |-> 0]>>
Submissions == Units \cup {ExpiryVoid(h) : h \in Expiring}

ASSUME BudgetAssumption ==
    /\ Size \in [Holds -> Nat \ {0}]
    /\ \A u \in Units : u \in Seq(Leg) /\ u # <<>>
    /\ Expiring \subseteq Holds /\ MaxFailures \in Nat
    /\ \A h \in Holds : Cardinality({p \in Units \X (1..9) : p[2] \in DOMAIN p[1]
                           /\ p[1][p[2]].op = "hold" /\ p[1][p[2]].hold = h}) <= 1

VARIABLES
    left, script,      \* submissions not begun; the rest of the one being taken in
    admitted,          \* units taken in, in order, and not judged
    record,            \* unit -> leg -> the record its lookup was answered with, or None
    remaining,         \* hold -> what decisions have left of it, None before it is committed
    inflight,          \* judged units in consensus, in order: [unit, effects]
    commands,          \* the engine's queue
    fetching,          \* lookups the store is reading the record of
    stored, budgets,   \* the engine: hold -> remainder, 0 for none; group -> members and total
    offered,           \* expiry voids the sweep has outstanding
    failures

intake == <<left, script, admitted>>
engine == <<stored, budgets>>
vars == <<intake, record, remaining, inflight, commands, fetching, engine, offered, failures>>

-----------------------------------------------------------------------------
(* Intake.                                                                 *)

InChain(unit) == Len(unit) > 1
Reads(leg) == leg.op # "hold"
Unanswered(unit) == [i \in DOMAIN unit |-> None]

\* A leg enters its lane; one that resolves a hold asks the engine for it.
Enter(unit, i) ==
    commands' = IF Reads(unit[i])
                  THEN Append(commands, [op |-> "lookup", unit |-> unit, leg |-> i])
                  ELSE commands

Begin ==
    /\ script = None
    /\ \E unit \in left : /\ left' = left \ {unit}
                          /\ script' = [unit |-> unit, next |-> 1]
    /\ UNCHANGED <<admitted, record, remaining, inflight, commands, fetching, engine,
                   offered, failures>>
Admit ==
    /\ script # None
    /\ LET unit == script.unit  i == script.next  last == i = Len(unit) IN
       /\ Enter(unit, i)
       /\ script' = IF last THEN None ELSE [script EXCEPT !.next = i + 1]
       /\ admitted' = IF i = 1 THEN Append(admitted, unit) ELSE admitted
    /\ UNCHANGED <<left, record, remaining, inflight, fetching, engine, offered, failures>>

\* The sweep offers a void of a survivor, and the sequencer takes it in.
Expire(h) ==
    /\ h \in Expiring /\ stored[h] > 0 /\ h \notin offered
    /\ offered' = offered \cup {h}
    /\ admitted' = Append(admitted, ExpiryVoid(h))
    /\ Enter(ExpiryVoid(h), 1)
    /\ UNCHANGED <<left, script, record, remaining, inflight, fetching, engine, failures>>

-----------------------------------------------------------------------------
(* The judge.                                                              *)

\* allow_resolution: a group of several needs a chain, and none of it moves part way.
AllowResolution(rec, h, amount, leftOfIt, inChain) ==
    \/ Group[h] = None
    \/ (rec.members > 1 => inChain) /\ amount = leftOfIt

\* note: the group as it was reported with the first leg that touches it.
Noted(tallies, g, amount, rec) ==
    IF tallies[g] = None
      THEN [tallies EXCEPT ![g] = [legs |-> 1, amount |-> amount, members |-> rec.members,
                                   total |-> rec.total]]
      ELSE [tallies EXCEPT ![g].legs = @ + 1, ![g].amount = @ + amount]
\* A mutant: that every leg was whole is taken for enough.
MissesNone(tallies) == FALSE
MissesAMember(tallies) ==
    \E g \in Groups : /\ tallies[g] # None
                      /\ \/ tallies[g].legs # tallies[g].members
                         \/ tallies[g].amount # tallies[g].total

\* What a leg sees of its hold: one an earlier leg of the chain creates, outside any
\* group, or the one the engine answered with under what has been decided since.
Visible(acc, unit, i) ==
    LET h == unit[i].hold IN
    IF acc.scratch[h] # None THEN acc.scratch[h]
    ELSE IF record[unit][i] = None \/ ~record[unit][i].found \/ acc.remaining[h] = None THEN 0
    ELSE acc.remaining[h]

Effect(leg, amount, after) ==
    [op |-> leg.op, hold |-> leg.hold, amount |-> amount, after |-> after]

Resolved(acc, unit, i) ==
    LET h == unit[i].hold
        seen == Visible(acc, unit, i)
        amount == IF unit[i].op = "settle" THEN unit[i].amount ELSE seen
        rec == record[unit][i]
    IN IF amount = 0 \/ amount > seen
            \/ ~AllowResolution(rec, h, amount, seen, InChain(unit))
         THEN [acc EXCEPT !.ok = FALSE]
       ELSE [acc EXCEPT
               !.effects = Append(@, Effect(unit[i], amount, seen - amount)),
               !.scratch[h] = IF @ = None THEN None ELSE seen - amount,
               !.remaining[h] = IF acc.scratch[h] = None THEN seen - amount ELSE @,
               !.tallies = IF Group[h] = None THEN @ ELSE Noted(@, Group[h], amount, rec)]
Made(acc, leg) ==
    [acc EXCEPT !.effects = Append(@, Effect(leg, Size[leg.hold], Size[leg.hold])),
                !.scratch[leg.hold] = IF Group[leg.hold] = None THEN Size[leg.hold] ELSE None]

Judged(unit) ==
    LET LegOf(acc, i) ==
          IF ~acc.ok THEN acc
          ELSE IF Reads(unit[i]) THEN Resolved(acc, unit, i)
          ELSE Made(acc, unit[i])
        legs == FoldLeft(LegOf, [ok |-> TRUE, effects |-> <<>>, remaining |-> remaining,
                                 scratch |-> [h \in Holds |-> None],
                                 tallies |-> [g \in Groups |-> None]],
                         [i \in DOMAIN unit |-> i])
    IN [legs EXCEPT !.ok = legs.ok /\ (InChain(unit) => ~MissesAMember(legs.tallies))]

Lanes(unit) == {Lane[unit[i].hold] : i \in DOMAIN unit}
BeingTakenIn(unit) == script # None /\ script.unit = unit
\* Every leg is in and answered, and nothing on its lanes is waiting in front of it.
Judgeable(k) ==
    LET unit == admitted[k] IN
    /\ ~BeingTakenIn(unit)
    /\ \A i \in DOMAIN unit : Reads(unit[i]) => record[unit][i] # None
    /\ \A j \in 1..(k - 1) : Lanes(admitted[j]) \cap Lanes(unit) = {}

Judge ==
    /\ \E k \in DOMAIN admitted :
         /\ Judgeable(k)
         /\ LET unit == admitted[k]  verdict == Judged(unit) IN
            /\ admitted' = RemoveAt(admitted, k)
            /\ \/ /\ verdict.ok
                  /\ inflight' = Append(inflight, [unit |-> unit, effects |-> verdict.effects])
                  /\ remaining' = verdict.remaining
               \/ ~verdict.ok /\ UNCHANGED <<inflight, remaining>>
    /\ UNCHANGED <<left, script, record, commands, fetching, engine, offered, failures>>

-----------------------------------------------------------------------------
(* Consensus answers for the oldest unit, and the decision is handed over. *)

Write(e) == [op |-> IF e.op = "hold" THEN "create" ELSE IF e.after = 0 THEN "remove" ELSE "reduce",
             hold |-> e.hold, amount |-> e.amount, after |-> e.after]
\* What a committed unit leaves known of the holds it created.
Known(rem, e) == IF e.op = "hold" THEN [rem EXCEPT ![e.hold] = Size[e.hold]]
                 ELSE [rem EXCEPT ![e.hold] = e.after]
Commit ==
    /\ inflight # <<>> /\ inflight' = Tail(inflight)
    /\ LET effects == Head(inflight).effects
           created == {effects[i].hold : i \in {j \in DOMAIN effects : effects[j].op = "hold"}}
       IN /\ commands' = commands \o [i \in DOMAIN effects |-> Write(effects[i])]
          /\ remaining' = FoldLeft(LAMBDA rem, e : IF e.hold \in created THEN Known(rem, e) ELSE rem,
                                   remaining, effects)
    /\ UNCHANGED <<intake, record, fetching, engine, offered, failures>>
RollBack ==
    /\ inflight # <<>> /\ inflight' = Tail(inflight)
    /\ failures < MaxFailures /\ failures' = failures + 1
    /\ remaining' = FoldLeft(LAMBDA rem, e : IF rem[e.hold] = None THEN rem
                                             ELSE [rem EXCEPT ![e.hold] = @ + e.amount],
                             remaining, Head(inflight).effects)
    /\ UNCHANGED <<intake, record, commands, fetching, engine, offered>>

-----------------------------------------------------------------------------
(* The engine.                                                             *)

NoGroup == [members |-> 0, total |-> 0]
\* with_group: the totals as they are when the answer is made.
Answer(h, found) ==
    LET of == IF found /\ Group[h] # None THEN budgets[Group[h]] ELSE NoGroup
    IN [found |-> found, members |-> of.members, total |-> of.total]
Answered(c, found) ==
    record' = [record EXCEPT ![c.unit][c.leg] = Answer(c.unit[c.leg].hold, found)]

\* A mutant: the last member's going leaves the total as it was.
DroppedMember(b, amount) == [b EXCEPT !.members = @ - 1]
LostMember(b, amount) == [members |-> b.members - 1, total |-> b.total - amount]

\* begin_lookup: answered at once, or when the store has read the record.
TakeLookup ==
    /\ commands # <<>> /\ Head(commands).op = "lookup" /\ commands' = Tail(commands)
    /\ LET c == Head(commands)  found == stored[c.unit[c.leg].hold] > 0 IN
       \/ Answered(c, found) /\ UNCHANGED fetching
       \/ found /\ fetching' = fetching \cup {c} /\ UNCHANGED record
    /\ UNCHANGED <<intake, remaining, inflight, engine, offered, failures>>
Harvest ==
    /\ \E c \in fetching : Answered(c, TRUE) /\ fetching' = fetching \ {c}
    /\ UNCHANGED <<intake, remaining, inflight, commands, engine, offered, failures>>

\* apply_effect.
TakeWrite ==
    /\ commands # <<>> /\ Head(commands).op # "lookup" /\ commands' = Tail(commands)
    /\ LET w == Head(commands)  g == Group[w.hold] IN
       \/ /\ w.op = "create"
          /\ stored' = [stored EXCEPT ![w.hold] = w.amount]
          /\ budgets' = IF g = None THEN budgets
                        ELSE [budgets EXCEPT ![g] = [members |-> @.members + 1,
                                                     total |-> @.total + w.amount]]
       \/ /\ w.op = "reduce"
          /\ stored' = [stored EXCEPT ![w.hold] = w.after]
          /\ UNCHANGED budgets
       \/ /\ w.op = "remove"
          /\ stored' = [stored EXCEPT ![w.hold] = 0]
          /\ budgets' = IF g = None \/ stored[w.hold] = 0 THEN budgets
                        ELSE [budgets EXCEPT ![g] = LostMember(@, w.amount)]
    /\ UNCHANGED <<intake, record, remaining, inflight, fetching, offered, failures>>

Init ==
    /\ left = Units /\ script = None /\ admitted = <<>>
    /\ record = [u \in Submissions |-> Unanswered(u)]
    /\ remaining = [h \in Holds |-> None]
    /\ inflight = <<>> /\ commands = <<>> /\ fetching = {}
    /\ stored = [h \in Holds |-> 0] /\ budgets = [g \in Groups |-> NoGroup]
    /\ offered = {} /\ failures = 0

Next ==
    \/ Begin \/ Admit \/ (\E h \in Holds : Expire(h)) \/ Judge \/ Commit \/ RollBack
    \/ TakeLookup \/ Harvest \/ TakeWrite

Spec == Init /\ [][Next]_vars

-----------------------------------------------------------------------------
(* Properties.                                                             *)

\* A resolution moves the whole group: of the holds of one group that exist, either none
\* has been touched or none has anything left, whichever requests, voids of the sweep and
\* refused batches come together.  (budget.rs allow_resolution, misses_a_member;
\* judge.rs judge_chain_legs.)
GroupMovesWhole ==
    \A h1, h2 \in Holds :
      /\ Group[h1] # None /\ Group[h1] = Group[h2]
      /\ remaining[h1] # None /\ remaining[h2] # None
      => /\ remaining[h1] = 0 <=> remaining[h2] = 0
         /\ remaining[h1] \in {0, Size[h1]}

\* When the engine has caught up, what it will report of every group is what the
\* decisions have left of it, and it has no hold they have not.
\* (engine.rs apply_effect, with_group.)
ReportsTheGroup ==
    commands = <<>> /\ inflight = <<>> =>
      /\ \A h \in Holds : stored[h] = IF remaining[h] = None THEN 0 ELSE remaining[h]
      /\ \A g \in Groups :
           LET live == {h \in Holds : Group[h] = g /\ stored[h] > 0}
           IN budgets[g] = [members |-> Cardinality(live),
                            total |-> MapThenSumSet(LAMBDA h : stored[h], live)]

=================================================================================
