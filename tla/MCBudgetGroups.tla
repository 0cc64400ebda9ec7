---------------------------- MODULE MCBudgetGroups ----------------------------
(* The client of the run of BudgetGroups: a chain that makes a group of two, a chain   *)
(* that resolves both, one that tries half of it, one that names a member twice, a hold*)
(* that is made and partly settled in one chain; the sweep voids what is left, a member*)
(* of the group on its own among them.                                                 *)
EXTENDS BudgetGroups
CONSTANTS h1, h2, h3, shared
L(op, hold, amount) == [op |-> op, hold |-> hold, amount |-> amount]
MCSize == [h \in {h1, h2, h3} |-> IF h = h2 THEN 1 ELSE 2]
MCGroup == [h \in {h1, h2, h3} |-> IF h = h3 THEN None ELSE shared]
MCLane == [h \in {h1, h2, h3} |-> h]
MCUnits == {<<L("hold", h1, 0), L("hold", h2, 0)>>,
            <<L("void", h1, 0), L("settle", h2, 1)>>,
            <<L("settle", h1, 2), L("void", h3, 0)>>,
            <<L("void", h2, 0), L("void", h2, 0)>>,
            <<L("hold", h3, 0), L("settle", h3, 1)>>}
===============================================================================
