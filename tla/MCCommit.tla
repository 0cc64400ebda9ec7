------------------------------- MODULE MCCommit -------------------------------
(* The client of the runs of Commit: a chain that spends more than its own first  *)
(* leg brings in, a hold that wants the same balance, its settlement, and a        *)
(* deposit that is one too many for the column it goes to.                         *)
EXTENDS Commit
CONSTANTS w, v, b, r1, r2, r3, r4, r5
T(kind, debit, credit, amount, ref) ==
    [kind |-> kind, debit |-> debit, credit |-> credit, amount |-> amount, ref |-> ref]
MCTransfer ==
    [r \in {r1, r2, r3, r4, r5} |->
       CASE r = r1 -> T("post", v, b, 1, None)
         [] r = r2 -> T("post", b, w, 2, None)
         [] r = r3 -> T("hold", b, w, 1, None)
         [] r = r4 -> T("settle", b, w, 1, r3)
         [] r = r5 -> T("post", v, b, 1, None)]
MCUnits == {<<r1, r2>>, <<r3>>, <<r4>>, <<r5>>}
Books(debits, credits) ==
    [dposted |-> debits, cposted |-> credits, dpending |-> 0, cpending |-> 0]
MCOpening == [a \in {w, v, b} |-> CASE a = w -> Books(1, 0) [] a = v -> Books(0, 0)
                                      [] a = b -> Books(0, 1)]
===============================================================================
