---------------------------- MODULE BoundedFifo ----------------------------
(***************************************************************************)
(* What a queue between two threads promises: values come out once, in the *)
(* order they went in, a batch appears whole, and no more than limit are   *)
(* inside.  This is the queue HoldPath and Lanes use.                      *)
(***************************************************************************)
EXTENDS Integers, Sequences

CONSTANTS Values, NoValue

VARIABLES queue,     \* the values inside, oldest first
          received,  \* the value last taken out
          limit      \* how many it holds

vars == <<queue, received, limit>>

Init == queue = <<>> /\ received = NoValue /\ limit \in Nat

Put(values) ==
    /\ Len(queue) + Len(values) <= limit
    /\ queue' = queue \o values
    /\ UNCHANGED <<received, limit>>

Get ==
    /\ queue # <<>>
    /\ received' = Head(queue)
    /\ queue' = Tail(queue)
    /\ UNCHANGED limit

\* The queue is dropped with what is in it.
Discard == queue' = <<>> /\ UNCHANGED <<received, limit>>

Next == (\E n \in 1..limit : \E values \in [1..n -> Values] : Put(values)) \/ Get \/ Discard

Spec == Init /\ [][Next]_vars
=============================================================================
