---------------------------- MODULE MCHoldPath ----------------------------
(***************************************************************************)
(* HoldPath on small instances.                                            *)
(***************************************************************************)
EXTENDS HoldPath, TLC

\* Requests are interchangeable: what each asks is chosen in Init.
Symmetry == Permutations(Reqs)
=============================================================================
