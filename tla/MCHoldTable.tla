------------------------------ MODULE MCHoldTable ------------------------------
(* HoldTable for TLC: four keys over four one-way buckets.  k2 and k3 have    *)
(* one fingerprint and the same two buckets, k1 is in their way and can move, *)
(* and with k4 the cascade finds no home.                                     *)
EXTENDS HoldTable

CONSTANTS k1, k2, k3, k4

MCFingerprint == (k1 :> 1) @@ (k2 :> 2) @@ (k3 :> 2) @@ (k4 :> 1)
MCHome == (k1 :> 0) @@ (k2 :> 2) @@ (k3 :> 0) @@ (k4 :> 0)
MCStep == <<1, 2>>
===============================================================================
