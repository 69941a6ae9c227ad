--------------------------- MODULE MCOrderPayment ---------------------------
(* Instances of OrderPayment for TLC.  Handlers of one role are alike. *)
EXTENDS OrderPayment, TLC

CONSTANTS i1, i2, u1, a1, j1, p1, n1

Symmetric == Permutations(Initializers) \cup Permutations(Residents)
=============================================================================
