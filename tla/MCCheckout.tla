----------------------------- MODULE MCCheckout -----------------------------
(***************************************************************************)
(* Instances of Checkout for TLC.  Residents, requests, calls and products *)
(* are alike.  Either the back office makes no edits and one of each       *)
(* product fits a cart, or one product and one request id are spare.       *)
(***************************************************************************)
EXTENDS Checkout, TLC

CONSTANTS u1, u2, p1, p2, r1, r2, c1, c2

VARIABLE spare

CheckoutInit == Init /\ spare \in {{}} \cup {{p, r} : p \in Products, r \in Requests}

WithoutEdits ==
  /\ edits' = 0
  /\ \A u \in Residents : \A p \in DOMAIN cart'[u].items : cart'[u].items[p] = 1

WithoutSpare ==
  /\ \A u \in Residents : DOMAIN cart'[u].items \cap spare = {}
  /\ \A c \in Calls : call'[c].request \notin spare
  /\ \A p \in Products \cap spare : product'[p] = product[p]

CheckoutNext ==
  /\ Next
  /\ IF spare = {} THEN WithoutEdits ELSE WithoutSpare
  /\ UNCHANGED spare

CheckoutSpec == CheckoutInit /\ [][CheckoutNext]_<<vars, spare>>

Symmetric == Permutations(Residents) \cup Permutations(Requests) \cup
             Permutations(Calls) \cup Permutations(Products)
=============================================================================
