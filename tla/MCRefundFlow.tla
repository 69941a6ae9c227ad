---------------------------- MODULE MCRefundFlow ----------------------------
(***************************************************************************)
(* Where an order's money goes, for TLC: a behaviour looks either at the   *)
(* refund of a paid order (RefundFlow), or at what the expiry job makes of *)
(* its payment (OrderPayment, an instance because the two protocols use    *)
(* the same names; its fairness holds when it is looked at).               *)
(***************************************************************************)
EXTENDS RefundFlow

CONSTANTS a1, a2, v1, i1, u1, j1, p1, n1, QueryId

VARIABLES
  paidOrder, payment, paidProduct, paidNotified, expired, configured, paidWechat,
  answer, paidAt, claim,  \* the variables of OrderPayment
  looked                  \* at: the payment or the refund

paymentVars == <<paidOrder, payment, paidProduct, paidNotified, expired, configured,
                 paidWechat, answer, paidAt, claim>>

P == INSTANCE OrderPayment
  WITH Initializers <- {i1}, Residents <- {u1}, Admins <- {}, Jobs <- {j1},
       Pollers <- {p1}, NotificationIds <- {n1},
       order <- paidOrder, product <- paidProduct, notified <- paidNotified,
       wechat <- paidWechat, at <- paidAt

MoneyInit ==
  /\ Init /\ P!Init
  /\ looked \in {"payment", "refund"}
  /\ looked = "refund" => ~configured

MoneyNext ==
  /\ \/ looked = "refund" /\ Next /\ UNCHANGED paymentVars
     \/ looked = "payment" /\ P!Next /\ UNCHANGED vars
  /\ UNCHANGED looked

MoneySpec ==
  /\ MoneyInit /\ [][MoneyNext]_<<vars, paymentVars, looked>>
  /\ looked = "payment" => P!Fairness

PaidIsSettled == P!PaidIsSettled
OpenTransactionCloses == P!OpenTransactionCloses
=============================================================================
