--------------------------- MODULE OrderLifecycle ---------------------------
(***************************************************************************)
(* What every part of the server promises about one order: the moves its   *)
(* status may make, and what each move does to the order's share of the    *)
(* product counters.  Units are whole orders: `stock' is how many times    *)
(* the order's quantities were put back on the shelf, `sales' how many     *)
(* times they are counted in products.sales_volume.                        *)
(*                                                                         *)
(* OrderPayment and RefundFlow are shown to implement this specification.  *)
(***************************************************************************)
EXTENDS Integers

VARIABLES status, stock, sales

vars == <<status, stock, sales>>

Fulfilment == {<<"PAID", "ACCEPTED">>, <<"ACCEPTED", "PREPARING">>,
               <<"PREPARING", "WAITING_DELIVERY">>,
               <<"WAITING_DELIVERY", "DELIVERING">>,
               <<"DELIVERING", "COMPLETED">>}

\* The statuses in which the shop holds the resident's money.
Settled == {"PAID", "ACCEPTED", "PREPARING", "WAITING_DELIVERY", "DELIVERING",
            "COMPLETED", "REFUND_PENDING"}

Statuses == Settled \cup {"PENDING_PAYMENT", "CANCELLED", "REFUNDED"}

Init == status = "PENDING_PAYMENT" /\ stock = 0 /\ sales = 0

Pay == /\ status = "PENDING_PAYMENT"
       /\ status' = "PAID"
       /\ sales' = sales + 1
       /\ UNCHANGED stock

Cancel == /\ status = "PENDING_PAYMENT"
          /\ status' = "CANCELLED"
          /\ stock' = stock + 1
          /\ UNCHANGED sales

Fulfil == /\ \E to \in Statuses : <<status, to>> \in Fulfilment /\ status' = to
          /\ UNCHANGED <<stock, sales>>

RequestRefund == /\ status = "PAID"
                 /\ status' = "REFUND_PENDING"
                 /\ UNCHANGED <<stock, sales>>

RejectRefund == /\ status = "REFUND_PENDING"
                /\ status' = "PAID"
                /\ UNCHANGED <<stock, sales>>

Refund == /\ status = "REFUND_PENDING"
          /\ status' = "REFUNDED"
          /\ stock' = stock + 1
          /\ sales' = sales - 1

Next == Pay \/ Cancel \/ Fulfil \/ RequestRefund \/ RejectRefund \/ Refund

Spec == Init /\ [][Next]_vars

-----------------------------------------------------------------------------
TypeOK == status \in Statuses /\ stock \in Int /\ sales \in Int

\* The order's quantities are back on the shelf exactly when it was cancelled or
\* refunded, and count as sold exactly while the shop holds the money for them.
Balanced == /\ stock = IF status \in {"CANCELLED", "REFUNDED"} THEN 1 ELSE 0
            /\ sales = IF status \in Settled THEN 1 ELSE 0
=============================================================================
