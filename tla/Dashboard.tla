------------------------------ MODULE Dashboard ------------------------------
(***************************************************************************)
(* The dashboard of the back office.  It counts and adds up, in one        *)
(* snapshot of the database, what payments, refunds and the shops have     *)
(* written to the rows of orders, payments and refunds, some of it with    *)
(* WeChat's time, which may be of an earlier day than the writing.         *)
(*                                                                         *)
(*   Sales     the orders                 ShopOf    the store of each      *)
(*   LastDate  how many business days pass (a bound of the model)          *)
(*   TrendDays how many days the trend looks back                          *)
(*                                                                         *)
(* A figure is the set of the rows it counts, or whose amounts it adds up. *)
(* Days are those of Asia/Shanghai.  Of the refund's protocol (RefundFlow) *)
(* and the payment's (OrderPayment), just what the dashboard reads.        *)
(***************************************************************************)
EXTENDS Integers

CONSTANTS Sales, ShopOf, LastDate, TrendDays

ASSUME DatesAreNumbers == LastDate \in Nat \ {0} /\ TrendDays \in Nat \ {0}

VARIABLES
  today,  \* the business day
  sale    \* the rows of an order: its status, the day it was paid (order.paidAt and
          \* payment.succeededAt), its refund and the day that was completed

salesVars == <<today, sale>>

NoDate == 0
Dates == 1..LastDate

NoSale == [status |-> "NONE", paidAt |-> NoDate, refund |-> "NONE", completedAt |-> NoDate]

SaleStatuses == {"NONE", "PENDING_PAYMENT", "PAID", "ACCEPTED", "PREPARING",
                 "WAITING_DELIVERY", "DELIVERING", "COMPLETED", "CANCELLED",
                 "REFUND_PENDING", "REFUNDED"}
SaleRefunds == {"NONE", "PENDING_REVIEW", "APPROVED", "PROCESSING", "SUCCESS",
                "REJECTED", "FAILED"}

SalesTypeOK ==
  /\ today \in Dates
  /\ sale \in [Sales -> [status : SaleStatuses, paidAt : Dates \cup {NoDate},
                         refund : SaleRefunds, completedAt : Dates \cup {NoDate}]]

SalesInit == today = 1 /\ sale = [o \in Sales |-> NoSale]

Write(o, row) == sale' = [sale EXCEPT ![o] = row] /\ UNCHANGED today

(***************************************************************************)
(* What others write                                                       *)
(***************************************************************************)
PlaceSale(o) ==
  /\ sale[o].status = "NONE"
  /\ Write(o, [sale[o] EXCEPT !.status = "PENDING_PAYMENT"])

CancelSale(o) ==
  /\ sale[o].status = "PENDING_PAYMENT"
  /\ Write(o, [sale[o] EXCEPT !.status = "CANCELLED"])

\* completeSuccess: paidAt and succeededAt are WeChat's success time.
SettleSale(o) ==
  /\ sale[o].status = "PENDING_PAYMENT"
  /\ \E d \in 1..today : Write(o, [sale[o] EXCEPT !.status = "PAID", !.paidAt = d])

Fulfilments == {<<"PAID", "ACCEPTED">>, <<"ACCEPTED", "PREPARING">>,
                <<"PREPARING", "WAITING_DELIVERY">>, <<"WAITING_DELIVERY", "DELIVERING">>,
                <<"DELIVERING", "COMPLETED">>}

FulfilSale(o) ==
  \E to \in SaleStatuses :
    /\ <<sale[o].status, to>> \in Fulfilments
    /\ Write(o, [sale[o] EXCEPT !.status = to])

AskRefund(o) ==
  /\ sale[o].status = "PAID" /\ sale[o].refund = "NONE"
  /\ Write(o, [sale[o] EXCEPT !.status = "REFUND_PENDING", !.refund = "PENDING_REVIEW"])

RejectRefund(o) ==
  /\ sale[o].status = "REFUND_PENDING" /\ sale[o].refund = "PENDING_REVIEW"
  /\ Write(o, [sale[o] EXCEPT !.status = "PAID", !.refund = "REJECTED"])

ApproveRefund(o) ==
  /\ sale[o].status = "REFUND_PENDING" /\ sale[o].refund = "PENDING_REVIEW"
  /\ Write(o, [sale[o] EXCEPT !.refund = "APPROVED"])

\* applyProviderEvent: completedAt is WeChat's time or, without one, now.
RefundCompletes(o) ==
  /\ sale[o].status = "REFUND_PENDING"
  /\ sale[o].refund \in {"APPROVED", "PROCESSING", "FAILED"}
  /\ \E d \in sale[o].paidAt..today :
       Write(o, [sale[o] EXCEPT !.status = "REFUNDED", !.refund = "SUCCESS",
                                !.completedAt = d])

\* The same, of an event that is not a success.
RefundGoesOn(o) ==
  /\ \/ sale[o].refund \in {"APPROVED", "PROCESSING"}
        /\ Write(o, [sale[o] EXCEPT !.refund = "PROCESSING"])
     \/ sale[o].refund \in {"APPROVED", "PROCESSING", "FAILED"}
        /\ Write(o, [sale[o] EXCEPT !.refund = "FAILED"])

DayPasses ==
  /\ today < LastDate
  /\ today' = today + 1
  /\ UNCHANGED sale

SalesNext ==
  \/ DayPasses
  \/ \E o \in Sales :
       \/ PlaceSale(o) \/ CancelSale(o) \/ SettleSale(o) \/ FulfilSale(o) \/ AskRefund(o)
       \/ RejectRefund(o) \/ ApproveRefund(o) \/ RefundCompletes(o) \/ RefundGoesOn(o)

SalesSpec == SalesInit /\ [][SalesNext]_salesVars

(***************************************************************************)
(* operationsRepository.dashboard: the queries, and what the service makes *)
(* of their rows.                                                          *)
(***************************************************************************)
MutantEffectivePaidOrderStatuses ==
  {"PAID", "ACCEPTED", "PREPARING", "WAITING_DELIVERY", "DELIVERING", "COMPLETED"}

EffectivePaidOrderStatuses ==
  {"PAID", "ACCEPTED", "PREPARING", "WAITING_DELIVERY", "DELIVERING", "COMPLETED",
   "REFUND_PENDING"}

ActiveRefundStatuses == {"PENDING_REVIEW", "APPROVED", "PROCESSING"}

TrendStart == today - (TrendDays - 1)

\* A payment is SUCCESS from the moment it has its day.
PaidWithin(from) == {o \in Sales : sale[o].paidAt # NoDate /\ sale[o].paidAt \in from..today}
RefundedWithin(from) ==
  {o \in Sales : sale[o].refund = "SUCCESS" /\ sale[o].completedAt \in from..today}

\* todayEffectiveOrders, and effectiveOrdersByStore.
EffectiveOrders == {o \in PaidWithin(today) : sale[o].status \in EffectivePaidOrderStatuses}

CountStatus(status) == {o \in Sales : sale[o].status = status}

Overview ==
  [effective        |-> EffectiveOrders,
   payments         |-> PaidWithin(today),
   refunds          |-> RefundedWithin(today),
   pendingAcceptance |-> CountStatus("PAID"),
   preparing        |-> CountStatus("PREPARING"),
   delivering       |-> CountStatus("DELIVERING"),
   refundInProgress |-> {o \in Sales : sale[o].refund \in ActiveRefundStatuses}]

\* The rows of the whole window, each put into the bucket of its day.
Trend == [d \in TrendStart..today |->
            [payments |-> {o \in PaidWithin(TrendStart) : sale[o].paidAt = d},
             refunds  |-> {o \in RefundedWithin(TrendStart) : sale[o].completedAt = d}]]

\* One row for each store that today's rows name (the ten best; here there are fewer).
StoreTable ==
  LET Named == EffectiveOrders \cup PaidWithin(today) \cup RefundedWithin(today)
      Its(s, rows) == {o \in rows : ShopOf[o] = s}
  IN [s \in {ShopOf[o] : o \in Named} |->
        [effective |-> Its(s, EffectiveOrders),
         payments  |-> Its(s, PaidWithin(today)),
         refunds   |-> Its(s, RefundedWithin(today))]]

----------------------------------------------------------------------------
StoresTotal(figure) == UNION {StoreTable[s][figure] : s \in DOMAIN StoreTable}

\* The dashboard's figures say what its definitions promise (operations.service.ts 123-129)
\* and agree with each other, whatever was paid, fulfilled and refunded on whichever days:
\* the effective orders are those paid today and not refunded, so that a refund under
\* review still counts; what is being refunded is in progress unless it failed; money that
\* went back had come in; and the stores, and the last day of the trend, add up to the
\* overview.
DashboardBalances ==
  /\ Overview.effective = Overview.payments \ {o \in Sales : sale[o].status = "REFUNDED"}
  /\ \A o \in Sales : sale[o].status = "REFUND_PENDING" =>
       o \in Overview.refundInProgress \/ sale[o].refund = "FAILED"
  /\ \A o \in Overview.refundInProgress : sale[o].status = "REFUND_PENDING"
  /\ \A o \in Overview.refunds : sale[o].paidAt \in 1..today
  /\ \A figure \in {"effective", "payments", "refunds"} : StoresTotal(figure) = Overview[figure]
  /\ \A figure \in {"payments", "refunds"} : Trend[today][figure] = Overview[figure]
-----------------------------------------------------------------------------
\* What makes it inductive: the rows of one order agree with each other.
RowsAgreeOn(row) ==
  /\ row.paidAt <= today
  /\ row.paidAt # NoDate <=> row.status \notin {"NONE", "PENDING_PAYMENT", "CANCELLED"}
  /\ row.status = "REFUNDED" <=> row.refund = "SUCCESS"
  /\ row.status = "REFUND_PENDING" <=>
       row.refund \in {"PENDING_REVIEW", "APPROVED", "PROCESSING", "FAILED"}

SalesIInv == SalesTypeOK /\ \A o \in Sales : RowsAgreeOn(sale[o])
=============================================================================
