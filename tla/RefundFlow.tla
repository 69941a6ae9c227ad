----------------------------- MODULE RefundFlow -----------------------------
(***************************************************************************)
(* Refunding one paid order.  The resident applies, an administrator       *)
(* approves or rejects, and an approval leaves the database to ask WeChat  *)
(* for the money to go back.  The answer of that request, the queries that *)
(* a page view triggers, and WeChat's notifications all end in one         *)
(* transaction, applyProviderEvent, and arrive in any order, late, twice   *)
(* or never; meanwhile the back office would like to fulfil the order.     *)
(*                                                                         *)
(*   Approvers   RefundService.approve        (administrators)             *)
(*   Viewers     RefundService.refresh        (whoever opens the detail)   *)
(*                                                                         *)
(* All transactions here lock the order and then the refund, and read      *)
(* after that at READ COMMITTED, so each is one step.  failureReason only  *)
(* words the page, so recordProviderFailure is the return of its handler.  *)
(***************************************************************************)
EXTENDS Integers

CONSTANTS Approvers, Viewers

Handlers == Approvers \cup Viewers

ASSUME ApproversAreNotViewers == Approvers \cap Viewers = {}

VARIABLES
  order,       \* row of orders: status and stockReleased
  refund,      \* status of the row of refunds ("NONE": no row yet)
  product,     \* the order's share of products.stock and products.sales_volume
  notified,    \* outcomes whose notification is in refund_notifications
  refundable,  \* was the order paid within the last 365 days?
  wechat,      \* the refund at WeChat, the outcomes it has announced so far, and
               \* whether a request its caller gave up on is still under way
  at,          \* where each handler is in its code
  reply        \* the refund status WeChat answered it with

vars == <<order, refund, product, notified, refundable, wechat, at, reply>>
dbVars == <<order, refund, product, notified>>

OrderStatuses == {"PENDING_PAYMENT", "PAID", "ACCEPTED", "PREPARING",
                  "WAITING_DELIVERY", "DELIVERING", "COMPLETED",
                  "REFUND_PENDING", "REFUNDED"}
RefundStatuses == {"NONE", "PENDING_REVIEW", "APPROVED", "PROCESSING", "SUCCESS",
                   "REJECTED", "FAILED"}
Outcomes == {"SUCCESS", "CLOSED", "ABNORMAL"}
Answers == Outcomes \cup {"PROCESSING"}
Labels == {"idle", "create", "query", "confirm", "apply"}

Init ==
  /\ order = [status |-> "PENDING_PAYMENT", stockReleased |-> FALSE]
  /\ refund = "NONE"
  /\ product = [stock |-> 0, sales |-> 0]
  /\ notified = {}
  /\ refundable = TRUE
  /\ wechat = [refund |-> "NONE", announced |-> {}, late |-> FALSE]
  /\ at = [h \in Handlers |-> "idle"]
  /\ reply = [h \in Handlers |-> "NONE"]

Goto(h, label) == at' = [at EXCEPT ![h] = label]

Return(h) == Goto(h, "idle") /\ reply' = [reply EXCEPT ![h] = "NONE"]

-----------------------------------------------------------------------------
\* paymentRepository.completeSuccess, of which OrderPayment tells the story.
CompleteSuccess ==
  /\ order.status = "PENDING_PAYMENT"
  /\ order' = [order EXCEPT !.status = "PAID"]
  /\ product' = [product EXCEPT !.sales = @ + 1]
  /\ UNCHANGED <<refund, notified, refundable, wechat, at, reply>>

\* orderRepository.transition for the back office's fulfilment actions.
AdminTransitions == {<<"PAID", "ACCEPTED">>, <<"ACCEPTED", "PREPARING">>,
                     <<"PREPARING", "WAITING_DELIVERY">>,
                     <<"WAITING_DELIVERY", "DELIVERING">>,
                     <<"DELIVERING", "COMPLETED">>}

TransitionAdmin(to) ==
  /\ <<order.status, to>> \in AdminTransitions
  /\ order' = [order EXCEPT !.status = to]
  /\ UNCHANGED <<refund, product, notified, refundable, wechat, at, reply>>

\* What apply asks of the order.  The definitions named Mutant... are wrong on
\* purpose: each is a bug a property paired with it in PROJECT.json has to notice.
MutantMayApply == order.status \in {"PAID", "ACCEPTED"}

MayApply == order.status = "PAID" /\ refundable

\* One order has one refund row, for ever: a repeated application is answered from it.
Apply ==
  /\ refund = "NONE"
  /\ MayApply
  /\ refund' = "PENDING_REVIEW"
  /\ order' = [order EXCEPT !.status = "REFUND_PENDING"]
  /\ UNCHANGED <<product, notified, refundable, wechat, at, reply>>

MutantMayReject == refund \in {"PENDING_REVIEW", "APPROVED"}

MayReject == refund = "PENDING_REVIEW"

Reject ==
  /\ MayReject
  /\ order.status = "REFUND_PENDING"
  /\ refund' = "REJECTED"
  /\ order' = [order EXCEPT !.status = "PAID"]
  /\ UNCHANGED <<product, notified, refundable, wechat, at, reply>>

-----------------------------------------------------------------------------
(* RefundService.approve.  Approving an APPROVED refund asks WeChat again, with *)
(* the same refund number; approving a PROCESSING one only queries.             *)

ClaimApproval(a) ==
  /\ at[a] = "idle"
  /\ \/ refund = "PROCESSING" /\ Goto(a, "query") /\ UNCHANGED refund
     \/ /\ refund \in {"PENDING_REVIEW", "APPROVED"}
        /\ order.status = "REFUND_PENDING"
        /\ refund' = "APPROVED"
        /\ Goto(a, "create")
  /\ UNCHANGED <<order, product, notified, refundable, wechat, reply>>

Opened == IF wechat.refund = "NONE" THEN "PROCESSING" ELSE wechat.refund

\* provider.createRefund: WeChat knows a refund by its number, so asking again
\* answers with the one there is.
CreateAnswered(a) ==
  /\ at[a] = "create"
  /\ wechat' = [wechat EXCEPT !.refund = Opened]
  /\ reply' = [reply EXCEPT ![a] = Opened]
  /\ Goto(a, "apply")
  /\ UNCHANGED <<dbVars, refundable>>

CreateFailed(a) ==
  /\ at[a] = "create"
  /\ \/ UNCHANGED wechat
     \/ wechat' = [wechat EXCEPT !.late = TRUE]
  /\ Goto(a, "confirm")
  /\ UNCHANGED <<dbVars, refundable, reply>>

\* RefundService.refresh: a page view queries a refund that is under way.
UnderWay == refund \in {"APPROVED", "PROCESSING"}

RefreshStarts(v) ==
  /\ at[v] = "idle"
  /\ UnderWay
  /\ Goto(v, "confirm")
  /\ UNCHANGED <<dbVars, refundable, wechat, reply>>

\* provider.queryRefund answers what is true now; it is applied later.
QueryAnswered(h) ==
  /\ at[h] \in {"query", "confirm"}
  /\ wechat.refund # "NONE"
  /\ reply' = [reply EXCEPT ![h] = wechat.refund]
  /\ Goto(h, "apply")
  /\ UNCHANGED <<dbVars, refundable, wechat>>

\* The first failure of an approval is followed by a confirming query, the second
\* (or a page view's) by recordProviderFailure.
QueryFailed(h) ==
  /\ at[h] \in {"query", "confirm"}
  /\ IF at[h] = "query" THEN Goto(h, "confirm") /\ UNCHANGED reply ELSE Return(h)
  /\ UNCHANGED <<dbVars, refundable, wechat>>

-----------------------------------------------------------------------------
(* refundRepository.applyProviderEvent *)

MutantMayFail == TRUE

\* Only a SUCCESS is final here: WeChat may still complete an abnormal refund.
MayFail == refund # "SUCCESS"

MutantStillProcessing == refund # "SUCCESS"

StillProcessing == refund \notin {"SUCCESS", "FAILED"}

Succeed ==
  /\ refund' = "SUCCESS"
  /\ order' = [status |-> "REFUNDED", stockReleased |-> TRUE]
  /\ product' = IF order.stockReleased THEN product
                ELSE [stock |-> product.stock + 1, sales |-> product.sales - 1]

\* The row's sales volume must cover the decrement (here as if no other order had sold
\* anything of the product).
SalesSuffice == order.stockReleased \/ product.sales >= 1

\* A refund nobody approved refuses the event, and so do an order that is not waiting
\* for a refund and a sales volume that is too small; then the whole transaction is
\* undone.
Refused(status) ==
  \/ refund \in {"NONE", "PENDING_REVIEW", "REJECTED"}
  \/ /\ status = "SUCCESS" /\ refund # "SUCCESS"
     /\ order.status # "REFUND_PENDING" \/ ~SalesSuffice

MutantEffect(status) ==
  IF status = "SUCCESS" THEN Succeed
  ELSE refund' = status /\ UNCHANGED <<order, product>>

Effect(status) ==
  CASE status = "SUCCESS" /\ refund # "SUCCESS" -> Succeed
    [] status = "PROCESSING" /\ StillProcessing ->
         refund' = "PROCESSING" /\ UNCHANGED <<order, product>>
    [] status \in {"CLOSED", "ABNORMAL"} /\ MayFail ->
         refund' = "FAILED" /\ UNCHANGED <<order, product>>
    [] OTHER -> UNCHANGED <<order, refund, product>>

\* The answer of approve's or refresh's request.
ApplyAnswer(h) ==
  /\ at[h] = "apply"
  /\ IF Refused(reply[h]) THEN UNCHANGED <<order, refund, product>>
                         ELSE Effect(reply[h])
  /\ Return(h)
  /\ UNCHANGED <<notified, refundable, wechat>>

\* provider.verifyRefundNotification lets through what WeChat did announce.
Verified(outcome) == outcome \in wechat.announced

\* RefundService.notify, in whatever order the announcements arrive, and again.
Notify(outcome) ==
  /\ Verified(outcome)
  /\ outcome \notin notified /\ ~Refused(outcome)
  /\ Effect(outcome)
  /\ notified' = notified \cup {outcome}
  /\ UNCHANGED <<refundable, wechat, at, reply>>

Crash(h) ==
  /\ at[h] # "idle"
  /\ Return(h)
  /\ UNCHANGED <<dbVars, refundable, wechat>>

-----------------------------------------------------------------------------
(* WeChat.  An abnormal refund (the card is gone) is completed or closed later, *)
(* by hand.                                                                     *)

WechatDecides(outcome) ==
  /\ \/ wechat.refund = "PROCESSING"
     \/ wechat.refund = "ABNORMAL" /\ outcome # "ABNORMAL"
  /\ wechat' = [wechat EXCEPT !.refund = outcome, !.announced = @ \cup {outcome}]
  /\ UNCHANGED <<dbVars, refundable, at, reply>>

LateRequest ==
  /\ wechat.late
  /\ wechat' = [wechat EXCEPT !.late = FALSE, !.refund = Opened]
  /\ UNCHANGED <<dbVars, refundable, at, reply>>

YearPasses ==
  /\ refundable /\ order.status # "PENDING_PAYMENT"
  /\ refundable' = FALSE
  /\ UNCHANGED <<dbVars, wechat, at, reply>>

-----------------------------------------------------------------------------
Approve(a) == ClaimApproval(a) \/ CreateAnswered(a) \/ CreateFailed(a)

Query(h) == QueryAnswered(h) \/ QueryFailed(h) \/ ApplyAnswer(h)

Next == \/ CompleteSuccess \/ Apply \/ Reject
        \/ \E to \in OrderStatuses : TransitionAdmin(to)
        \/ \E a \in Approvers : Approve(a)
        \/ \E v \in Viewers : RefreshStarts(v)
        \/ \E h \in Handlers : Query(h) \/ Crash(h)
        \/ \E outcome \in Outcomes : Notify(outcome) \/ WechatDecides(outcome)
        \/ LateRequest \/ YearPasses

Spec == Init /\ [][Next]_vars

-----------------------------------------------------------------------------
TypeOK ==
  /\ order \in [status : OrderStatuses, stockReleased : BOOLEAN]
  /\ refund \in RefundStatuses
  /\ product \in [stock : Int, sales : Int]
  /\ notified \in SUBSET Outcomes
  /\ refundable \in BOOLEAN
  /\ wechat \in [refund : Answers \cup {"NONE"}, announced : SUBSET Outcomes,
                 late : BOOLEAN]
  /\ at \in [Handlers -> Labels]
  /\ reply \in [Handlers -> Answers \cup {"NONE"}]

\* While money is going back at WeChat, or a request to send it is still under way,
\* the shop does not fulfil the order: accepting, rejecting and approving exclude
\* each other however they race.
NoServiceDuringRefund ==
  wechat.refund # "NONE" \/ wechat.late => order.status \in {"REFUND_PENDING", "REFUNDED"}

\* The order, its refund row and WeChat agree on the end: an order is REFUNDED only
\* when WeChat said so, and then its stock is back and its sale uncounted, once.
RefundedOnWechatsWord ==
  /\ (order.status = "REFUNDED") <=> (refund = "SUCCESS")
  /\ refund = "SUCCESS" => wechat.refund = "SUCCESS"
  /\ product.stock = IF order.status = "REFUNDED" THEN 1 ELSE 0
  /\ product.sales = IF order.status \in {"PENDING_PAYMENT", "REFUNDED"} THEN 0 ELSE 1

\* Whichever answers and notifications come late, and whoever is still approving: a
\* success and a rejection are for good, a failure that was recorded gives way only to
\* a success, and a refunded order stays refunded.
OutcomesStay ==
  [][/\ refund \in {"SUCCESS", "REJECTED"} => refund' = refund
     /\ refund = "FAILED" => refund' \in {"FAILED", "SUCCESS"}
     /\ order.status = "REFUNDED" => order'.status = "REFUNDED"]_vars

Lifecycle == INSTANCE OrderLifecycle
  WITH status <- order.status, stock <- product.stock, sales <- product.sales

\* Each step, seen through the order's status and counters, is a move of the order's
\* lifecycle or none.
ImplementsLifecycle == Lifecycle!Spec

\* What makes the properties inductive: what the handlers hold, and what WeChat has
\* announced, was true of the refund at WeChat.
AnswersWereTrue ==
  /\ \A h \in Handlers :
       /\ at[h] = "create" => refund \in {"APPROVED", "PROCESSING", "SUCCESS", "FAILED"}
       /\ reply[h] # "NONE" => wechat.refund # "NONE"
       /\ reply[h] = "SUCCESS" => wechat.refund = "SUCCESS"
  /\ "SUCCESS" \in wechat.announced => wechat.refund = "SUCCESS"
  /\ wechat.announced # {} => wechat.refund # "NONE"

RowsAgree ==
  /\ order.stockReleased <=> order.status = "REFUNDED"
  /\ order.status = "REFUND_PENDING" <=> refund \in {"PENDING_REVIEW", "APPROVED",
                                                     "PROCESSING", "FAILED"}
  /\ wechat.refund # "NONE" \/ wechat.late =>
       refund \in {"APPROVED", "PROCESSING", "SUCCESS", "FAILED"}

IInv == /\ TypeOK
        /\ NoServiceDuringRefund
        /\ RefundedOnWechatsWord
        /\ AnswersWereTrue
        /\ RowsAgree
=============================================================================
