-------------------------- MODULE RefundFlowProofs --------------------------
(***************************************************************************)
(* Proofs about RefundFlow, for any number of administrators and page      *)
(* views.  IInv adds to the checked invariants that what a handler holds   *)
(* was true of the refund at WeChat, and how the rows go together.         *)
(***************************************************************************)
EXTENDS RefundFlow, TLAPS

USE DEF Handlers, OrderStatuses, RefundStatuses, Outcomes, Answers, Labels, dbVars

LEMMA InitIInv == Init => IInv
<1> SUFFICES ASSUME Init PROVE IInv
  OBVIOUS
<1> USE DEF Init
<1>1. TypeOK
  BY DEF TypeOK
<1> QED
  BY <1>1 DEF IInv, NoServiceDuringRefund, RefundedOnWechatsWord, AnswersWereTrue,
     RowsAgree

\* What one event from WeChat does to the rows, whoever brings it.
LEMMA EffectFacts ==
  ASSUME IInv, NEW status \in Answers, ~Refused(status), Effect(status),
         status = "SUCCESS" => wechat.refund = "SUCCESS",
         wechat.refund # "NONE", UNCHANGED wechat
  PROVE  /\ order' \in [status : OrderStatuses, stockReleased : BOOLEAN]
         /\ refund' \in RefundStatuses /\ product' \in [stock : Int, sales : Int]
         /\ NoServiceDuringRefund' /\ RefundedOnWechatsWord' /\ RowsAgree'
         /\ refund' \in {"APPROVED", "PROCESSING", "SUCCESS", "FAILED"}
<1> USE DEF IInv, TypeOK, Refused
<1>1. CASE status = "SUCCESS" /\ refund # "SUCCESS"
  <2>1. /\ refund' = "SUCCESS" /\ order.status = "REFUND_PENDING"
        /\ order' = [status |-> "REFUNDED", stockReleased |-> TRUE]
    BY <1>1 DEF Effect, Succeed
  <2>2. ~order.stockReleased
    BY <2>1 DEF RowsAgree
  <2>3. product' = [stock |-> product.stock + 1, sales |-> product.sales - 1]
    BY <1>1, <2>2 DEF Effect, Succeed
  <2>4. product.stock = 0 /\ product.sales = 1
    BY <2>1 DEF RefundedOnWechatsWord
  <2>5. RefundedOnWechatsWord'
    BY <1>1, <2>1, <2>3, <2>4 DEF RefundedOnWechatsWord
  <2> QED
    BY <1>1, <2>1, <2>3, <2>5 DEF NoServiceDuringRefund, RowsAgree
<1>2. CASE ~(status = "SUCCESS" /\ refund # "SUCCESS")
  <2>1. /\ UNCHANGED <<order, product>>
        /\ \/ refund' = refund
           \/ refund # "SUCCESS" /\ refund' \in {"PROCESSING", "FAILED"}
    BY <1>2 DEF Effect, StillProcessing, MayFail
  <2> QED
    BY <1>2, <2>1 DEF NoServiceDuringRefund, RefundedOnWechatsWord, RowsAgree
<1> QED BY <1>1, <1>2

LEMMA CompleteSuccessIInv ==
  ASSUME IInv, CompleteSuccess PROVE IInv'
<1> USE DEF CompleteSuccess
<1>1. TypeOK'
  <2>1. order' \in [status : OrderStatuses, stockReleased : BOOLEAN]
    BY DEF IInv, TypeOK
  <2>2. product' \in [stock : Int, sales : Int]
    BY DEF IInv, TypeOK
  <2> QED BY <2>1, <2>2 DEF IInv, TypeOK
<1> QED
  BY <1>1 DEF IInv, TypeOK, NoServiceDuringRefund, RefundedOnWechatsWord, AnswersWereTrue,
     RowsAgree

LEMMA TransitionAdminIInv ==
  ASSUME IInv, NEW to \in OrderStatuses, TransitionAdmin(to) PROVE IInv'
<1> USE DEF TransitionAdmin, AdminTransitions
<1>1. TypeOK'
  BY DEF IInv, TypeOK
<1> QED
  BY <1>1 DEF IInv, TypeOK, NoServiceDuringRefund, RefundedOnWechatsWord, AnswersWereTrue,
     RowsAgree

LEMMA ApplyIInv ==
  ASSUME IInv, Apply PROVE IInv'
<1> USE DEF Apply, MayApply
<1>1. TypeOK'
  <2>1. order' \in [status : OrderStatuses, stockReleased : BOOLEAN]
    BY DEF IInv, TypeOK
  <2>2. refund' \in RefundStatuses
    BY DEF IInv, TypeOK
  <2> QED BY <2>1, <2>2 DEF IInv, TypeOK
<1> QED
  BY <1>1 DEF IInv, TypeOK, NoServiceDuringRefund, RefundedOnWechatsWord, AnswersWereTrue,
     RowsAgree

LEMMA RejectIInv ==
  ASSUME IInv, Reject PROVE IInv'
<1> USE DEF Reject, MayReject
<1>1. TypeOK'
  <2>1. order' \in [status : OrderStatuses, stockReleased : BOOLEAN]
    BY DEF IInv, TypeOK
  <2>2. refund' \in RefundStatuses
    BY DEF IInv, TypeOK
  <2> QED BY <2>1, <2>2 DEF IInv, TypeOK
<1> QED
  BY <1>1 DEF IInv, TypeOK, NoServiceDuringRefund, RefundedOnWechatsWord, AnswersWereTrue,
     RowsAgree

LEMMA ClaimApprovalIInv ==
  ASSUME IInv, NEW a \in Approvers, ClaimApproval(a) PROVE IInv'
<1> USE DEF ClaimApproval, Goto
<1>1. TypeOK'
  <2>1. refund' \in RefundStatuses
    BY DEF IInv, TypeOK
  <2>2. at' \in [Handlers -> Labels]
    BY DEF IInv, TypeOK
  <2> QED BY <2>1, <2>2 DEF IInv, TypeOK
<1> QED
  BY <1>1 DEF IInv, TypeOK, NoServiceDuringRefund, RefundedOnWechatsWord, AnswersWereTrue,
     RowsAgree

LEMMA CreateAnsweredIInv ==
  ASSUME IInv, NEW a \in Approvers, CreateAnswered(a) PROVE IInv'
<1> USE DEF CreateAnswered, Goto, Opened
<1>1. TypeOK'
  <2>1. wechat' \in [refund : Answers \cup {"NONE"}, announced : SUBSET Outcomes,
                    late : BOOLEAN]
    BY DEF IInv, TypeOK
  <2>2. at' \in [Handlers -> Labels]
    BY DEF IInv, TypeOK
  <2>3. reply' \in [Handlers -> Answers \cup {"NONE"}]
    BY DEF IInv, TypeOK
  <2> QED BY <2>1, <2>2, <2>3 DEF IInv, TypeOK
<1> QED
  BY <1>1 DEF IInv, TypeOK, NoServiceDuringRefund, RefundedOnWechatsWord, AnswersWereTrue,
     RowsAgree

LEMMA CreateFailedIInv ==
  ASSUME IInv, NEW a \in Approvers, CreateFailed(a) PROVE IInv'
<1> USE DEF CreateFailed, Goto
<1>1. TypeOK'
  <2>1. wechat' \in [refund : Answers \cup {"NONE"}, announced : SUBSET Outcomes,
                    late : BOOLEAN]
    BY DEF IInv, TypeOK
  <2>2. at' \in [Handlers -> Labels]
    BY DEF IInv, TypeOK
  <2> QED BY <2>1, <2>2 DEF IInv, TypeOK
<1> QED
  BY <1>1 DEF IInv, TypeOK, NoServiceDuringRefund, RefundedOnWechatsWord, AnswersWereTrue,
     RowsAgree

LEMMA RefreshStartsIInv ==
  ASSUME IInv, NEW v \in Viewers, RefreshStarts(v) PROVE IInv'
<1> USE DEF RefreshStarts, Goto
<1>1. TypeOK'
  BY DEF IInv, TypeOK
<1> QED
  BY <1>1 DEF IInv, TypeOK, NoServiceDuringRefund, RefundedOnWechatsWord, AnswersWereTrue,
     RowsAgree

LEMMA QueryAnsweredIInv ==
  ASSUME IInv, NEW h \in Handlers, QueryAnswered(h) PROVE IInv'
<1> USE DEF QueryAnswered, Goto
<1>1. TypeOK'
  <2>1. at' \in [Handlers -> Labels]
    BY DEF IInv, TypeOK
  <2>2. reply' \in [Handlers -> Answers \cup {"NONE"}]
    BY DEF IInv, TypeOK
  <2> QED BY <2>1, <2>2 DEF IInv, TypeOK
<1> QED
  BY <1>1 DEF IInv, TypeOK, NoServiceDuringRefund, RefundedOnWechatsWord, AnswersWereTrue,
     RowsAgree

LEMMA QueryFailedIInv ==
  ASSUME IInv, NEW h \in Handlers, QueryFailed(h) PROVE IInv'
<1> USE DEF QueryFailed, Goto, Return
<1>1. TypeOK'
  <2>1. at' \in [Handlers -> Labels]
    BY DEF IInv, TypeOK
  <2>2. reply' \in [Handlers -> Answers \cup {"NONE"}]
    BY DEF IInv, TypeOK
  <2> QED BY <2>1, <2>2 DEF IInv, TypeOK
<1> QED
  BY <1>1 DEF IInv, TypeOK, NoServiceDuringRefund, RefundedOnWechatsWord, AnswersWereTrue,
     RowsAgree

LEMMA CrashIInv ==
  ASSUME IInv, NEW h \in Handlers, Crash(h) PROVE IInv'
<1> USE DEF Crash, Goto, Return
<1>1. TypeOK'
  <2>1. at' \in [Handlers -> Labels]
    BY DEF IInv, TypeOK
  <2>2. reply' \in [Handlers -> Answers \cup {"NONE"}]
    BY DEF IInv, TypeOK
  <2> QED BY <2>1, <2>2 DEF IInv, TypeOK
<1> QED
  BY <1>1 DEF IInv, TypeOK, NoServiceDuringRefund, RefundedOnWechatsWord, AnswersWereTrue,
     RowsAgree

LEMMA WechatDecidesIInv ==
  ASSUME IInv, NEW outcome \in Outcomes, WechatDecides(outcome) PROVE IInv'
<1> USE DEF WechatDecides
<1>1. TypeOK'
  BY DEF IInv, TypeOK
<1> QED
  BY <1>1 DEF IInv, TypeOK, NoServiceDuringRefund, RefundedOnWechatsWord, AnswersWereTrue,
     RowsAgree

LEMMA LateRequestIInv ==
  ASSUME IInv, LateRequest PROVE IInv'
<1> USE DEF LateRequest, Opened
<1>1. TypeOK'
  BY DEF IInv, TypeOK
<1> QED
  BY <1>1 DEF IInv, TypeOK, NoServiceDuringRefund, RefundedOnWechatsWord, AnswersWereTrue,
     RowsAgree

LEMMA YearPassesIInv ==
  ASSUME IInv, YearPasses PROVE IInv'
<1> USE DEF YearPasses
<1>1. TypeOK'
  BY DEF IInv, TypeOK
<1> QED
  BY <1>1 DEF IInv, TypeOK, NoServiceDuringRefund, RefundedOnWechatsWord, AnswersWereTrue,
     RowsAgree

LEMMA ApplyAnswerIInv ==
  ASSUME IInv, NEW h \in Handlers, ApplyAnswer(h) PROVE IInv'
<1> USE DEF ApplyAnswer, Return, Goto
<1>1. at' \in [Handlers -> Labels] /\ reply' \in [Handlers -> Answers \cup {"NONE"}]
  BY DEF IInv, TypeOK
<1>2. CASE Refused(reply[h])
  BY <1>1, <1>2 DEF IInv, TypeOK, NoServiceDuringRefund, RefundedOnWechatsWord, AnswersWereTrue,
     RowsAgree
<1>3. CASE ~Refused(reply[h]) /\ reply[h] # "NONE"
  <2>1. /\ reply[h] \in Answers /\ Effect(reply[h]) /\ wechat.refund # "NONE"
        /\ reply[h] = "SUCCESS" => wechat.refund = "SUCCESS"
    BY <1>3 DEF IInv, TypeOK, AnswersWereTrue
  <2>2. TypeOK'
    BY <1>1, <1>3, <2>1, EffectFacts DEF IInv, TypeOK
  <2>3. AnswersWereTrue'
    BY <1>1, <1>3, <2>1, EffectFacts DEF IInv, TypeOK, AnswersWereTrue
  <2> QED BY <1>3, <2>1, <2>2, <2>3, EffectFacts DEF IInv
<1>4. CASE ~Refused(reply[h]) /\ reply[h] = "NONE"
  <2>1. UNCHANGED <<order, refund, product>>
    BY <1>4 DEF Effect
  <2> QED
    BY <1>1, <2>1 DEF IInv, TypeOK, NoServiceDuringRefund, RefundedOnWechatsWord, AnswersWereTrue,
     RowsAgree
<1> QED BY <1>2, <1>3, <1>4

LEMMA NotifyIInv ==
  ASSUME IInv, NEW outcome \in Outcomes, Notify(outcome) PROVE IInv'
<1>1. /\ outcome \in Answers /\ ~Refused(outcome) /\ Effect(outcome)
      /\ wechat.refund # "NONE"
      /\ outcome = "SUCCESS" => wechat.refund = "SUCCESS"
      /\ notified' \in SUBSET Outcomes
      /\ UNCHANGED <<refundable, wechat, at, reply>>
  BY DEF Notify, Verified, IInv, TypeOK, AnswersWereTrue
<1>2. TypeOK'
  BY <1>1, EffectFacts DEF IInv, TypeOK
<1>3. AnswersWereTrue'
  BY <1>1, EffectFacts DEF IInv, AnswersWereTrue
<1> QED BY <1>1, <1>2, <1>3, EffectFacts DEF IInv

LEMMA NextIInv == IInv /\ [Next]_vars => IInv'
<1> SUFFICES ASSUME IInv, [Next]_vars PROVE IInv'
  OBVIOUS
<1>1. CASE CompleteSuccess \/ Apply \/ Reject \/ LateRequest \/ YearPasses
  BY <1>1, CompleteSuccessIInv, ApplyIInv, RejectIInv, LateRequestIInv, YearPassesIInv
<1>2. CASE \E to \in OrderStatuses : TransitionAdmin(to)
  BY <1>2, TransitionAdminIInv
<1>3. CASE \E a \in Approvers : Approve(a)
  BY <1>3, ClaimApprovalIInv, CreateAnsweredIInv, CreateFailedIInv DEF Approve
<1>4. CASE \E v \in Viewers : RefreshStarts(v)
  BY <1>4, RefreshStartsIInv
<1>5. CASE \E h \in Handlers : Query(h) \/ Crash(h)
  BY <1>5, QueryAnsweredIInv, QueryFailedIInv, ApplyAnswerIInv, CrashIInv DEF Query
<1>6. CASE \E outcome \in Outcomes : Notify(outcome) \/ WechatDecides(outcome)
  BY <1>6, NotifyIInv, WechatDecidesIInv
<1>7. CASE UNCHANGED vars
  BY <1>7 DEF vars, IInv, TypeOK, NoServiceDuringRefund, RefundedOnWechatsWord, AnswersWereTrue,
     RowsAgree
<1> QED BY <1>1, <1>2, <1>3, <1>4, <1>5, <1>6, <1>7 DEF Next

\* The inductive invariant holds of every behaviour.
THEOREM Invariance == Spec => []IInv
<1>1. Init => IInv
  BY InitIInv
<1>2. IInv /\ [Next]_vars => IInv'
  BY NextIInv
<1> QED BY <1>1, <1>2, PTL DEF Spec

THEOREM TypeCorrect == Spec => []TypeOK
<1>1. IInv => TypeOK
  BY DEF IInv
<1> QED BY <1>1, Invariance, PTL

\* Nobody prepares or delivers an order whose money is on its way back, however
\* many administrators approve, reject and accept at once.
THEOREM RefundExcludesService == Spec => []NoServiceDuringRefund
<1>1. IInv => NoServiceDuringRefund
  BY DEF IInv
<1> QED BY <1>1, Invariance, PTL

\* An order is refunded only on WeChat's word, and its stock and sales follow once.
THEOREM RefundIsTrusted == Spec => []RefundedOnWechatsWord
<1>1. IInv => RefundedOnWechatsWord
  BY DEF IInv
<1> QED BY <1>1, Invariance, PTL

-----------------------------------------------------------------------------
(* Two facts about single steps. *)

\* An event from WeChat is the end of the refund, or leaves the order alone.
LEMMA EffectMoves ==
  ASSUME IInv, NEW status, ~Refused(status), Effect(status)
  PROVE  /\ refund \in {"SUCCESS", "REJECTED"} => refund' = refund
         /\ refund = "FAILED" => refund' \in {"FAILED", "SUCCESS"}
         /\ Lifecycle!Refund \/ UNCHANGED <<order, product>>
<1>1. CASE status = "SUCCESS" /\ refund # "SUCCESS"
  <2>1. /\ order.status = "REFUND_PENDING" /\ ~order.stockReleased
        /\ refund # "REJECTED"
    BY <1>1 DEF Refused, IInv, RowsAgree
  <2>2. /\ refund' = "SUCCESS"
        /\ order' = [status |-> "REFUNDED", stockReleased |-> TRUE]
        /\ product' = [stock |-> product.stock + 1, sales |-> product.sales - 1]
    BY <1>1, <2>1 DEF Effect, Succeed
  <2> QED BY <1>1, <2>1, <2>2 DEF Lifecycle!Refund
<1>2. CASE ~(status = "SUCCESS" /\ refund # "SUCCESS")
  BY <1>2 DEF Refused, Effect, StillProcessing, MayFail
<1> QED BY <1>1, <1>2

\* A refund that succeeded or was rejected stays so, one that failed may only still
\* succeed, and a refunded order stays refunded, whichever earlier answers arrive later
\* (refund.repository.ts, applyProviderEvent) and whoever approves at the same time.
THEOREM OutcomesAreKept == Spec => OutcomesStay
<1> DEFINE RefundStays == /\ refund \in {"SUCCESS", "REJECTED"} => refund' = refund
                          /\ refund = "FAILED" => refund' \in {"FAILED", "SUCCESS"}
           OrderStays == order.status = "REFUNDED" => order'.status = "REFUNDED"
<1>1. ASSUME IInv, [Next]_vars PROVE RefundStays /\ OrderStays
  <2> USE <1>1
  <2>1. ASSUME NEW h \in Handlers, ApplyAnswer(h) PROVE RefundStays /\ OrderStays
    BY <2>1, EffectMoves DEF ApplyAnswer, Lifecycle!Refund
  <2>2. ASSUME NEW outcome \in Outcomes, Notify(outcome) PROVE RefundStays /\ OrderStays
    BY <2>2, EffectMoves DEF Notify, Lifecycle!Refund
  <2>3. CASE \E a \in Approvers : Approve(a)
    BY <2>3 DEF Approve, ClaimApproval, CreateAnswered, CreateFailed
  <2>4. CASE Apply
    BY <2>4 DEF Apply, MayApply
  <2>5. CASE Reject
    BY <2>5 DEF Reject, MayReject
  <2>6. CASE CompleteSuccess
    BY <2>6 DEF CompleteSuccess
  <2>7. CASE \E to \in OrderStatuses : TransitionAdmin(to)
    BY <2>7 DEF TransitionAdmin, AdminTransitions
  <2> QED
    BY <2>1, <2>2, <2>3, <2>4, <2>5, <2>6, <2>7 DEF Next, Query, RefreshStarts,
       QueryAnswered, QueryFailed, Crash, WechatDecides, LateRequest, YearPasses, vars
<1> QED BY <1>1, Invariance, PTL DEF Spec, OutcomesStay

\* Every step, seen through the order's status and counters, is a move of the order's
\* lifecycle or none: the refund protocol implements OrderLifecycle.
THEOREM RefundImplementsLifecycle == Spec => ImplementsLifecycle
<1> USE DEF Lifecycle!vars, Lifecycle!Settled
<1>1. Init => Lifecycle!Init
  BY DEF Init, Lifecycle!Init
<1>2. ASSUME IInv, [Next]_vars PROVE [Lifecycle!Next]_(Lifecycle!vars)
  <2> USE DEF IInv, TypeOK, Lifecycle!Next
  <2>1. CASE CompleteSuccess
    <3>1. order.status = "PENDING_PAYMENT" /\ order'.status = "PAID"
      BY <1>2, <2>1 DEF CompleteSuccess
    <3>2. product'.sales = product.sales + 1 /\ product'.stock = product.stock
      BY <1>2, <2>1 DEF CompleteSuccess
    <3> QED BY <3>1, <3>2 DEF Lifecycle!Pay
  <2>2. CASE Apply
    <3>1. order.status = "PAID" /\ order'.status = "REFUND_PENDING" /\ UNCHANGED product
      BY <1>2, <2>2 DEF Apply, MayApply
    <3> QED BY <3>1 DEF Lifecycle!RequestRefund
  <2>3. CASE Reject
    <3>1. order.status = "REFUND_PENDING" /\ order'.status = "PAID" /\ UNCHANGED product
      BY <1>2, <2>3 DEF Reject
    <3> QED BY <3>1 DEF Lifecycle!RejectRefund
  <2>4. ASSUME NEW to \in OrderStatuses, TransitionAdmin(to)
        PROVE  Lifecycle!Fulfil
    BY <1>2, <2>4 DEF TransitionAdmin, AdminTransitions, Lifecycle!Fulfil,
       Lifecycle!Fulfilment, Lifecycle!Statuses
  <2>5. ASSUME NEW h \in Handlers, ApplyAnswer(h)
        PROVE  Lifecycle!Refund \/ UNCHANGED <<order, product>>
    BY <1>2, <2>5, EffectMoves DEF ApplyAnswer
  <2>6. ASSUME NEW outcome \in Outcomes, Notify(outcome)
        PROVE  Lifecycle!Refund \/ UNCHANGED <<order, product>>
    BY <1>2, <2>6, EffectMoves DEF Notify
  <2>7. CASE UNCHANGED <<order, product>>
    BY <2>7
  <2> QED
    BY <1>2, <2>1, <2>2, <2>3, <2>4, <2>5, <2>6, <2>7 DEF Next, Approve, ClaimApproval,
       CreateAnswered, CreateFailed, Query, RefreshStarts, QueryAnswered, QueryFailed,
       Crash, WechatDecides, LateRequest, YearPasses, vars
<1> QED
  BY <1>1, <1>2, Invariance, PTL DEF Spec, ImplementsLifecycle, Lifecycle!Spec
=============================================================================
