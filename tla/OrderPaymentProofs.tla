------------------------- MODULE OrderPaymentProofs -------------------------
(***************************************************************************)
(* Proofs about OrderPayment, for any number of handlers of each role.     *)
(*                                                                         *)
(* The invariants the runs check are not inductive: that a payment marked  *)
(* CLOSED is closed at WeChat depends on what the closers carry between    *)
(* their steps.  IInv adds what they carry; below is one lemma for each    *)
(* action, and under it the conjuncts that need a fact of their own.       *)
(***************************************************************************)
EXTENDS OrderPayment, TLAPS

USE DEF Handlers, Closers, OrderStatuses, PaymentStatuses, Settled, Operators,
        Trades, Labels, NoClaim, OrderRow, PaymentRow, Transaction, Claim, dbVars

LEMMA InitIInv == Init => IInv
<1> SUFFICES ASSUME Init PROVE IInv
  OBVIOUS
<1> USE DEF Init
<1>1. order \in OrderRow
  OBVIOUS
<1>2. payment \in PaymentRow
  OBVIOUS
<1>3. product \in [stock : Int, sales : Int]
  OBVIOUS
<1>4. notified \in SUBSET (NotificationIds \cup {QueryId})
  OBVIOUS
<1>5. wechat \in Transaction
  OBVIOUS
<1>6. at \in [Handlers -> Labels]
  OBVIOUS
<1>7. claim \in [Closers -> Claim]
  OBVIOUS
<1>8. TypeOK
  BY <1>1, <1>2, <1>3, <1>4, <1>5, <1>6, <1>7 DEF TypeOK
<1> QED
  BY <1>8 DEF IInv, RowsAgree, CountersBalance, PaidOnWechatsWord, ClosedIsClosedAtWechat,
       CancelledByFirstClaimant, SystemCancelsOnlyExpired, CredentialsInv,
       HandlersSaw, ClaimsHonoured, SystemSigns

\* Settling, by whatever handler, keeps the rows, the counters and WeChat in step.
LEMMA SettleFacts ==
  ASSUME IInv, NEW id \in NotificationIds \cup {QueryId}, Settle(id),
         wechat.trade = "SUCCESS", UNCHANGED <<expired, configured, wechat>>
  PROVE  /\ order' \in OrderRow /\ payment' \in PaymentRow
         /\ product' \in [stock : Int, sales : Int]
         /\ notified' \in SUBSET (NotificationIds \cup {QueryId})
         /\ RowsAgree' /\ CountersBalance' /\ PaidOnWechatsWord'
         /\ ClosedIsClosedAtWechat' /\ CancelledByFirstClaimant'
         /\ SystemCancelsOnlyExpired' /\ CredentialsInv'
         /\ payment'.operator = payment.operator
         /\ payment'.status = payment.status \/ payment'.status = "SUCCESS"
<1> USE DEF Settle, AwaitingPayment
<1>1. /\ order' \in OrderRow /\ payment' \in PaymentRow
      /\ product' \in [stock : Int, sales : Int]
      /\ notified' \in SUBSET (NotificationIds \cup {QueryId})
  <2>1. CASE Settles(id)
    <3>1. order' \in OrderRow
      BY <2>1 DEF IInv, TypeOK
    <3>2. payment' \in PaymentRow
      BY <2>1 DEF IInv, TypeOK
    <3>3. product' \in [stock : Int, sales : Int]
      BY <2>1 DEF IInv, TypeOK
    <3>4. notified' \in SUBSET (NotificationIds \cup {QueryId})
      BY <2>1 DEF IInv, TypeOK
    <3> QED BY <3>1, <3>2, <3>3, <3>4
  <2>2. CASE ~Settles(id)
    BY <2>2 DEF IInv, TypeOK
  <2> QED BY <2>1, <2>2
<1>2. CASE Settles(id)
  <2>1. order' = [order EXCEPT !.status = "PAID"]
    BY <1>2
  <2>2. payment' = [payment EXCEPT !.status = "SUCCESS", !.failure = "none",
                                   !.leased = FALSE]
    BY <1>2
  <2>3. /\ order.status = "PENDING_PAYMENT" /\ ~order.stockReleased
        /\ product' = [product EXCEPT !.sales = @ + 1] /\ notified' # {}
    BY <1>2 DEF Settles
  <2>4. RowsAgree' /\ CountersBalance' /\ PaidOnWechatsWord'
    BY <2>1, <2>2, <2>3 DEF IInv, TypeOK, RowsAgree, CountersBalance,
       PaidOnWechatsWord
  <2>5. /\ ClosedIsClosedAtWechat' /\ CancelledByFirstClaimant'
        /\ SystemCancelsOnlyExpired' /\ CredentialsInv'
    BY <2>1, <2>2, <2>3 DEF IInv, TypeOK, ClosedIsClosedAtWechat,
       CancelledByFirstClaimant, SystemCancelsOnlyExpired, CredentialsInv
  <2> QED BY <1>1, <2>2, <2>4, <2>5 DEF IInv, TypeOK
<1>3. CASE ~Settles(id)
  <2>1. UNCHANGED <<order, payment, product>> /\ notified \subseteq notified'
    BY <1>3
  <2> QED
    BY <1>1, <2>1 DEF IInv, RowsAgree, CountersBalance, PaidOnWechatsWord,
       ClosedIsClosedAtWechat, CancelledByFirstClaimant, SystemCancelsOnlyExpired,
       CredentialsInv
<1> QED BY <1>2, <1>3

LEMMA PrepareIInv ==
  ASSUME IInv, NEW i \in Initializers, Prepare(i) PROVE IInv'
<1> USE DEF Prepare, Reusable, AwaitingPayment, Goto
<1>1. TypeOK'
  <2>1. payment' \in PaymentRow
    BY DEF IInv, TypeOK
  <2>2. at' \in [Handlers -> Labels]
    BY DEF IInv, TypeOK
  <2> QED BY <2>1, <2>2 DEF IInv, TypeOK
<1>2. RowsAgree' /\ CountersBalance' /\ PaidOnWechatsWord'
  BY DEF IInv, TypeOK, RowsAgree, CountersBalance, PaidOnWechatsWord
<1>3. /\ ClosedIsClosedAtWechat' /\ CancelledByFirstClaimant'
      /\ SystemCancelsOnlyExpired' /\ CredentialsInv'
  BY DEF IInv, TypeOK, RowsAgree, ClosedIsClosedAtWechat, CancelledByFirstClaimant,
     SystemCancelsOnlyExpired, CredentialsInv
<1>4. HandlersSaw'
  BY RolesAreDisjoint DEF IInv, TypeOK, HandlersSaw
<1>5. ClaimsHonoured' /\ SystemSigns'
  BY DEF IInv, TypeOK, RowsAgree, ClaimsHonoured, SystemSigns
<1> QED BY <1>1, <1>2, <1>3, <1>4, <1>5 DEF IInv

LEMMA CreateAcceptedIInv ==
  ASSUME IInv, NEW i \in Initializers, CreateAccepted(i) PROVE IInv'
<1> USE DEF CreateAccepted, Goto
<1>1. TypeOK'
  <2>1. wechat' \in Transaction
    BY DEF IInv, TypeOK
  <2>2. at' \in [Handlers -> Labels]
    BY DEF IInv, TypeOK
  <2> QED BY <2>1, <2>2 DEF IInv, TypeOK
<1> QED
  BY <1>1 DEF IInv, TypeOK, RowsAgree, CountersBalance, PaidOnWechatsWord, ClosedIsClosedAtWechat,
       CancelledByFirstClaimant, SystemCancelsOnlyExpired, CredentialsInv,
       HandlersSaw, ClaimsHonoured, SystemSigns

LEMMA CreateFailedIInv ==
  ASSUME IInv, NEW i \in Initializers, CreateFailed(i) PROVE IInv'
<1> USE DEF CreateFailed, Goto
<1>1. TypeOK'
  <2>1. wechat' \in Transaction
    BY DEF IInv, TypeOK
  <2>2. at' \in [Handlers -> Labels]
    BY DEF IInv, TypeOK
  <2> QED BY <2>1, <2>2 DEF IInv, TypeOK
<1> QED
  BY <1>1 DEF IInv, TypeOK, RowsAgree, CountersBalance, PaidOnWechatsWord, ClosedIsClosedAtWechat,
       CancelledByFirstClaimant, SystemCancelsOnlyExpired, CredentialsInv,
       HandlersSaw, ClaimsHonoured, SystemSigns

LEMMA AttachPrepayIInv ==
  ASSUME IInv, NEW i \in Initializers, AttachPrepay(i) PROVE IInv'
<1> USE DEF AttachPrepay, Goto
<1>1. TypeOK'
  <2>0. payment \in PaymentRow /\ at \in [Handlers -> Labels]
    BY DEF IInv, TypeOK
  <2>1. payment' \in PaymentRow
    <3>1. \/ payment' = payment
          \/ payment' = [payment EXCEPT !.status = "PENDING", !.failure = "none",
                                        !.leased = FALSE]
      OBVIOUS
    <3> QED BY <2>0, <3>1 DEF PaymentRow, PaymentStatuses
  <2>2. at' \in [Handlers -> Labels]
    <3>1. \/ at' = [at EXCEPT ![i] = "reread"]
          \/ at' = [at EXCEPT ![i] = "fail"]
      OBVIOUS
    <3> QED BY <2>0, <3>1 DEF Labels
  <2> QED BY <2>1, <2>2 DEF IInv, TypeOK
<1>2. UNCHANGED wechat
  OBVIOUS
<1>3. /\ RowsAgree' /\ CountersBalance' /\ PaidOnWechatsWord'
      /\ ClosedIsClosedAtWechat' /\ CancelledByFirstClaimant'
      /\ SystemCancelsOnlyExpired' /\ CredentialsInv'
  <2>1. CASE ~StillCreating
    BY <1>2, <2>1 DEF IInv, RowsAgree, CountersBalance, PaidOnWechatsWord,
       ClosedIsClosedAtWechat, CancelledByFirstClaimant, SystemCancelsOnlyExpired,
       CredentialsInv
  <2>2. CASE StillCreating
    <3>1. payment'.status = "PENDING" /\ payment'.failure = "none"
      BY <2>2 DEF IInv, TypeOK
    <3>2. RowsAgree'
      BY <2>2, <3>1 DEF StillCreating, IInv, RowsAgree
    <3>3. CountersBalance' /\ PaidOnWechatsWord'
      BY <1>2, <2>2, <3>1, <3>2
         DEF StillCreating, IInv, RowsAgree, CountersBalance, PaidOnWechatsWord
    <3>4. /\ ClosedIsClosedAtWechat' /\ CancelledByFirstClaimant'
          /\ SystemCancelsOnlyExpired' /\ CredentialsInv'
      BY <1>2, <3>1 DEF IInv, ClosedIsClosedAtWechat, CancelledByFirstClaimant,
         SystemCancelsOnlyExpired, CredentialsInv
    <3> QED BY <3>2, <3>3, <3>4
  <2> QED BY <2>1, <2>2
<1>4. HandlersSaw'
  BY RolesAreDisjoint DEF IInv, TypeOK, HandlersSaw
<1>5. ClaimsHonoured' /\ SystemSigns'
  BY DEF StillCreating, IInv, TypeOK, RowsAgree, ClaimsHonoured, SystemSigns
<1> QED BY <1>1, <1>3, <1>4, <1>5 DEF IInv

LEMMA RereadFailsIInv ==
  ASSUME IInv, NEW i \in Initializers, RereadFails(i) PROVE IInv'
<1> USE DEF RereadFails, Goto
<1>1. TypeOK'
  <2>1. at' \in [Handlers -> Labels]
    BY DEF IInv, TypeOK
  <2> QED BY <2>1 DEF IInv, TypeOK
<1> QED
  BY <1>1 DEF IInv, TypeOK, RowsAgree, CountersBalance, PaidOnWechatsWord, ClosedIsClosedAtWechat,
       CancelledByFirstClaimant, SystemCancelsOnlyExpired, CredentialsInv,
       HandlersSaw, ClaimsHonoured, SystemSigns

LEMMA DeliverIInv ==
  ASSUME IInv, NEW i \in Initializers, Deliver(i) PROVE IInv'
<1> USE DEF Deliver, Goto
<1>1. TypeOK'
  <2>1. wechat' \in Transaction
    BY DEF IInv, TypeOK
  <2>2. at' \in [Handlers -> Labels]
    BY DEF IInv, TypeOK
  <2> QED BY <2>1, <2>2 DEF IInv, TypeOK
<1> QED
  BY <1>1 DEF IInv, TypeOK, RowsAgree, CountersBalance, PaidOnWechatsWord, ClosedIsClosedAtWechat,
       CancelledByFirstClaimant, SystemCancelsOnlyExpired, CredentialsInv,
       HandlersSaw, ClaimsHonoured, SystemSigns

LEMMA MarkInitializationFailedIInv ==
  ASSUME IInv, NEW i \in Initializers, MarkInitializationFailed(i) PROVE IInv'
<1> USE DEF MarkInitializationFailed, StillCreating, Goto
<1>1. TypeOK'
  <2>1. payment' \in PaymentRow
    BY DEF IInv, TypeOK
  <2>2. at' \in [Handlers -> Labels]
    BY DEF IInv, TypeOK
  <2> QED BY <2>1, <2>2 DEF IInv, TypeOK
<1> QED
  BY <1>1 DEF IInv, TypeOK, RowsAgree, CountersBalance, PaidOnWechatsWord, ClosedIsClosedAtWechat,
       CancelledByFirstClaimant, SystemCancelsOnlyExpired, CredentialsInv,
       HandlersSaw, ClaimsHonoured, SystemSigns

LEMMA NotifyIInv ==
  ASSUME IInv, NEW n \in NotificationIds, Notify(n) PROVE IInv'
<1>1. /\ wechat.trade = "SUCCESS" /\ Settle(n)
      /\ answer' \in {"none", "accepted", "refused"}
      /\ UNCHANGED <<expired, configured, wechat, at, claim>>
  BY DEF Notify, Verified
<1>2. TypeOK'
  BY <1>1, SettleFacts DEF IInv, TypeOK
<1>3. HandlersSaw' /\ ClaimsHonoured' /\ SystemSigns'
  BY <1>1, SettleFacts DEF IInv, HandlersSaw, ClaimsHonoured, SystemSigns
<1> QED BY <1>1, <1>2, <1>3, SettleFacts DEF IInv

LEMMA PollReadIInv ==
  ASSUME IInv, NEW p \in Pollers, PollRead(p) PROVE IInv'
<1> USE DEF PollRead, Goto
<1>1. TypeOK'
  <2>1. at' \in [Handlers -> Labels]
    BY DEF IInv, TypeOK
  <2> QED BY <2>1 DEF IInv, TypeOK
<1> QED
  BY <1>1 DEF IInv, TypeOK, RowsAgree, CountersBalance, PaidOnWechatsWord, ClosedIsClosedAtWechat,
       CancelledByFirstClaimant, SystemCancelsOnlyExpired, CredentialsInv,
       HandlersSaw, ClaimsHonoured, SystemSigns

LEMMA PollAnsweredIInv ==
  ASSUME IInv, NEW p \in Pollers, PollAnswered(p) PROVE IInv'
<1> USE DEF PollAnswered, Goto
<1>1. TypeOK'
  <2>1. at' \in [Handlers -> Labels]
    BY DEF IInv, TypeOK
  <2> QED BY <2>1 DEF IInv, TypeOK
<1> QED
  BY <1>1 DEF IInv, TypeOK, RowsAgree, CountersBalance, PaidOnWechatsWord, ClosedIsClosedAtWechat,
       CancelledByFirstClaimant, SystemCancelsOnlyExpired, CredentialsInv,
       HandlersSaw, ClaimsHonoured, SystemSigns

LEMMA PollFailedIInv ==
  ASSUME IInv, NEW p \in Pollers, PollFailed(p) PROVE IInv'
<1> USE DEF PollFailed, Goto
<1>1. TypeOK'
  <2>1. at' \in [Handlers -> Labels]
    BY DEF IInv, TypeOK
  <2> QED BY <2>1 DEF IInv, TypeOK
<1> QED
  BY <1>1 DEF IInv, TypeOK, RowsAgree, CountersBalance, PaidOnWechatsWord, ClosedIsClosedAtWechat,
       CancelledByFirstClaimant, SystemCancelsOnlyExpired, CredentialsInv,
       HandlersSaw, ClaimsHonoured, SystemSigns

LEMMA RecordQueryStateIInv ==
  ASSUME IInv, NEW p \in Pollers, RecordQueryState(p) PROVE IInv'
<1> USE DEF RecordQueryState, Goto
<1>1. TypeOK'
  <2>1. payment' \in PaymentRow
    BY DEF IInv, TypeOK
  <2>2. at' \in [Handlers -> Labels]
    BY DEF IInv, TypeOK
  <2> QED BY <2>1, <2>2 DEF IInv, TypeOK
<1> QED
  BY <1>1 DEF IInv, TypeOK, RowsAgree, CountersBalance, PaidOnWechatsWord, ClosedIsClosedAtWechat,
       CancelledByFirstClaimant, SystemCancelsOnlyExpired, CredentialsInv,
       HandlersSaw, ClaimsHonoured, SystemSigns

LEMMA PollSettlesIInv ==
  ASSUME IInv, NEW p \in Pollers, PollSettles(p) PROVE IInv'
<1>1. /\ Settle(QueryId) /\ at' = [at EXCEPT ![p] = "idle"]
      /\ UNCHANGED claim
      /\ UNCHANGED <<expired, configured, wechat, answer>>
  BY DEF PollSettles, Goto
<1>2. wechat.trade = "SUCCESS"
  BY DEF PollSettles, IInv, HandlersSaw
<1>3. at' \in [Handlers -> Labels] /\ claim' \in [Closers -> Claim]
  BY <1>1 DEF IInv, TypeOK
<1>4. TypeOK'
  BY <1>1, <1>2, <1>3, SettleFacts DEF IInv, TypeOK
<1>5. HandlersSaw'
  BY <1>1, <1>2 DEF IInv, TypeOK, HandlersSaw
<1>6. ClaimsHonoured' /\ SystemSigns'
  BY <1>1, <1>2, SettleFacts DEF IInv, TypeOK, ClaimsHonoured, SystemSigns
<1> QED BY <1>1, <1>2, <1>4, <1>5, <1>6, SettleFacts DEF IInv

LEMMA ClaimCloseIInv ==
  ASSUME IInv, NEW c \in Closers, ClaimClose(c) PROVE IInv'
<1> USE DEF ClaimClose, MayClaim, AwaitingPayment, Goto
<1>1. /\ ActorType(c) \in Operators /\ ClosingOperator(c) \in Operators
      /\ ActorType(c) = "SYSTEM" => expired
      /\ ClosingOperator(c) = "SYSTEM" => expired
  BY DEF ActorType, ClosingOperator, IInv, TypeOK, SystemSigns
<1>2. CASE UNCHANGED payment /\ payment.status = "NONE"
  <2>1. /\ claim' = [claim EXCEPT ![c] = [withPayment |-> FALSE,
                                          operator |-> ActorType(c)]]
        /\ at' = [at EXCEPT ![c] = "finalize"]
    BY <1>2
  <2>2. at' \in [Handlers -> Labels] /\ claim' \in [Closers -> Claim]
    BY <1>1, <2>1 DEF IInv, TypeOK
  <2>3. TypeOK'
    BY <1>2, <2>2 DEF IInv, TypeOK
  <2>4. HandlersSaw' /\ ClaimsHonoured' /\ SystemSigns'
    BY <1>1, <1>2, <2>1 DEF IInv, TypeOK, HandlersSaw, ClaimsHonoured, SystemSigns
  <2> QED
    BY <1>2, <2>3, <2>4 DEF IInv, RowsAgree, CountersBalance, PaidOnWechatsWord,
       ClosedIsClosedAtWechat, CancelledByFirstClaimant, SystemCancelsOnlyExpired,
       CredentialsInv
<1>3. CASE payment.status \notin {"NONE", "SUCCESS"}
  <2> DEFINE op == ClosingOperator(c)
  <2>1. /\ payment' = [status |-> "CLOSING", failure |-> "none", operator |-> op,
                       leased |-> TRUE]
        /\ claim' = [claim EXCEPT ![c] = [withPayment |-> TRUE, operator |-> op]]
        /\ at' = [at EXCEPT ![c] = IF NeedsWechat THEN "query" ELSE "finalize"]
    BY <1>3
  <2>2. op \in Operators /\ (op = "SYSTEM" => expired)
    BY <1>1
  <2>3. payment.status = "CLOSING" => op = payment.operator
    BY DEF ClosingOperator
  <2> HIDE DEF op
  <2>4. /\ payment' \in PaymentRow /\ at' \in [Handlers -> Labels]
        /\ claim' \in [Closers -> Claim]
    BY <2>1, <2>2 DEF IInv, TypeOK
  <2>5. TypeOK'
    BY <2>4 DEF IInv, TypeOK
  <2>6. ~NeedsWechat => ~configured
    BY DEF NeedsWechat, IInv, RowsAgree, CredentialsInv
  <2>7. HandlersSaw'
    BY <2>1, <2>6 DEF IInv, TypeOK, HandlersSaw
  <2>8. ClaimsHonoured'
    BY <1>3, <2>1, <2>3 DEF IInv, TypeOK, RowsAgree, ClaimsHonoured
  <2>9. SystemSigns'
    BY <2>1, <2>2 DEF IInv, TypeOK, SystemSigns
  <2> QED
    BY <2>1, <2>5, <2>7, <2>8, <2>9 DEF IInv, RowsAgree, CountersBalance,
       PaidOnWechatsWord, ClosedIsClosedAtWechat, CancelledByFirstClaimant,
       SystemCancelsOnlyExpired, CredentialsInv
<1> QED BY <1>2, <1>3

LEMMA CloseQueryAnsweredIInv ==
  ASSUME IInv, NEW c \in Closers, CloseQueryAnswered(c) PROVE IInv'
<1> USE DEF CloseQueryAnswered, AfterQuery, Goto
<1>1. TypeOK'
  <2>1. at' \in [Handlers -> Labels]
    BY DEF IInv, TypeOK
  <2> QED BY <2>1 DEF IInv, TypeOK
<1> QED
  BY <1>1 DEF IInv, TypeOK, RowsAgree, CountersBalance, PaidOnWechatsWord, ClosedIsClosedAtWechat,
       CancelledByFirstClaimant, SystemCancelsOnlyExpired, CredentialsInv,
       HandlersSaw, ClaimsHonoured, SystemSigns

LEMMA CloseQueryFailedIInv ==
  ASSUME IInv, NEW c \in Closers, CloseQueryFailed(c) PROVE IInv'
<1> USE DEF CloseQueryFailed, Goto
<1>1. TypeOK'
  <2>1. at' \in [Handlers -> Labels]
    BY DEF IInv, TypeOK
  <2> QED BY <2>1 DEF IInv, TypeOK
<1> QED
  BY <1>1 DEF IInv, TypeOK, RowsAgree, CountersBalance, PaidOnWechatsWord, ClosedIsClosedAtWechat,
       CancelledByFirstClaimant, SystemCancelsOnlyExpired, CredentialsInv,
       HandlersSaw, ClaimsHonoured, SystemSigns

LEMMA CloseAcceptedIInv ==
  ASSUME IInv, NEW c \in Closers, CloseAccepted(c) PROVE IInv'
<1> USE DEF CloseAccepted, Goto
<1>1. TypeOK'
  <2>1. wechat' \in Transaction
    BY DEF IInv, TypeOK
  <2>2. at' \in [Handlers -> Labels]
    BY DEF IInv, TypeOK
  <2> QED BY <2>1, <2>2 DEF IInv, TypeOK
<1> QED
  BY <1>1 DEF IInv, TypeOK, RowsAgree, CountersBalance, PaidOnWechatsWord, ClosedIsClosedAtWechat,
       CancelledByFirstClaimant, SystemCancelsOnlyExpired, CredentialsInv,
       HandlersSaw, ClaimsHonoured, SystemSigns

LEMMA CloseFailedIInv ==
  ASSUME IInv, NEW c \in Closers, CloseFailed(c) PROVE IInv'
<1> USE DEF CloseFailed, Goto
<1>1. TypeOK'
  <2>1. wechat' \in Transaction
    BY DEF IInv, TypeOK
  <2>2. at' \in [Handlers -> Labels]
    BY DEF IInv, TypeOK
  <2> QED BY <2>1, <2>2 DEF IInv, TypeOK
<1> QED
  BY <1>1 DEF IInv, TypeOK, RowsAgree, CountersBalance, PaidOnWechatsWord, ClosedIsClosedAtWechat,
       CancelledByFirstClaimant, SystemCancelsOnlyExpired, CredentialsInv,
       HandlersSaw, ClaimsHonoured, SystemSigns

LEMMA RecordCloseFailureIInv ==
  ASSUME IInv, NEW c \in Closers, RecordCloseFailure(c) PROVE IInv'
<1> USE DEF RecordCloseFailure, Return, Goto
<1>1. TypeOK'
  <2>1. payment' \in PaymentRow
    BY DEF IInv, TypeOK
  <2>2. at' \in [Handlers -> Labels]
    BY DEF IInv, TypeOK
  <2>3. claim' \in [Closers -> Claim]
    BY DEF IInv, TypeOK
  <2> QED BY <2>1, <2>2, <2>3 DEF IInv, TypeOK
<1> QED
  BY <1>1 DEF IInv, TypeOK, RowsAgree, CountersBalance, PaidOnWechatsWord, ClosedIsClosedAtWechat,
       CancelledByFirstClaimant, SystemCancelsOnlyExpired, CredentialsInv,
       HandlersSaw, ClaimsHonoured, SystemSigns

LEMMA CloseSettlesIInv ==
  ASSUME IInv, NEW c \in Closers, CloseSettles(c) PROVE IInv'
<1>1. /\ Settle(QueryId) /\ at' = [at EXCEPT ![c] = "idle"]
      /\ claim' = [claim EXCEPT ![c] = NoClaim]
      /\ UNCHANGED <<expired, configured, wechat, answer>>
  BY DEF CloseSettles, Return, Goto
<1>2. wechat.trade = "SUCCESS"
  BY DEF CloseSettles, IInv, HandlersSaw
<1>3. at' \in [Handlers -> Labels] /\ claim' \in [Closers -> Claim]
  BY <1>1 DEF IInv, TypeOK
<1>4. TypeOK'
  BY <1>1, <1>2, <1>3, SettleFacts DEF IInv, TypeOK
<1>5. HandlersSaw'
  BY <1>1, <1>2 DEF IInv, TypeOK, HandlersSaw
<1>6. ClaimsHonoured' /\ SystemSigns'
  BY <1>1, <1>2, SettleFacts DEF IInv, TypeOK, ClaimsHonoured, SystemSigns
<1> QED BY <1>1, <1>2, <1>4, <1>5, <1>6, SettleFacts DEF IInv

LEMMA FinalizeCloseIInv ==
  ASSUME IInv, NEW c \in Closers, FinalizeClose(c) PROVE IInv'
<1> USE DEF FinalizeClose, AwaitingPayment, Return, Goto
<1>1. claim[c] \in Claim
  BY DEF IInv, TypeOK
<1>2. at' \in [Handlers -> Labels] /\ claim' \in [Closers -> Claim]
  BY DEF IInv, TypeOK
<1>3. CASE ~MayFinalize(c)
  BY <1>2, <1>3 DEF IInv, TypeOK, RowsAgree, CountersBalance, PaidOnWechatsWord,
     ClosedIsClosedAtWechat, CancelledByFirstClaimant, SystemCancelsOnlyExpired,
     CredentialsInv, HandlersSaw, ClaimsHonoured, SystemSigns
<1>4. CASE MayFinalize(c)
  <2> DEFINE op == claim[c].operator
  <2>1. /\ order' = [status |-> "CANCELLED", stockReleased |-> TRUE, operator |-> op]
        /\ product' = [product EXCEPT !.stock = @ + 1]
        /\ order.status = "PENDING_PAYMENT" /\ ~order.stockReleased
        /\ payment.status # "SUCCESS"
    BY <1>4 DEF MayFinalize
  <2>2. op \in Operators /\ (op = "SYSTEM" => expired)
    BY <1>1 DEF IInv, SystemSigns
  <2>3. claim[c].withPayment => op = payment.operator
    BY DEF IInv, ClaimsHonoured
  <2> HIDE DEF op
  <2>4. order' \in OrderRow /\ product' \in [stock : Int, sales : Int]
    BY <2>1, <2>2 DEF IInv, TypeOK
  <2>5. CASE claim[c].withPayment
    <3>1. payment' = [payment EXCEPT !.status = "CLOSED", !.failure = "none",
                                     !.leased = FALSE]
      BY <1>4, <2>5
    <3>2. payment' \in PaymentRow
      BY <3>1 DEF IInv, TypeOK
    <3>3. wechat.trade = "CLOSED" \/ (~configured /\ wechat.trade = "NONE")
      BY <2>5 DEF IInv, HandlersSaw, CredentialsInv
    <3>4. /\ payment'.status = "CLOSED" /\ payment'.operator = payment.operator
          /\ payment'.failure = "none"
      BY <3>1 DEF IInv, TypeOK
    <3>5. TypeOK'
      BY <1>2, <2>4, <3>2 DEF IInv, TypeOK
    <3>6. RowsAgree' /\ CountersBalance' /\ PaidOnWechatsWord'
      BY <2>1, <3>4 DEF IInv, TypeOK, RowsAgree, CountersBalance, PaidOnWechatsWord
    <3>7. /\ ClosedIsClosedAtWechat' /\ CancelledByFirstClaimant'
          /\ SystemCancelsOnlyExpired' /\ CredentialsInv'
      BY <2>1, <2>2, <2>3, <2>5, <3>3, <3>4 DEF IInv, ClosedIsClosedAtWechat,
         CancelledByFirstClaimant, SystemCancelsOnlyExpired, CredentialsInv
    <3>8. HandlersSaw' /\ ClaimsHonoured' /\ SystemSigns'
      BY <3>4 DEF IInv, TypeOK, HandlersSaw, ClaimsHonoured, SystemSigns
    <3> QED BY <3>5, <3>6, <3>7, <3>8 DEF IInv
  <2>6. CASE ~claim[c].withPayment
    <3>1. UNCHANGED payment
      BY <1>4, <2>6
    <3>2. TypeOK'
      BY <1>2, <2>4, <3>1 DEF IInv, TypeOK
    <3>3. RowsAgree' /\ CountersBalance' /\ PaidOnWechatsWord'
      BY <2>1, <3>1 DEF IInv, TypeOK, RowsAgree, CountersBalance, PaidOnWechatsWord
    <3>4. /\ ClosedIsClosedAtWechat' /\ CancelledByFirstClaimant'
          /\ SystemCancelsOnlyExpired' /\ CredentialsInv'
      BY <2>1, <2>2, <3>1 DEF IInv, RowsAgree, ClosedIsClosedAtWechat,
         CancelledByFirstClaimant, SystemCancelsOnlyExpired, CredentialsInv
    <3>5. HandlersSaw' /\ ClaimsHonoured' /\ SystemSigns'
      BY <3>1 DEF IInv, TypeOK, HandlersSaw, ClaimsHonoured, SystemSigns
    <3> QED BY <3>2, <3>3, <3>4, <3>5 DEF IInv
  <2> QED BY <2>5, <2>6
<1> QED BY <1>3, <1>4

LEMMA TransitionAdminIInv ==
  ASSUME IInv, NEW to \in OrderStatuses, TransitionAdmin(to) PROVE IInv'
<1> USE DEF TransitionAdmin, AdminTransitions
<1>1. TypeOK'
  <2>1. order' \in OrderRow
    BY DEF IInv, TypeOK
  <2> QED BY <2>1 DEF IInv, TypeOK
<1> QED
  BY <1>1 DEF IInv, TypeOK, RowsAgree, CountersBalance, PaidOnWechatsWord, ClosedIsClosedAtWechat,
       CancelledByFirstClaimant, SystemCancelsOnlyExpired, CredentialsInv,
       HandlersSaw, ClaimsHonoured, SystemSigns

LEMMA CrashIInv ==
  ASSUME IInv, NEW h \in Handlers, Crash(h) PROVE IInv'
<1> USE DEF Crash, Goto
<1>1. TypeOK'
  <2>1. at' \in [Handlers -> Labels]
    BY DEF IInv, TypeOK
  <2>2. claim' \in [Closers -> Claim]
    BY DEF IInv, TypeOK
  <2> QED BY <2>1, <2>2 DEF IInv, TypeOK
<1> QED
  BY <1>1 DEF IInv, TypeOK, RowsAgree, CountersBalance, PaidOnWechatsWord, ClosedIsClosedAtWechat,
       CancelledByFirstClaimant, SystemCancelsOnlyExpired, CredentialsInv,
       HandlersSaw, ClaimsHonoured, SystemSigns

LEMMA LateRequestIInv ==
  ASSUME IInv, NEW request \in {"create", "close"}, LateRequest(request) PROVE IInv'
<1> USE DEF LateRequest
<1>1. TypeOK'
  <2>1. wechat' \in Transaction
    BY DEF IInv, TypeOK
  <2> QED BY <2>1 DEF IInv, TypeOK
<1> QED
  BY <1>1 DEF IInv, TypeOK, RowsAgree, CountersBalance, PaidOnWechatsWord, ClosedIsClosedAtWechat,
       CancelledByFirstClaimant, SystemCancelsOnlyExpired, CredentialsInv,
       HandlersSaw, ClaimsHonoured, SystemSigns

LEMMA ExpireIInv == ASSUME IInv, Expire PROVE IInv'
BY DEF Expire, IInv, TypeOK, RowsAgree, CountersBalance, PaidOnWechatsWord, ClosedIsClosedAtWechat,
       CancelledByFirstClaimant, SystemCancelsOnlyExpired, CredentialsInv,
       HandlersSaw, ClaimsHonoured, SystemSigns

LEMMA LeaseLapsesIInv == ASSUME IInv, LeaseLapses PROVE IInv'
<1>1. payment' \in PaymentRow
  BY DEF LeaseLapses, IInv, TypeOK
<1>2. /\ payment'.status = payment.status /\ payment'.failure = payment.failure
      /\ payment'.operator = payment.operator
  BY DEF LeaseLapses, IInv, TypeOK
<1> QED
  BY <1>1, <1>2 DEF LeaseLapses, IInv, TypeOK, RowsAgree, CountersBalance, PaidOnWechatsWord, ClosedIsClosedAtWechat,
       CancelledByFirstClaimant, SystemCancelsOnlyExpired, CredentialsInv,
       HandlersSaw, ClaimsHonoured, SystemSigns

\* What happens at the cashier changes only the trade state, and neither a paid nor a
\* closed transaction is touched.
LEMMA CashierIInv ==
  ASSUME IInv, OpenCashier \/ LeaveCashier \/ UserPays PROVE IInv'
<1>1. PICK trade \in {"USERPAYING", "NOTPAY", "SUCCESS"} :
        /\ SetTrade(trade)
        /\ wechat.trade \in {"NOTPAY", "USERPAYING"}
  BY DEF OpenCashier, LeaveCashier, UserPays
<1>2. wechat' = [wechat EXCEPT !.trade = trade]
  BY <1>1 DEF SetTrade
<1>3. TypeOK'
  BY <1>1, <1>2 DEF SetTrade, IInv, TypeOK
<1> QED
  BY <1>1, <1>2, <1>3 DEF SetTrade, IInv, TypeOK, RowsAgree, CountersBalance, PaidOnWechatsWord, ClosedIsClosedAtWechat,
     CancelledByFirstClaimant, SystemCancelsOnlyExpired, CredentialsInv,
     HandlersSaw, ClaimsHonoured, SystemSigns

LEMMA NextIInv == IInv /\ [Next]_vars => IInv'
<1> SUFFICES ASSUME IInv, [Next]_vars PROVE IInv'
  OBVIOUS
<1>1. CASE \E i \in Initializers : Initialize(i)
  BY <1>1, PrepareIInv, CreateAcceptedIInv, CreateFailedIInv, AttachPrepayIInv,
     RereadFailsIInv, DeliverIInv, MarkInitializationFailedIInv DEF Initialize
<1>2. CASE \E p \in Pollers : Status(p)
  BY <1>2, PollReadIInv, PollAnsweredIInv, PollFailedIInv, RecordQueryStateIInv,
     PollSettlesIInv DEF Status
<1>3. CASE \E c \in Closers : Close(c)
  <2> HIDE DEF Closers
  <2> QED
    BY <1>3, ClaimCloseIInv, CloseQueryAnsweredIInv, CloseQueryFailedIInv,
       CloseAcceptedIInv, CloseFailedIInv, RecordCloseFailureIInv, CloseSettlesIInv,
       FinalizeCloseIInv DEF Close
<1>4. CASE \E n \in NotificationIds : Notify(n)
  BY <1>4, NotifyIInv
<1>5. CASE \E to \in OrderStatuses : TransitionAdmin(to)
  BY <1>5, TransitionAdminIInv
<1>6. CASE \E h \in Handlers : Crash(h)
  BY <1>6, CrashIInv
<1>7. CASE Environment
  BY <1>7, ExpireIInv, LeaseLapsesIInv, CashierIInv, LateRequestIInv DEF Environment
<1>8. CASE UNCHANGED vars
  BY <1>8 DEF vars, IInv, TypeOK, RowsAgree, CountersBalance, PaidOnWechatsWord, ClosedIsClosedAtWechat,
     CancelledByFirstClaimant, SystemCancelsOnlyExpired, CredentialsInv,
     HandlersSaw, ClaimsHonoured, SystemSigns
<1> QED BY <1>1, <1>2, <1>3, <1>4, <1>5, <1>6, <1>7, <1>8 DEF Next

\* The inductive invariant holds of every behaviour: types, the agreement of the
\* order and payment rows, and what handlers carry between their steps.
THEOREM Invariance == Spec => []IInv
<1>1. Init => IInv
  BY InitIInv
<1>2. IInv /\ [Next]_vars => IInv'
  BY NextIInv
<1> QED BY <1>1, <1>2, PTL DEF Spec

THEOREM TypeCorrect == Spec => []TypeOK
<1>1. IInv => TypeOK
  BY DEF IInv
<1> QED BY <1>1, Invariance, PTL

\* Stock goes back exactly once, for a cancelled order, and a sale is counted exactly
\* once, for a paid one, with any number of closers, pollers and notifications.
THEOREM CountersStayBalanced == Spec => []CountersBalance
<1>1. IInv => CountersBalance
  BY DEF IInv
<1> QED BY <1>1, Invariance, PTL

\* No order counts as paid unless WeChat holds the money and said so.
THEOREM PaidIsTrusted == Spec => []PaidOnWechatsWord
<1>1. IInv => PaidOnWechatsWord
  BY DEF IInv
<1> QED BY <1>1, Invariance, PTL

\* A payment the server marks CLOSED can never be paid.
THEOREM ClosedCannotBePaid == Spec => []ClosedIsClosedAtWechat
<1>1. IInv => ClosedIsClosedAtWechat
  BY DEF IInv
<1> QED BY <1>1, Invariance, PTL

\* Whoever claimed the close first signs the cancellation.
THEOREM FirstClaimantSigns == Spec => []CancelledByFirstClaimant
<1>1. IInv => CancelledByFirstClaimant
  BY DEF IInv
<1> QED BY <1>1, Invariance, PTL

-----------------------------------------------------------------------------
(* Two facts about single steps. *)

\* Only settling, finalizing and the back office change the order or its counters;
\* any other step may at most move a payment that is neither paid nor closed.
LEMMA KeepsRows ==
  ASSUME IInv, [Next]_vars
  PROVE  \/ /\ UNCHANGED <<order, product>>
            /\ \/ payment'.status = payment.status
               \/ payment.status \notin {"SUCCESS", "CLOSED"}
         \/ \E id \in NotificationIds \cup {QueryId} : Settles(id) /\ Settle(id)
         \/ \E c \in Closers : MayFinalize(c) /\ FinalizeClose(c)
         \/ \E to \in OrderStatuses : TransitionAdmin(to)
<1> USE DEF IInv, TypeOK, RowsAgree
<1>1. CASE \E i \in Initializers : Initialize(i)
  <2>1. PICK i \in Initializers : Initialize(i)
    BY <1>1
  <2>2. CASE Prepare(i) \/ AttachPrepay(i) \/ MarkInitializationFailed(i)
    BY <2>2 DEF Prepare, Reusable, AwaitingPayment, AttachPrepay, StillCreating,
       MarkInitializationFailed
  <2>3. CASE CreateAccepted(i) \/ CreateFailed(i) \/ RereadFails(i) \/ Deliver(i)
    BY <2>3 DEF CreateAccepted, CreateFailed, RereadFails, Deliver
  <2> QED BY <2>1, <2>2, <2>3 DEF Initialize
<1>2. CASE \E p \in Pollers : Status(p)
  <2>1. PICK p \in Pollers : Status(p)
    BY <1>2
  <2>2. CASE PollSettles(p)
    BY <2>2 DEF PollSettles, Settle
  <2>3. CASE RecordQueryState(p)
    BY <2>3 DEF RecordQueryState
  <2>4. CASE PollRead(p) \/ PollAnswered(p) \/ PollFailed(p)
    BY <2>4 DEF PollRead, PollAnswered, PollFailed
  <2> QED BY <2>1, <2>2, <2>3, <2>4 DEF Status
<1>3. CASE \E c \in Closers : Close(c)
  <2>1. PICK c \in Closers : Close(c)
    BY <1>3
  <2>2. CASE CloseSettles(c)
    BY <2>2 DEF CloseSettles, Settle
  <2>3. CASE FinalizeClose(c)
    BY <2>3 DEF FinalizeClose
  <2>4. CASE RecordCloseFailure(c)
    BY <2>4 DEF RecordCloseFailure
  <2>5. CASE ClaimClose(c)
    BY <2>5 DEF ClaimClose, MayClaim, AwaitingPayment
  <2>6. CASE \/ CloseQueryAnswered(c) \/ CloseQueryFailed(c)
            \/ CloseAccepted(c) \/ CloseFailed(c)
    BY <2>6 DEF CloseQueryAnswered, CloseQueryFailed, CloseAccepted, CloseFailed
  <2> QED BY <2>1, <2>2, <2>3, <2>4, <2>5, <2>6 DEF Close
<1>4. CASE \E n \in NotificationIds : Notify(n)
  BY <1>4 DEF Notify, Settle
<1>5. CASE \E to \in OrderStatuses : TransitionAdmin(to)
  BY <1>5
<1>6. CASE \E h \in Handlers : Crash(h)
  BY <1>6 DEF Crash
<1>7. CASE Environment
  BY <1>7 DEF Environment, Expire, LeaseLapses, OpenCashier, LeaveCashier, UserPays,
     SetTrade, LateRequest
<1>8. CASE UNCHANGED vars
  BY <1>8 DEF vars
<1> QED BY <1>1, <1>2, <1>3, <1>4, <1>5, <1>6, <1>7, <1>8 DEF Next

\* A payment that succeeded or was closed never changes its status again.
THEOREM FinalPaymentsStay == Spec => PaymentIsFinal
<1>1. ASSUME IInv, [Next]_vars, payment.status \in {"SUCCESS", "CLOSED"}
      PROVE  payment'.status = payment.status
  <2>1. order.status # "PENDING_PAYMENT" /\ ~AwaitingPayment
    BY <1>1 DEF IInv, RowsAgree, AwaitingPayment
  <2>2. \A id : ~Settles(id)
    BY <2>1 DEF Settles
  <2>3. \A c \in Closers : ~MayFinalize(c)
    BY <2>1 DEF MayFinalize
  <2> QED
    BY <1>1, <2>2, <2>3, KeepsRows DEF TransitionAdmin, IInv, RowsAgree
<1> QED BY <1>1, Invariance, PTL DEF Spec, PaymentIsFinal

\* Parameters that were not on their way to the resident when a close claimed the
\* payment never get there: prepare hands out only a PENDING payment's, attachPrepay
\* only a CREATING one's, and a claim leaves neither.  Those that were on their way
\* (initialize between its last write or read and its return) may still arrive.
THEOREM ClaimedPaymentsAreCutOff == Spec => ClosingCutsOffCashier
<1>1. ASSUME IInv, [Next]_vars, payment.status \in {"CLOSING", "CLOSED"}
      PROVE  /\ Bearers' \subseteq Bearers
             /\ wechat'.delivered => wechat.delivered \/ Bearers # {}
  <2> USE <1>1 DEF Bearers
  <2>1. wechat \in Transaction /\ at \in [Handlers -> Labels]
    BY DEF IInv, TypeOK
  <2>2. CASE \E i \in Initializers : Initialize(i)
    <3>1. PICK i \in Initializers : Initialize(i)
      BY <2>2
    <3>2. ~Prepare(i)
      BY DEF Prepare, Reusable
    <3>3. CASE AttachPrepay(i)
      BY <2>1, <3>3 DEF AttachPrepay, StillCreating, Goto
    <3>4. CASE Deliver(i)
      BY <2>1, <3>4 DEF Deliver, Goto
    <3>5. CASE CreateAccepted(i) \/ CreateFailed(i)
      BY <2>1, <3>5 DEF CreateAccepted, CreateFailed, Goto, Transaction
    <3>6. CASE RereadFails(i) \/ MarkInitializationFailed(i)
      BY <2>1, <3>6 DEF RereadFails, MarkInitializationFailed, Goto
    <3> QED BY <3>1, <3>2, <3>3, <3>4, <3>5, <3>6 DEF Initialize
  <2>3. CASE \E p \in Pollers : Status(p)
    <3>1. PICK p \in Pollers, label \in Labels :
            Goto(p, label) /\ UNCHANGED wechat
      BY <2>3 DEF Status, PollRead, PollAnswered, PollFailed, RecordQueryState,
         PollSettles
    <3> QED BY <2>1, <3>1, RolesAreDisjoint DEF Goto
  <2>4. CASE \E c \in Closers : Close(c)
    <3>1. PICK c \in Closers : Close(c)
      BY <2>4
    <3>2. \E label \in Labels : Goto(c, label)
      BY <3>1 DEF Close, ClaimClose, CloseQueryAnswered, AfterQuery, CloseQueryFailed,
         CloseAccepted, CloseFailed, RecordCloseFailure, CloseSettles, FinalizeClose,
         Return
    <3>3. wechat'.delivered = wechat.delivered
      BY <2>1, <3>1 DEF Close, ClaimClose, CloseQueryAnswered, CloseQueryFailed,
         CloseAccepted, CloseFailed, RecordCloseFailure, CloseSettles, FinalizeClose,
         Transaction
    <3> QED BY <2>1, <3>2, <3>3, RolesAreDisjoint DEF Goto
  <2>5. CASE \E n \in NotificationIds : Notify(n)
    BY <2>5 DEF Notify
  <2>6. CASE Environment
    BY <2>1, <2>6 DEF Environment, Expire, LeaseLapses, OpenCashier, LeaveCashier, UserPays,
       SetTrade, LateRequest, Transaction
  <2>7. CASE \E h \in Handlers : Crash(h)
    BY <2>1, <2>7 DEF Crash, Goto
  <2> QED
    BY <2>2, <2>3, <2>4, <2>5, <2>6, <2>7 DEF Next, TransitionAdmin, vars
<1> QED BY <1>1, Invariance, PTL DEF Spec, ClosingCutsOffCashier

\* Every step, seen through the order's status and counters, is a move of the order's
\* lifecycle or none: the payment protocol implements OrderLifecycle.
THEOREM PaymentImplementsLifecycle == Spec => ImplementsLifecycle
<1> USE DEF Lifecycle!vars, Lifecycle!Settled
<1>1. Init => Lifecycle!Init
  BY DEF Init, Lifecycle!Init
<1>2. ASSUME IInv, [Next]_vars PROVE [Lifecycle!Next]_(Lifecycle!vars)
  <2> USE DEF IInv, TypeOK
  <2>1. CASE UNCHANGED <<order, product>>
    BY <2>1
  <2>2. ASSUME NEW id \in NotificationIds \cup {QueryId}, Settles(id), Settle(id)
        PROVE  Lifecycle!Pay
    <3>1. order.status = "PENDING_PAYMENT" /\ order' = [order EXCEPT !.status = "PAID"]
      BY <2>2 DEF Settles, Settle, AwaitingPayment
    <3>2. product' = [product EXCEPT !.sales = @ + 1]
      BY <2>2 DEF Settle
    <3>3. order'.status = "PAID"
      BY <3>1
    <3>4. product'.sales = product.sales + 1 /\ product'.stock = product.stock
      BY <3>2
    <3> QED BY <3>1, <3>3, <3>4 DEF Lifecycle!Pay
  <2>3. ASSUME NEW c \in Closers, MayFinalize(c), FinalizeClose(c)
        PROVE  Lifecycle!Cancel
    <3>1. order.status = "PENDING_PAYMENT" /\ order'.status = "CANCELLED"
      BY <2>3 DEF MayFinalize, FinalizeClose, AwaitingPayment
    <3>2. product' = [product EXCEPT !.stock = @ + 1]
      BY <2>3 DEF FinalizeClose
    <3>3. product'.stock = product.stock + 1 /\ product'.sales = product.sales
      BY <3>2
    <3> QED BY <3>1, <3>3 DEF Lifecycle!Cancel
  <2>4. ASSUME NEW to \in OrderStatuses, TransitionAdmin(to)
        PROVE  Lifecycle!Fulfil
    BY <2>4 DEF TransitionAdmin, AdminTransitions, Lifecycle!Fulfil,
       Lifecycle!Fulfilment, Lifecycle!Statuses
  <2> QED
    BY <1>2, <2>1, <2>2, <2>3, <2>4, KeepsRows DEF Lifecycle!Next
<1> QED
  BY <1>1, <1>2, Invariance, PTL DEF Spec, ImplementsLifecycle, Lifecycle!Spec

=============================================================================
