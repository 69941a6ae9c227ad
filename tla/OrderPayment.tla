---------------------------- MODULE OrderPayment ----------------------------
(***************************************************************************)
(* Paying for and closing one order.  The handlers of the server run       *)
(* concurrently and talk to two things they do not control: the database   *)
(* (short transactions that lock the order row, then the payment row) and  *)
(* WeChat Pay (requests that fail, whose replies get lost, or that take    *)
(* effect after the caller gave up).  No lock is held across a request to  *)
(* WeChat, so every handler is a process whose steps are its database      *)
(* transactions and its requests, and it may die between any two of them.  *)
(*                                                                         *)
(*   Initializers  PaymentService.initialize   (the resident taps "pay")   *)
(*   Residents, Admins, Jobs   OrderClosingService.close, called by the    *)
(*                 resident, the back office and the expiry job            *)
(*   Pollers       PaymentService.status                                   *)
(*   Notify        PaymentService.notify       (one transaction)           *)
(*                                                                         *)
(* A handler that ends returns to "idle" and can be called again, so each  *)
(* name stands for a stream of calls.  A call that the code refuses        *)
(* changes nothing and is the absence of a step.                           *)
(*                                                                         *)
(* claimClose reads its order under lockOrder and its payment from the     *)
(* transaction's REPEATABLE READ snapshot, which attachPrepay and the like *)
(* (they take no order lock) may outdate before lockPayment returns.  What *)
(* they write then, claimClose overwrites, as if it had come first or had  *)
(* come second; so each transaction is one step here.                      *)
(***************************************************************************)
EXTENDS Integers

CONSTANTS Initializers, Residents, Admins, Jobs, Pollers,
          NotificationIds,  \* ids WeChat gives to its notifications
          QueryId           \* the id a query's answer is recorded under

Closers == Residents \cup Admins \cup Jobs
Handlers == Initializers \cup Closers \cup Pollers

ASSUME RolesAreDisjoint ==
  /\ Initializers \cap (Closers \cup Pollers) = {}
  /\ Closers \cap Pollers = {}
  /\ QueryId \notin NotificationIds

VARIABLES
  order,       \* row of orders: status, stockReleased, operator of the cancel log
  payment,     \* row of payments ("NONE": no row yet); `leased' says that it is
               \* CREATING or CLOSING and claimTime > now - leaseMs
  product,     \* the order's share of products.stock and products.sales_volume
  notified,    \* notification ids in payment_notifications
  expired,     \* has order.expiresAt passed?
  configured,  \* does the deployment hold WeChat Pay credentials?
  wechat,      \* the transaction at WeChat
  answer,      \* what the latest notification was answered with
  at,          \* where each handler is in its code
  claim        \* what claimClose returned to each closer

dbVars == <<order, payment, product, notified>>
vars == <<order, payment, product, notified, expired, configured, wechat,
          answer, at, claim>>

PaymentStatuses == {"NONE", "CREATING", "PENDING", "SUCCESS", "FAILED",
                    "CLOSING", "CLOSED"}
OrderStatuses == {"PENDING_PAYMENT", "PAID", "ACCEPTED", "PREPARING",
                  "WAITING_DELIVERY", "DELIVERING", "COMPLETED", "CANCELLED"}
Settled == OrderStatuses \ {"PENDING_PAYMENT", "CANCELLED"}
Operators == {"NONE", "USER", "ADMIN", "SYSTEM"}
Trades == {"NONE", "NOTPAY", "USERPAYING", "SUCCESS", "CLOSED"}
Labels == {"idle", "create", "attach", "reread", "deliver", "fail", "query", "close",
           "confirm", "settle", "finalize", "record"}

NoClaim == [withPayment |-> FALSE, operator |-> "NONE"]

Init ==
  /\ order = [status |-> "PENDING_PAYMENT", stockReleased |-> FALSE,
              operator |-> "NONE"]
  /\ payment = [status |-> "NONE", failure |-> "none", operator |-> "NONE",
                leased |-> FALSE]
  /\ product = [stock |-> 0, sales |-> 0]
  /\ notified = {}
  /\ expired = FALSE
  /\ configured \in BOOLEAN
  /\ wechat = [trade |-> "NONE", delivered |-> FALSE, late |-> {}]
  /\ answer = "none"
  /\ at = [h \in Handlers |-> "idle"]
  /\ claim = [c \in Closers |-> NoClaim]

Goto(h, label) == at' = [at EXCEPT ![h] = label]

\* The definitions named Mutant... are wrong on purpose: each stands for a bug that
\* the property it is paired with in PROJECT.json has to notice.
MutantActorType(c) == IF c \in Residents THEN "USER" ELSE "WECHAT"

ActorType(c) == CASE c \in Residents -> "USER"
                  [] c \in Admins    -> "ADMIN"
                  [] OTHER           -> "SYSTEM"

AwaitingPayment == order.status = "PENDING_PAYMENT" /\ ~order.stockReleased

-----------------------------------------------------------------------------
(* PaymentService.initialize *)

MutantReusable == payment.status \in {"PENDING", "CLOSING"}

Reusable == payment.status = "PENDING"

\* What attachPrepay and markInitializationFailed require of the row they update.
MutantStillCreating == TRUE

StillCreating == payment.status = "CREATING"

\* paymentRepository.prepare: reuse a live prepay, or claim the row by CREATING.
\* A PENDING row always has a prepay id that lives as long as the order does.
Prepare(i) ==
  /\ at[i] = "idle"
  /\ AwaitingPayment /\ ~expired
  /\ \/ /\ Reusable
        /\ Goto(i, "deliver")
        /\ UNCHANGED payment
     \/ /\ payment.status \in {"NONE", "FAILED"}
        /\ payment' = [payment EXCEPT !.status = "CREATING", !.failure = "none",
                                      !.leased = TRUE]
        /\ Goto(i, "create")
  /\ UNCHANGED <<order, product, notified, expired, configured, wechat, answer, claim>>

\* provider.createTransaction answers with a prepay id.
CreateAccepted(i) ==
  /\ at[i] = "create"
  /\ configured
  /\ wechat.trade \in {"NONE", "NOTPAY"}
  /\ wechat' = [wechat EXCEPT !.trade = "NOTPAY"]
  /\ Goto(i, "attach")
  /\ UNCHANGED <<dbVars, expired, configured, answer, claim>>

\* It throws: no credentials, refused, or no answer in time, in which case the
\* request may still reach WeChat later.
CreateFailed(i) ==
  /\ at[i] = "create"
  /\ \/ UNCHANGED wechat
     \/ configured /\ wechat' = [wechat EXCEPT !.late = @ \cup {"create"}]
  /\ Goto(i, "fail")
  /\ UNCHANGED <<dbVars, expired, configured, answer, claim>>

\* attachPrepay writes only to a row that is still CREATING, and reads the row again
\* before it returns.
AttachPrepay(i) ==
  /\ at[i] = "attach"
  /\ IF StillCreating
     THEN /\ payment' = [payment EXCEPT !.status = "PENDING", !.failure = "none",
                                        !.leased = FALSE]
          /\ Goto(i, "reread")
     ELSE Goto(i, "fail") /\ UNCHANGED payment
  /\ UNCHANGED <<order, product, notified, expired, configured, wechat, answer, claim>>

RereadFails(i) ==
  /\ at[i] = "reread"
  /\ Goto(i, "fail")
  /\ UNCHANGED <<dbVars, expired, configured, wechat, answer, claim>>

\* initialize returns and the resident holds the parameters, whatever has become of
\* the payment since its row was written or read.
Deliver(i) ==
  /\ at[i] \in {"reread", "deliver"}
  /\ wechat' = [wechat EXCEPT !.delivered = TRUE]
  /\ Goto(i, "idle")
  /\ UNCHANGED <<dbVars, expired, configured, answer, claim>>

MarkInitializationFailed(i) ==
  /\ at[i] = "fail"
  /\ payment' = IF StillCreating
                THEN [payment EXCEPT
                        !.status = "FAILED",
                        !.failure = IF configured THEN "other" ELSE "not_configured",
                        !.leased = FALSE]
                ELSE payment
  /\ Goto(i, "idle")
  /\ UNCHANGED <<order, product, notified, expired, configured, wechat, answer, claim>>

-----------------------------------------------------------------------------
(* paymentRepository.completeSuccess, the one transaction that settles an    *)
(* order: called for notifications, for polls, and by a close that finds the *)
(* transaction paid.                                                         *)

Replayed(id) == \/ id \in notified
                \/ payment.status = "SUCCESS" /\ order.status = "PAID"

MutantSettles(id) == ~Replayed(id) /\ payment.status \notin {"NONE", "CLOSED"}

Settles(id) == /\ ~Replayed(id)
               /\ AwaitingPayment
               /\ payment.status \notin {"NONE", "CLOSED"}

Settle(id) ==
  IF Settles(id)
  THEN /\ order' = [order EXCEPT !.status = "PAID"]
       /\ payment' = [payment EXCEPT !.status = "SUCCESS", !.failure = "none",
                                     !.leased = FALSE]
       /\ product' = [product EXCEPT !.sales = @ + 1]
       /\ notified' = notified \cup {id}
  ELSE /\ notified' = IF Replayed(id) THEN notified \cup {id} ELSE notified
       /\ UNCHANGED <<order, payment, product>>

\* provider.verifyNotification: only what is signed, encrypted for this merchant and
\* speaks of a success gets through, so what does is WeChat's word.
Verified == configured /\ wechat.trade = "SUCCESS"

\* PaymentService.notify.  WeChat repeats a notification until it is accepted, and
\* each may be lost, late or delivered twice.
Notify(n) ==
  /\ Verified
  /\ answer' = IF Replayed(n) \/ Settles(n) THEN "accepted" ELSE "refused"
  /\ Settle(n)
  /\ UNCHANGED <<expired, configured, wechat, at, claim>>

-----------------------------------------------------------------------------
(* PaymentService.status *)

PollRead(p) ==
  /\ at[p] = "idle"
  /\ payment.status \notin {"NONE", "SUCCESS"}
  /\ order.status # "PAID"
  /\ Goto(p, "query")
  /\ UNCHANGED <<dbVars, expired, configured, wechat, answer, claim>>

PollAnswered(p) ==
  /\ at[p] = "query"
  /\ configured /\ wechat.trade # "NONE"
  /\ Goto(p, IF wechat.trade = "SUCCESS" THEN "settle" ELSE "record")
  /\ UNCHANGED <<dbVars, expired, configured, wechat, answer, claim>>

\* A provider error is swallowed: the poll reports what the database says.
PollFailed(p) ==
  /\ at[p] = "query"
  /\ Goto(p, "idle")
  /\ UNCHANGED <<dbVars, expired, configured, wechat, answer, claim>>

\* recordQueryState touches the row, and updatedAt is what the lease of a CREATING
\* payment is counted from.
RecordQueryState(p) ==
  /\ at[p] = "record"
  /\ payment' = [payment EXCEPT !.leased = @ \/ payment.status = "CREATING"]
  /\ Goto(p, "idle")
  /\ UNCHANGED <<order, product, notified, expired, configured, wechat, answer, claim>>

PollSettles(p) ==
  /\ at[p] = "settle"
  /\ Settle(QueryId)
  /\ Goto(p, "idle")
  /\ UNCHANGED <<expired, configured, wechat, answer, claim>>

-----------------------------------------------------------------------------
(* OrderClosingService.close *)

Return(c) == Goto(c, "idle") /\ claim' = [claim EXCEPT ![c] = NoClaim]

\* An order without a payment row can be closed locally, and so can one whose
\* prepay was never requested for want of credentials.
MutantNeedsWechat == payment.status \notin {"CLOSED", "FAILED"}

NeedsWechat == ~(payment.status = "CLOSED" \/ payment.failure = "not_configured")

MutantClosingOperator(c) == ActorType(c)

ClosingOperator(c) ==
  IF payment.status = "CLOSING" THEN payment.operator ELSE ActorType(c)

MutantMayClaim(c) == AwaitingPayment

MayClaim(c) == AwaitingPayment /\ (c \in Jobs => expired)

MutantLeaseHeld == payment.leased \/ payment.status = "CLOSING"

LeaseHeld == payment.leased

ClaimClose(c) ==
  /\ at[c] = "idle"
  /\ MayClaim(c)
  /\ \/ /\ payment.status = "NONE"
        /\ claim' = [claim EXCEPT ![c] = [withPayment |-> FALSE,
                                          operator |-> ActorType(c)]]
        /\ Goto(c, "finalize")
        /\ UNCHANGED payment
     \/ /\ payment.status \notin {"NONE", "SUCCESS"}
        /\ ~LeaseHeld
        /\ payment' = [status |-> "CLOSING", failure |-> "none",
                       operator |-> ClosingOperator(c), leased |-> TRUE]
        /\ claim' = [claim EXCEPT ![c] = [withPayment |-> TRUE,
                                          operator |-> ClosingOperator(c)]]
        /\ Goto(c, IF NeedsWechat THEN "query" ELSE "finalize")
  /\ UNCHANGED <<order, product, notified, expired, configured, wechat, answer>>

\* The first query decides what to do next; the confirming one, after a close
\* request that failed, no longer asks to close.
MutantAfterQuery(label) ==
  CASE wechat.trade \in {"SUCCESS", "USERPAYING"} -> "settle"
    [] wechat.trade = "CLOSED" -> "finalize"
    [] OTHER -> IF label = "query" THEN "close" ELSE "fail"

MutantAfterQueryBlind(label) ==
  CASE wechat.trade = "CLOSED" -> "finalize"
    [] wechat.trade = "NOTPAY" /\ label = "query" -> "close"
    [] OTHER -> "fail"

AfterQuery(label) ==
  CASE wechat.trade = "SUCCESS" -> "settle"
    [] wechat.trade = "CLOSED"  -> "finalize"
    [] wechat.trade = "NOTPAY" /\ label = "query" -> "close"
    [] OTHER -> "fail"

CloseQueryAnswered(c) ==
  /\ at[c] \in {"query", "confirm"}
  /\ configured /\ wechat.trade # "NONE"
  /\ Goto(c, AfterQuery(at[c]))
  /\ UNCHANGED <<dbVars, expired, configured, wechat, answer, claim>>

CloseQueryFailed(c) ==
  /\ at[c] \in {"query", "confirm"}
  /\ Goto(c, "fail")
  /\ UNCHANGED <<dbVars, expired, configured, wechat, answer, claim>>

\* provider.closeTransaction succeeds.
CloseAccepted(c) ==
  /\ at[c] = "close"
  /\ wechat.trade \in {"NOTPAY", "CLOSED"}
  /\ wechat' = [wechat EXCEPT !.trade = "CLOSED"]
  /\ Goto(c, "finalize")
  /\ UNCHANGED <<dbVars, expired, configured, answer, claim>>

\* It throws: refused, or no answer in time and perhaps done later.
CloseFailed(c) ==
  /\ at[c] = "close"
  /\ \/ UNCHANGED wechat
     \/ wechat' = [wechat EXCEPT !.late = @ \cup {"close"}]
  /\ Goto(c, "confirm")
  /\ UNCHANGED <<dbVars, expired, configured, answer, claim>>

RecordCloseFailure(c) ==
  /\ at[c] = "fail"
  /\ payment' = IF payment.status = "CLOSING"
                THEN [payment EXCEPT !.failure = "other"] ELSE payment
  /\ Return(c)
  /\ UNCHANGED <<order, product, notified, expired, configured, wechat, answer>>

CloseSettles(c) ==
  /\ at[c] = "settle"
  /\ Settle(QueryId)
  /\ Return(c)
  /\ UNCHANGED <<expired, configured, wechat, answer>>

\* finalizeClose looks at the payment only if the claim named one.
MutantMayFinalize(c) ==
  order.status \in {"PENDING_PAYMENT", "CANCELLED"} /\ payment.status # "SUCCESS"

MayFinalize(c) ==
  /\ AwaitingPayment
  /\ payment.status # "SUCCESS"
  /\ claim[c].withPayment => payment.status \in {"CLOSING", "CLOSED"}

FinalizeClose(c) ==
  /\ at[c] = "finalize"
  /\ IF MayFinalize(c)
     THEN /\ order' = [status |-> "CANCELLED", stockReleased |-> TRUE,
                       operator |-> claim[c].operator]
          /\ payment' = IF claim[c].withPayment
                        THEN [payment EXCEPT !.status = "CLOSED",
                                             !.failure = "none", !.leased = FALSE]
                        ELSE payment
          /\ product' = [product EXCEPT !.stock = @ + 1]
     ELSE UNCHANGED <<order, payment, product>>
  /\ Return(c)
  /\ UNCHANGED <<notified, expired, configured, wechat, answer>>

-----------------------------------------------------------------------------
\* orderRepository.transition for the back office's fulfilment actions.
AdminTransitions == {<<"PAID", "ACCEPTED">>, <<"ACCEPTED", "PREPARING">>,
                     <<"PREPARING", "WAITING_DELIVERY">>,
                     <<"WAITING_DELIVERY", "DELIVERING">>,
                     <<"DELIVERING", "COMPLETED">>}

TransitionAdmin(to) ==
  /\ <<order.status, to>> \in AdminTransitions
  /\ order' = [order EXCEPT !.status = to]
  /\ UNCHANGED <<payment, product, notified, expired, configured, wechat, answer,
                 at, claim>>

\* The process running a handler dies; what it wrote stays.
Crash(h) ==
  /\ at[h] # "idle"
  /\ Goto(h, "idle")
  /\ claim' = [c \in Closers |-> IF c = h THEN NoClaim ELSE claim[c]]
  /\ UNCHANGED <<dbVars, expired, configured, wechat, answer>>

-----------------------------------------------------------------------------
(* Time, and WeChat: a transaction can be paid while it is open, by a resident *)
(* who was given its parameters, and until the order's expiry.                 *)

Expire == /\ ~expired
          /\ expired' = TRUE
          /\ UNCHANGED <<dbVars, configured, wechat, answer, at, claim>>

LeaseLapses ==
  /\ payment.leased
  /\ payment' = [payment EXCEPT !.leased = FALSE]
  /\ UNCHANGED <<order, product, notified, expired, configured, wechat, answer,
                 at, claim>>

SetTrade(trade) ==
  /\ wechat' = [wechat EXCEPT !.trade = trade]
  /\ UNCHANGED <<dbVars, expired, configured, answer, at, claim>>

OpenCashier == /\ wechat.trade = "NOTPAY" /\ wechat.delivered /\ ~expired
               /\ SetTrade("USERPAYING")

LeaveCashier == wechat.trade = "USERPAYING" /\ SetTrade("NOTPAY")

UserPays == /\ \/ wechat.trade = "USERPAYING"
               \/ wechat.trade = "NOTPAY" /\ wechat.delivered /\ ~expired
            /\ SetTrade("SUCCESS")

\* A request its caller gave up on takes effect.
LateRequest(request) ==
  /\ request \in wechat.late
  /\ wechat' = [wechat EXCEPT
       !.late = @ \ {request},
       !.trade = CASE request = "create" /\ @ = "NONE"  -> "NOTPAY"
                   [] request = "close" /\ @ = "NOTPAY" -> "CLOSED"
                   [] OTHER -> @]
  /\ UNCHANGED <<dbVars, expired, configured, answer, at, claim>>

-----------------------------------------------------------------------------
Initialize(i) == \/ Prepare(i) \/ CreateAccepted(i) \/ CreateFailed(i)
                 \/ AttachPrepay(i) \/ RereadFails(i) \/ Deliver(i)
                 \/ MarkInitializationFailed(i)

Status(p) == \/ PollRead(p) \/ PollAnswered(p) \/ PollFailed(p)
             \/ RecordQueryState(p) \/ PollSettles(p)

Close(c) == \/ ClaimClose(c) \/ CloseQueryAnswered(c) \/ CloseQueryFailed(c)
            \/ CloseAccepted(c) \/ CloseFailed(c) \/ RecordCloseFailure(c)
            \/ CloseSettles(c) \/ FinalizeClose(c)

Environment == \/ Expire \/ LeaseLapses \/ OpenCashier \/ LeaveCashier \/ UserPays
               \/ \E request \in {"create", "close"} : LateRequest(request)

Next == \/ \E i \in Initializers : Initialize(i)
        \/ \E p \in Pollers : Status(p)
        \/ \E c \in Closers : Close(c)
        \/ \E n \in NotificationIds : Notify(n)
        \/ \E to \in OrderStatuses : TransitionAdmin(to)
        \/ \E h \in Handlers : Crash(h)
        \/ Environment

Spec == Init /\ [][Next]_vars

\* The expiry job runs for ever, restarts do not always hit it at the same place,
\* and neither does WeChat always fail to answer it; time passes, and a resident
\* does not stay at the cashier for ever.  Nothing is assumed of notifications,
\* of residents or of the back office.
Fairness ==
  /\ WF_vars(Expire) /\ WF_vars(LeaseLapses) /\ WF_vars(LeaveCashier)
  /\ \A j \in Jobs : /\ WF_vars(Close(j))
                     /\ SF_vars(ClaimClose(j))
                     /\ SF_vars(CloseQueryAnswered(j))
                     /\ SF_vars(CloseAccepted(j))
                     /\ SF_vars(CloseSettles(j))
                     /\ SF_vars(FinalizeClose(j))

LiveSpec == Spec /\ Fairness

-----------------------------------------------------------------------------
OrderRow == [status : OrderStatuses, stockReleased : BOOLEAN, operator : Operators]
PaymentRow == [status : PaymentStatuses, failure : {"none", "other", "not_configured"},
               operator : Operators, leased : BOOLEAN]
Transaction == [trade : Trades, delivered : BOOLEAN, late : SUBSET {"create", "close"}]
Claim == [withPayment : BOOLEAN, operator : Operators]

TypeOK ==
  /\ order \in OrderRow
  /\ payment \in PaymentRow
  /\ product \in [stock : Int, sales : Int]
  /\ notified \in SUBSET (NotificationIds \cup {QueryId})
  /\ expired \in BOOLEAN /\ configured \in BOOLEAN
  /\ wechat \in Transaction
  /\ answer \in {"none", "accepted", "refused"}
  /\ at \in [Handlers -> Labels]
  /\ claim \in [Closers -> Claim]

\* However many closes, retries and crashes there were, the order's quantities go
\* back on the shelf once, and only for a cancelled order (finalizeClose); and they
\* are counted as sold once, exactly when the order was paid (completeSuccess),
\* whichever of a notification, a poll and a close settled it.
CountersBalance ==
  /\ product.stock = IF order.status = "CANCELLED" THEN 1 ELSE 0
  /\ product.sales = IF order.status \in Settled THEN 1 ELSE 0

\* An order counts as paid only on WeChat's word: WeChat holds the money, the
\* payment row says so, and the notification or query that said so is recorded.
PaidOnWechatsWord ==
  order.status \in Settled =>
    wechat.trade = "SUCCESS" /\ payment.status = "SUCCESS" /\ notified # {}

\* A payment is marked CLOSED only when it can never be paid: WeChat has closed the
\* transaction, or the deployment has no credentials and never opened one.  In
\* particular a close whose reply got lost is not taken for done.
ClosedIsClosedAtWechat ==
  payment.status = "CLOSED" =>
    wechat.trade = "CLOSED" \/ (~configured /\ wechat.trade = "NONE")

\* The cancellation is logged under whoever claimed the close first: the job that
\* completes a resident's unfinished cancellation does not sign it.
CancelledByFirstClaimant ==
  payment.status = "CLOSED" => order.operator = payment.operator

\* The expiry job never signs the cancellation of an order that had not expired.
SystemCancelsOnlyExpired == order.operator = "SYSTEM" => expired

\* A payment that succeeded or was closed stays so: no late prepay, failure report,
\* poll or second claim changes it back.
PaymentIsFinal ==
  [][payment.status \in {"SUCCESS", "CLOSED"} => payment'.status = payment.status]_vars

\* The initializations that bring the resident parameters to pay with.
Bearers == {i \in Initializers : at[i] \in {"reread", "deliver"}}

\* A close that claims the payment cannot stop parameters that are already on their
\* way to the resident, but those are the last: no initialization, however late its
\* prepay id or its call comes, gets hold of parameters from then on, and what had
\* not left by the time of the claim never reaches the resident.
ClosingCutsOffCashier ==
  [][payment.status \in {"CLOSING", "CLOSED"} =>
       /\ Bearers' \subseteq Bearers
       /\ wechat'.delivered => wechat.delivered \/ Bearers # {}]_vars

Lifecycle == INSTANCE OrderLifecycle
  WITH status <- order.status, stock <- product.stock, sales <- product.sales

\* Each step, seen through the order's status and counters, is a move of the order's
\* lifecycle or none.
ImplementsLifecycle == Lifecycle!Spec

\* A close that found no payment row and is about to cancel without asking WeChat.
ClosesBlindly == \E c \in Closers : at[c] = "finalize" /\ ~claim[c].withPayment

\* Money that reached WeChat for an order that expired while pending makes it a paid
\* order and never a cancelled one, with no help from notifications: the job's own
\* query settles it.  The exception is an order that someone is closing without
\* asking WeChat when the money is there (NoPaidOrderCancelled, below).
PaidIsSettled ==
  (/\ expired /\ order.status = "PENDING_PAYMENT" /\ wechat.trade = "SUCCESS"
   /\ ~ClosesBlindly)
    ~> order.status \in Settled

\* An expired order whose transaction WeChat knows is closed or settled in the end,
\* whatever crashed or got lost on the way.
OpenTransactionCloses ==
  (expired /\ wechat.trade # "NONE") ~> order.status # "PENDING_PAYMENT"

-----------------------------------------------------------------------------
(* What the handlers carry between their steps, which makes the safety         *)
(* properties inductive.                                                       *)

\* stock_released goes with the status, and the payment row with the order row.
RowsAgree ==
  /\ order.stockReleased <=> order.status = "CANCELLED"
  /\ order.status \in Settled <=> payment.status = "SUCCESS"
  /\ payment.status = "CLOSED" => order.status = "CANCELLED"

\* A deployment without credentials never opened a transaction, and only such a
\* deployment writes "not_configured".
CredentialsInv ==
  /\ ~configured => wechat.trade = "NONE" /\ "create" \notin wechat.late
  /\ payment.failure = "not_configured" => ~configured

\* A handler about to settle has seen the transaction paid, and one about to finalize
\* a payment has seen it closed.
HandlersSaw ==
  /\ \A h \in Handlers : at[h] = "settle" => wechat.trade = "SUCCESS"
  /\ \A c \in Closers : at[c] = "finalize" /\ claim[c].withPayment =>
                          wechat.trade = "CLOSED" \/ ~configured

\* A claim on a payment is honoured: the payment has left the states a handler of
\* another kind may change, and everyone who claims it signs with the same operator.
ClaimsHonoured ==
  \A c \in Closers : claim[c].withPayment =>
    /\ payment.status \in {"CLOSING", "CLOSED", "SUCCESS"}
    /\ claim[c].operator = payment.operator

SystemSigns ==
  /\ payment.operator = "SYSTEM" => expired
  /\ \A c \in Closers : claim[c].operator = "SYSTEM" => expired

\* The inductive invariant: every safety property above, and what it rests on.
IInv ==
  /\ TypeOK
  /\ RowsAgree
  /\ CountersBalance
  /\ PaidOnWechatsWord
  /\ ClosedIsClosedAtWechat
  /\ CancelledByFirstClaimant
  /\ SystemCancelsOnlyExpired
  /\ CredentialsInv
  /\ HandlersSaw
  /\ ClaimsHonoured
  /\ SystemSigns

-----------------------------------------------------------------------------
\* What the documents promise, and the code does not do.

\* payments-and-refunds.md: no order is cancelled after WeChat took the money.
NoPaidOrderCancelled == ~(wechat.trade = "SUCCESS" /\ order.status = "CANCELLED")

\* order-lifecycle.md: an expired order gives its stock back (here with a deployment
\* that can reach WeChat).
ExpiredOrderCloses == (expired /\ configured) ~> order.status # "PENDING_PAYMENT"

\* payments-and-refunds.md: notifications may be repeated safely, and share one
\* idempotent settlement with queries.
SettledIsAcknowledged == ~(payment.status = "SUCCESS" /\ answer = "refused")
=============================================================================
