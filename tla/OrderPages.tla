---------------------------- MODULE OrderPages ----------------------------
(***************************************************************************)
(* The order list, an order's page and a refund's page of the mini         *)
(* program.  One store holds what all of them show, so an answer may come  *)
(* when another page is open.  Lists and details are numbered and an       *)
(* overtaken answer is dropped; the answers to cancelling, paying and      *)
(* applying for a refund, and those of a refund's page, are not.           *)
(*                                                                         *)
(*   Bills    the resident's orders                                        *)
(*   Queries  the calls under way                                          *)
(*   Filters  the tabs of the list: all orders, or those of one status     *)
(*                                                                         *)
(* The server makes an answer when it reads, and the answer may be long on *)
(* its way.  Every call may fail at any time, served or not.               *)
(***************************************************************************)
EXTENDS Naturals

CONSTANTS Bills, Queries, Filters, AllOrders, NoBill, NoQuery

BillStates == {"open", "paid", "refunding", "done", "cancelled"}

ASSUME PagesHaveOrders ==
  /\ NoBill \notin Bills /\ NoQuery \notin Queries
  /\ AllOrders \in Filters /\ Filters \subseteq BillStates \cup {AllOrders}

VARIABLES
  bill,     \* the server's orders
  book,     \* the store and which page is open
  query,    \* the calls under way
  crossed   \* the orders whose unnumbered answers came to the open page, which is
            \* another's, and those whose rows were rewritten since the list came

pagesVars == <<bill, book, query, crossed>>

\* "done" is an order the page offers nothing for any more: taken on by the shop, finished,
\* refunded, or refused a refund.
Cards == [bill : Bills \cup {NoBill}, status : BillStates]
NoCard == [bill |-> NoBill, status |-> "done"]
NoAsk == [kind |-> "none", bill |-> NoBill, filter |-> AllOrders, card |-> NoCard,
          rows |-> {}]
EmptyBook ==
  [filter |-> AllOrders, listed |-> {}, detail |-> NoCard, detailLoading |-> FALSE,
   mutating |-> FALSE, paying |-> FALSE, refund |-> NoBill, refunding |-> FALSE,
   pendingRefund |-> NoBill]

Stores ==
  [filter : Filters, listed : SUBSET Cards, detail : Cards, detailLoading : BOOLEAN,
   mutating : BOOLEAN, paying : BOOLEAN, refund : Bills \cup {NoBill},
   refunding : BOOLEAN, pendingRefund : Bills \cup {NoBill}]

AskKinds == {"none", "list", "detail", "refund", "cancel", "apply",
             "initialize", "launch", "status", "confirm"}

PagesTypeOK ==
  /\ bill \in [Bills -> BillStates]
  /\ book \in [store : Stores, page : Bills \cup {NoBill},
               lastList : Queries \cup {NoQuery}, lastDetail : Queries \cup {NoQuery}]
  /\ query \in [Queries -> [kind : AskKinds, bill : Bills \cup {NoBill},
                            filter : Filters, card : Cards, rows : SUBSET Cards]]
  /\ crossed \in [page : SUBSET Bills, rows : SUBSET Bills]

PagesInit ==
  /\ bill = [b \in Bills |-> "open"]
  /\ book = [store |-> EmptyBook, page |-> NoBill, lastList |-> NoQuery,
             lastDetail |-> NoQuery]
  /\ query = [q \in Queries |-> NoAsk]
  /\ crossed = [page |-> {}, rows |-> {}]

Idle(q) == query[q].kind = "none"
Answers(q) == query' = [query EXCEPT ![q] = NoAsk]
Store(s) == book' = [book EXCEPT !.store = s]
Present(b) == [bill |-> b, status |-> bill[b]]

\* A number that has come round is that of no call any more.
Newest(q, last) == IF last = q THEN NoQuery ELSE last

(***************************************************************************)
(* The list                                                                *)
(***************************************************************************)
InTab(status, filter) == filter \in {AllOrders, status}

LoadOrders(q) ==
  /\ Idle(q)
  /\ \E f \in Filters :
       /\ book' = [book EXCEPT !.store.filter = f, !.lastList = q,
                               !.lastDetail = Newest(q, @)]
       /\ query' = [query EXCEPT ![q] = [NoAsk EXCEPT !.kind = "list", !.filter = f]]
  /\ UNCHANGED <<bill, crossed>>

ServeOrders(q) ==
  /\ query[q].kind = "list"
  /\ query' = [query EXCEPT ![q].rows =
                 {Present(b) : b \in {c \in Bills : InTab(bill[c], query[q].filter)}}]
  /\ UNCHANGED <<bill, book, crossed>>

\* isListLoading: the list of the tab before stays on the screen meanwhile.
ListLoading == \E q \in Queries : book.lastList = q /\ query[q].kind = "list"

OrdersLoaded(q) ==
  /\ query[q].kind = "list"
  /\ IF book.lastList = q
     THEN /\ \E rows \in {query[q].rows, {}} : Store([book.store EXCEPT !.listed = rows])
          /\ crossed' = [crossed EXCEPT !.rows = {}]
     ELSE UNCHANGED <<book, crossed>>
  /\ Answers(q)
  /\ UNCHANGED bill

(***************************************************************************)
(* An order's page                                                         *)
(***************************************************************************)

\* The answer of these calls is written to whatever page is open.
Unnumbered == {"cancel", "apply", "initialize", "launch", "status", "confirm"}
Strayed(b) == IF book.page \in {NoBill, b} THEN crossed.page ELSE crossed.page \cup {b}

LoadDetail(q, b, page, kind) ==
  /\ book' = [book EXCEPT !.store = [page EXCEPT !.detail = NoCard,
                                                 !.detailLoading = TRUE],
                          !.page = IF kind = "open" THEN b ELSE @,
                          !.lastDetail = q, !.lastList = Newest(q, @)]
  /\ query' = [query EXCEPT ![q] = [NoAsk EXCEPT !.kind = "detail", !.bill = b]]

OpenDetail(q) ==
  /\ Idle(q)
  /\ \E b \in Bills :
       /\ book.page \in {NoBill, b}
       /\ LoadDetail(q, b, book.store, "open")
  /\ crossed' = [crossed EXCEPT !.page = {}]
  /\ UNCHANGED bill

ServeDetail(q) ==
  /\ query[q].kind \in {"detail", "confirm"} /\ query[q].card = NoCard
  /\ query' = [query EXCEPT ![q].card = Present(query[q].bill)]
  /\ UNCHANGED <<bill, book, crossed>>

MutantDetailLoaded(q) ==
  /\ query[q].kind = "detail"
  /\ Store([book.store EXCEPT !.detailLoading = FALSE, !.detail = query[q].card])
  /\ Answers(q)
  /\ UNCHANGED <<bill, crossed>>

DetailLoaded(q) ==
  /\ query[q].kind = "detail"
  /\ IF book.lastDetail = q
     THEN Store([book.store EXCEPT !.detailLoading = FALSE, !.detail = query[q].card])
     ELSE UNCHANGED book
  /\ Answers(q)
  /\ UNCHANGED <<bill, crossed>>

GoBack ==
  /\ book.page # NoBill
  /\ book' = [book EXCEPT !.page = NoBill]
  /\ UNCHANGED <<bill, query, crossed>>

\* The buttons of the page: what the shown status allows (allowedActions).
Shown(status) == book.page # NoBill /\ book.store.detail.status = status
                 /\ book.store.detail # NoCard

Ask(q, kind, s) ==
  /\ Idle(q)
  /\ query' = [query EXCEPT ![q] = [NoAsk EXCEPT !.kind = kind,
                                                 !.bill = book.store.detail.bill]]
  /\ book' = [book EXCEPT !.store = s, !.lastList = Newest(q, @),
                          !.lastDetail = Newest(q, @)]
  /\ UNCHANGED <<bill, crossed>>

Cancel(q) ==
  /\ Shown("open") /\ ~book.store.paying /\ ~book.store.mutating
  /\ Ask(q, "cancel", [book.store EXCEPT !.mutating = TRUE])

\* Cancelling what is cancelled is answered in the same way.
ServeCancel(q) ==
  LET b == query[q].bill IN
  /\ query[q].kind = "cancel" /\ query[q].card = NoCard
  /\ bill[b] \in {"open", "cancelled"}
  /\ bill' = [bill EXCEPT ![b] = "cancelled"]
  /\ query' = [query EXCEPT ![q].card = [bill |-> b, status |-> "cancelled"]]
  /\ UNCHANGED <<book, crossed>>

\* The answer is shown on the page, and in the order's row of the list if it has one.
ShowOrder(card, s) ==
  /\ Store([s EXCEPT !.detail = card,
                     !.listed = {IF row.bill = card.bill THEN card ELSE row : row \in @}])
  /\ crossed' = [page |-> Strayed(card.bill),
                 rows |-> crossed.rows \cup {b \in {card.bill} :
                                              \E row \in book.store.listed : row.bill = b}]

Cancelled(q) ==
  LET done == [book.store EXCEPT !.mutating = FALSE] IN
  /\ query[q].kind = "cancel"
  /\ \/ query[q].card # NoCard /\ ShowOrder(query[q].card, done)
     \/ Store(done) /\ UNCHANGED crossed
  /\ Answers(q)
  /\ UNCHANGED bill

(***************************************************************************)
(* Paying: prepare, hand over to WeChat, ask how it went, show the order.  *)
(* The words the resident reads (paymentOutcome) follow from where it ends.*)
(***************************************************************************)
Pay(q) ==
  /\ Shown("open") /\ ~book.store.mutating /\ ~book.store.paying
  /\ Ask(q, "initialize", [book.store EXCEPT !.paying = TRUE])

PayOn(q, kind) ==
  /\ query' = [query EXCEPT ![q].kind = kind]
  /\ UNCHANGED <<bill, book, crossed>>

\* "CANCELLED", "FAILED" or "UNKNOWN".
PayEnds(q) ==
  /\ Store([book.store EXCEPT !.paying = FALSE])
  /\ Answers(q)
  /\ UNCHANGED <<bill, crossed>>

Initialized(q) ==
  /\ query[q].kind = "initialize"
  /\ \/ bill[query[q].bill] = "open" /\ PayOn(q, "launch")
     \/ PayEnds(q)

\* However the resident leaves WeChat, the server is asked.
Launched(q) == query[q].kind = "launch" /\ PayOn(q, "status")

StatusKnown(q) ==
  /\ query[q].kind = "status"
  /\ \/ bill[query[q].bill] \in {"paid", "refunding", "done"} /\ PayOn(q, "confirm")
     \/ PayEnds(q)

\* applyPaidOrder.  Where reading the order fails, so does, to the eye, the payment.
PaidConfirmed(q) ==
  /\ query[q].kind = "confirm"
  /\ \/ /\ query[q].card # NoCard
        /\ ShowOrder(query[q].card, [book.store EXCEPT !.paying = FALSE])
        /\ Answers(q)
        /\ UNCHANGED bill
     \/ PayEnds(q)

(***************************************************************************)
(* Refunds                                                                 *)
(***************************************************************************)

\* The same application is sent again with its request id after a network error.
ApplyRefund(q) ==
  /\ Shown("paid") /\ ~book.store.paying /\ ~book.store.mutating /\ ~book.store.refunding
  /\ Ask(q, "apply", [book.store EXCEPT !.refunding = TRUE,
                                        !.pendingRefund = book.store.detail.bill])

RefundApplied(q) ==
  LET b == query[q].bill
      done == [book.store EXCEPT !.refunding = FALSE] IN
  /\ query[q].kind = "apply"
  /\ \/ /\ bill[b] \in {"paid", "refunding"}
        /\ bill' = [bill EXCEPT ![b] = "refunding"]
        /\ LoadDetail(q, b, [done EXCEPT !.refund = b, !.pendingRefund = NoBill], "reload")
        /\ crossed' = [crossed EXCEPT !.page = Strayed(b)]
     \/ /\ \E p \in {NoBill, book.store.pendingRefund} :
             Store([done EXCEPT !.pendingRefund = p])
        /\ Answers(q)
        /\ UNCHANGED <<bill, crossed>>

\* The page of a refund; its answers are not numbered.
LoadRefund(q) ==
  /\ book.store.detail.status = "refunding"
  /\ Ask(q, "refund", book.store)

RefundLoaded(q) ==
  /\ query[q].kind = "refund"
  /\ \E b \in {query[q].bill, NoBill} : Store([book.store EXCEPT !.refund = b])
  /\ Answers(q)
  /\ UNCHANGED <<bill, crossed>>

(***************************************************************************)
(* reset (logging out, a new confirmation page) leaves the numbers alone.  *)
(***************************************************************************)
Reset ==
  /\ book' = [book EXCEPT !.store = EmptyBook, !.page = NoBill]
  /\ crossed' = [crossed EXCEPT !.rows = {}]
  /\ UNCHANGED <<bill, query>>

\* The server, by any other hand: notifications, the shop, the closing job.
BillMoves ==
  /\ \E b \in Bills :
       \/ bill[b] = "open" /\ \E s \in {"paid", "cancelled"} : bill' = [bill EXCEPT ![b] = s]
       \/ bill[b] \in {"paid", "refunding"} /\ bill' = [bill EXCEPT ![b] = "done"]
  /\ UNCHANGED <<book, query, crossed>>

PagesNext ==
  \/ GoBack \/ Reset \/ BillMoves
  \/ \E q \in Queries :
       \/ LoadOrders(q) \/ ServeOrders(q) \/ OrdersLoaded(q)
       \/ OpenDetail(q) \/ ServeDetail(q) \/ DetailLoaded(q)
       \/ Cancel(q) \/ ServeCancel(q) \/ Cancelled(q)
       \/ Pay(q) \/ Initialized(q) \/ Launched(q) \/ StatusKnown(q) \/ PaidConfirmed(q)
       \/ ApplyRefund(q) \/ RefundApplied(q) \/ LoadRefund(q) \/ RefundLoaded(q)

PagesSpec == PagesInit /\ [][PagesNext]_pagesVars

----------------------------------------------------------------------------
\* An order's page shows that order, or what the answer to a call that is not numbered has
\* brought of another since the page was opened; and a list that is not being loaded shows
\* orders of its tab, or such that the answer to cancelling or paying has rewritten in
\* place since the list came, which are no longer to be paid (order.ts loadDetail,
\* loadOrders, cancel, applyPaidOrder).
PageShowsItsOrder ==
  /\ book.page # NoBill => book.store.detail.bill \in {book.page, NoBill} \cup crossed.page
  /\ ~ListLoading =>
       \A row \in book.store.listed :
         \/ InTab(row.status, book.store.filter)
         \/ row.bill \in crossed.rows /\ row.status # "open"
-----------------------------------------------------------------------------
\* A card without an order is the empty one.
CardIsWhole(card) == card.bill = NoBill => card = NoCard

\* A call about an order names it, and what the server answered it is about that order, or
\* is of the tab asked for; an order that was cancelled or paid for is not to be paid.
AnswersAreApt ==
  /\ CardIsWhole(book.store.detail)
  /\ \A q \in Queries :
       /\ query[q].kind \in Unnumbered \cup {"detail"} => query[q].bill \in Bills
       /\ query[q].card.bill \in {query[q].bill, NoBill} /\ CardIsWhole(query[q].card)
       /\ \A row \in query[q].rows : InTab(row.status, query[q].filter)
       /\ query[q].kind # "detail" => query[q].card.status # "open"
  /\ \A q \in Queries : query[q].kind = "confirm" => bill[query[q].bill] # "open"

\* The newest detail under way is that of the page, or of what has strayed to it.
PageIsAwaited ==
  book.page # NoBill =>
    \A q \in Queries : query[q].kind = "detail" /\ book.lastDetail = q =>
      query[q].bill \in {book.page} \cup crossed.page

\* The newest list under way is that of the tab, or the tab is that of all orders.
TabIsAwaited ==
  \A q \in Queries : query[q].kind = "list" /\ book.lastList = q =>
    book.store.filter \in {query[q].filter, AllOrders}

PagesIInv ==
  PagesTypeOK /\ AnswersAreApt /\ PageIsAwaited /\ TabIsAwaited /\ PageShowsItsOrder
=============================================================================
