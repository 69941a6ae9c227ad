----------------------------- MODULE OrderDesk -----------------------------
(***************************************************************************)
(* The order list of the back office: rows, a drawer with one order, and   *)
(* an editor for the shop's remark on it.  Its calls are not numbered, so  *)
(* an answer may come when the drawer shows, or waits for, another order.  *)
(*                                                                         *)
(*   Entries  orders           Clicks   the calls under way                *)
(*   Remarks  what an administrator may write about an order               *)
(*                                                                         *)
(* A call may fail at any time, served or not.                             *)
(***************************************************************************)
EXTENDS Naturals

CONSTANTS Entries, Clicks, Remarks, NoEntry, NoRemark, NoStatus

ASSUME DeskHasOrders == NoEntry \notin Entries /\ NoRemark \notin Remarks

VARIABLES
  entry,   \* the server's orders
  desk,    \* rows of the list, the drawer's order, the draft of its remark, the action
           \* the administrator is asked to confirm, and the one that shows as loading
  click,   \* the calls under way
  about    \* the orders that were on the screen when the draft was written

deskVars == <<entry, desk, click, about>>

\* adminTransitions: what an administrator may do with an order of each status.
Target == [PENDING_PAYMENT |-> "CANCELLED", PAID |-> "ACCEPTED", ACCEPTED |-> "PREPARING",
           PREPARING |-> "WAITING_DELIVERY", WAITING_DELIVERY |-> "DELIVERING",
           DELIVERING |-> "COMPLETED"]
HasAction(status) == status \in DOMAIN Target
EntryStatuses ==
  DOMAIN Target \cup {"COMPLETED", "CANCELLED", "REFUND_PENDING", "REFUNDED"}

Notes == Remarks \cup {NoRemark}
Sheets == [entry : Entries \cup {NoEntry}, status : EntryStatuses \cup {NoStatus},
           remark : Notes]
NoSheet == [entry |-> NoEntry, status |-> NoStatus, remark |-> NoRemark]
NoRows == [e \in Entries |-> NoStatus]
RowSets == [Entries -> EntryStatuses \cup {NoStatus}]
Questions == [entry : Entries \cup {NoEntry}, seen : DOMAIN Target \cup {NoStatus}]
NoQuestion == [entry |-> NoEntry, seen |-> NoStatus]
NoClick == [kind |-> "none", entry |-> NoEntry, seen |-> NoStatus, note |-> NoRemark,
            rows |-> NoRows, sheet |-> NoSheet]

DeskTypeOK ==
  /\ entry \in [Entries -> [status : EntryStatuses, remark : Notes]]
  /\ desk \in [rows : RowSets, detail : Sheets, draft : Notes, asked : Questions,
               acting : DOMAIN Target \cup {NoStatus}]
  /\ about \subseteq Entries
  /\ click \in [Clicks -> [kind : {"none", "list", "detail", "act", "remark"},
                           entry : Entries \cup {NoEntry},
                           seen : DOMAIN Target \cup {NoStatus}, note : Notes,
                           rows : RowSets, sheet : Sheets]]

DeskInit(start) ==
  /\ entry = [e \in Entries |-> [status |-> start[e], remark |-> NoRemark]]
  /\ desk = [rows |-> NoRows, detail |-> NoSheet, draft |-> NoRemark,
             asked |-> NoQuestion, acting |-> NoStatus]
  /\ click = [c \in Clicks |-> NoClick]
  /\ about = {}

Free == desk.asked = NoQuestion  \* the question covers the page

Call(c, kind, e, seen, note) ==
  /\ click[c].kind = "none"
  /\ click' = [click EXCEPT ![c] = [NoClick EXCEPT !.kind = kind, !.entry = e,
                                                   !.seen = seen, !.note = note]]

Sheet(e) == [entry |-> e, status |-> entry[e].status, remark |-> entry[e].remark]
Served(c) == click[c].sheet # NoSheet

(***************************************************************************)
(* The list                                                                *)
(***************************************************************************)

\* Searching, turning the page, and after every action.
Load(c) ==
  Free /\ Call(c, "list", NoEntry, NoStatus, NoRemark) /\ UNCHANGED <<entry, desk, about>>

\* Some of the orders: the page and the filters of the query.
ServeList(c) ==
  /\ click[c].kind = "list" /\ click[c].rows = NoRows
  /\ \E listed \in SUBSET Entries :
       click' = [click EXCEPT ![c].rows =
                   [e \in Entries |-> IF e \in listed THEN entry[e].status ELSE NoStatus]]
  /\ UNCHANGED <<entry, desk, about>>

\* A failed load empties the list.
Listed(c) ==
  /\ click[c].kind = "list"
  /\ desk' = [desk EXCEPT !.rows = click[c].rows]
  /\ click' = [click EXCEPT ![c] = NoClick]
  /\ UNCHANGED <<entry, about>>

(***************************************************************************)
(* The drawer                                                              *)
(***************************************************************************)
OpenDrawer(c) ==
  \E e \in Entries :
    /\ Free /\ desk.rows[e] # NoStatus
    /\ Call(c, "detail", e, NoStatus, NoRemark)
    /\ desk' = [desk EXCEPT !.detail = NoSheet]
    /\ UNCHANGED <<entry, about>>

ServeSheet(c) ==
  /\ click[c].kind = "detail" /\ ~Served(c)
  /\ click' = [click EXCEPT ![c].sheet = Sheet(click[c].entry)]
  /\ UNCHANGED <<entry, desk, about>>

MutantShow(d, sheet) ==
  /\ desk' = [d EXCEPT !.detail = sheet]
  /\ UNCHANGED about

\* The drawer shows an answer, and its editor the remark that came with it.
Show(d, sheet) ==
  /\ desk' = [d EXCEPT !.detail = sheet, !.draft = sheet.remark]
  /\ about' = {sheet.entry}

Done(c) == click' = [click EXCEPT ![c] = NoClick] /\ UNCHANGED entry

DetailOpened(c) ==
  /\ click[c].kind = "detail"
  /\ IF Served(c) THEN Show(desk, click[c].sheet) ELSE UNCHANGED <<desk, about>>
  /\ Done(c)

(***************************************************************************)
(* Moving an order on, from its row or from the drawer.  The answer goes   *)
(* into the drawer only if that shows the order; the list is loaded again. *)
(***************************************************************************)
MutantPerformAction ==
  /\ Free
  /\ \E e \in Entries : \E seen \in {desk.rows[e]} :
       /\ seen # NoStatus /\ desk.acting # seen
       /\ desk' = [desk EXCEPT !.asked = [entry |-> e, seen |-> seen]]
  /\ UNCHANGED <<entry, click, about>>

PerformAction ==
  /\ Free
  /\ \E e \in Entries :
       \E seen \in {desk.rows[e]} \cup
                   (IF desk.detail.entry = e THEN {desk.detail.status} ELSE {}) :
         /\ HasAction(seen) /\ desk.acting # seen
         /\ desk' = [desk EXCEPT !.asked = [entry |-> e, seen |-> seen]]
  /\ UNCHANGED <<entry, click, about>>

\* Answers that come meanwhile do not change what is being confirmed.
Confirm(c) ==
  /\ ~Free
  /\ Call(c, "act", desk.asked.entry, desk.asked.seen, NoRemark)
  /\ desk' = [desk EXCEPT !.asked = NoQuestion, !.acting = desk.asked.seen]
  /\ UNCHANGED <<entry, about>>

Dismiss ==
  /\ ~Free
  /\ desk' = [desk EXCEPT !.asked = NoQuestion, !.acting = NoStatus]
  /\ UNCHANGED <<entry, click, about>>

\* An order that is there already is answered as such; closing one may find it paid.
ServeAction(c) ==
  LET e == click[c].entry
      seen == click[c].seen
      answer(status) == click' = [click EXCEPT ![c].sheet = [Sheet(e) EXCEPT !.status = status]]
  IN
  /\ click[c].kind = "act" /\ ~Served(c)
  /\ \/ entry[e].status = Target[seen] /\ answer(Target[seen]) /\ UNCHANGED entry
     \/ /\ entry[e].status = seen
        /\ \E to \in {Target[seen]} \cup (IF seen = "PENDING_PAYMENT" THEN {"PAID"} ELSE {}) :
             /\ entry' = [entry EXCEPT ![e].status = to]
             /\ answer(to)
  /\ UNCHANGED <<desk, about>>

\* The list is loaded while the button still shows as busy (which is not followed here).
ActionPerformed(c) ==
  LET d == [desk EXCEPT !.acting = NoStatus] IN
  /\ click[c].kind = "act"
  /\ \/ /\ Served(c)
        /\ IF desk.detail.entry = click[c].entry
           THEN Show(d, click[c].sheet) ELSE desk' = d /\ UNCHANGED about
        /\ click' = [click EXCEPT ![c] = [NoClick EXCEPT !.kind = "list"]]
        /\ UNCHANGED entry
     \/ desk' = d /\ UNCHANGED about /\ Done(c)

(***************************************************************************)
(* The remark                                                              *)
(***************************************************************************)
Write ==
  /\ Free /\ desk.detail # NoSheet
  /\ \E note \in Notes \ {desk.draft} : desk' = [desk EXCEPT !.draft = note]
  /\ about' = about \cup {desk.detail.entry}
  /\ UNCHANGED <<entry, click>>

\* One remark at a time, whatever the drawer shows meanwhile.
SaveRemark(c) ==
  /\ Free /\ desk.detail # NoSheet
  /\ \A d \in Clicks : click[d].kind # "remark"
  /\ Call(c, "remark", desk.detail.entry, NoStatus, desk.draft)
  /\ UNCHANGED <<entry, desk, about>>

ServeRemark(c) ==
  LET e == click[c].entry IN
  /\ click[c].kind = "remark" /\ ~Served(c)
  /\ entry' = [entry EXCEPT ![e].remark = click[c].note]
  /\ click' = [click EXCEPT ![c].sheet = [Sheet(e) EXCEPT !.remark = click[c].note]]
  /\ UNCHANGED <<desk, about>>

\* The answer is shown, whatever the drawer shows or waits for.
RemarkSaved(c) ==
  /\ click[c].kind = "remark"
  /\ IF Served(c) THEN Show(desk, click[c].sheet) ELSE UNCHANGED <<desk, about>>
  /\ Done(c)

\* Another administrator, the resident, WeChat.
Moves == {<<"PENDING_PAYMENT", "PAID">>, <<"PENDING_PAYMENT", "CANCELLED">>,
          <<"PAID", "REFUND_PENDING">>, <<"REFUND_PENDING", "PAID">>,
          <<"REFUND_PENDING", "REFUNDED">>}
            \cup {<<s, Target[s]>> : s \in DOMAIN Target}
MovesElsewhere ==
  /\ \E e \in Entries, to \in EntryStatuses :
       /\ <<entry[e].status, to>> \in Moves
       /\ entry' = [entry EXCEPT ![e].status = to]
  /\ UNCHANGED <<desk, click, about>>

DeskNext ==
  \/ PerformAction \/ Dismiss \/ Write \/ MovesElsewhere
  \/ \E c \in Clicks :
       \/ Load(c) \/ ServeList(c) \/ Listed(c)
       \/ OpenDrawer(c) \/ ServeSheet(c) \/ DetailOpened(c)
       \/ Confirm(c) \/ ServeAction(c) \/ ActionPerformed(c)
       \/ SaveRemark(c) \/ ServeRemark(c) \/ RemarkSaved(c)

DeskSpec == (\E start \in [Entries -> EntryStatuses] : DeskInit(start))
            /\ [][DeskNext]_deskVars

----------------------------------------------------------------------------
\* The remark that would be saved was written about the order it would be saved to: late
\* answers may replace what the drawer shows, but never leave the text written about one
\* order in the editor of another (OrderListView.vue openDetail, performAction, saveRemark).
RemarkIsOfItsOrder ==
  desk.detail # NoSheet /\ desk.draft # desk.detail.remark => about \subseteq {desk.detail.entry}
-----------------------------------------------------------------------------
\* Calls about an order name it, with a status that can be acted on; what is shown, and
\* what was answered, is an order.
ClicksAreWhole ==
  /\ desk.detail # NoSheet => desk.detail.entry \in Entries
  /\ desk.asked # NoQuestion =>
       desk.asked.entry \in Entries /\ desk.asked.seen \in DOMAIN Target
  /\ \A c \in Clicks :
       /\ click[c].kind \in {"detail", "act", "remark"} => click[c].entry \in Entries
       /\ click[c].kind = "act" => click[c].seen \in DOMAIN Target
       /\ Served(c) => click[c].sheet.entry \in Entries

\* The draft is about what the drawer shows, as soon as it shows anything.
DraftIsOfItsOrder == desk.detail # NoSheet => about \subseteq {desk.detail.entry}

DeskIInv == DeskTypeOK /\ ClicksAreWhole /\ DraftIsOfItsOrder
=============================================================================
