----------------------------- MODULE MCScreens -----------------------------
(***************************************************************************)
(* The pages of the mini program and of the back office, for TLC.  Each    *)
(* keeps its own state in its own program, so one of them moves in each    *)
(* behaviour and the others rest as they began.                            *)
(***************************************************************************)
EXTENDS OrderScreen, OrderPages, OrderDesk, EditForms, Visit, StorePages, TLC

VARIABLE scene  \* the page that moves

screensVars == <<screenVars, pagesVars, deskVars, formVars, visitVars, storeVars, scene>>

Scenes == {"screen", "pages", "desk", "forms", "visit", "stores"}

TwoFilters == {"ALL", "open"}

\* One order that is moved on, and one at its end.
OnDesk ==
  {[e \in Entries |-> IF e = f THEN "PENDING_PAYMENT" ELSE "COMPLETED"] : f \in Entries}
AtEnd == [e \in Entries |-> "COMPLETED"]

ScreensInit ==
  /\ scene \in Scenes
  /\ IF scene = "screen" THEN ScreenInit ELSE page = NoChoice /\ AtRest
  /\ PagesInit
  /\ \E start \in IF scene = "desk" THEN OnDesk ELSE {AtEnd} : DeskInit(start)
  /\ FormsInit /\ (scene # "forms" => view = "stores")
  /\ VisitInit /\ (scene # "visit" => ~visit.token /\ visit.shown = NoArea
                                      /\ served.area = NoArea)
  /\ StorePagesInit /\ here = Nowhere

(***************************************************************************)
(* Bounds, page by page                                                    *)
(***************************************************************************)

\* A resident changes what they have selected before the offer changes, which it does
\* before a call, of which there is one at a time, arrives late.  Where nothing more can
\* be lost, nothing more is looked at.
OneIsLate ==
  /\ \A i, j \in office'.late : i = j
  /\ page' # page => abandoned = {} /\ office.late = {} /\ office.offer = 0
  /\ office'.offer # office.offer => office.late = {}
NothingToLose ==
  /\ office.placed \subseteq abandoned
  /\ \/ abandoned = Submissions
     \/ office.placed # {} /\ ~office.cart /\ office.offer = LastOffer

\* One of the orders is paid, cancelled or refunded, the others wait to be paid; the shop
\* takes it on before the pages are opened; a refund's page is loaded alone, and after it
\* no list.
OneMoves ==
  /\ \E b \in Bills : \A c \in Bills \ {b} : bill'[c] = "open"
  /\ \A b \in Bills : bill'[b] = "done" =>
       \/ bill[b] = "done"
       \/ book.page = NoBill /\ book.store = EmptyBook /\ \A q \in Queries : Idle(q)
  /\ \A p, q \in Queries : p # q /\ query'[p].kind = "refund" => query'[q].kind = "none"
  /\ book'.store.refund # NoBill => book'.store.listed = {}

\* Four of the ten statuses, a remark on one of the orders; a list shows all orders, or
\* has failed.
Briefly ==
  /\ \A e \in Entries :
       entry'[e].status \in {"PENDING_PAYMENT", "PAID", "CANCELLED", "COMPLETED"}
  /\ \A e, f \in Entries : {entry'[e].remark, entry'[f].remark} \subseteq Remarks => e = f
  /\ \A c \in Clicks, e, f \in Entries :
       (click'[c].rows[e] = NoStatus) = (click'[c].rows[f] = NoStatus)

\* One community stays enabled.
OneStays == served'.enabled # {}

\* A resident looks at the products of one store, or goes from store to store and to
\* confirmations, with no category selected; the community is chosen once, and no list of
\* stores is loaded beside a preview.
LooksOrBuys ==
  /\ ~(shown'["product"] = Nothing /\ route'.product = NoOffer) =>
        /\ ~route'.confirm /\ ~lent' /\ \A q \in Loads : load'[q].kind # "preview"
        /\ AtHome => route'.store = NoOffer
  /\ route'.confirm \/ lent' => selectedCategory' = AllShelves
  /\ here' # here => here = Nowhere
  /\ \A p, q \in Loads : load'[p].kind = "preview" => load'[q].kind # "stores"

ScreensNext ==
  /\ UNCHANGED scene
  /\ \/ /\ scene = "screen"
        /\ IF NothingToLose THEN UNCHANGED screenVars ELSE ScreenNext /\ OneIsLate
        /\ UNCHANGED <<pagesVars, deskVars, formVars, visitVars, storeVars>>
     \/ /\ scene = "pages" /\ PagesNext /\ OneMoves
        /\ UNCHANGED <<screenVars, deskVars, formVars, visitVars, storeVars>>
     \/ /\ scene = "desk" /\ DeskNext /\ Briefly
        /\ UNCHANGED <<screenVars, pagesVars, formVars, visitVars, storeVars>>
     \/ /\ scene = "forms" /\ FormsNext
        /\ UNCHANGED <<screenVars, pagesVars, deskVars, visitVars, storeVars>>
     \/ /\ scene = "visit" /\ VisitNext /\ OneStays
        /\ UNCHANGED <<screenVars, pagesVars, deskVars, formVars, storeVars>>
     \/ /\ scene = "stores" /\ StorePagesNext /\ LooksOrBuys
        /\ UNCHANGED <<screenVars, pagesVars, deskVars, formVars, visitVars>>

ScreensSpec == ScreensInit /\ [][ScreensNext]_screensVars

\* The pages share their model values, so that one swap serves them all.
Symmetry == Permutations(Queries) \cup Permutations(Choices) \cup Permutations(Submissions)

----------------------------------------------------------------------------
\* Stores and calls have their types (the page that moves could leave them).
ScreensTypeOK ==
  /\ scene = "screen" => ScreenTypeOK
  /\ scene = "pages" => PagesTypeOK
  /\ scene = "desk" => DeskTypeOK
  /\ scene = "forms" => FormsTypeOK
  /\ scene = "visit" => VisitTypeOK
  /\ scene = "stores" => StorePagesTypeOK

\* What an administrator has written, or chosen, would be saved to the order, the row or
\* the store it was meant for (OrderDesk.tla, EditForms.tla).
WrittenWhereMeant == RemarkIsOfItsOrder /\ FormSavesItsRow
=============================================================================
