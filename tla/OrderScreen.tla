---------------------------- MODULE OrderScreen ----------------------------
(***************************************************************************)
(* The confirmation page of the mini program, the store behind it, and the *)
(* calls between it and the server.  A call is answered, or ends in a      *)
(* network error while the server has handled it, never will, or will      *)
(* later.  A resident who leaves the page resets the store; the calls of   *)
(* the page they left are still answered, into the store of the next.      *)
(*                                                                         *)
(*   Choices      what a page selects: address, delivery, remark           *)
(*   Submissions  request ids, of createRequestId                          *)
(*   Sends        the calls under way                                      *)
(*   LastOffer    how often the contents or prices of the cart may change  *)
(*                                                                         *)
(* The server is Checkout.tla seen by one resident: a cart as long as it   *)
(* is not ordered, and at most one order for a request id.                 *)
(***************************************************************************)
EXTENDS Naturals

CONSTANTS Choices, Submissions, Sends, LastOffer, NoChoice, NoSubmission

ASSUME NothingChosen ==
  NoChoice \notin Choices /\ NoSubmission \notin Submissions /\ LastOffer \in Nat

VARIABLES
  page,       \* what the page selects
  screen,     \* the store: selection, preview, flags, pendingCreateInput, createdOrder
  sent,       \* the calls under way
  office,     \* the server: the offer, is there a cart?, orders placed, calls still to come
  abandoned   \* submissions given up: left, changed, or refused (see SubmittedIsRemembered)

screenVars == <<page, screen, sent, office, abandoned>>

Choosable == Choices \cup {NoChoice}
Proposals == [for : Choosable, offer : 0..LastOffer]
Inputs == [id : Submissions \cup {NoSubmission}, for : Choosable, expected : Proposals]

NoProposal == [for |-> NoChoice, offer |-> 0]
NoInput == [id |-> NoSubmission, for |-> NoChoice, expected |-> NoProposal]
NoCall == [kind |-> "none", reply |-> "none", input |-> NoInput, proposal |-> NoProposal,
           before |-> NoProposal, forced |-> FALSE, ends |-> FALSE]
BlankScreen == [selection |-> NoChoice, shown |-> NoProposal, loading |-> FALSE,
          confirm |-> FALSE, pending |-> NoInput, submitting |-> FALSE,
          created |-> NoSubmission]

Replies == {"none", "ok", "stale", "refused", "network"}

ScreenTypeOK ==
  /\ page \in Choices
  /\ screen \in [selection : Choosable, shown : Proposals, loading : BOOLEAN,
                 confirm : BOOLEAN, pending : Inputs, submitting : BOOLEAN,
                 created : Submissions \cup {NoSubmission}]
  /\ sent \in [Sends -> [kind : {"none", "preview", "create"}, reply : Replies,
                         input : Inputs, proposal : Proposals, before : Proposals,
                         forced : BOOLEAN, ends : BOOLEAN]]
  /\ office \in [offer : 0..LastOffer, cart : BOOLEAN,
                 placed : SUBSET Submissions, late : SUBSET Inputs]
  /\ abandoned \subseteq Submissions

AtRest ==
  /\ screen = BlankScreen
  /\ sent = [c \in Sends |-> NoCall]
  /\ office = [offer |-> 0, cart |-> TRUE, placed |-> {}, late |-> {}]
  /\ abandoned = {}
ScreenInit == page \in Choices /\ AtRest

InFlight(kind) == {c \in Sends : sent[c].kind = kind}
Pending(s) == IF s.pending = NoInput THEN {} ELSE {s.pending.id}

\* Every request id in use anywhere.
Minted ==
  office.placed \cup abandoned \cup Pending(screen)
    \cup {sent[c].input.id : c \in InFlight("create")} \cup {i.id : i \in office.late}

(***************************************************************************)
(* loadPreview, on a store s, by the call c.  It does nothing while a      *)
(* preview is loading; another selection forgets the pending submission.   *)
(***************************************************************************)
LoadPreview(s, c, choice, forced, ends) ==
  LET same == s.selection = choice IN
  /\ ~s.loading
  /\ screen' = [s EXCEPT !.selection = choice, !.shown = NoProposal, !.confirm = FALSE,
                         !.loading = TRUE, !.pending = IF same THEN @ ELSE NoInput]
  /\ sent' = [sent EXCEPT ![c] = [NoCall EXCEPT
                !.kind = "preview", !.input.for = choice, !.forced = forced,
                !.ends = ends, !.before = IF same THEN s.shown ELSE NoProposal]]
  /\ abandoned' = IF same THEN abandoned ELSE abandoned \cup Pending(s)

\* What the template lets a resident touch: the selection while a preview is shown.
Editable == screen.created = NoSubmission /\ screen.shown # NoProposal

\* initialize, refreshPreview, chooseDelivery, changeDate, changeSlot, refreshRemark: the
\* page's selection, which a change writes whether or not the store loads it.
RefreshPreview ==
  \E choice \in Choices :
    /\ screen.created = NoSubmission
    /\ choice = page \/ Editable
    /\ page' = choice
    /\ \/ \E c \in Sends : /\ sent[c].kind = "none"
                           /\ LoadPreview(screen, c, choice, FALSE, FALSE)
       \/ /\ screen.loading
          /\ choice # page
          /\ UNCHANGED <<screen, sent, abandoned>>
    /\ UNCHANGED office

\* A remark being written changes the selection alone.
EditRemark ==
  /\ Editable
  /\ page' \in Choices \ {page}
  /\ UNCHANGED <<screen, sent, office, abandoned>>

\* The amount is that of the offer; that two offers may cost the same is the second case.
PreviewAnswered(c) ==
  LET r == sent[c]
      changed == r.before # NoProposal /\ r.before.offer # r.proposal.offer IN
  /\ r.kind = "preview" /\ r.reply # "none"
  /\ \E confirm \in IF changed THEN {TRUE, r.forced} ELSE {r.forced} :
       screen' = [screen EXCEPT
                    !.loading = FALSE,
                    !.shown = IF r.reply = "ok" THEN r.proposal ELSE @,
                    !.confirm = IF r.reply = "ok" /\ confirm THEN TRUE ELSE @,
                    !.submitting = IF r.ends THEN FALSE ELSE @]
  /\ sent' = [sent EXCEPT ![c] = NoCall]
  /\ UNCHANGED <<page, office, abandoned>>

ConfirmLatest ==
  /\ screen.confirm
  /\ screen' = [screen EXCEPT !.confirm = FALSE]
  /\ UNCHANGED <<page, sent, office, abandoned>>

(***************************************************************************)
(* Submitting                                                              *)
(***************************************************************************)

\* The page submits what it shows, once the resident has confirmed a changed amount; a
\* pending submission is sent again as it was.
Submit(c) ==
  /\ sent[c].kind = "none"
  /\ Editable
  /\ ~screen.submitting /\ ~screen.loading /\ ~screen.confirm
  /\ screen.selection = page
  /\ \E input \in IF screen.pending # NoInput THEN {screen.pending}
                  ELSE {[id |-> i, for |-> screen.selection, expected |-> screen.shown] :
                          i \in Submissions \ Minted} :
       /\ screen' = [screen EXCEPT !.pending = input, !.submitting = TRUE]
       /\ sent' = [sent EXCEPT ![c] = [NoCall EXCEPT !.kind = "create", !.input = input]]
  /\ UNCHANGED <<page, office, abandoned>>

Created(c) ==
  LET r == sent[c] IN
  /\ r.kind = "create" /\ r.reply = "ok"
  /\ screen' = [screen EXCEPT !.created = r.input.id, !.pending = NoInput,
                              !.submitting = FALSE]
  /\ sent' = [sent EXCEPT ![c] = NoCall]
  \* Only the answer to a call of a page left meanwhile clears another submission.
  /\ abandoned' = abandoned \cup (Pending(screen) \ {r.input.id})
                            \cup ({screen.created} \ {NoSubmission, r.input.id})
  /\ UNCHANGED <<page, office>>

\* The selection of the store is loaded again, unless a preview is loading anyway.
Stale(c) ==
  LET r == sent[c]
      s == [screen EXCEPT !.pending = NoInput] IN
  /\ r.kind = "create" /\ r.reply = "stale"
  /\ \/ /\ ~screen.loading
        /\ screen' = [s EXCEPT !.shown = NoProposal, !.confirm = FALSE, !.loading = TRUE]
        /\ sent' = [sent EXCEPT ![c] = [NoCall EXCEPT
                      !.kind = "preview", !.input.for = screen.selection,
                      !.forced = TRUE, !.ends = TRUE, !.before = screen.shown]]
     \/ /\ screen.loading
        /\ screen' = [s EXCEPT !.submitting = FALSE]
        /\ sent' = [sent EXCEPT ![c] = NoCall]
  /\ abandoned' = abandoned \cup Pending(screen) \cup {r.input.id}
  /\ UNCHANGED <<page, office>>

MutantUnanswered(c) ==
  LET r == sent[c] IN
  /\ r.kind = "create" /\ r.reply \in {"refused", "network"}
  /\ screen' = [screen EXCEPT !.submitting = FALSE, !.pending = NoInput]
  /\ abandoned' = IF r.reply = "network" THEN abandoned
                  ELSE abandoned \cup Pending(screen) \cup {r.input.id}
  /\ sent' = [sent EXCEPT ![c] = NoCall]
  /\ UNCHANGED <<page, office>>

\* Any other error.  A network error keeps the submission for another try.
Unanswered(c) ==
  LET r == sent[c] IN
  /\ r.kind = "create" /\ r.reply \in {"refused", "network"}
  /\ screen' = [screen EXCEPT !.submitting = FALSE,
                              !.pending = IF r.reply = "network" THEN @ ELSE NoInput]
  /\ abandoned' = IF r.reply = "network" THEN abandoned
                  ELSE abandoned \cup Pending(screen) \cup {r.input.id}
  /\ sent' = [sent EXCEPT ![c] = NoCall]
  /\ UNCHANGED <<page, office>>

\* onLoad of the page, goHome, viewCreatedOrder and logging out.
LeavePage ==
  /\ screen # BlankScreen
  /\ screen' = BlankScreen
  /\ abandoned' = abandoned \cup Pending(screen) \cup ({screen.created} \ {NoSubmission})
                            \cup {sent[c].input.id : c \in InFlight("create")}
  /\ page' \in Choices
  /\ UNCHANGED <<sent, office>>

(***************************************************************************)
(* The server                                                              *)
(***************************************************************************)
Reply(c, r) == sent' = [sent EXCEPT ![c].reply = r]
Waiting(c, kind) == sent[c].kind = kind /\ sent[c].reply = "none"

ServePreview(c) ==
  /\ Waiting(c, "preview")
  /\ \/ /\ office.cart /\ sent[c].input.for # NoChoice
        /\ sent' = [sent EXCEPT ![c].reply = "ok",
                                ![c].proposal = [for |-> sent[c].input.for,
                                                 offer |-> office.offer]]
     \/ Reply(c, "refused")
  /\ UNCHANGED <<page, screen, office, abandoned>>

Replayed(i) == i.id \in office.placed
Placeable(i) ==
  /\ ~Replayed(i) /\ office.cart
  /\ i.expected = [for |-> i.for, offer |-> office.offer]
Place(i) == office' = [office EXCEPT !.placed = @ \cup {i.id}, !.cart = FALSE]

\* The answer to an order that was placed may come as the error of a gateway.
ServeCreate(c) ==
  LET i == sent[c].input IN
  /\ Waiting(c, "create")
  /\ \/ Replayed(i) /\ Reply(c, "ok") /\ UNCHANGED office
     \/ Placeable(i) /\ Place(i) /\ \E r \in {"ok", "refused"} : Reply(c, r)
     \/ /\ ~Replayed(i) /\ office.cart /\ ~Placeable(i)
        /\ Reply(c, "stale")
        /\ UNCHANGED office
     \/ Reply(c, "refused") /\ UNCHANGED office
  /\ UNCHANGED <<page, screen, abandoned>>

\* A network error before or after the call was served, or while it has yet to arrive.
\* (That of a preview is one of its refusals: the store makes no difference.)
Disconnect(c) ==
  /\ sent[c].kind = "create" /\ sent[c].reply # "network"
  /\ Reply(c, "network")
  /\ \/ UNCHANGED office
     \/ /\ Waiting(c, "create")
        /\ office' = [office EXCEPT !.late = @ \cup {sent[c].input}]
  /\ UNCHANGED <<page, screen, abandoned>>

ServeLate ==
  /\ \E i \in office.late :
       office' = [office EXCEPT
                    !.late = @ \ {i},
                    !.placed = IF Placeable(i) THEN @ \cup {i.id} ELSE @,
                    !.cart = IF Placeable(i) THEN FALSE ELSE @]
  /\ UNCHANGED <<page, screen, sent, abandoned>>

\* The cart, a price or the store changes; an ordered cart is filled again.
ChangeOffer ==
  /\ office.offer < LastOffer
  /\ office' = [office EXCEPT !.offer = @ + 1, !.cart = TRUE]
  /\ UNCHANGED <<page, screen, sent, abandoned>>

ScreenNext ==
  \/ RefreshPreview \/ EditRemark \/ ConfirmLatest \/ LeavePage
  \/ ServeLate \/ ChangeOffer
  \/ \E c \in Sends :
       \/ PreviewAnswered(c) \/ Submit(c) \/ Created(c) \/ Stale(c) \/ Unanswered(c)
       \/ ServePreview(c) \/ ServeCreate(c) \/ Disconnect(c)

ScreenSpec == ScreenInit /\ [][ScreenNext]_screenVars

----------------------------------------------------------------------------
\* An order that the server has placed for a submission of this page is shown on it, or
\* the page still holds the request id to ask for it again, or the call is under way:
\* lost, late and repeated calls lose no order (stores/order.ts submit).  Given up are
\* the submissions of a page the resident left, those whose selection they changed while
\* the call was under way, those answered with an error other than the network's, and
\* the one that is pending when the answer to another submission, that of a page left
\* before, clears it.
SubmittedIsRemembered ==
  office.placed \subseteq
    abandoned \cup Pending(screen) \cup {screen.created}
      \cup {sent[c].input.id : c \in InFlight("create")}
-----------------------------------------------------------------------------
\* The submissions the page can still account for, without looking at its calls.
Remembered == abandoned \cup Pending(screen) \cup ({screen.created} \ {NoSubmission})

\* A call to create an order is for a remembered submission, and so is one that the
\* server has yet to receive, and every order there is.
SubmissionsAreKnown ==
  /\ screen.pending # NoInput => screen.pending.id \in Submissions
  /\ \A c \in Sends : sent[c].kind = "create" => sent[c].input.id \in Remembered
  /\ \A i \in office.late : i.id \in Remembered
  /\ office.placed \subseteq Remembered

ScreenIInv == ScreenTypeOK /\ SubmissionsAreKnown
=============================================================================
