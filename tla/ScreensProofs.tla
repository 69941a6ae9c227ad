--------------------------- MODULE ScreensProofs ---------------------------
(***************************************************************************)
(* Proofs about the pages of the mini program and of the back office.      *)
(* Each page is a program of its own, and is proved of its own             *)
(* specification: its strengthened invariant holds initially, every step   *)
(* keeps it, and the property the runs check follows from it.  In all of   *)
(* them the argument is about the answers still on their way: an answer    *)
(* may change what is shown only if the invariant says of the call, while  *)
(* it is under way, that its answer will be about what is shown.           *)
(***************************************************************************)
EXTENDS MCScreens, FiniteSetTheorems, TLAPS

-----------------------------------------------------------------------------
(* The confirmation page *)

ScreenRows == [selection : Choosable, shown : Proposals, loading : BOOLEAN, confirm : BOOLEAN,
               pending : Inputs, submitting : BOOLEAN, created : Submissions \cup {NoSubmission}]
SendRows == [kind : {"none", "preview", "create"}, reply : Replies, input : Inputs,
             proposal : Proposals, before : Proposals, forced : BOOLEAN, ends : BOOLEAN]
OfficeRows == [offer : 0..LastOffer, cart : BOOLEAN, placed : SUBSET Submissions,
               late : SUBSET Inputs]

\* ScreenIInv, in the words of the rows.
LEMMA ScreenType ==
  /\ ScreenIInv <=>
       /\ page \in Choices /\ screen \in ScreenRows /\ sent \in [Sends -> SendRows]
       /\ office \in OfficeRows /\ abandoned \subseteq Submissions /\ SubmissionsAreKnown
  /\ ScreenIInv' <=>
       /\ page' \in Choices /\ screen' \in ScreenRows /\ sent' \in [Sends -> SendRows]
       /\ office' \in OfficeRows /\ abandoned' \subseteq Submissions /\ SubmissionsAreKnown'
BY DEF ScreenIInv, ScreenTypeOK, ScreenRows, SendRows, OfficeRows

\* The page of a fresh start is a page.
LEMMA BlankIsAScreen ==
  /\ NoChoice \in Choosable /\ NoProposal \in Proposals /\ NoInput \in Inputs
  /\ NoCall \in SendRows /\ BlankScreen \in ScreenRows
<1>1. NoChoice \in Choosable /\ NoProposal \in Proposals
  BY NothingChosen DEF Choosable, Proposals, NoProposal
<1>2. NoInput \in Inputs
  BY <1>1 DEF Inputs, NoInput
<1> QED
  BY <1>1, <1>2 DEF NoCall, SendRows, Replies, BlankScreen, ScreenRows

\* What is remembered are submissions.
LEMMA RememberedType == ScreenIInv => Remembered \subseteq Submissions
BY ScreenType DEF SubmissionsAreKnown, Remembered, Pending, ScreenRows

\* A program that has just started has everything in order.
LEMMA ScreenStart == ScreenInit => ScreenIInv
<1> SUFFICES ASSUME ScreenInit PROVE ScreenIInv
  OBVIOUS
<1>1. screen \in ScreenRows /\ sent \in [Sends -> SendRows] /\ page \in Choices
  BY BlankIsAScreen DEF ScreenInit, AtRest
<1>2. office \in OfficeRows /\ abandoned \subseteq Submissions
  BY NothingChosen DEF ScreenInit, AtRest, OfficeRows
<1>3. SubmissionsAreKnown
  BY DEF ScreenInit, AtRest, SubmissionsAreKnown, BlankScreen, NoCall
<1> QED BY <1>1, <1>2, <1>3, ScreenType

\* Nothing is forgotten, and what is new is remembered.
LEMMA ScreenMoves ==
  ASSUME ScreenIInv, page' \in Choices, screen' \in ScreenRows,
         screen'.pending # NoInput => screen'.pending.id \in Submissions,
         abandoned' \subseteq Submissions, Remembered \subseteq Remembered',
         sent' \in [Sends -> SendRows],
         \A c \in Sends : sent'[c].kind = "create" =>
           \/ sent[c].kind = "create" /\ sent'[c].input = sent[c].input
           \/ sent'[c].input.id \in Remembered',
         office' \in OfficeRows,
         \A i \in office'.late : i \in office.late \/ i.id \in Remembered',
         office'.placed \subseteq office.placed \cup Remembered'
  PROVE  ScreenIInv'
<1>1. SubmissionsAreKnown
  BY DEF ScreenIInv
<1>2. SubmissionsAreKnown'
  BY <1>1 DEF SubmissionsAreKnown
<1> QED BY <1>2, ScreenType

\* A step of one call that leaves the server alone.
LEMMA SendMoves ==
  ASSUME ScreenIInv, page' \in Choices, screen' \in ScreenRows,
         screen'.pending # NoInput => screen'.pending.id \in Submissions,
         abandoned' \subseteq Submissions, Remembered \subseteq Remembered',
         NEW c \in Sends, NEW r, r \in SendRows, sent' = [sent EXCEPT ![c] = r],
         r.kind = "create" =>
           \/ sent[c].kind = "create" /\ r.input = sent[c].input
           \/ r.input.id \in Remembered',
         UNCHANGED office
  PROVE  ScreenIInv'
<1>1. /\ sent' \in [Sends -> SendRows]
      /\ \A d \in Sends : sent'[d] = IF d = c THEN r ELSE sent[d]
  BY ScreenType
<1>2. office' \in OfficeRows
  BY ScreenType
<1> QED BY <1>1, <1>2, ScreenMoves

\* A step of the server, on the call c.
LEMMA ReplyMoves ==
  ASSUME ScreenIInv, UNCHANGED <<page, screen, abandoned>>, NEW c \in Sends,
         NEW r, r \in SendRows, sent' = [sent EXCEPT ![c] = r],
         r.kind = sent[c].kind, r.input = sent[c].input, office' \in OfficeRows,
         \A i \in office'.late : i \in office.late \/ i.id \in Remembered,
         office'.placed \subseteq office.placed \cup Remembered
  PROVE  ScreenIInv'
<1>1. /\ sent' \in [Sends -> SendRows]
      /\ \A d \in Sends : sent'[d] = IF d = c THEN r ELSE sent[d]
  BY ScreenType
<1>2. Remembered' = Remembered
  BY DEF Remembered, Pending
<1>3. /\ page' \in Choices /\ screen' \in ScreenRows /\ abandoned' \subseteq Submissions
      /\ screen'.pending # NoInput => screen'.pending.id \in Submissions
  BY ScreenType DEF SubmissionsAreKnown
<1> QED BY <1>1, <1>2, <1>3, ScreenMoves

\* Every step of the confirmation page keeps its invariant.
LEMMA ScreenKeeps == ScreenIInv /\ [ScreenNext]_screenVars => ScreenIInv'
<1> SUFFICES ASSUME ScreenIInv, [ScreenNext]_screenVars PROVE ScreenIInv'
  OBVIOUS
<1>1. /\ page \in Choices /\ screen \in ScreenRows /\ sent \in [Sends -> SendRows]
      /\ office \in OfficeRows /\ abandoned \subseteq Submissions
      /\ Remembered \subseteq Submissions
  BY ScreenType, RememberedType
<1>2. /\ screen.pending # NoInput => screen.pending.id \in Submissions
      /\ \A c \in Sends : sent[c].kind = "create" => sent[c].input.id \in Remembered
      /\ \A i \in office.late : i.id \in Remembered
  BY DEF ScreenIInv, SubmissionsAreKnown
<1>3. Choices \subseteq Choosable /\ screen.selection \in Choosable
  BY <1>1 DEF Choosable, ScreenRows
<1>4. CASE UNCHANGED screenVars
  BY <1>1, <1>4, ScreenType DEF screenVars, ScreenIInv, SubmissionsAreKnown, Remembered, Pending
<1>5. ASSUME NEW c \in Sends, NEW choice \in Choices, page' = choice, UNCHANGED office,
             LoadPreview(screen, c, choice, FALSE, FALSE)
      PROVE  ScreenIInv'
  <2> DEFINE same == screen.selection = choice
             r == [NoCall EXCEPT !.kind = "preview", !.input.for = choice, !.forced = FALSE,
                     !.ends = FALSE, !.before = IF same THEN screen.shown ELSE NoProposal]
  <2>1. r \in SendRows /\ r.kind = "preview"
    BY <1>1, <1>3, BlankIsAScreen DEF SendRows, ScreenRows, Inputs
  <2>2. sent' = [sent EXCEPT ![c] = r]
    BY <1>5 DEF LoadPreview
  <2>3. /\ screen' \in ScreenRows /\ screen'.created = screen.created
        /\ screen'.pending = IF same THEN screen.pending ELSE NoInput
    BY <1>1, <1>3, <1>5, BlankIsAScreen DEF LoadPreview, ScreenRows
  <2>4. abandoned' = IF same THEN abandoned ELSE abandoned \cup Pending(screen)
    BY <1>5 DEF LoadPreview
  <2>5. Remembered \subseteq Remembered' /\ abandoned' \subseteq Submissions
    BY <1>1, <1>2, <2>3, <2>4 DEF Remembered, Pending
  <2> HIDE DEF r
  <2> QED BY <1>2, <1>5, <2>1, <2>2, <2>3, <2>5, SendMoves
<1>6. CASE RefreshPreview
  <2>1. PICK choice \in Choices :
          /\ page' = choice
          /\ \/ \E c \in Sends : LoadPreview(screen, c, choice, FALSE, FALSE)
             \/ UNCHANGED <<screen, sent, abandoned>>
    BY <1>6 DEF RefreshPreview
  <2>2. UNCHANGED office
    BY <1>6 DEF RefreshPreview
  <2>3. CASE UNCHANGED <<screen, sent, abandoned>>
    BY <1>1, <1>2, <2>1, <2>2, <2>3, ScreenMoves DEF Remembered, Pending
  <2> QED BY <1>5, <2>1, <2>2, <2>3
<1>7. CASE EditRemark
  BY <1>1, <1>2, <1>7, ScreenMoves DEF EditRemark, Remembered, Pending
<1>8. CASE ConfirmLatest
  <2>1. /\ screen' \in ScreenRows /\ screen'.created = screen.created
        /\ screen'.pending = screen.pending
    BY <1>1, <1>8 DEF ConfirmLatest, ScreenRows
  <2>2. Remembered' = Remembered
    BY <1>8, <2>1 DEF ConfirmLatest, Remembered, Pending
  <2> QED BY <1>1, <1>2, <1>8, <2>1, <2>2, ScreenMoves DEF ConfirmLatest
<1>9. CASE LeavePage
  <2>1. /\ screen' = BlankScreen /\ page' \in Choices /\ UNCHANGED <<sent, office>>
        /\ abandoned' = abandoned \cup Pending(screen) \cup ({screen.created} \ {NoSubmission})
                          \cup {sent[c].input.id : c \in InFlight("create")}
    BY <1>9 DEF LeavePage
  <2>2. Remembered \subseteq Remembered' /\ abandoned' \subseteq Submissions
    BY <1>1, <1>2, <2>1 DEF Remembered, InFlight
  <2>3. screen'.pending = NoInput /\ screen' \in ScreenRows
    BY <2>1, BlankIsAScreen DEF BlankScreen
  <2> QED BY <1>1, <1>2, <2>1, <2>2, <2>3, ScreenMoves
<1>10. CASE ServeLate
  <2>1. PICK i \in office.late :
          office' = [office EXCEPT !.late = @ \ {i},
                                   !.placed = IF Placeable(i) THEN @ \cup {i.id} ELSE @,
                                   !.cart = IF Placeable(i) THEN FALSE ELSE @]
    BY <1>10 DEF ServeLate
  <2>2. i.id \in Remembered /\ i.id \in Submissions
    BY <1>1, <1>2
  <2>3. /\ office' \in OfficeRows /\ office'.late \subseteq office.late
        /\ office'.placed \subseteq office.placed \cup {i.id}
    <3> HIDE DEF Placeable
    <3> QED BY <1>1, <2>1, <2>2 DEF OfficeRows
  <2>4. Remembered' = Remembered
    BY <1>10 DEF ServeLate, Remembered, Pending
  <2> QED BY <1>1, <1>2, <1>10, <2>2, <2>3, <2>4, ScreenMoves DEF ServeLate
<1>11. CASE ChangeOffer
  <2>1. /\ office' \in OfficeRows /\ office'.late = office.late
        /\ office'.placed = office.placed
    <3>1. office.offer + 1 \in 0..LastOffer
      BY <1>1, <1>11, NothingChosen DEF ChangeOffer, OfficeRows
    <3>2. office' = [office EXCEPT !.offer = office.offer + 1, !.cart = TRUE]
      BY <1>11 DEF ChangeOffer
    <3> QED BY <1>1, <3>1, <3>2 DEF OfficeRows
  <2>2. Remembered' = Remembered
    BY <1>11 DEF ChangeOffer, Remembered, Pending
  <2> QED BY <1>1, <1>2, <1>11, <2>1, <2>2, ScreenMoves DEF ChangeOffer
<1>12. ASSUME NEW c \in Sends, PreviewAnswered(c) PROVE ScreenIInv'
  <2>1. PICK confirm \in BOOLEAN :
          screen' = [screen EXCEPT
                       !.loading = FALSE,
                       !.shown = IF sent[c].reply = "ok" THEN sent[c].proposal ELSE @,
                       !.confirm = IF sent[c].reply = "ok" /\ confirm THEN TRUE ELSE @,
                       !.submitting = IF sent[c].ends THEN FALSE ELSE @]
    BY <1>1, <1>12 DEF PreviewAnswered, SendRows
  <2>2. /\ screen' \in ScreenRows /\ screen'.created = screen.created
        /\ screen'.pending = screen.pending
    BY <1>1, <2>1 DEF ScreenRows, SendRows
  <2>3. Remembered' = Remembered
    BY <1>12, <2>2 DEF PreviewAnswered, Remembered, Pending
  <2>4. sent' = [sent EXCEPT ![c] = NoCall] /\ UNCHANGED <<page, office, abandoned>>
    BY <1>12 DEF PreviewAnswered
  <2> QED BY <1>1, <1>2, <2>2, <2>3, <2>4, BlankIsAScreen, SendMoves DEF NoCall
<1>13. ASSUME NEW c \in Sends, Submit(c) PROVE ScreenIInv'
  <2>1. PICK input \in IF screen.pending # NoInput THEN {screen.pending}
                       ELSE {[id |-> i, for |-> screen.selection, expected |-> screen.shown] :
                               i \in Submissions \ Minted} :
          /\ screen' = [screen EXCEPT !.pending = input, !.submitting = TRUE]
          /\ sent' = [sent EXCEPT ![c] = [NoCall EXCEPT !.kind = "create", !.input = input]]
    BY <1>13 DEF Submit
  <2>2. /\ input \in Inputs /\ input.id \in Submissions
        /\ screen.pending # NoInput => input = screen.pending
    BY <1>1, <1>2, <2>1 DEF Inputs, ScreenRows
  <2>3. input # NoInput
    BY <2>2, NothingChosen DEF NoInput
  <2>4. /\ screen' \in ScreenRows /\ screen'.created = screen.created
        /\ screen'.pending = input
    BY <1>1, <2>1, <2>2 DEF ScreenRows
  <2>5. UNCHANGED <<page, office, abandoned>>
    BY <1>13 DEF Submit
  <2>6. Remembered \subseteq Remembered' /\ input.id \in Remembered'
    BY <2>2, <2>3, <2>4, <2>5 DEF Remembered, Pending
  <2> DEFINE r == [NoCall EXCEPT !.kind = "create", !.input = input]
  <2>7. r \in SendRows /\ r.input = input
    BY <2>2, BlankIsAScreen DEF SendRows
  <2> HIDE DEF r
  <2> QED BY <1>1, <1>2, <2>1, <2>2, <2>4, <2>5, <2>6, <2>7, SendMoves DEF r
<1>14. ASSUME NEW c \in Sends, Created(c) PROVE ScreenIInv'
  <2> DEFINE id == sent[c].input.id
  <2>1. id \in Submissions /\ id # NoSubmission
    BY <1>1, <1>2, <1>14, NothingChosen DEF Created
  <2>2. /\ screen' = [screen EXCEPT !.created = id, !.pending = NoInput, !.submitting = FALSE]
        /\ abandoned' = abandoned \cup (Pending(screen) \ {id})
                                  \cup ({screen.created} \ {NoSubmission, id})
        /\ sent' = [sent EXCEPT ![c] = NoCall] /\ UNCHANGED <<page, office>>
    BY <1>14 DEF Created
  <2> HIDE DEF id
  <2>3. screen' \in ScreenRows /\ screen'.created = id /\ screen'.pending = NoInput
    BY <1>1, <2>1, <2>2, BlankIsAScreen DEF ScreenRows
  <2>4. Remembered \subseteq Remembered' /\ abandoned' \subseteq Submissions
    BY <1>1, <2>1, <2>2, <2>3 DEF Remembered
  <2> QED BY <1>1, <2>2, <2>3, <2>4, BlankIsAScreen, SendMoves DEF NoCall
<1>15. ASSUME NEW c \in Sends, Stale(c) PROVE ScreenIInv'
  <2>1. /\ sent[c].input.id \in Submissions /\ UNCHANGED <<page, office>>
        /\ abandoned' = abandoned \cup Pending(screen) \cup {sent[c].input.id}
    BY <1>1, <1>2, <1>15 DEF Stale
  <2>2. screen' \in ScreenRows /\ screen'.created = screen.created /\ screen'.pending = NoInput
    BY <1>1, <1>15, BlankIsAScreen DEF Stale, ScreenRows
  <2>3. Remembered \subseteq Remembered' /\ abandoned' \subseteq Submissions
    BY <1>1, <2>1, <2>2 DEF Remembered
  <2> DEFINE r == [NoCall EXCEPT !.kind = "preview", !.input.for = screen.selection,
                     !.forced = TRUE, !.ends = TRUE, !.before = screen.shown]
  <2>4. r \in SendRows /\ r.kind = "preview"
    BY <1>1, <1>3, BlankIsAScreen DEF SendRows, ScreenRows, Inputs
  <2>5. sent' = [sent EXCEPT ![c] = r] \/ sent' = [sent EXCEPT ![c] = NoCall]
    BY <1>15 DEF Stale
  <2> HIDE DEF r
  <2>6. CASE sent' = [sent EXCEPT ![c] = r]
    BY <1>1, <2>1, <2>2, <2>3, <2>4, <2>6, SendMoves
  <2>7. CASE sent' = [sent EXCEPT ![c] = NoCall]
    BY <1>1, <2>1, <2>2, <2>3, <2>7, BlankIsAScreen, SendMoves DEF NoCall
  <2> QED BY <2>5, <2>6, <2>7
<1>16. ASSUME NEW c \in Sends, Unanswered(c) PROVE ScreenIInv'
  <2>1. sent[c].input.id \in Submissions
    BY <1>1, <1>2, <1>16 DEF Unanswered
  <2>2. /\ screen' \in ScreenRows /\ screen'.created = screen.created
        /\ screen'.pending = IF sent[c].reply = "network" THEN screen.pending ELSE NoInput
    BY <1>1, <1>16, BlankIsAScreen DEF Unanswered, ScreenRows
  <2>3. /\ sent' = [sent EXCEPT ![c] = NoCall] /\ UNCHANGED <<page, office>>
        /\ abandoned' = IF sent[c].reply = "network" THEN abandoned
                        ELSE abandoned \cup Pending(screen) \cup {sent[c].input.id}
    BY <1>16 DEF Unanswered
  <2>4. Remembered \subseteq Remembered' /\ abandoned' \subseteq Submissions
    BY <1>1, <2>1, <2>2, <2>3 DEF Remembered, Pending
  <2> QED BY <1>1, <1>2, <2>2, <2>3, <2>4, BlankIsAScreen, SendMoves DEF NoCall
\* The answers of the server.
<1>17. ASSUME NEW c \in Sends, NEW r \in Replies, Reply(c, r)
       PROVE  /\ sent' = [sent EXCEPT ![c] = [sent[c] EXCEPT !.reply = r]]
              /\ [sent[c] EXCEPT !.reply = r] \in SendRows
              /\ [sent[c] EXCEPT !.reply = r].kind = sent[c].kind
              /\ [sent[c] EXCEPT !.reply = r].input = sent[c].input
  BY <1>1, <1>17 DEF Reply, SendRows
<1>18. ASSUME NEW c \in Sends, NEW r \in Replies, Reply(c, r),
              UNCHANGED <<page, screen, abandoned>>, office' \in OfficeRows,
              \A i \in office'.late : i \in office.late \/ i.id \in Remembered,
              office'.placed \subseteq office.placed \cup Remembered
       PROVE  ScreenIInv'
  <2> DEFINE s == [sent[c] EXCEPT !.reply = r]
  <2>1. /\ sent' = [sent EXCEPT ![c] = s] /\ s \in SendRows /\ s.kind = sent[c].kind
        /\ s.input = sent[c].input
    BY <1>17, <1>18
  <2> HIDE DEF s
  <2> QED BY <1>18, <2>1, ReplyMoves
<1>19. ASSUME NEW c \in Sends, ServePreview(c) PROVE ScreenIInv'
  <2>1. CASE Reply(c, "refused")
    BY <1>1, <1>18, <1>19, <2>1 DEF ServePreview, Replies
  <2>2. CASE /\ sent[c].input.for # NoChoice
             /\ sent' = [sent EXCEPT ![c].reply = "ok",
                                     ![c].proposal = [for |-> sent[c].input.for,
                                                      offer |-> office.offer]]
    <3> DEFINE p == [for |-> sent[c].input.for, offer |-> office.offer]
               s == [sent[c] EXCEPT !.reply = "ok", !.proposal = p]
    <3>1. p \in Proposals
      BY <1>1 DEF Proposals, SendRows, Inputs, OfficeRows
    <3>2. /\ s \in SendRows /\ s.kind = sent[c].kind /\ s.input = sent[c].input
          /\ sent' = [sent EXCEPT ![c] = s]
      <4> HIDE DEF p
      <4> QED BY <1>1, <2>2, <3>1 DEF SendRows, Replies, p
    <3> HIDE DEF s
    <3> QED BY <1>1, <1>19, <3>2, ReplyMoves DEF ServePreview
  <2> QED BY <1>19, <2>1, <2>2 DEF ServePreview
<1>20. ASSUME NEW c \in Sends, ServeCreate(c) PROVE ScreenIInv'
  <2> DEFINE i == sent[c].input
  <2>1. i \in Inputs /\ i.id \in Remembered /\ i.id \in Submissions
    BY <1>1, <1>2, <1>20 DEF ServeCreate, Waiting, SendRows
  <2>2. PICK r \in Replies : Reply(c, r)
    BY <1>20 DEF ServeCreate, Replies
  <2>3. UNCHANGED office \/ Place(i)
    BY <1>20 DEF ServeCreate
  <2> HIDE DEF i
  <2>4. /\ office' \in OfficeRows /\ office'.late = office.late
        /\ office'.placed \subseteq office.placed \cup {i.id}
    <3>1. CASE UNCHANGED office
      BY <1>1, <3>1
    <3>2. CASE Place(i)
      <4>1. office' = [office EXCEPT !.placed = @ \cup {i.id}, !.cart = FALSE]
        BY <3>2 DEF Place
      <4> QED BY <1>1, <2>1, <4>1 DEF OfficeRows
    <3> QED BY <2>3, <3>1, <3>2
  <2> QED BY <1>18, <1>20, <2>1, <2>2, <2>4 DEF ServeCreate
<1>21. ASSUME NEW c \in Sends, Disconnect(c) PROVE ScreenIInv'
  <2> DEFINE i == sent[c].input
  <2>1. i \in Inputs /\ i.id \in Remembered /\ Reply(c, "network")
    BY <1>1, <1>2, <1>21 DEF Disconnect, SendRows
  <2>2. UNCHANGED office \/ office' = [office EXCEPT !.late = @ \cup {i}]
    BY <1>21 DEF Disconnect
  <2> HIDE DEF i
  <2>3. /\ office' \in OfficeRows /\ office'.placed = office.placed
        /\ office'.late \subseteq office.late \cup {i}
    BY <1>1, <2>1, <2>2 DEF OfficeRows
  <2> QED BY <1>18, <1>21, <2>1, <2>3 DEF Disconnect, Replies
<1> QED
  BY <1>4, <1>6, <1>7, <1>8, <1>9, <1>10, <1>11, <1>12, <1>13, <1>14, <1>15, <1>16, <1>19,
     <1>20, <1>21 DEF ScreenNext

\* The confirmation page is always in order.
LEMMA ScreenInvariance == ScreenSpec => []ScreenIInv
<1>1. ScreenIInv /\ [ScreenNext]_screenVars => ScreenIInv'
  BY ScreenKeeps
<1> QED BY <1>1, ScreenStart, PTL DEF ScreenSpec

\* An order placed for a submission of the confirmation page is shown on it, or can still
\* be asked for with the request id it was placed under, or the submission was given up in
\* one of the ways the property names (stores/order.ts submit).
THEOREM NothingPlacedIsForgotten == ScreenSpec => []SubmittedIsRemembered
<1>1. ScreenIInv => SubmittedIsRemembered
  BY DEF ScreenIInv, SubmissionsAreKnown, Remembered, SubmittedIsRemembered
<1> QED BY <1>1, ScreenInvariance, PTL

-----------------------------------------------------------------------------
(* The order list, an order's page and a refund's page *)

BookRows == [store : Stores, page : Bills \cup {NoBill}, lastList : Queries \cup {NoQuery},
             lastDetail : Queries \cup {NoQuery}]
QueryRows == [kind : AskKinds, bill : Bills \cup {NoBill}, filter : Filters, card : Cards,
              rows : SUBSET Cards]
BillRows == [Bills -> BillStates]
CrossedRows == [page : SUBSET Bills, rows : SUBSET Bills]

\* What AnswersAreApt asks of one call.
WholeAnswer(r) ==
  /\ r.kind \in Unnumbered \cup {"detail"} => r.bill \in Bills
  /\ r.card.bill \in {r.bill, NoBill} /\ CardIsWhole(r.card)
  /\ \A row \in r.rows : InTab(row.status, r.filter)
  /\ r.kind # "detail" => r.card.status # "open"

\* What is confirmed as paid is not to be paid.
ConfirmsPaid(r, bills) == r.kind = "confirm" => bills[r.bill] # "open"

\* The open page shows, and awaits, its order.
PageInOrder ==
  /\ book.page # NoBill => book.store.detail.bill \in {book.page, NoBill} \cup crossed.page
  /\ PageIsAwaited

\* A row of the list is of the tab, or was rewritten to what is not to be paid.
RowInOrder(row, filter, rewritten) ==
  InTab(row.status, filter) \/ (row.bill \in rewritten /\ row.status # "open")

\* The list shows, or awaits, its tab.
ListInOrder ==
  /\ ~ListLoading =>
       \A row \in book.store.listed : RowInOrder(row, book.store.filter, crossed.rows)
  /\ TabIsAwaited

\* PagesIInv, in the words of the rows.
LEMMA PagesParts ==
  /\ PagesIInv <=>
       /\ bill \in BillRows /\ book \in BookRows /\ query \in [Queries -> QueryRows]
       /\ crossed \in CrossedRows
       /\ CardIsWhole(book.store.detail)
       /\ \A q \in Queries : WholeAnswer(query[q]) /\ ConfirmsPaid(query[q], bill)
       /\ PageInOrder /\ ListInOrder
  /\ PagesIInv' <=>
       /\ bill' \in BillRows /\ book' \in BookRows /\ query' \in [Queries -> QueryRows]
       /\ crossed' \in CrossedRows
       /\ CardIsWhole(book'.store.detail)
       /\ \A q \in Queries : WholeAnswer(query'[q]) /\ ConfirmsPaid(query'[q], bill')
       /\ PageInOrder' /\ ListInOrder'
<1>1. /\ PagesTypeOK <=> /\ bill \in BillRows /\ book \in BookRows
                         /\ query \in [Queries -> QueryRows] /\ crossed \in CrossedRows
      /\ PagesTypeOK' <=> /\ bill' \in BillRows /\ book' \in BookRows
                          /\ query' \in [Queries -> QueryRows] /\ crossed' \in CrossedRows
  BY DEF PagesTypeOK, BillRows, BookRows, QueryRows, CrossedRows
<1>2. /\ AnswersAreApt <=> /\ CardIsWhole(book.store.detail)
                           /\ \A q \in Queries :
                                WholeAnswer(query[q]) /\ ConfirmsPaid(query[q], bill)
      /\ AnswersAreApt' <=> /\ CardIsWhole(book'.store.detail)
                            /\ \A q \in Queries :
                                 WholeAnswer(query'[q]) /\ ConfirmsPaid(query'[q], bill')
  BY DEF AnswersAreApt, WholeAnswer, ConfirmsPaid, CardIsWhole, InTab
<1>3. /\ PageIsAwaited /\ TabIsAwaited /\ PageShowsItsOrder <=> PageInOrder /\ ListInOrder
      /\ (PageIsAwaited /\ TabIsAwaited /\ PageShowsItsOrder)' <=>
           PageInOrder' /\ ListInOrder'
  BY DEF PageInOrder, ListInOrder, RowInOrder, InTab, PageShowsItsOrder
<1> QED BY <1>1, <1>2, <1>3 DEF PagesIInv

\* The empty card, call and store are a card, a call and a store.
LEMMA BlankAnswers ==
  /\ NoCard \in Cards /\ CardIsWhole(NoCard)
  /\ NoAsk \in QueryRows /\ WholeAnswer(NoAsk) /\ NoAsk.kind = "none"
  /\ EmptyBook \in Stores /\ EmptyBook.detail = NoCard /\ EmptyBook.listed = {}
  /\ EmptyBook.filter = AllOrders
<1>1. NoCard \in Cards /\ CardIsWhole(NoCard) /\ NoCard.bill = NoBill /\ NoCard.status # "open"
  BY DEF NoCard, Cards, BillStates, CardIsWhole
<1> QED
  BY <1>1, PagesHaveOrders DEF NoAsk, QueryRows, AskKinds, WholeAnswer, Unnumbered, EmptyBook,
     Stores

\* Nothing is shown, and nothing asked, at first.
LEMMA PagesStart == PagesInit => PagesIInv
<1> SUFFICES ASSUME PagesInit PROVE PagesIInv
  OBVIOUS
<1>1. /\ book \in BookRows /\ book.store = EmptyBook /\ book.page = NoBill
      /\ book.lastList = NoQuery
  BY BlankAnswers DEF PagesInit, BookRows
<1>2. query \in [Queries -> QueryRows] /\ \A q \in Queries : query[q] = NoAsk
  BY BlankAnswers DEF PagesInit
<1>2a. \A q \in Queries : ConfirmsPaid(query[q], bill)
  BY <1>2, BlankAnswers DEF ConfirmsPaid
<1>3. bill \in BillRows /\ crossed \in CrossedRows
  BY DEF PagesInit, BillRows, BillStates, CrossedRows
<1>4. PageInOrder
  BY <1>1 DEF PageInOrder, PageIsAwaited
<1>5. ListInOrder
  BY <1>1, <1>2, BlankAnswers DEF ListInOrder, TabIsAwaited, EmptyBook
<1> QED BY <1>1, <1>2, <1>2a, <1>3, <1>4, <1>5, BlankAnswers, PagesParts

\* No order comes to be paid again.
Forward == \A b \in Bills : bill[b] # "open" => bill'[b] # "open"

\* A step of one call keeps the types.
LEMMA QueryMoves ==
  ASSUME PagesIInv, NEW q \in Queries, NEW r \in QueryRows, WholeAnswer(r),
         query' = [query EXCEPT ![q] = r], bill' \in BillRows, Forward,
         r.kind = "confirm" => bill'[r.bill] # "open", book' \in BookRows,
         crossed' \in CrossedRows, CardIsWhole(book'.store.detail), PageInOrder', ListInOrder'
  PROVE  PagesIInv'
<1>1. /\ query' \in [Queries -> QueryRows]
      /\ \A p \in Queries : query'[p] = IF p = q THEN r ELSE query[p]
  BY PagesParts
<1>2. \A p \in Queries : ConfirmsPaid(query'[p], bill')
  BY <1>1, PagesParts DEF ConfirmsPaid, Forward, WholeAnswer, Unnumbered
<1> QED BY <1>1, <1>2, PagesParts

\* The list is not touched by a step of a call that is not the newest list.
LEMMA ListStays ==
  ASSUME PagesIInv, NEW q \in Queries, NEW r, r.kind # "list",
         query' = [query EXCEPT ![q] = r],
         book.lastList # q \/ query[q].kind # "list",
         book'.lastList = book.lastList \/ (book.lastList = q /\ book'.lastList = NoQuery),
         book'.store.filter = book.store.filter, book'.store.listed = book.store.listed,
         crossed'.rows = crossed.rows
  PROVE  ListInOrder'
<1>1. \A p \in Queries : query'[p] = IF p = q THEN r ELSE query[p]
  BY PagesParts
<1>2. ListLoading' <=> ListLoading
  BY <1>1, PagesHaveOrders DEF ListLoading
<1>3. ListInOrder
  BY PagesParts
<1>4. TabIsAwaited'
  BY <1>1, <1>3, PagesHaveOrders DEF ListInOrder, TabIsAwaited
<1> QED BY <1>2, <1>3, <1>4 DEF ListInOrder

\* The page stays in order if what it is given is about its order, or has strayed to it.
LEMMA PageStays ==
  ASSUME PagesIInv, NEW q \in Queries, NEW r, query' = [query EXCEPT ![q] = r],
         book'.page = book.page, crossed.page \subseteq crossed'.page,
         book.page # NoBill =>
           /\ book'.store.detail.bill \in {book.page, NoBill} \cup crossed'.page
           /\ r.kind = "detail" /\ book'.lastDetail = q =>
                r.bill \in {book.page} \cup crossed'.page,
         book'.lastDetail \in {book.lastDetail, NoQuery, q}
  PROVE  PageInOrder'
<1>1. \A p \in Queries : query'[p] = IF p = q THEN r ELSE query[p]
  BY PagesParts
<1>2. PageInOrder
  BY PagesParts
<1>3. PageIsAwaited'
  BY <1>1, <1>2, PagesHaveOrders DEF PageInOrder, PageIsAwaited
<1> QED BY <1>2, <1>3 DEF PageInOrder

\* A button is pressed.
LEMMA AskKeeps ==
  ASSUME PagesIInv, NEW q \in Queries, NEW kind \in Unnumbered \cup {"refund"},
         NEW s \in Stores, s.filter = book.store.filter, s.listed = book.store.listed,
         s.detail = book.store.detail, Ask(q, kind, s), book.store.detail.bill \in Bills,
         kind # "confirm"
  PROVE  PagesIInv'
<1> DEFINE r == [NoAsk EXCEPT !.kind = kind, !.bill = book.store.detail.bill]
<1>1. /\ r \in QueryRows /\ WholeAnswer(r) /\ r.kind = kind /\ r.bill = book.store.detail.bill
      /\ r.kind \notin {"list", "detail"}
  <2>1. NoAsk.card = NoCard /\ NoCard.bill = NoBill /\ NoCard.status # "open"
        /\ NoAsk.rows = {}
    BY DEF NoAsk, NoCard
  <2>2. r \in QueryRows /\ r.card = NoCard /\ r.kind = kind /\ r.bill = book.store.detail.bill
        /\ r.rows = {}
    BY <2>1, BlankAnswers DEF QueryRows, AskKinds, Unnumbered
  <2> HIDE DEF r
  <2> QED BY <2>1, <2>2, BlankAnswers DEF WholeAnswer, Unnumbered
<1>2. /\ query' = [query EXCEPT ![q] = r] /\ query[q].kind = "none" /\ UNCHANGED <<bill, crossed>>
      /\ book' = [book EXCEPT !.store = s, !.lastList = Newest(q, @), !.lastDetail = Newest(q, @)]
  BY DEF Ask, Idle
<1>3. /\ book' \in BookRows /\ book'.store = s /\ book'.page = book.page
      /\ book'.lastList = Newest(q, book.lastList)
      /\ book'.lastDetail = Newest(q, book.lastDetail)
  BY <1>2, PagesParts DEF BookRows, Newest
<1> HIDE DEF r
<1>4. ListInOrder'
  BY <1>1, <1>2, <1>3, ListStays DEF Newest
<1>5. PageInOrder
  BY PagesParts
<1>6. PageInOrder'
  BY <1>1, <1>2, <1>3, <1>5, PageStays DEF Newest, PageInOrder
<1> QED BY <1>1, <1>2, <1>3, <1>4, <1>6, QueryMoves, PagesParts DEF Forward

\* A call is answered, for good.
LEMMA AnswerKeeps ==
  ASSUME PagesIInv, NEW q \in Queries, query[q].kind # "list", Answers(q), UNCHANGED bill,
         NEW s \in Stores, CardIsWhole(s.detail), Store(s), crossed' \in CrossedRows,
         s.filter = book.store.filter, crossed.page \subseteq crossed'.page,
         book.page # NoBill => s.detail.bill \in {book.page, NoBill} \cup crossed'.page,
         \/ s.listed = book.store.listed /\ crossed'.rows = crossed.rows
         \/ ~ListLoading => \A row \in s.listed : RowInOrder(row, s.filter, crossed'.rows)
  PROVE  PagesIInv'
<1>1. query' = [query EXCEPT ![q] = NoAsk] /\ book' = [book EXCEPT !.store = s]
  BY DEF Answers, Store
<1>2. /\ book' \in BookRows /\ book'.store = s /\ book'.page = book.page
      /\ book'.lastList = book.lastList /\ book'.lastDetail = book.lastDetail
  BY <1>1, PagesParts DEF BookRows
<1>3. \A p \in Queries : query'[p] = IF p = q THEN NoAsk ELSE query[p]
  BY <1>1, PagesParts
<1>4. ListInOrder'
  <2>1. CASE s.listed = book.store.listed /\ crossed'.rows = crossed.rows
    BY <1>1, <1>2, <2>1, BlankAnswers, ListStays
  <2>2. CASE ~ListLoading => \A row \in s.listed : RowInOrder(row, s.filter, crossed'.rows)
    <3>1. ListLoading' <=> ListLoading
      BY <1>2, <1>3, BlankAnswers DEF ListLoading
    <3>2. TabIsAwaited'
      BY <1>2, <1>3, BlankAnswers, PagesParts DEF TabIsAwaited, ListInOrder
    <3> QED BY <1>2, <2>2, <3>1, <3>2 DEF ListInOrder
  <2> QED BY <2>1, <2>2
<1>5. PageInOrder'
  BY <1>1, <1>2, BlankAnswers, PageStays
<1> QED BY <1>1, <1>2, <1>4, <1>5, BlankAnswers, QueryMoves, PagesParts DEF Forward

\* An order that can be acted on is one.
LEMMA ShownIsOpen ==
  ASSUME PagesIInv, book.store.detail # NoCard
  PROVE  book.store.detail.bill \in Bills
<1>1. book.store.detail.bill # NoBill
  BY PagesParts DEF CardIsWhole
<1> QED BY <1>1, PagesParts DEF BookRows, Stores, Cards

\* A call goes on.
LEMMA PayOnKeeps ==
  ASSUME PagesIInv, NEW q \in Queries, NEW kind \in Unnumbered,
         query[q].kind \in Unnumbered, PayOn(q, kind),
         kind = "confirm" => bill[query[q].bill] # "open"
  PROVE  PagesIInv'
<1> DEFINE r == [query[q] EXCEPT !.kind = kind]
<1>1. query[q] \in QueryRows /\ WholeAnswer(query[q])
  BY PagesParts
<1>2. /\ r \in QueryRows /\ WholeAnswer(r) /\ r.kind = kind /\ r.bill = query[q].bill
      /\ query' = [query EXCEPT ![q] = r] /\ UNCHANGED <<bill, book, crossed>>
  BY <1>1 DEF PayOn, QueryRows, AskKinds, Unnumbered, WholeAnswer
<1> HIDE DEF r
<1>3. kind \notin {"list", "detail"} /\ query[q].kind # "list"
  BY DEF Unnumbered
<1>4. ListInOrder'
  BY <1>2, <1>3, ListStays
<1>5. PageInOrder
  BY PagesParts
<1>6. PageInOrder'
  BY <1>2, <1>3, <1>5, PageStays DEF PageInOrder, PageIsAwaited
<1> QED BY <1>2, <1>4, <1>6, QueryMoves, PagesParts DEF Forward

\* An answer that changes nothing but a flag.
LEMMA FlagKeeps ==
  ASSUME PagesIInv, NEW q \in Queries, query[q].kind # "list", Answers(q),
         NEW s \in Stores, s.filter = book.store.filter, s.listed = book.store.listed,
         s.detail = book.store.detail, Store(s), UNCHANGED <<bill, crossed>>
  PROVE  PagesIInv'
BY AnswerKeeps, PagesParts DEF PageInOrder

\* What has strayed to the page is known to have.
LEMMA StrayedIsKnown ==
  ASSUME PagesIInv, NEW b \in Bills
  PROVE  /\ Strayed(b) \subseteq Bills /\ crossed.page \subseteq Strayed(b)
         /\ book.page # NoBill => b \in {book.page} \cup Strayed(b)
BY PagesParts DEF Strayed, CrossedRows

\* An order is shown on the page and in its row, and is not to be paid.
LEMMA ShowOrderKeeps ==
  ASSUME PagesIInv, NEW q \in Queries, query[q].kind \in {"cancel", "confirm"}, Answers(q),
         UNCHANGED bill, query[q].card # NoCard, NEW s \in Stores,
         s.filter = book.store.filter, s.listed = book.store.listed,
         ShowOrder(query[q].card, s)
  PROVE  PagesIInv'
<1> DEFINE card == query[q].card
           rows == {IF row.bill = card.bill THEN card ELSE row : row \in s.listed}
           t == [s EXCEPT !.detail = card, !.listed = rows]
<1>1. /\ card \in Cards /\ CardIsWhole(card) /\ card.status # "open" /\ card.bill \in Bills
      /\ book.store \in Stores /\ s.listed \subseteq Cards
  BY PagesParts DEF QueryRows, BookRows, WholeAnswer, CardIsWhole, Cards, Stores
<1>2. /\ Store(t)
      /\ crossed' = [page |-> Strayed(card.bill),
                     rows |-> crossed.rows \cup {b \in {card.bill} :
                                                  \E row \in book.store.listed : row.bill = b}]
  BY DEF ShowOrder
<1> HIDE DEF card
<1>3. rows \subseteq Cards
  BY <1>1
<1>4. /\ t \in Stores /\ t.detail = card /\ t.filter = book.store.filter /\ t.listed = rows
  BY <1>1, <1>3 DEF Stores
<1>5. /\ crossed' \in CrossedRows /\ crossed.page \subseteq crossed'.page
      /\ book.page # NoBill => card.bill \in {book.page, NoBill} \cup crossed'.page
  BY <1>1, <1>2, StrayedIsKnown, PagesParts DEF CrossedRows
<1>6. ~ListLoading => \A row \in rows : RowInOrder(row, t.filter, crossed'.rows)
  <2>1. SUFFICES ASSUME ~ListLoading, NEW row \in s.listed
                 PROVE  RowInOrder(IF row.bill = card.bill THEN card ELSE row, t.filter,
                                   crossed'.rows)
    OBVIOUS
  <2>2. RowInOrder(row, book.store.filter, crossed.rows)
    BY <2>1, PagesParts DEF ListInOrder
  <2> QED BY <1>1, <1>2, <1>4, <2>2 DEF RowInOrder
<1> HIDE DEF t, rows
<1> QED BY <1>1, <1>2, <1>4, <1>5, <1>6, AnswerKeeps

\* What an unnumbered call, or a detail, is about is an order.
LEMMA AskedOfOrders ==
  ASSUME PagesIInv, NEW q \in Queries, query[q].kind \in Unnumbered \cup {"detail"}
  PROVE  query[q].bill \in Bills
BY PagesParts DEF WholeAnswer

\* loadDetail.
LEMMA LoadDetailMoves ==
  ASSUME PagesIInv, NEW q \in Queries, NEW b \in Bills, NEW s \in Stores,
         NEW kind, LoadDetail(q, b, s, kind)
  PROVE  LET r == [NoAsk EXCEPT !.kind = "detail", !.bill = b] IN
         /\ query' = [query EXCEPT ![q] = r] /\ r \in QueryRows /\ WholeAnswer(r)
         /\ r.kind = "detail" /\ r.bill = b
         /\ book' \in BookRows /\ book'.store.detail = NoCard
         /\ book'.store.filter = s.filter /\ book'.store.listed = s.listed
         /\ book'.page = IF kind = "open" THEN b ELSE book.page
         /\ book'.lastDetail = q /\ book'.lastList = Newest(q, book.lastList)
<1> DEFINE r == [NoAsk EXCEPT !.kind = "detail", !.bill = b]
           t == [s EXCEPT !.detail = NoCard, !.detailLoading = TRUE]
<1>1. query' = [query EXCEPT ![q] = r]
  BY DEF LoadDetail
<1>2. r \in QueryRows /\ r.kind = "detail" /\ r.bill = b /\ r.card = NoCard /\ r.rows = {}
  BY BlankAnswers DEF QueryRows, AskKinds, NoAsk
<1>3. WholeAnswer(r)
  <2> HIDE DEF r
  <2> QED BY <1>2, BlankAnswers DEF WholeAnswer, NoCard
<1>4. /\ t \in Stores /\ t.detail = NoCard /\ t.filter = s.filter /\ t.listed = s.listed
  BY BlankAnswers DEF Stores
<1>5. book' = [book EXCEPT !.store = t, !.page = IF kind = "open" THEN b ELSE @,
                           !.lastDetail = q, !.lastList = Newest(q, @)]
  BY DEF LoadDetail
<1> HIDE DEF t
<1>6. /\ book' \in BookRows /\ book'.store = t
      /\ book'.page = IF kind = "open" THEN b ELSE book.page
      /\ book'.lastDetail = q /\ book'.lastList = Newest(q, book.lastList)
  BY <1>4, <1>5, PagesParts DEF BookRows, Newest
<1> QED BY <1>1, <1>2, <1>3, <1>4, <1>6

\* Every step of the order pages keeps their invariant.
LEMMA PagesKeep == PagesIInv /\ [PagesNext]_pagesVars => PagesIInv'
<1> SUFFICES ASSUME PagesIInv, [PagesNext]_pagesVars PROVE PagesIInv'
  OBVIOUS
<1>1. /\ bill \in BillRows /\ book \in BookRows /\ query \in [Queries -> QueryRows]
      /\ crossed \in CrossedRows /\ book.store \in Stores
      /\ CardIsWhole(book.store.detail) /\ PageInOrder /\ ListInOrder
      /\ \A q \in Queries : /\ WholeAnswer(query[q]) /\ query[q] \in QueryRows
                            /\ ConfirmsPaid(query[q], bill)
  BY PagesParts DEF BookRows
<1>2. CASE UNCHANGED pagesVars
  BY <1>1, <1>2, PagesParts DEF pagesVars, PageInOrder, PageIsAwaited, ListInOrder, ListLoading,
     TabIsAwaited
<1>3. CASE GoBack
  <2>1. /\ book' \in BookRows /\ book'.page = NoBill /\ book'.store = book.store
        /\ book'.lastList = book.lastList /\ UNCHANGED <<bill, query, crossed>>
    BY <1>1, <1>3 DEF GoBack, BookRows
  <2>2. PageInOrder' /\ ListInOrder'
    BY <1>1, <2>1 DEF PageInOrder, PageIsAwaited, ListInOrder, ListLoading, TabIsAwaited
  <2> QED BY <1>1, <2>1, <2>2, PagesParts
<1>4. CASE Reset
  <2>1. /\ book' \in BookRows /\ book'.page = NoBill /\ book'.store = EmptyBook
        /\ UNCHANGED <<bill, query>> /\ crossed' \in CrossedRows
    BY <1>1, <1>4, BlankAnswers DEF Reset, BookRows, CrossedRows
  <2>2. PageInOrder' /\ ListInOrder'
    BY <2>1, BlankAnswers DEF PageInOrder, PageIsAwaited, ListInOrder, TabIsAwaited
  <2> QED BY <1>1, <2>1, <2>2, BlankAnswers, PagesParts
<1>5. CASE BillMoves
  <2>1. bill' \in BillRows /\ Forward /\ UNCHANGED <<book, query, crossed>>
    BY <1>1, <1>5 DEF BillMoves, BillRows, BillStates, Forward
  <2>3. \A q \in Queries : ConfirmsPaid(query[q], bill')
    BY <1>1, <2>1 DEF ConfirmsPaid, Forward, WholeAnswer, Unnumbered
  <2>2. PageInOrder' /\ ListInOrder'
    BY <1>1, <2>1 DEF PageInOrder, PageIsAwaited, ListInOrder, ListLoading, TabIsAwaited
  <2> QED BY <1>1, <2>1, <2>2, <2>3, PagesParts
<1>6. ASSUME NEW q \in Queries, LoadOrders(q) PROVE PagesIInv'
  <2>1. PICK f \in Filters :
          /\ book' = [book EXCEPT !.store.filter = f, !.lastList = q, !.lastDetail = Newest(q, @)]
          /\ query' = [query EXCEPT ![q] = [NoAsk EXCEPT !.kind = "list", !.filter = f]]
    BY <1>6 DEF LoadOrders
  <2>2. UNCHANGED <<bill, crossed>> /\ query[q].kind = "none"
    BY <1>6 DEF LoadOrders, Idle
  <2> DEFINE r == [NoAsk EXCEPT !.kind = "list", !.filter = f]
  <2>3. r \in QueryRows /\ WholeAnswer(r) /\ r.kind = "list" /\ r.filter = f
    BY BlankAnswers DEF QueryRows, AskKinds, WholeAnswer, Unnumbered, NoAsk
  <2>4. /\ book' \in BookRows /\ book'.page = book.page /\ book'.lastList = q
        /\ book'.lastDetail = Newest(q, book.lastDetail)
        /\ book'.store.detail = book.store.detail /\ book'.store.filter = f
    BY <1>1, <2>1 DEF BookRows, Stores, Newest
  <2> HIDE DEF r
  <2>6. PageInOrder'
    BY <1>1, <2>1, <2>2, <2>3, <2>4, PageStays DEF r, Newest, PageInOrder
  <2>7. \A p \in Queries : query'[p] = IF p = q THEN r ELSE query[p]
    BY <1>1, <2>1 DEF r
  <2>8. ListInOrder'
    BY <2>3, <2>4, <2>7 DEF ListInOrder, ListLoading, TabIsAwaited
  <2> QED BY <1>1, <2>1, <2>2, <2>3, <2>4, <2>6, <2>8, QueryMoves DEF r, Forward
\* The list is read.
<1>6a. ASSUME NEW q \in Queries, ServeOrders(q) PROVE PagesIInv'
  <2> DEFINE rows == {Present(b) : b \in {c \in Bills : InTab(bill[c], query[q].filter)}}
             r == [query[q] EXCEPT !.rows = rows]
  <2>1. query[q].kind = "list" /\ UNCHANGED <<bill, book, crossed>>
    BY <1>6a DEF ServeOrders
  <2>2. rows \subseteq Cards /\ \A row \in rows : InTab(row.status, query[q].filter)
    BY <1>1 DEF Present, Cards, BillRows
  <2>3. query' = [query EXCEPT ![q] = r]
    BY <1>6a DEF ServeOrders
  <2> HIDE DEF rows
  <2>4. /\ r \in QueryRows /\ r.kind = "list" /\ r.filter = query[q].filter /\ r.rows = rows
        /\ r.card = query[q].card /\ r.bill = query[q].bill
    BY <1>1, <2>1, <2>2 DEF QueryRows
  <2> HIDE DEF r
  <2>5. WholeAnswer(r)
    BY <1>1, <2>1, <2>2, <2>4 DEF WholeAnswer, Unnumbered
  <2>6. \A p \in Queries : query'[p] = IF p = q THEN r ELSE query[p]
    BY <1>1, <2>3
  <2>7. PageInOrder'
    BY <1>1, <2>1, <2>3, <2>4, PageStays DEF PageInOrder
  <2>8. ListInOrder'
    BY <1>1, <2>1, <2>4, <2>6 DEF ListInOrder, ListLoading, TabIsAwaited
  <2> QED BY <1>1, <2>1, <2>3, <2>4, <2>5, <2>7, <2>8, QueryMoves DEF Forward
<1>7. ASSUME NEW q \in Queries, OrdersLoaded(q) PROVE PagesIInv'
  <2>1. query[q].kind = "list" /\ query' = [query EXCEPT ![q] = NoAsk] /\ UNCHANGED bill
    BY <1>7 DEF OrdersLoaded, Answers
  <2>2. CASE book.lastList = q
    <3>1. PICK rows \in {query[q].rows, {}} :
            book' = [book EXCEPT !.store = [book.store EXCEPT !.listed = rows]]
      BY <1>7, <2>2 DEF OrdersLoaded, Store
    <3>2. rows \subseteq Cards /\ \A row \in rows : InTab(row.status, query[q].filter)
      BY <1>1 DEF QueryRows, WholeAnswer
    <3>3. /\ book' \in BookRows /\ book'.page = book.page /\ book'.lastList = book.lastList
          /\ book'.lastDetail = book.lastDetail /\ book'.store.detail = book.store.detail
          /\ book'.store.filter = book.store.filter /\ book'.store.listed = rows
      BY <1>1, <3>1, <3>2 DEF BookRows, Stores
    <3>4. crossed' \in CrossedRows /\ crossed'.page = crossed.page
      BY <1>1, <1>7, <2>2 DEF OrdersLoaded, CrossedRows
    <3>5. PageInOrder'
      BY <1>1, <2>1, <3>3, <3>4, BlankAnswers, PageStays DEF PageInOrder
    <3>6. book.store.filter \in {query[q].filter, AllOrders}
      BY <1>1, <2>1, <2>2 DEF ListInOrder, TabIsAwaited
    <3>7. \A p \in Queries : query'[p].kind = "list" => query'[p] = query[p] /\ p # q
      BY <1>1, <2>1, BlankAnswers
    <3>8. \A row \in rows : RowInOrder(row, book.store.filter, crossed'.rows)
      BY <3>2, <3>6 DEF RowInOrder, InTab
    <3>9. ListInOrder'
      BY <2>1, <2>2, <3>3, <3>7, <3>8 DEF ListInOrder, TabIsAwaited
    <3> QED BY <1>1, <2>1, <3>3, <3>4, <3>5, <3>9, BlankAnswers, QueryMoves DEF Forward
  <2>3. CASE book.lastList # q
    <3>1. UNCHANGED <<book, crossed>>
      BY <1>7, <2>3 DEF OrdersLoaded
    <3>2. PageInOrder'
      BY <1>1, <2>1, <3>1, BlankAnswers, PageStays DEF PageInOrder
    <3>3. ListInOrder'
      BY <2>1, <2>3, <3>1, BlankAnswers, ListStays
    <3> QED BY <1>1, <2>1, <3>1, <3>2, <3>3, BlankAnswers, QueryMoves DEF Forward
  <2> QED BY <2>2, <2>3
<1>8. ASSUME NEW q \in Queries, OpenDetail(q) PROVE PagesIInv'
  <2>1. PICK b \in Bills : LoadDetail(q, b, book.store, "open")
    BY <1>8 DEF OpenDetail
  <2>2. query[q].kind = "none" /\ UNCHANGED bill
    BY <1>8 DEF OpenDetail, Idle
  <2> DEFINE r == [NoAsk EXCEPT !.kind = "detail", !.bill = b]
  <2>3. /\ query' = [query EXCEPT ![q] = r] /\ r \in QueryRows /\ WholeAnswer(r)
        /\ r.kind = "detail" /\ r.bill = b
        /\ book' \in BookRows /\ book'.store.detail = NoCard
        /\ book'.store.filter = book.store.filter /\ book'.store.listed = book.store.listed
        /\ book'.page = b
        /\ book'.lastDetail = q /\ book'.lastList = Newest(q, book.lastList)
    BY <1>1, <2>1, LoadDetailMoves
  <2> HIDE DEF r
  <2>4. crossed' \in CrossedRows /\ crossed'.rows = crossed.rows
    BY <1>1, <1>8 DEF OpenDetail, CrossedRows
  <2>5. ListInOrder'
    BY <2>2, <2>3, <2>4, ListStays DEF Newest
  <2>6. \A p \in Queries : query'[p] = IF p = q THEN r ELSE query[p]
    BY <1>1, <2>3
  <2>7. PageInOrder'
    BY <2>3, <2>4, <2>6 DEF PageInOrder, PageIsAwaited, NoCard
  <2> QED BY <1>1, <2>2, <2>3, <2>4, <2>5, <2>7, BlankAnswers, QueryMoves DEF Forward
<1>9. ASSUME NEW q \in Queries, ServeDetail(q) PROVE PagesIInv'
  <2> DEFINE card == Present(query[q].bill)
             r == [query[q] EXCEPT !.card = card]
  <2>1. /\ query[q].kind \in {"detail", "confirm"} /\ UNCHANGED <<bill, book, crossed>>
        /\ query[q].bill \in Bills
    BY <1>1, <1>9 DEF ServeDetail, WholeAnswer, Unnumbered
  <2>2. /\ card \in Cards /\ card.bill = query[q].bill
        /\ query[q].kind = "confirm" => card.status # "open"
    BY <1>1, <2>1 DEF Present, Cards, BillRows, ConfirmsPaid
  <2>3. CardIsWhole(card)
    BY <2>1, <2>2, PagesHaveOrders DEF CardIsWhole
  <2> HIDE DEF card
  <2>4. /\ r \in QueryRows /\ r.card = card /\ r.kind = query[q].kind
        /\ r.bill = query[q].bill /\ r.rows = query[q].rows /\ r.filter = query[q].filter
    BY <1>1, <2>2 DEF QueryRows
  <2>5. query' = [query EXCEPT ![q] = r]
    BY <1>9 DEF ServeDetail, card
  <2> HIDE DEF r
  <2>6. WholeAnswer(r)
    BY <1>1, <2>1, <2>2, <2>3, <2>4 DEF WholeAnswer
  <2>7. ListInOrder'
    BY <2>1, <2>4, <2>5, ListStays
  <2>8. PageInOrder'
    BY <1>1, <2>1, <2>4, <2>5, PageStays DEF PageInOrder, PageIsAwaited
  <2> QED
    BY <1>1, <2>1, <2>4, <2>5, <2>6, <2>7, <2>8, QueryMoves DEF Forward, ConfirmsPaid
<1>10. ASSUME NEW q \in Queries, DetailLoaded(q) PROVE PagesIInv'
  <2>1. /\ query[q].kind = "detail" /\ Answers(q) /\ UNCHANGED <<bill, crossed>>
        /\ query[q].card \in Cards /\ CardIsWhole(query[q].card)
    BY <1>1, <1>10 DEF DetailLoaded, QueryRows, WholeAnswer
  <2>2. CASE book.lastDetail = q
    <3> DEFINE s == [book.store EXCEPT !.detailLoading = FALSE, !.detail = query[q].card]
    <3>1. /\ s \in Stores /\ s.filter = book.store.filter /\ s.listed = book.store.listed
          /\ s.detail = query[q].card
      BY <1>1, <2>1 DEF Stores
    <3>2. Store(s)
      BY <1>10, <2>2 DEF DetailLoaded
    <3> HIDE DEF s
    <3>3. book.page # NoBill => s.detail.bill \in {book.page, NoBill} \cup crossed.page
      BY <1>1, <2>1, <2>2, <3>1 DEF PageInOrder, PageIsAwaited, WholeAnswer
    <3> QED BY <1>1, <2>1, <3>1, <3>2, <3>3, AnswerKeeps
  <2>3. CASE book.lastDetail # q
    <3>1. book' = book
      BY <1>10, <2>3 DEF DetailLoaded
    <3>2. Store(book.store)
      BY <1>1, <3>1 DEF Store, BookRows
    <3> QED BY <1>1, <2>1, <3>2, FlagKeeps
  <2> QED BY <2>2, <2>3
\* The buttons.
<1>11. ASSUME NEW status, status # "done", Shown(status)
       PROVE  book.store.detail.bill \in Bills
  BY <1>11, ShownIsOpen DEF Shown
<1>12. ASSUME NEW q \in Queries, Cancel(q) PROVE PagesIInv'
  <2> DEFINE s == [book.store EXCEPT !.mutating = TRUE]
  <2>1. /\ s \in Stores /\ s.filter = book.store.filter /\ s.listed = book.store.listed
        /\ s.detail = book.store.detail
    BY <1>1 DEF Stores
  <2>2. Ask(q, "cancel", s) /\ Shown("open")
    BY <1>12 DEF Cancel
  <2> HIDE DEF s
  <2> QED BY <1>11, <2>1, <2>2, AskKeeps DEF Unnumbered
<1>13. ASSUME NEW q \in Queries, Pay(q) PROVE PagesIInv'
  <2> DEFINE s == [book.store EXCEPT !.paying = TRUE]
  <2>1. /\ s \in Stores /\ s.filter = book.store.filter /\ s.listed = book.store.listed
        /\ s.detail = book.store.detail
    BY <1>1 DEF Stores
  <2>2. Ask(q, "initialize", s) /\ Shown("open")
    BY <1>13 DEF Pay
  <2> HIDE DEF s
  <2> QED BY <1>11, <2>1, <2>2, AskKeeps DEF Unnumbered
<1>14. ASSUME NEW q \in Queries, ApplyRefund(q) PROVE PagesIInv'
  <2> DEFINE s == [book.store EXCEPT !.refunding = TRUE,
                                     !.pendingRefund = book.store.detail.bill]
  <2>1. /\ s \in Stores /\ s.filter = book.store.filter /\ s.listed = book.store.listed
        /\ s.detail = book.store.detail
    BY <1>1 DEF Stores, Cards
  <2>2. Ask(q, "apply", s) /\ Shown("paid")
    BY <1>14 DEF ApplyRefund
  <2> HIDE DEF s
  <2> QED BY <1>11, <2>1, <2>2, AskKeeps DEF Unnumbered
<1>15. ASSUME NEW q \in Queries, LoadRefund(q) PROVE PagesIInv'
  <2>1. book.store.detail # NoCard
    BY <1>15 DEF LoadRefund, NoCard
  <2> QED BY <1>1, <1>15, <2>1, ShownIsOpen, AskKeeps DEF LoadRefund
<1>15a. ASSUME NEW q \in Queries, ServeCancel(q) PROVE PagesIInv'
  <2> DEFINE b == query[q].bill
             card == [bill |-> b, status |-> "cancelled"]
             r == [query[q] EXCEPT !.card = card]
  <2>1. /\ query[q].kind = "cancel" /\ UNCHANGED <<book, crossed>> /\ b \in Bills
        /\ bill' = [bill EXCEPT ![b] = "cancelled"]
    BY <1>15a, AskedOfOrders DEF ServeCancel, Unnumbered
  <2>2. /\ card \in Cards /\ card.bill = b /\ card.status # "open" /\ CardIsWhole(card)
    BY <2>1, PagesHaveOrders DEF Cards, BillStates, CardIsWhole
  <2>3. query' = [query EXCEPT ![q] = r]
    BY <1>15a DEF ServeCancel
  <2> HIDE DEF card
  <2>4. /\ r \in QueryRows /\ r.card = card /\ r.kind = "cancel" /\ r.bill = b
        /\ r.rows = query[q].rows /\ r.filter = query[q].filter
    BY <1>1, <2>1, <2>2 DEF QueryRows
  <2>5. bill' \in BillRows /\ Forward
    BY <1>1, <2>1 DEF BillRows, BillStates, Forward
  <2> HIDE DEF r, b
  <2>6. WholeAnswer(r)
    BY <1>1, <2>1, <2>2, <2>4 DEF WholeAnswer
  <2>7. ListInOrder'
    BY <2>1, <2>3, <2>4, ListStays
  <2>8. PageInOrder'
    BY <1>1, <2>1, <2>3, <2>4, PageStays DEF PageInOrder
  <2> QED BY <1>1, <2>1, <2>3, <2>4, <2>5, <2>6, <2>7, <2>8, QueryMoves
<1>16. ASSUME NEW q \in Queries, Cancelled(q) PROVE PagesIInv'
  <2> DEFINE s == [book.store EXCEPT !.mutating = FALSE]
  <2>1. query[q].kind = "cancel" /\ Answers(q) /\ UNCHANGED bill
    BY <1>16 DEF Cancelled
  <2>2. /\ s \in Stores /\ s.filter = book.store.filter /\ s.listed = book.store.listed
        /\ s.detail = book.store.detail
    BY <1>1 DEF Stores
  <2>3. \/ query[q].card # NoCard /\ ShowOrder(query[q].card, s)
        \/ Store(s) /\ UNCHANGED crossed
    BY <1>16 DEF Cancelled
  <2> HIDE DEF s
  <2> QED BY <2>1, <2>2, <2>3, ShowOrderKeeps, FlagKeeps
<1>17. ASSUME NEW q \in Queries, query[q].kind # "list", PayEnds(q) PROVE PagesIInv'
  <2> DEFINE s == [book.store EXCEPT !.paying = FALSE]
  <2>1. /\ s \in Stores /\ s.filter = book.store.filter /\ s.listed = book.store.listed
        /\ s.detail = book.store.detail
    BY <1>1 DEF Stores
  <2>2. Store(s) /\ Answers(q) /\ UNCHANGED <<bill, crossed>>
    BY <1>17 DEF PayEnds
  <2> HIDE DEF s
  <2> QED BY <1>1, <1>17, <2>1, <2>2, FlagKeeps
<1>18. ASSUME NEW q \in Queries, Initialized(q) PROVE PagesIInv'
  BY <1>17, <1>18, PayOnKeeps DEF Initialized, Unnumbered
<1>19. ASSUME NEW q \in Queries, Launched(q) PROVE PagesIInv'
  BY <1>19, PayOnKeeps DEF Launched, Unnumbered
<1>20. ASSUME NEW q \in Queries, StatusKnown(q) PROVE PagesIInv'
  BY <1>17, <1>20, PayOnKeeps DEF StatusKnown, Unnumbered
<1>21. ASSUME NEW q \in Queries, PaidConfirmed(q) PROVE PagesIInv'
  <2> DEFINE s == [book.store EXCEPT !.paying = FALSE]
  <2>1. query[q].kind = "confirm"
    BY <1>21 DEF PaidConfirmed
  <2>2. /\ s \in Stores /\ s.filter = book.store.filter /\ s.listed = book.store.listed
    BY <1>1 DEF Stores
  <2>3. \/ /\ query[q].card # NoCard /\ ShowOrder(query[q].card, s)
           /\ Answers(q) /\ UNCHANGED bill
        \/ PayEnds(q)
    BY <1>21 DEF PaidConfirmed
  <2> HIDE DEF s
  <2> QED BY <1>17, <2>1, <2>2, <2>3, ShowOrderKeeps
<1>22. ASSUME NEW q \in Queries, RefundApplied(q) PROVE PagesIInv'
  <2> DEFINE b == query[q].bill
             done == [book.store EXCEPT !.refunding = FALSE]
             s == [done EXCEPT !.refund = b, !.pendingRefund = NoBill]
  <2>1. query[q].kind \in Unnumbered /\ query[q].kind # "list"
    BY <1>22 DEF RefundApplied, Unnumbered
  <2>2. b \in Bills
    BY <2>1, AskedOfOrders
  <2>3. \/ /\ bill' = [bill EXCEPT ![b] = "refunding"] /\ LoadDetail(q, b, s, "reload")
           /\ crossed' = [crossed EXCEPT !.page = Strayed(b)]
        \/ /\ \E p \in {NoBill, book.store.pendingRefund} :
                Store([done EXCEPT !.pendingRefund = p])
           /\ Answers(q) /\ UNCHANGED <<bill, crossed>>
    BY <1>22 DEF RefundApplied
  <2> HIDE DEF b
  <2>4. s \in Stores /\ s.filter = book.store.filter /\ s.listed = book.store.listed
    BY <1>1, <2>2 DEF Stores
  <2> HIDE DEF s
  <2>5. CASE /\ bill' = [bill EXCEPT ![b] = "refunding"] /\ LoadDetail(q, b, s, "reload")
             /\ crossed' = [crossed EXCEPT !.page = Strayed(b)]
    <3> DEFINE r == [NoAsk EXCEPT !.kind = "detail", !.bill = b]
    <3>0. /\ query' = [query EXCEPT ![q] = r] /\ r \in QueryRows /\ WholeAnswer(r)
          /\ r.kind = "detail" /\ r.bill = b
          /\ book' \in BookRows /\ book'.store.detail = NoCard
          /\ book'.store.filter = s.filter /\ book'.store.listed = s.listed
          /\ book'.page = IF "reload" = "open" THEN b ELSE book.page
          /\ book'.lastDetail = q /\ book'.lastList = Newest(q, book.lastList)
      <4>1. LoadDetail(q, b, s, "reload")
        BY <2>5
      <4> HIDE DEF r
      <4> QED BY <2>2, <2>4, <4>1, LoadDetailMoves DEF r
    <3> HIDE DEF r
    <3>1. book'.page = book.page
      BY <3>0
    <3>2. bill' \in BillRows /\ Forward
      BY <1>1, <2>2, <2>5 DEF BillRows, BillStates, Forward
    <3>6. /\ crossed' \in CrossedRows /\ crossed.page \subseteq crossed'.page
          /\ crossed'.rows = crossed.rows
          /\ book.page # NoBill => b \in {book.page} \cup crossed'.page
      BY <1>1, <2>2, <2>5, StrayedIsKnown DEF CrossedRows
    <3>3. ListInOrder'
      BY <2>1, <2>4, <3>0, <3>6, ListStays DEF Newest
    <3>4. book'.store.detail.bill = NoBill
      BY <3>0 DEF NoCard
    <3>5. PageInOrder'
      BY <3>0, <3>1, <3>4, <3>6, PageStays
    <3> QED BY <1>1, <2>1, <3>0, <3>2, <3>3, <3>5, <3>6, BlankAnswers, QueryMoves
  <2>6. CASE /\ \E p \in {NoBill, book.store.pendingRefund} :
                  Store([done EXCEPT !.pendingRefund = p])
             /\ Answers(q) /\ UNCHANGED <<bill, crossed>>
    <3>1. PICK p \in {NoBill, book.store.pendingRefund} :
            Store([done EXCEPT !.pendingRefund = p])
      BY <2>6
    <3> DEFINE t == [done EXCEPT !.pendingRefund = p]
    <3>2. /\ t \in Stores /\ t.filter = book.store.filter /\ t.listed = book.store.listed
          /\ t.detail = book.store.detail
      BY <1>1 DEF Stores
    <3> HIDE DEF t
    <3> QED BY <1>1, <2>1, <2>6, <3>1, <3>2, FlagKeeps DEF t
  <2> QED BY <2>3, <2>5, <2>6
<1>23. ASSUME NEW q \in Queries, RefundLoaded(q) PROVE PagesIInv'
  <2>1. PICK b \in {query[q].bill, NoBill} : Store([book.store EXCEPT !.refund = b])
    BY <1>23 DEF RefundLoaded
  <2>2. b \in Bills \cup {NoBill}
    BY <1>1 DEF QueryRows
  <2> DEFINE s == [book.store EXCEPT !.refund = b]
  <2>3. /\ s \in Stores /\ s.filter = book.store.filter /\ s.listed = book.store.listed
        /\ s.detail = book.store.detail
    BY <1>1, <2>2 DEF Stores
  <2> HIDE DEF s
  <2> QED BY <1>1, <1>23, <2>1, <2>3, FlagKeeps DEF RefundLoaded, s
<1> QED
  BY <1>2, <1>3, <1>4, <1>5, <1>6, <1>7, <1>8, <1>9, <1>10, <1>12, <1>13, <1>14, <1>15, <1>16,
     <1>18, <1>19, <1>20, <1>21, <1>22, <1>23, <1>6a, <1>15a DEF PagesNext

\* The order pages are always in order.
LEMMA PagesInvariance == PagesSpec => []PagesIInv
<1>1. PagesIInv /\ [PagesNext]_pagesVars => PagesIInv'
  BY PagesKeep
<1> QED BY <1>1, PagesStart, PTL DEF PagesSpec

\* However late the answers are, an order's page shows that order, nothing, or what the
\* answer to cancelling, paying or applying has brought of another since it was opened;
\* and a list at rest shows orders of its tab, or such that such an answer rewrote in place,
\* which are no longer to be paid (order.ts loadDetail, loadOrders, cancel, applyPaidOrder).
THEOREM PagesShowTheirOrder == PagesSpec => []PageShowsItsOrder
<1>1. PagesIInv => PageShowsItsOrder
  BY DEF PagesIInv
<1> QED BY <1>1, PagesInvariance, PTL

-----------------------------------------------------------------------------
(* The back office's order page *)

Desks == [rows : RowSets, detail : Sheets, draft : Notes, asked : Questions,
          acting : DOMAIN Target \cup {NoStatus}]
ClickRows == [kind : {"none", "list", "detail", "act", "remark"},
              entry : Entries \cup {NoEntry}, seen : DOMAIN Target \cup {NoStatus},
              note : Notes, rows : RowSets, sheet : Sheets]
EntryRows == [status : EntryStatuses, remark : Notes]

\* What ClicksAreWhole asks of the desk, and of one call.
WholeDesk(d) ==
  /\ d.detail # NoSheet => d.detail.entry \in Entries
  /\ d.asked # NoQuestion => d.asked.entry \in Entries /\ d.asked.seen \in DOMAIN Target
WholeClick(r) ==
  /\ r.kind \in {"detail", "act", "remark"} => r.entry \in Entries
  /\ r.kind = "act" => r.seen \in DOMAIN Target
  /\ r.sheet # NoSheet => r.sheet.entry \in Entries

\* DeskIInv, in the words of the rows.
LEMMA DeskRows ==
  /\ DeskIInv <=>
       /\ entry \in [Entries -> EntryRows] /\ desk \in Desks /\ about \subseteq Entries
       /\ click \in [Clicks -> ClickRows]
       /\ WholeDesk(desk) /\ \A c \in Clicks : WholeClick(click[c])
       /\ DraftIsOfItsOrder
  /\ DeskIInv' <=>
       /\ entry' \in [Entries -> EntryRows] /\ desk' \in Desks /\ about' \subseteq Entries
       /\ click' \in [Clicks -> ClickRows]
       /\ WholeDesk(desk') /\ \A c \in Clicks : WholeClick(click'[c])
       /\ DraftIsOfItsOrder'
BY DEF DeskIInv, DeskTypeOK, ClicksAreWhole, Served, WholeDesk, WholeClick, Desks, ClickRows,
       EntryRows

\* The statuses the actions ask about.
LEMMA TargetsAreStatuses ==
  /\ DOMAIN Target = {"PENDING_PAYMENT", "PAID", "ACCEPTED", "PREPARING",
                      "WAITING_DELIVERY", "DELIVERING"}
  /\ DOMAIN Target \subseteq EntryStatuses
  /\ \A s \in DOMAIN Target : Target[s] \in EntryStatuses
BY DEF Target, EntryStatuses

\* The empty rows are rows.
LEMMA BlanksAreSound ==
  /\ NoRows \in RowSets /\ NoSheet \in Sheets /\ NoQuestion \in Questions
  /\ NoClick \in ClickRows /\ WholeClick(NoClick)
  /\ \A k \in {"list", "detail", "act", "remark"}, e \in Entries \cup {NoEntry},
        s \in DOMAIN Target \cup {NoStatus}, n \in Notes :
       [NoClick EXCEPT !.kind = k, !.entry = e, !.seen = s, !.note = n] \in ClickRows
BY DEF NoRows, RowSets, NoSheet, Sheets, NoQuestion, Questions, NoClick, ClickRows, WholeClick,
       Notes

\* A closed drawer shows nothing wrong, whatever orders there are.
LEMMA DeskStart == ASSUME NEW start \in [Entries -> EntryStatuses], DeskInit(start)
                   PROVE  DeskIInv
<1>1. entry \in [Entries -> EntryRows]
  BY DEF DeskInit, EntryRows, Notes
<1>2. desk \in Desks /\ WholeDesk(desk)
  BY BlanksAreSound DEF DeskInit, Desks, WholeDesk, Notes
<1>3. click \in [Clicks -> ClickRows] /\ \A c \in Clicks : WholeClick(click[c])
  BY BlanksAreSound DEF DeskInit
<1>4. about \subseteq Entries /\ DraftIsOfItsOrder
  BY DEF DeskInit, DraftIsOfItsOrder
<1> QED BY <1>1, <1>2, <1>3, <1>4, DeskRows

\* A step of one call.
LEMMA ClickMoves ==
  ASSUME DeskIInv, NEW c \in Clicks, NEW r, r \in ClickRows, WholeClick(r),
         click' = [click EXCEPT ![c] = r],
         entry' \in [Entries -> EntryRows],
         desk' \in Desks, WholeDesk(desk'), about' \subseteq Entries, DraftIsOfItsOrder'
  PROVE  DeskIInv'
<1>1. /\ click' \in [Clicks -> ClickRows]
      /\ \A d \in Clicks : click'[d] = IF d = c THEN r ELSE click[d]
  BY DeskRows
<1>2. \A d \in Clicks : WholeClick(click'[d])
  BY <1>1, DeskRows
<1> QED BY <1>1, <1>2, DeskRows

\* A call begins and nothing but the desk's flags changes.
LEMMA CallMoves ==
  ASSUME DeskIInv, NEW c \in Clicks, NEW k \in {"list", "detail", "act", "remark"},
         NEW e \in Entries \cup {NoEntry}, NEW s \in DOMAIN Target \cup {NoStatus},
         NEW n \in Notes, Call(c, k, e, s, n),
         k # "list" => e \in Entries, k = "act" => s \in DOMAIN Target,
         UNCHANGED <<entry, about>>,
         desk' \in Desks, WholeDesk(desk'), desk'.detail \in {desk.detail, NoSheet}
  PROVE  DeskIInv'
<1> DEFINE r == [NoClick EXCEPT !.kind = k, !.entry = e, !.seen = s, !.note = n]
<1>1. r \in ClickRows /\ click' = [click EXCEPT ![c] = r]
  BY BlanksAreSound DEF Call
<1>2. WholeClick(r)
  BY DEF WholeClick, NoClick
<1>3. DraftIsOfItsOrder'
  BY DEF DeskIInv, DraftIsOfItsOrder
<1> HIDE DEF r
<1> QED BY <1>1, <1>2, <1>3, ClickMoves, DeskRows

\* An answer arrives.
LEMMA AnswerMoves ==
  ASSUME DeskIInv, NEW c \in Clicks, Served(c),
         NEW d, d \in Desks, WholeDesk(d), Show(d, click[c].sheet),
         NEW r, r \in ClickRows, WholeClick(r), click' = [click EXCEPT ![c] = r],
         UNCHANGED entry
  PROVE  DeskIInv'
<1> DEFINE s == click[c].sheet
<1>1. s \in Sheets /\ s # NoSheet /\ s.entry \in Entries
  BY DeskRows DEF Served, WholeClick, ClickRows
<1>2. desk' = [d EXCEPT !.detail = s, !.draft = s.remark] /\ about' = {s.entry}
  BY DEF Show
<1> HIDE DEF s
<1>3. /\ desk' \in Desks /\ desk'.detail = s /\ desk'.asked = d.asked
  BY <1>1, <1>2 DEF Desks, Sheets
<1>4. WholeDesk(desk')
  BY <1>1, <1>3 DEF WholeDesk
<1>5. DraftIsOfItsOrder'
  BY <1>2, <1>3 DEF DraftIsOfItsOrder
<1>6. about' \subseteq Entries /\ entry' \in [Entries -> EntryRows]
  BY <1>1, <1>2, DeskRows
<1> QED BY <1>3, <1>4, <1>5, <1>6, ClickMoves

\* A step at the desk, or of an order elsewhere, without a call.
LEMMA DeskMoves ==
  ASSUME DeskIInv, UNCHANGED click, entry' \in [Entries -> EntryRows],
         desk' \in Desks, WholeDesk(desk'), about' \subseteq Entries, DraftIsOfItsOrder'
  PROVE  DeskIInv'
BY DeskRows

\* The server answers a call.
LEMMA ServeMoves ==
  ASSUME DeskIInv, NEW c \in Clicks, NEW s \in Sheets, s.entry \in Entries,
         click' = [click EXCEPT ![c].sheet = s], UNCHANGED <<desk, about>>,
         entry' \in [Entries -> EntryRows]
  PROVE  DeskIInv'
<1> DEFINE r == [click[c] EXCEPT !.sheet = s]
<1>1. click[c] \in ClickRows /\ WholeClick(click[c])
  BY DeskRows
<1>2. r \in ClickRows /\ WholeClick(r)
  BY <1>1 DEF ClickRows, WholeClick
<1>3. click' = [click EXCEPT ![c] = r]
  OBVIOUS
<1>4. DraftIsOfItsOrder'
  BY DEF DeskIInv, DraftIsOfItsOrder
<1> HIDE DEF r
<1> QED BY <1>2, <1>3, <1>4, ClickMoves, DeskRows

\* Every step at the desk keeps its invariant.
LEMMA DeskKeeps == DeskIInv /\ [DeskNext]_deskVars => DeskIInv'
<1> SUFFICES ASSUME DeskIInv, [DeskNext]_deskVars PROVE DeskIInv'
  OBVIOUS
<1>1. /\ entry \in [Entries -> EntryRows] /\ desk \in Desks /\ about \subseteq Entries
      /\ click \in [Clicks -> ClickRows] /\ WholeDesk(desk) /\ DraftIsOfItsOrder
      /\ \A c \in Clicks : WholeClick(click[c])
  BY DeskRows
<1>2. NoRemark \in Notes /\ NoStatus \in DOMAIN Target \cup {NoStatus}
  BY DEF Notes
<1>3. CASE UNCHANGED deskVars
  BY <1>1, <1>3, DeskRows DEF deskVars, DraftIsOfItsOrder
<1>4. CASE PerformAction
  <2>1. PICK e \in Entries, seen \in DOMAIN Target :
          desk' = [desk EXCEPT !.asked = [entry |-> e, seen |-> seen]]
    BY <1>4 DEF PerformAction, HasAction
  <2>2. [entry |-> e, seen |-> seen] \in Questions
    BY DEF Questions
  <2>3. desk' \in Desks /\ WholeDesk(desk') /\ desk'.detail = desk.detail
    BY <1>1, <2>1, <2>2 DEF Desks, WholeDesk
  <2> QED BY <1>1, <1>4, <2>3, DeskMoves DEF PerformAction, DraftIsOfItsOrder
<1>5. CASE Dismiss
  <2>1. desk' \in Desks /\ WholeDesk(desk') /\ desk'.detail = desk.detail
    BY <1>1, <1>5, BlanksAreSound DEF Dismiss, Desks, WholeDesk
  <2> QED BY <1>1, <1>5, <2>1, DeskMoves DEF Dismiss, DraftIsOfItsOrder
<1>6. CASE Write
  <2>1. PICK note \in Notes : desk' = [desk EXCEPT !.draft = note]
    BY <1>6 DEF Write
  <2>2. /\ desk' \in Desks /\ WholeDesk(desk') /\ desk'.detail = desk.detail
    BY <1>1, <2>1 DEF Desks, WholeDesk
  <2>3. about' = about \cup {desk.detail.entry} /\ desk.detail # NoSheet
    BY <1>6 DEF Write
  <2>4. DraftIsOfItsOrder' /\ about' \subseteq Entries
    BY <1>1, <2>2, <2>3 DEF DraftIsOfItsOrder, WholeDesk
  <2> QED BY <1>1, <1>6, <2>2, <2>4, DeskMoves DEF Write
<1>7. CASE MovesElsewhere
  <2>1. PICK e \in Entries, to \in EntryStatuses : entry' = [entry EXCEPT ![e].status = to]
    BY <1>7 DEF MovesElsewhere
  <2>2. entry' \in [Entries -> EntryRows]
    BY <1>1, <2>1 DEF EntryRows
  <2> QED BY <1>1, <1>7, <2>2, DeskMoves DEF MovesElsewhere, DraftIsOfItsOrder
<1>8. ASSUME NEW c \in Clicks, Load(c) PROVE DeskIInv'
  BY <1>1, <1>2, <1>8, CallMoves DEF Load
<1>9. ASSUME NEW c \in Clicks, ServeList(c) PROVE DeskIInv'
  <2>1. PICK listed \in SUBSET Entries : click' = [click EXCEPT ![c].rows =
          [e \in Entries |-> IF e \in listed THEN entry[e].status ELSE NoStatus]]
    BY <1>9 DEF ServeList
  <2> DEFINE rows == [e \in Entries |-> IF e \in listed THEN entry[e].status ELSE NoStatus]
             r == [click[c] EXCEPT !.rows = rows]
  <2>2. rows \in RowSets
    BY <1>1 DEF RowSets, EntryRows
  <2>3. r \in ClickRows /\ WholeClick(r)
    <3> HIDE DEF rows
    <3> QED BY <1>1, <2>2 DEF ClickRows, WholeClick
  <2>4. click' = [click EXCEPT ![c] = r]
    BY <2>1
  <2> HIDE DEF r
  <2> QED BY <1>1, <1>9, <2>3, <2>4, ClickMoves DEF ServeList, DraftIsOfItsOrder
<1>10. ASSUME NEW c \in Clicks, Listed(c) PROVE DeskIInv'
  <2>1. desk' \in Desks /\ WholeDesk(desk') /\ desk'.detail = desk.detail
    BY <1>1, <1>10 DEF Listed, Desks, WholeDesk, ClickRows
  <2> QED BY <1>1, <1>10, <2>1, BlanksAreSound, ClickMoves DEF Listed, DraftIsOfItsOrder
<1>11. ASSUME NEW c \in Clicks, OpenDrawer(c) PROVE DeskIInv'
  <2>1. PICK e \in Entries : /\ Call(c, "detail", e, NoStatus, NoRemark)
                             /\ desk' = [desk EXCEPT !.detail = NoSheet]
                             /\ UNCHANGED <<entry, about>>
    BY <1>11 DEF OpenDrawer
  <2>2. desk' \in Desks /\ WholeDesk(desk') /\ desk'.detail = NoSheet
    BY <1>1, <2>1, BlanksAreSound DEF Desks, WholeDesk
  <2> QED BY <1>2, <2>1, <2>2, CallMoves
<1>12. ASSUME NEW c \in Clicks, ServeSheet(c) PROVE DeskIInv'
  <2>1. click[c].entry \in Entries
    BY <1>1, <1>12 DEF ServeSheet, WholeClick
  <2>2. Sheet(click[c].entry) \in Sheets /\ Sheet(click[c].entry).entry \in Entries
    BY <1>1, <2>1 DEF Sheet, Sheets, EntryRows
  <2> QED BY <1>1, <1>12, <2>2, ServeMoves DEF ServeSheet
<1>13. ASSUME NEW c \in Clicks, DetailOpened(c) PROVE DeskIInv'
  BY <1>1, <1>13, BlanksAreSound, AnswerMoves, ClickMoves DEF DetailOpened, Done, DraftIsOfItsOrder
<1>14. ASSUME NEW c \in Clicks, Confirm(c) PROVE DeskIInv'
  <2>1. desk.asked.entry \in Entries /\ desk.asked.seen \in DOMAIN Target
    BY <1>1, <1>14 DEF Confirm, Free, WholeDesk
  <2>2. desk' \in Desks /\ WholeDesk(desk') /\ desk'.detail = desk.detail
    BY <1>1, <1>14, <2>1, BlanksAreSound DEF Confirm, Desks, WholeDesk
  <2> QED BY <1>2, <1>14, <2>1, <2>2, CallMoves DEF Confirm
<1>15. ASSUME NEW c \in Clicks, ServeAction(c) PROVE DeskIInv'
  <2>1. click[c].entry \in Entries /\ click[c].seen \in DOMAIN Target
    BY <1>1, <1>15 DEF ServeAction, WholeClick
  <2>2. PICK to \in EntryStatuses :
          /\ click' = [click EXCEPT ![c].sheet = [Sheet(click[c].entry) EXCEPT !.status = to]]
          /\ entry' \in {entry, [entry EXCEPT ![click[c].entry].status = to]}
    <3> DEFINE e == click[c].entry
               status == click[c].seen
               Answer(to) == click' = [click EXCEPT ![c].sheet = [Sheet(e) EXCEPT !.status = to]]
    <3>1. Target[status] \in EntryStatuses /\ "PAID" \in EntryStatuses
      BY <2>1, TargetsAreStatuses DEF EntryStatuses
    <3>2. \/ Answer(Target[status]) /\ UNCHANGED entry
          \/ \E to \in {Target[status], "PAID"} :
               entry' = [entry EXCEPT ![e].status = to] /\ Answer(to)
      BY <1>15 DEF ServeAction
    <3> HIDE DEF e, status, Answer
    <3>3. \E to \in EntryStatuses :
            Answer(to) /\ entry' \in {entry, [entry EXCEPT ![e].status = to]}
      BY <3>1, <3>2
    <3> QED BY <3>3 DEF e, Answer
  <2> DEFINE s == [Sheet(click[c].entry) EXCEPT !.status = to]
  <2>3. s \in Sheets /\ s.entry \in Entries
    BY <1>1, <2>1 DEF Sheet, Sheets, EntryRows
  <2>4. entry' \in [Entries -> EntryRows]
    BY <1>1, <2>1, <2>2 DEF EntryRows
  <2> HIDE DEF s
  <2> QED BY <1>15, <2>2, <2>3, <2>4, ServeMoves DEF ServeAction, s
<1>16. ASSUME NEW c \in Clicks, ActionPerformed(c) PROVE DeskIInv'
  <2> DEFINE d == [desk EXCEPT !.acting = NoStatus]
             r == [NoClick EXCEPT !.kind = "list"]
  <2>1. d \in Desks /\ WholeDesk(d) /\ d.detail = desk.detail
    BY <1>1 DEF Desks, WholeDesk
  <2>2. r \in ClickRows /\ WholeClick(r)
    BY DEF ClickRows, WholeClick, NoClick, Notes, RowSets, NoRows, Sheets, NoSheet
  <2>3. desk' = d => (UNCHANGED about => DraftIsOfItsOrder')
    BY <1>1, <2>1 DEF DraftIsOfItsOrder
  <2>4. CASE Served(c) /\ click' = [click EXCEPT ![c] = r] /\ UNCHANGED entry
    <3>1. Show(d, click[c].sheet) \/ (desk' = d /\ UNCHANGED about)
      BY <1>16, <2>4 DEF ActionPerformed, Show
    <3> HIDE DEF d, r
    <3> QED BY <1>1, <2>1, <2>2, <2>3, <2>4, <3>1, AnswerMoves, ClickMoves
  <2>5. CASE desk' = d /\ UNCHANGED about /\ Done(c)
    <3> HIDE DEF d, r
    <3> QED BY <1>1, <2>1, <2>3, <2>5, BlanksAreSound, ClickMoves DEF Done
  <2> QED BY <1>16, <2>4, <2>5 DEF ActionPerformed
<1>17. ASSUME NEW c \in Clicks, SaveRemark(c) PROVE DeskIInv'
  <2>1. desk.detail.entry \in Entries /\ desk.draft \in Notes
    BY <1>1, <1>17 DEF SaveRemark, WholeDesk, Desks
  <2> QED BY <1>1, <1>2, <1>17, <2>1, CallMoves DEF SaveRemark
<1>18. ASSUME NEW c \in Clicks, ServeRemark(c) PROVE DeskIInv'
  <2>1. click[c].entry \in Entries /\ click[c].note \in Notes
    BY <1>1, <1>18 DEF ServeRemark, WholeClick, ClickRows
  <2> DEFINE s == [Sheet(click[c].entry) EXCEPT !.remark = click[c].note]
  <2>2. s \in Sheets /\ s.entry \in Entries
    BY <1>1, <2>1 DEF Sheet, Sheets, EntryRows
  <2>3. entry' \in [Entries -> EntryRows]
    BY <1>1, <1>18, <2>1 DEF ServeRemark, EntryRows
  <2>4. click' = [click EXCEPT ![c].sheet = s] /\ UNCHANGED <<desk, about>>
    BY <1>18 DEF ServeRemark
  <2> HIDE DEF s
  <2> QED BY <2>2, <2>3, <2>4, ServeMoves
<1>19. ASSUME NEW c \in Clicks, RemarkSaved(c) PROVE DeskIInv'
  BY <1>1, <1>19, BlanksAreSound, AnswerMoves, ClickMoves DEF RemarkSaved, Done, DraftIsOfItsOrder
<1> QED
  BY <1>3, <1>4, <1>5, <1>6, <1>7, <1>8, <1>9, <1>10, <1>11, <1>12, <1>13, <1>14, <1>15, <1>16,
     <1>17, <1>18, <1>19 DEF DeskNext

\* The desk is always in order.
LEMMA DeskInvariance == DeskSpec => []DeskIInv
<1>1. DeskIInv /\ [DeskNext]_deskVars => DeskIInv'
  BY DeskKeeps
<1>2. (\E start \in [Entries -> EntryStatuses] : DeskInit(start)) => DeskIInv
  BY DeskStart
<1> QED BY <1>1, <1>2, PTL DEF DeskSpec

-----------------------------------------------------------------------------
(* The back office's forms *)

FormRows == [open : BOOLEAN, editing : Targets, fields : Targets, picture : Targets \cup {NoRow}]
ModeRows == [selected : Rows \cup {NoRow}, of : Rows \cup {NoRow}, loading : BOOLEAN]
FetchRows == [kind : Kinds, row : Targets \cup {NoRow}]

\* The type of the forms, in the words of the rows.
LEMMA FormsType ==
  /\ FormsTypeOK <=>
       /\ view \in Views /\ form \in FormRows /\ modes \in ModeRows
       /\ fetch \in [Fetches -> FetchRows] /\ stray \subseteq {"fields", "picture", "modes"}
  /\ FormsTypeOK' <=>
       /\ view' \in Views /\ form' \in FormRows /\ modes' \in ModeRows
       /\ fetch' \in [Fetches -> FetchRows] /\ stray' \subseteq {"fields", "picture", "modes"}
BY DEF FormsTypeOK, FormRows, ModeRows, FetchRows

\* With no call under way and nothing open, there is nothing to mix up.
LEMMA NothingOpen ==
  ASSUME view' \in Views, form' = NoForm, modes' = NoModes,
         fetch' = [f \in Fetches |-> NoFetch], stray' = {}
  PROVE  FormsIInv'
<1>1. FormsTypeOK'
  BY FormsType DEF FormRows, ModeRows, FetchRows, NoForm, NoModes, NoFetch, Targets, Kinds
<1>2. \A f \in Fetches : fetch'[f].kind = "none"
  BY DEF NoFetch
<1>3. FetchesAreWhole' /\ OpeningIsAwaited' /\ PictureIsAwaited' /\ ModesAreAwaited'
  BY <1>2 DEF FetchesAreWhole, OpeningIsAwaited, PictureIsAwaited, ModesAreAwaited
<1>4. FormSavesItsRow'
  BY DEF FormSavesItsRow, NoForm, NoModes
<1> QED BY <1>1, <1>3, <1>4 DEF FormsIInv

\* No form is open at first.
LEMMA FormsStart == FormsInit => FormsIInv
<1> SUFFICES ASSUME FormsInit PROVE FormsIInv
  OBVIOUS
<1>1. FormsTypeOK
  BY FormsType DEF FormsInit, FormRows, ModeRows, FetchRows, NoForm, NoModes, NoFetch, Targets,
     Kinds
<1>2. \A f \in Fetches : fetch[f].kind = "none"
  BY DEF NoFetch, FormsInit
<1>3. FetchesAreWhole /\ OpeningIsAwaited /\ PictureIsAwaited /\ ModesAreAwaited
  BY <1>2 DEF FetchesAreWhole, OpeningIsAwaited, PictureIsAwaited, ModesAreAwaited
<1>4. FormSavesItsRow
  BY DEF FormSavesItsRow, NoForm, NoModes, FormsInit
<1> QED BY <1>1, <1>3, <1>4 DEF FormsIInv

\* A call is sent: the others stay as they are.
LEMMA SendAdds ==
  ASSUME FormsTypeOK, NEW f \in Fetches, NEW k \in Kinds, NEW r \in Targets \cup {NoRow},
         Send(f, k, r)
  PROVE  /\ fetch' \in [Fetches -> FetchRows] /\ fetch[f].kind = "none"
         /\ \A g \in Fetches : fetch'[g] = IF g = f THEN [kind |-> k, row |-> r] ELSE fetch[g]
<1>1. [kind |-> k, row |-> r] \in FetchRows
  BY DEF FetchRows
<1> QED BY <1>1, FormsType DEF Send

\* A call ends: the others stay as they are.
LEMMA EndedRemoves ==
  ASSUME FormsTypeOK, NEW f \in Fetches, NEW k, Ended(f, k)
  PROVE  /\ fetch' \in [Fetches -> FetchRows] /\ fetch[f].kind = k
         /\ \A g \in Fetches : fetch'[g] = IF g = f THEN NoFetch ELSE fetch[g]
<1>1. NoFetch \in FetchRows
  BY DEF FetchRows, NoFetch, Kinds
<1> QED BY <1>1, FormsType DEF Ended

\* Every step of the forms keeps their invariant.
LEMMA FormsKeep == FormsIInv /\ [FormsNext]_formVars => FormsIInv'
<1> SUFFICES ASSUME FormsIInv, [FormsNext]_formVars PROVE FormsIInv'
  OBVIOUS
<1>1. /\ view \in Views /\ form \in FormRows /\ modes \in ModeRows
      /\ fetch \in [Fetches -> FetchRows] /\ stray \subseteq {"fields", "picture", "modes"}
      /\ FormsTypeOK
  BY FormsType DEF FormsIInv
<1>2. /\ FetchesAreWhole /\ OpeningIsAwaited /\ PictureIsAwaited /\ ModesAreAwaited
      /\ FormSavesItsRow
  BY DEF FormsIInv
<1>3. NewRow \in Targets /\ Rows \subseteq Targets /\ NoRow \notin Targets
  BY FormsHaveRows DEF Targets
<1> USE DEF FormsIInv, FetchesAreWhole
<1>4. CASE UNCHANGED formVars
  BY <1>1, <1>2, <1>4, FormsType DEF formVars, OpeningIsAwaited, PictureIsAwaited,
     ModesAreAwaited, FormSavesItsRow
<1>5. CASE Navigate
  BY <1>5, NothingOpen DEF Navigate
<1>6. CASE OpenProduct
  <2>1. PICK r \in Targets :
          form' = [open |-> TRUE, editing |-> r, fields |-> r, picture |-> NoRow]
    BY <1>6 DEF OpenProduct
  <2>2. /\ UNCHANGED <<view, modes, fetch>> /\ view = "products" /\ ~form.open
        /\ stray' = IF Busy("upload") THEN stray ELSE stray \ {"picture"}
    BY <1>6 DEF OpenProduct
  <2>3. FormsTypeOK' /\ FetchesAreWhole'
    BY <1>1, <1>2, <2>1, <2>2, FormsType DEF FormRows
  <2>4. OpeningIsAwaited' /\ ModesAreAwaited'
    BY <1>1, <1>2, <2>2 DEF OpeningIsAwaited, ModesAreAwaited
  <2>5. PictureIsAwaited'
    BY <1>1, <1>2, <2>2 DEF PictureIsAwaited, Busy
  <2>6. FormSavesItsRow'
    BY <1>1, <1>2, <2>1, <2>2 DEF FormSavesItsRow
  <2> QED BY <2>3, <2>4, <2>5, <2>6
<1>7. CASE RemoveImage
  <2>1. /\ form' \in FormRows /\ form'.picture = NoRow /\ form'.open = form.open
        /\ form'.editing = form.editing /\ form'.fields = form.fields
        /\ UNCHANGED <<view, modes, fetch, stray>>
    BY <1>1, <1>7 DEF RemoveImage, FormRows
  <2>2. FormsTypeOK' /\ FetchesAreWhole'
    BY <1>1, <1>2, <2>1, FormsType
  <2>3. OpeningIsAwaited' /\ PictureIsAwaited' /\ ModesAreAwaited'
    BY <1>1, <1>2, <2>1 DEF OpeningIsAwaited, PictureIsAwaited, ModesAreAwaited
  <2>4. FormSavesItsRow'
    BY <1>2, <2>1 DEF FormSavesItsRow
  <2> QED BY <2>2, <2>3, <2>4
\* Closing the dialog, of its own or by a save that ends.
<1>8. ASSUME form' = [form EXCEPT !.open = FALSE],
             stray' = stray \cup (IF Busy("upload") THEN {"picture"} ELSE {}),
             UNCHANGED <<view, modes>>, fetch' \in [Fetches -> FetchRows],
             \A f \in Fetches : fetch'[f] \in {fetch[f], NoFetch}
      PROVE  FormsIInv'
  <2>1. /\ form' \in FormRows /\ form'.picture = form.picture /\ ~form'.open
        /\ form'.editing = form.editing /\ form'.fields = form.fields
    BY <1>1, <1>8 DEF FormRows
  <2>2. \A f \in Fetches : fetch'[f].kind # "none" => fetch'[f] = fetch[f]
    BY <1>8 DEF NoFetch
  <2>3. FormsTypeOK'
    BY <1>1, <1>8, <2>1, FormsType
  <2>4. FetchesAreWhole'
    BY <1>1, <1>2, <1>8, <2>2
  <2>5. OpeningIsAwaited' /\ ModesAreAwaited'
    BY <1>1, <1>2, <1>8, <2>1, <2>2 DEF OpeningIsAwaited, ModesAreAwaited
  <2>6. PictureIsAwaited'
    BY <1>1, <1>2, <1>8, <2>2 DEF PictureIsAwaited, Busy
  <2>7. FormSavesItsRow'
    BY <1>2, <1>8, <2>1 DEF FormSavesItsRow
  <2> QED BY <2>3, <2>4, <2>5, <2>6, <2>7
<1>9. CASE CancelForm
  <2>1. fetch' = fetch
    BY <1>9 DEF CancelForm
  <2> QED BY <1>1, <1>8, <1>9, <2>1 DEF CancelForm
<1>10. ASSUME NEW f \in Fetches, OpenStore(f) PROVE FormsIInv'
  <2>1. PICK r \in Targets :
          /\ Send(f, "open", r)
          /\ form' = IF r = NewRow THEN NoForm ELSE [form EXCEPT !.editing = r]
    BY <1>10 DEF OpenStore
  <2>2. /\ view = "stores" /\ ~form.open /\ UNCHANGED <<view, modes>>
        /\ stray' = (stray \ {"fields"}) \cup (IF Busy("open") THEN {"fields"} ELSE {})
    BY <1>10 DEF OpenStore
  <2>3. /\ fetch' \in [Fetches -> FetchRows] /\ fetch[f].kind = "none"
        /\ \A g \in Fetches :
             fetch'[g] = IF g = f THEN [kind |-> "open", row |-> r] ELSE fetch[g]
    BY <1>1, <2>1, SendAdds DEF Kinds
  <2>4. /\ form' \in FormRows /\ ~form'.open /\ form'.editing = r
        /\ r = NewRow => form'.fields = NewRow /\ form'.picture = NoRow
    BY <1>1, <1>3, <2>1, <2>2 DEF FormRows, NoForm
  <2>5. FormsTypeOK'
    BY <1>1, <2>2, <2>3, <2>4, FormsType
  <2>6. FetchesAreWhole'
    BY <1>1, <1>2, <2>2, <2>3
  <2>7. OpeningIsAwaited'
    BY <1>1, <2>2, <2>3, <2>4 DEF OpeningIsAwaited, Busy
  <2>8. PictureIsAwaited'
    BY <1>1, <1>2, <2>2, <2>3 DEF PictureIsAwaited
  <2>9. ModesAreAwaited'
    BY <1>1, <1>2, <2>2, <2>3 DEF ModesAreAwaited
  <2>10. FormSavesItsRow'
    BY <1>2, <2>2, <2>4 DEF FormSavesItsRow
  <2> QED BY <2>5, <2>6, <2>7, <2>8, <2>9, <2>10
<1>11. ASSUME NEW f \in Fetches, StoreOpened(f) PROVE FormsIInv'
  <2> DEFINE r == fetch[f].row
  <2>1. /\ fetch' \in [Fetches -> FetchRows] /\ fetch[f].kind = "open"
        /\ \A g \in Fetches : fetch'[g] = IF g = f THEN NoFetch ELSE fetch[g]
    BY <1>1, <1>11, EndedRemoves DEF StoreOpened
  <2>2. /\ UNCHANGED <<view, modes, stray>> /\ r \in Targets
        /\ \A g \in Fetches : fetch'[g].kind # "none" => g # f /\ fetch'[g] = fetch[g]
    BY <1>2, <1>11, <2>1 DEF StoreOpened, NoFetch
  <2>3. /\ form' \in FormRows /\ form'.editing = form.editing
        /\ \/ form' = form
           \/ /\ form'.open
              /\ \/ r = NewRow /\ form'.fields = form.fields /\ form'.picture = form.picture
                 \/ form'.fields = r /\ form'.picture = NoRow
    <3> HIDE DEF r
    <3>1. \/ form' = form
          \/ r = NewRow /\ form' = [form EXCEPT !.open = TRUE]
          \/ form' = [form EXCEPT !.open = TRUE, !.fields = r, !.picture = NoRow]
      BY <1>11 DEF StoreOpened, r
    <3> QED BY <1>1, <2>2, <3>1 DEF FormRows
  <2>4. FormsTypeOK' /\ FetchesAreWhole'
    BY <1>1, <1>2, <2>1, <2>2, <2>3, FormsType
  <2>5. "fields" \notin stray =>
          /\ \A g \in Fetches : fetch'[g].kind # "open"
          /\ form.editing = r /\ ~form.open
          /\ r = NewRow => form.fields = NewRow /\ ("picture" \notin stray => form.picture = NoRow)
    BY <1>2, <2>1, <2>2 DEF OpeningIsAwaited
  <2>6. OpeningIsAwaited' /\ ModesAreAwaited'
    BY <1>2, <2>2, <2>5 DEF OpeningIsAwaited, ModesAreAwaited
  <2>7. PictureIsAwaited'
    BY <1>2, <2>1, <2>2, <2>3 DEF PictureIsAwaited
  <2>8. FormSavesItsRow'
    BY <1>2, <2>2, <2>3, <2>5 DEF FormSavesItsRow
  <2> QED BY <2>4, <2>6, <2>7, <2>8
<1>12. ASSUME NEW f \in Fetches, UploadImage(f) PROVE FormsIInv'
  <2>1. /\ fetch' \in [Fetches -> FetchRows] /\ fetch[f].kind = "none"
        /\ \A g \in Fetches :
             fetch'[g] = IF g = f THEN [kind |-> "upload", row |-> form.editing] ELSE fetch[g]
    BY <1>1, <1>12, SendAdds DEF UploadImage, Kinds, FormRows
  <2>2. UNCHANGED <<view, form, modes, stray>> /\ form.open /\ form.editing \in Targets
    BY <1>1, <1>12 DEF UploadImage, FormRows
  <2>3. FormsTypeOK' /\ FetchesAreWhole'
    BY <1>1, <1>2, <2>1, <2>2, FormsType
  <2>4. OpeningIsAwaited' /\ PictureIsAwaited' /\ ModesAreAwaited' /\ FormSavesItsRow'
    BY <1>1, <1>2, <2>1, <2>2 DEF OpeningIsAwaited, PictureIsAwaited, ModesAreAwaited,
       FormSavesItsRow
  <2> QED BY <2>3, <2>4
<1>13. ASSUME NEW f \in Fetches, ImageUploaded(f) PROVE FormsIInv'
  <2>1. /\ fetch' \in [Fetches -> FetchRows] /\ fetch[f].kind = "upload"
        /\ \A g \in Fetches : fetch'[g] = IF g = f THEN NoFetch ELSE fetch[g]
    BY <1>1, <1>13, EndedRemoves DEF ImageUploaded
  <2>2. /\ UNCHANGED <<view, modes, stray>>
        /\ \A g \in Fetches : fetch'[g].kind # "none" => fetch'[g] = fetch[g]
    BY <1>13, <2>1 DEF ImageUploaded, NoFetch
  <2>3. /\ form' \in FormRows /\ form'.editing = form.editing /\ form'.open = form.open
        /\ form'.fields = form.fields /\ form'.picture \in {form.picture, fetch[f].row}
    BY <1>1, <1>2, <1>13, <2>1 DEF ImageUploaded, FormRows
  <2>4. "picture" \notin stray => form.open /\ fetch[f].row = form.editing
    BY <1>2, <2>1 DEF PictureIsAwaited
  <2>5. FormsTypeOK' /\ FetchesAreWhole'
    BY <1>1, <1>2, <2>1, <2>2, <2>3, FormsType
  <2>6. OpeningIsAwaited'
    BY <1>2, <2>2, <2>3, <2>4 DEF OpeningIsAwaited
  <2>7. PictureIsAwaited' /\ ModesAreAwaited'
    BY <1>2, <2>2, <2>3 DEF PictureIsAwaited, ModesAreAwaited
  <2>8. FormSavesItsRow'
    BY <1>2, <2>2, <2>3, <2>4 DEF FormSavesItsRow
  <2> QED BY <2>5, <2>6, <2>7, <2>8
<1>14. ASSUME NEW f \in Fetches, SaveForm(f) PROVE FormsIInv'
  <2>1. /\ fetch' \in [Fetches -> FetchRows] /\ fetch[f].kind = "none"
        /\ \A g \in Fetches :
             fetch'[g] = IF g = f THEN [kind |-> "save", row |-> form.editing] ELSE fetch[g]
    BY <1>1, <1>14, SendAdds DEF SaveForm, Kinds, FormRows
  <2>2. UNCHANGED <<view, form, modes, stray>> /\ form.editing \in Targets
    BY <1>1, <1>14 DEF SaveForm, FormRows
  <2>3. FormsTypeOK' /\ FetchesAreWhole'
    BY <1>1, <1>2, <2>1, <2>2, FormsType
  <2>4. OpeningIsAwaited' /\ PictureIsAwaited' /\ ModesAreAwaited' /\ FormSavesItsRow'
    BY <1>1, <1>2, <2>1, <2>2 DEF OpeningIsAwaited, PictureIsAwaited, ModesAreAwaited,
       FormSavesItsRow
  <2> QED BY <2>3, <2>4
<1>15. ASSUME NEW f \in Fetches, FormSaved(f) PROVE FormsIInv'
  <2>1. /\ fetch' \in [Fetches -> FetchRows]
        /\ \A g \in Fetches : fetch'[g] = IF g = f THEN NoFetch ELSE fetch[g]
    BY <1>1, <1>15, EndedRemoves DEF FormSaved
  <2>2. CASE form' = [form EXCEPT !.open = FALSE]
             /\ stray' = stray \cup (IF Busy("upload") THEN {"picture"} ELSE {})
    BY <1>8, <1>15, <2>1, <2>2 DEF FormSaved
  <2>3. CASE UNCHANGED <<form, stray>>
    <3>1. /\ UNCHANGED <<view, modes>>
          /\ \A g \in Fetches : fetch'[g].kind # "none" => fetch'[g] = fetch[g]
      BY <1>15, <2>1 DEF FormSaved, NoFetch
    <3>2. FormsTypeOK' /\ FetchesAreWhole'
      BY <1>1, <1>2, <2>1, <2>3, <3>1, FormsType
    <3>3. OpeningIsAwaited' /\ PictureIsAwaited' /\ ModesAreAwaited' /\ FormSavesItsRow'
      BY <1>2, <2>3, <3>1 DEF OpeningIsAwaited, PictureIsAwaited, ModesAreAwaited,
         FormSavesItsRow
    <3> QED BY <3>2, <3>3
  <2> QED BY <1>15, <2>2, <2>3 DEF FormSaved
<1>16. ASSUME NEW f \in Fetches, SelectStore(f) PROVE FormsIInv'
  <2>1. PICK r \in Rows : /\ Send(f, "config", r)
                          /\ modes' = [modes EXCEPT !.selected = r, !.loading = TRUE]
    BY <1>16 DEF SelectStore
  <2>2. /\ UNCHANGED <<view, form>>
        /\ stray' = IF Busy("config") \/ Busy("saveModes") THEN stray \cup {"modes"}
                    ELSE stray \ {"modes"}
    BY <1>16 DEF SelectStore
  <2>3. /\ fetch' \in [Fetches -> FetchRows] /\ fetch[f].kind = "none"
        /\ \A g \in Fetches :
             fetch'[g] = IF g = f THEN [kind |-> "config", row |-> r] ELSE fetch[g]
    BY <1>1, <1>3, <2>1, SendAdds DEF Kinds
  <2>4. modes' \in ModeRows /\ modes'.selected = r /\ modes'.loading
    BY <1>1, <2>1 DEF ModeRows
  <2>5. FormsTypeOK' /\ FetchesAreWhole'
    BY <1>1, <1>2, <2>2, <2>3, <2>4, FormsType
  <2>6. OpeningIsAwaited' /\ PictureIsAwaited'
    BY <1>1, <1>2, <2>2, <2>3 DEF OpeningIsAwaited, PictureIsAwaited
  <2>7. ModesAreAwaited'
    BY <1>1, <2>2, <2>3, <2>4 DEF ModesAreAwaited, Busy
  <2>8. FormSavesItsRow'
    BY <1>2, <2>2, <2>4 DEF FormSavesItsRow
  <2> QED BY <2>5, <2>6, <2>7, <2>8
<1>17. ASSUME NEW f \in Fetches, ConfigLoaded(f) PROVE FormsIInv'
  <2>1. /\ fetch' \in [Fetches -> FetchRows] /\ fetch[f].kind = "config"
        /\ \A g \in Fetches : fetch'[g] = IF g = f THEN NoFetch ELSE fetch[g]
    BY <1>1, <1>17, EndedRemoves DEF ConfigLoaded
  <2>2. /\ UNCHANGED <<view, form>> /\ fetch[f].row \in Rows
        /\ \A g \in Fetches : fetch'[g].kind # "none" => g # f /\ fetch'[g] = fetch[g]
        /\ stray' \in {stray, stray \cup {"modes"}}
    BY <1>2, <1>17, <2>1 DEF ConfigLoaded, NoFetch
  <2>3. /\ modes' \in ModeRows /\ modes'.selected = modes.selected /\ ~modes'.loading
        /\ "modes" \notin stray' => modes'.of = fetch[f].row
    BY <1>1, <1>17, <2>2 DEF ConfigLoaded, ModeRows
  <2>4. FormsTypeOK' /\ FetchesAreWhole'
    BY <1>1, <1>2, <2>1, <2>2, <2>3, FormsType
  <2>5. OpeningIsAwaited' /\ PictureIsAwaited'
    BY <1>2, <2>2 DEF OpeningIsAwaited, PictureIsAwaited
  <2>6. "modes" \notin stray =>
          /\ fetch[f].row = modes.selected /\ modes.loading
          /\ \A g \in Fetches : fetch[g].kind = "config" => f = g
    BY <1>2, <2>1 DEF ModesAreAwaited
  <2>7. "modes" \notin stray' => "modes" \notin stray
    BY <2>2
  <2>8. ModesAreAwaited'
    BY <1>2, <2>2, <2>3, <2>6, <2>7 DEF ModesAreAwaited
  <2>9. FormSavesItsRow'
    BY <1>2, <2>2, <2>3, <2>6, <2>7 DEF FormSavesItsRow
  <2> QED BY <2>4, <2>5, <2>8, <2>9
<1>18. ASSUME NEW f \in Fetches, SaveModes(f) PROVE FormsIInv'
  <2>1. /\ fetch' \in [Fetches -> FetchRows] /\ fetch[f].kind = "none"
        /\ \A g \in Fetches : fetch'[g] =
             IF g = f THEN [kind |-> "saveModes", row |-> modes.selected] ELSE fetch[g]
    BY <1>1, <1>3, <1>18, SendAdds DEF SaveModes, Kinds, ModeRows
  <2>2. /\ UNCHANGED <<view, form, modes, stray>> /\ modes.selected \in Rows
        /\ modes.selected # NoRow /\ ~modes.loading
    BY <1>1, <1>18 DEF SaveModes, ModeRows
  <2>3. FormsTypeOK' /\ FetchesAreWhole'
    BY <1>1, <1>2, <2>1, <2>2, FormsType
  <2>4. OpeningIsAwaited' /\ PictureIsAwaited' /\ ModesAreAwaited' /\ FormSavesItsRow'
    BY <1>1, <1>2, <2>1, <2>2 DEF OpeningIsAwaited, PictureIsAwaited, ModesAreAwaited,
       FormSavesItsRow
  <2> QED BY <2>3, <2>4
<1>19. ASSUME NEW f \in Fetches, ModesSaved(f) PROVE FormsIInv'
  <2>1. /\ fetch' \in [Fetches -> FetchRows] /\ fetch[f].kind = "saveModes"
        /\ \A g \in Fetches : fetch'[g] = IF g = f THEN NoFetch ELSE fetch[g]
    BY <1>1, <1>19, EndedRemoves DEF ModesSaved
  <2>2. /\ UNCHANGED <<view, form, stray>> /\ fetch[f].row \in Rows
        /\ \A g \in Fetches : fetch'[g].kind # "none" => fetch'[g] = fetch[g]
    BY <1>2, <1>19, <2>1 DEF ModesSaved, NoFetch
  <2>3. /\ modes' \in ModeRows /\ modes'.selected = modes.selected
        /\ modes'.loading = modes.loading /\ modes'.of \in {modes.of, fetch[f].row}
    BY <1>1, <1>19, <2>2 DEF ModesSaved, ModeRows
  <2>4. FormsTypeOK' /\ FetchesAreWhole'
    BY <1>1, <1>2, <2>1, <2>2, <2>3, FormsType
  <2>5. OpeningIsAwaited' /\ PictureIsAwaited' /\ ModesAreAwaited'
    BY <1>2, <2>2, <2>3 DEF OpeningIsAwaited, PictureIsAwaited, ModesAreAwaited
  <2>6. "modes" \notin stray => fetch[f].row = modes.selected
    BY <1>2, <2>1 DEF ModesAreAwaited
  <2>7. FormSavesItsRow'
    BY <1>2, <2>2, <2>3, <2>6 DEF FormSavesItsRow
  <2> QED BY <2>4, <2>5, <2>7
<1> QED
  BY <1>4, <1>5, <1>6, <1>7, <1>9, <1>10, <1>11, <1>12, <1>13, <1>14, <1>15, <1>16, <1>17,
     <1>18, <1>19 DEF FormsNext

\* The forms are always in order.
LEMMA FormsInvariance == FormsSpec => []FormsIInv
<1>1. FormsIInv /\ [FormsNext]_formVars => FormsIInv'
  BY FormsKeep
<1> QED BY <1>1, FormsStart, PTL DEF FormsSpec

\* What an administrator writes about an order is saved to that order (OrderListView.vue
\* saveRemark); and what a dialog or the delivery page would save belongs to the row it would
\* save to (StoreListView.vue save, DeliveryConfigView.vue saveModes), unless a second store
\* was opened while the first was being loaded, a dialog was left during an upload, or a
\* configuration failed to load or was loaded under another call.
THEOREM NothingIsSavedElsewhere == DeskSpec /\ FormsSpec => []WrittenWhereMeant
<1>1. DeskIInv /\ FormsIInv => WrittenWhereMeant
  BY DEF DeskIInv, DraftIsOfItsOrder, RemarkIsOfItsOrder, FormsIInv, WrittenWhereMeant
<1> QED BY <1>1, DeskInvariance, FormsInvariance, PTL

-----------------------------------------------------------------------------
(* The visit.  VisitIInv is taken apart into statements about rows and     *)
(* calls given as parameters, so that the lemmas can say of any two states *)
(* what a step of one call does to them.                                   *)

ServedRows == [area : Places, enabled : SUBSET Areas]
VisitRows == [token : BOOLEAN, profile : Places \cup {NoProfile}, shown : Places,
              restoring : BOOLEAN, loggingIn : BOOLEAN, selecting : Places]
AskRows == [kind : AskingKinds, area : Places, reply : {"none", "ok", "gone", "failed"},
            from : {"none", "restoring", "loggingIn"}]
Gaps == {"community", "count"}

WholeAsk(r) ==
  /\ r.kind \in {"select", "sync"} => r.area \in Areas
  /\ r.kind = "sync" => r.from \in {"restoring", "loggingIn"}
  /\ r.reply = "gone" => r.kind \in {"select", "sync"}

Stands(s) == s.area \in s.enabled \cup {NoArea}

\* Settles, for the visit v and the server s.
SettledBy(r, v, s) ==
  /\ r.kind = "login" => ~v.token
  /\ r.kind \in {"restore", "login"} /\ r.reply = "ok" => r.area = s.area /\ Stands(s)
  /\ r.kind \in {"select", "sync"} /\ r.reply = "ok" => r.area = s.area /\ Stands(s)
  /\ r.kind = "sync" /\ r.reply \in {"none", "gone"} => s.area = NoArea

\* OneCallSettles, for the calls a.
One(p, a, v, s) ==
  "community" \notin p =>
    \A c \in Asks : a[c].kind \in Settling =>
      SettledBy(a[c], v, s) /\ \A d \in Asks : a[d].kind \in Settling => c = d

\* The first part of VisitAgrees, with ShownIsStanding.
AtPeace(p, a, v, s) ==
  ("community" \notin p /\ v.token /\ v.profile # NoProfile
     /\ \A c \in Asks : a[c].kind \notin Settling)
    => v.shown = s.area /\ Stands(s)

\* The rest of VisitAgrees.
Editing(a) == {c \in Asks : a[c].kind \in {"edit"}}
Counted(p, a, e) ==
  /\ e <= Cardinality(Editing(a))
  /\ "count" \notin p => e = Cardinality(Editing(a))

\* VisitIInv, in the words of rows and calls.
LEMMA VisitParts ==
  /\ VisitIInv <=>
       /\ served \in ServedRows /\ visit \in VisitRows /\ edits \in Int
       /\ asks \in [Asks -> AskRows] /\ apart \subseteq Gaps
       /\ \A c \in Asks : WholeAsk(asks[c])
       /\ One(apart, asks, visit, served) /\ AtPeace(apart, asks, visit, served)
       /\ Counted(apart, asks, edits)
  /\ VisitIInv' <=>
       /\ served' \in ServedRows /\ visit' \in VisitRows /\ edits' \in Int
       /\ asks' \in [Asks -> AskRows] /\ apart' \subseteq Gaps
       /\ \A c \in Asks : WholeAsk(asks'[c])
       /\ One(apart', asks', visit', served') /\ AtPeace(apart', asks', visit', served')
       /\ Counted(apart', asks', edits')
<1>1. /\ VisitTypeOK <=> /\ served \in ServedRows /\ visit \in VisitRows /\ edits \in Int
                         /\ asks \in [Asks -> AskRows] /\ apart \subseteq Gaps
      /\ VisitTypeOK' <=> /\ served' \in ServedRows /\ visit' \in VisitRows /\ edits' \in Int
                          /\ asks' \in [Asks -> AskRows] /\ apart' \subseteq Gaps
  BY DEF VisitTypeOK, ServedRows, VisitRows, AskRows, Gaps
<1>2. /\ AsksAreWhole <=> \A c \in Asks : WholeAsk(asks[c])
      /\ AsksAreWhole' <=> \A c \in Asks : WholeAsk(asks'[c])
  BY DEF AsksAreWhole, WholeAsk
<1>3. /\ OneCallSettles <=> One(apart, asks, visit, served)
      /\ OneCallSettles' <=> One(apart', asks', visit', served')
  BY DEF OneCallSettles, One, Settles, SettledBy, Standing, Stands, UnderWay
<1>4. /\ ShownIsStanding /\ VisitAgrees <=>
           AtPeace(apart, asks, visit, served) /\ Counted(apart, asks, edits)
      /\ (ShownIsStanding /\ VisitAgrees)' <=>
           AtPeace(apart', asks', visit', served') /\ Counted(apart', asks', edits')
  <2>1. /\ UnderWay(Settling) = {} <=> \A c \in Asks : asks[c].kind \notin Settling
        /\ UnderWay(Settling)' = {} <=> \A c \in Asks : asks'[c].kind \notin Settling
    BY DEF UnderWay
  <2>2. UnderWay({"edit"}) = Editing(asks) /\ UnderWay({"edit"})' = Editing(asks')
    BY DEF UnderWay, Editing
  <2> QED
    BY <2>1, <2>2 DEF ShownIsStanding, VisitAgrees, AtPeace, Counted, Standing, Stands,
       Authenticated
<1> QED BY <1>1, <1>2, <1>3, <1>4 DEF VisitIInv

-----------------------------------------------------------------------------
(* What one call does to the two communities *)

\* A call about the community begins.
LEMMA SettlingBegins ==
  ASSUME VisitIInv, NEW c \in Asks, NEW r, r.kind \in Settling,
         asks' = [asks EXCEPT ![c] = r],
         "community" \notin apart' => \A d \in Asks : asks[d].kind \notin Settling,
         SettledBy(r, visit', served')
  PROVE  One(apart', asks', visit', served') /\ AtPeace(apart', asks', visit', served')
<1>1. \A d \in Asks : asks'[d] = IF d = c THEN r ELSE asks[d]
  BY VisitParts
<1> QED BY <1>1 DEF One, AtPeace

\* It goes on.
LEMMA SettlingGoesOn ==
  ASSUME VisitIInv, NEW c \in Asks, asks[c].kind \in Settling,
         NEW r, r.kind \in Settling, asks' = [asks EXCEPT ![c] = r],
         "community" \in apart => "community" \in apart',
         SettledBy(asks[c], visit, served) => SettledBy(r, visit', served')
  PROVE  One(apart', asks', visit', served') /\ AtPeace(apart', asks', visit', served')
<1>1. \A d \in Asks : asks'[d] = IF d = c THEN r ELSE asks[d]
  BY VisitParts
<1>2. One(apart, asks, visit, served)
  BY VisitParts
<1>3. "community" \notin apart' =>
        SettledBy(r, visit', served') /\ \A d \in Asks : asks[d].kind \in Settling => d = c
  BY <1>2 DEF One
<1> QED BY <1>1, <1>3 DEF One, AtPeace

\* It ends.
LEMMA SettlingEnds ==
  ASSUME VisitIInv, NEW c \in Asks, asks[c].kind \in Settling,
         asks' = [asks EXCEPT ![c] = NoAsking],
         "community" \in apart => "community" \in apart',
         ("community" \notin apart' /\ SettledBy(asks[c], visit, served)
            /\ visit'.token /\ visit'.profile # NoProfile)
           => visit'.shown = served'.area /\ Stands(served')
  PROVE  One(apart', asks', visit', served') /\ AtPeace(apart', asks', visit', served')
<1>1. \A d \in Asks : asks'[d] = IF d = c THEN NoAsking ELSE asks[d]
  BY VisitParts
<1>2. NoAsking.kind \notin Settling
  BY DEF NoAsking, Settling
<1>3. One(apart, asks, visit, served)
  BY VisitParts
<1>4. "community" \notin apart' =>
        /\ SettledBy(asks[c], visit, served)
        /\ \A d \in Asks : asks[d].kind \in Settling => d = c
  BY <1>3 DEF One
<1> QED BY <1>1, <1>2, <1>4 DEF One, AtPeace

\* A step of another kind.
LEMMA Aside ==
  ASSUME VisitIInv,
         \A d \in Asks : \/ asks'[d] = asks[d]
                         \/ asks[d].kind \notin Settling /\ asks'[d].kind \notin Settling,
         "community" \in apart => "community" \in apart',
         "community" \notin apart' =>
           \A d \in Asks : SettledBy(asks[d], visit, served) => SettledBy(asks[d], visit', served'),
         "community" \notin apart' /\ visit'.token /\ visit'.profile # NoProfile =>
           /\ visit.token /\ visit.profile # NoProfile
           /\ visit.shown = served.area /\ Stands(served) =>
                visit'.shown = served'.area /\ Stands(served')
  PROVE  One(apart', asks', visit', served') /\ AtPeace(apart', asks', visit', served')
<1>1. \A d \in Asks : /\ asks'[d].kind \in Settling <=> asks[d].kind \in Settling
                      /\ asks'[d].kind \in Settling => asks'[d] = asks[d]
  OBVIOUS
<1>2. One(apart, asks, visit, served) /\ AtPeace(apart, asks, visit, served)
  BY VisitParts
<1>3. One(apart', asks', visit', served')
  BY <1>1, <1>2 DEF One
<1>4. AtPeace(apart', asks', visit', served')
  BY <1>1, <1>2 DEF AtPeace
<1> QED BY <1>3, <1>4

\* Once apart, the communities are excepted.
LEMMA ApartIsExcepted ==
  ASSUME "community" \in apart'
  PROVE  One(apart', asks', visit', served') /\ AtPeace(apart', asks', visit', served')
BY DEF One, AtPeace

\* The count, by a step that begins or ends no change of the cart; by one that resets it; and
\* by a change that begins or ends.
LEMMA CountStays ==
  ASSUME NEW a, NEW b, \A d \in Asks : a[d].kind = "edit" <=> b[d].kind = "edit",
         NEW p, NEW q, NEW e, Counted(p, a, e), "count" \notin q => "count" \notin p
  PROVE  Counted(q, b, e)
<1>1. Editing(a) = Editing(b)
  BY DEF Editing
<1> QED BY <1>1 DEF Counted

\* Zero is the count when no edit is under way.
LEMMA CountResets ==
  ASSUME NEW b, NEW q, "count" \notin q => \A d \in Asks : b[d].kind # "edit"
  PROVE  Counted(q, b, 0)
<1>1. "count" \notin q => Editing(b) = {}
  BY DEF Editing
<1>2. Cardinality(Editing(b)) \in Nat
  <2>1. Editing(b) \subseteq Asks
    BY DEF Editing
  <2> QED BY <2>1, VisitHasAreas, FS_Subset, FS_CardinalityType
<1> QED BY <1>1, <1>2, FS_EmptySet DEF Counted

\* The count follows the edits that begin and end.
LEMMA CountMoves ==
  ASSUME NEW a \in [Asks -> AskRows], NEW c \in Asks, NEW r \in AskRows,
         NEW b, b = [a EXCEPT ![c] = r], NEW p, NEW e \in Int, Counted(p, a, e)
  PROVE  /\ a[c].kind = "none" /\ r.kind = "edit" => Counted(p, b, e + 1)
         /\ a[c].kind = "edit" /\ r.kind = "none" => Counted(p, b, e - 1)
<1>1. \A d \in Asks : b[d] = IF d = c THEN r ELSE a[d]
  OBVIOUS
<1>2. IsFiniteSet(Editing(a))
  <2>1. Editing(a) \subseteq Asks
    BY DEF Editing
  <2> QED BY <2>1, VisitHasAreas, FS_Subset
<1>3. Cardinality(Editing(a)) \in Nat
  BY <1>2, FS_CardinalityType
<1>4. ASSUME a[c].kind = "none", r.kind = "edit" PROVE Counted(p, b, e + 1)
  <2>1. Editing(b) = Editing(a) \cup {c} /\ c \notin Editing(a)
    BY <1>1, <1>4 DEF Editing
  <2>2. Cardinality(Editing(b)) = Cardinality(Editing(a)) + 1
    BY <1>2, <2>1, FS_AddElement
  <2> QED BY <1>3, <2>2 DEF Counted
<1>5. ASSUME a[c].kind = "edit", r.kind = "none" PROVE Counted(p, b, e - 1)
  <2>1. Editing(b) = Editing(a) \ {c} /\ c \in Editing(a)
    BY <1>1, <1>5 DEF Editing
  <2>2. Cardinality(Editing(b)) = Cardinality(Editing(a)) - 1
    BY <1>2, <2>1, FS_RemoveElement
  <2> QED BY <1>3, <2>2 DEF Counted
<1> QED BY <1>4, <1>5

-----------------------------------------------------------------------------
(* The steps *)

\* No call is a call.
LEMMA NoAskingIsWhole == NoAsking \in AskRows /\ WholeAsk(NoAsking) /\ NoAsking.kind = "none"
BY DEF NoAsking, AskRows, WholeAsk, AskingKinds, Places

\* A visit begins with what the program kept in its storage.
LEMMA VisitStart == VisitInit => VisitIInv
<1> SUFFICES ASSUME VisitInit PROVE VisitIInv
  OBVIOUS
<1>1. /\ served \in ServedRows /\ visit \in VisitRows /\ edits \in Int /\ apart \subseteq Gaps
      /\ visit.profile = NoProfile /\ edits = 0
  <2>1. served \in ServedRows
    BY DEF VisitInit, ServedRows
  <2>2. visit \in VisitRows /\ visit.profile = NoProfile
    BY DEF VisitInit, VisitRows, Places
  <2> QED BY <2>1, <2>2 DEF VisitInit, Gaps
<1>2. asks \in [Asks -> AskRows] /\ \A c \in Asks : asks[c] = NoAsking
  BY NoAskingIsWhole DEF VisitInit
<1>3. \A c \in Asks : WholeAsk(asks[c]) /\ asks[c].kind = "none"
  BY <1>2, NoAskingIsWhole
<1>4. One(apart, asks, visit, served) /\ AtPeace(apart, asks, visit, served)
  BY <1>1, <1>3 DEF One, AtPeace, Settling
<1>5. Counted(apart, asks, edits)
  BY <1>1, <1>3, CountResets
<1> QED BY <1>1, <1>2, <1>3, <1>4, <1>5, VisitParts

\* A step of one call keeps the types.
LEMMA VisitMoves ==
  ASSUME VisitIInv, NEW c \in Asks, NEW r \in AskRows, WholeAsk(r),
         asks' = [asks EXCEPT ![c] = r],
         served' \in ServedRows, visit' \in VisitRows, edits' \in Int, apart' \subseteq Gaps,
         One(apart', asks', visit', served'), AtPeace(apart', asks', visit', served'),
         Counted(apart', asks', edits')
  PROVE  VisitIInv'
<1>1. /\ asks' \in [Asks -> AskRows]
      /\ \A d \in Asks : asks'[d] = IF d = c THEN r ELSE asks[d]
  BY VisitParts
<1> QED BY <1>1, VisitParts

\* A call, and the count as it was.
LEMMA VisitMovesUncounted ==
  ASSUME VisitIInv, NEW c \in Asks, NEW r \in AskRows, WholeAsk(r),
         asks' = [asks EXCEPT ![c] = r], asks[c].kind = "edit" <=> r.kind = "edit",
         served' \in ServedRows, visit' \in VisitRows, UNCHANGED edits, apart' \subseteq Gaps,
         "count" \in apart => "count" \in apart',
         One(apart', asks', visit', served'), AtPeace(apart', asks', visit', served')
  PROVE  VisitIInv'
<1>1. \A d \in Asks : asks'[d] = IF d = c THEN r ELSE asks[d]
  BY VisitParts
<1>2. Counted(apart', asks', edits)
  BY <1>1, CountStays, VisitParts
<1> QED BY <1>2, VisitMoves, VisitParts

\* syncAfterLogin, called by restoreSession or by loginWithWechat.
LEMMA SyncAfterLoginKeeps ==
  ASSUME VisitIInv, NEW c \in Asks, asks[c].kind \in {"restore", "login"},
         asks[c].reply = "ok", NEW flag \in {"restoring", "loggingIn"},
         SyncAfterLogin(c, asks[c].area, flag), UNCHANGED <<served, edits, apart>>
  PROVE  VisitIInv'
<1> DEFINE area == asks[c].area
           known == [visit EXCEPT !.token = TRUE, !.profile = area]
<1>1. /\ served \in ServedRows /\ visit \in VisitRows /\ apart \subseteq Gaps
      /\ asks \in [Asks -> AskRows] /\ asks[c] \in AskRows /\ area \in Places
      /\ One(apart, asks, visit, served)
  BY VisitParts DEF AskRows
<1>2. asks[c].kind \in Settling
  BY DEF Settling
<1>3. SettledBy(asks[c], visit, served) => area = served.area /\ Stands(served)
  BY DEF SettledBy
<1>4. /\ known \in VisitRows /\ known.shown = visit.shown
      /\ [known EXCEPT ![flag] = FALSE] \in VisitRows
      /\ [known EXCEPT ![flag] = FALSE].shown = visit.shown
  BY <1>1 DEF VisitRows
<1> HIDE DEF area
<1>5. CASE area # NoArea
  <2>1. visit' = [known EXCEPT ![flag] = FALSE, !.shown = area] /\ Over(c)
    BY <1>5 DEF SyncAfterLogin, area
  <2>2. visit' \in VisitRows /\ visit'.shown = area
    BY <1>1, <2>1 DEF VisitRows
  <2>3. /\ One(apart', asks', visit', served') /\ AtPeace(apart', asks', visit', served')
    BY <1>1, <1>2, <1>3, <2>1, <2>2, SettlingEnds DEF Over
  <2> QED BY <1>1, <2>1, <2>2, <2>3, NoAskingIsWhole, VisitMovesUncounted DEF Over
<1>6. CASE area = NoArea /\ visit.shown = NoArea
  <2>1. visit' = [known EXCEPT ![flag] = FALSE] /\ Over(c)
    BY <1>6 DEF SyncAfterLogin, area
  <2>2. visit' \in VisitRows /\ visit'.shown = area
    BY <1>4, <1>6, <2>1
  <2>3. /\ One(apart', asks', visit', served') /\ AtPeace(apart', asks', visit', served')
    BY <1>1, <1>2, <1>3, <2>1, <2>2, SettlingEnds DEF Over
  <2> QED BY <1>1, <2>1, <2>2, <2>3, NoAskingIsWhole, VisitMovesUncounted DEF Over
<1>7. CASE area = NoArea /\ visit.shown # NoArea
  <2> DEFINE r == [kind |-> "sync", area |-> visit.shown, reply |-> "none", from |-> flag]
  <2>1. /\ visit' = [known EXCEPT !.selecting = visit.shown]
        /\ asks' = [asks EXCEPT ![c] = r]
    BY <1>7 DEF SyncAfterLogin, area
  <2>2. visit' \in VisitRows /\ visit.shown \in Areas
    <3>1. visit.shown \in Places /\ known \in VisitRows
      BY <1>1 DEF VisitRows
    <3> HIDE DEF known
    <3>2. visit' \in VisitRows
      BY <2>1, <3>1 DEF VisitRows
    <3> QED BY <1>7, <3>1, <3>2 DEF Places
  <2>3. r \in AskRows /\ WholeAsk(r) /\ r.kind \in Settling /\ r.kind # "edit"
    BY <2>2 DEF AskRows, WholeAsk, Settling, AskingKinds, Places
  <2>4. served.area = NoArea => SettledBy(r, visit', served')
    BY DEF SettledBy
  <2> HIDE DEF r
  <2>5. /\ One(apart', asks', visit', served') /\ AtPeace(apart', asks', visit', served')
    BY <1>1, <1>2, <1>3, <1>7, <2>1, <2>3, <2>4, SettlingGoesOn
  <2> QED BY <1>1, <2>1, <2>2, <2>3, <2>5, VisitMovesUncounted
<1> QED BY <1>5, <1>6, <1>7

\* A call about the community is sent.
LEMMA AskingBegins ==
  ASSUME VisitIInv, NEW c \in Asks, NEW k \in Settling \ {"sync"}, NEW area \in Places,
         k = "select" => area \in Areas, k = "login" => ~visit.token,
         Asking(c, k, area), visit' \in VisitRows, visit'.token = visit.token,
         UNCHANGED <<served, edits>>,
         apart' = IF UnderWay(Settling) = {} THEN apart \ {"community"}
                  ELSE apart \cup {"community"}
  PROVE  VisitIInv'
<1> DEFINE r == [NoAsking EXCEPT !.kind = k, !.area = area]
<1>1. /\ r \in AskRows /\ WholeAsk(r) /\ r.kind = k
      /\ asks' = [asks EXCEPT ![c] = r] /\ asks[c].kind = "none"
  BY DEF Asking, NoAsking, AskRows, WholeAsk, AskingKinds, Settling
<1>2. SettledBy(r, visit', served')
  BY DEF SettledBy, NoAsking, Settling
<1>3. "community" \notin apart' => \A d \in Asks : asks[d].kind \notin Settling
  BY DEF UnderWay
<1>4. /\ served' \in ServedRows /\ apart' \subseteq Gaps
      /\ "count" \in apart => "count" \in apart'
      /\ asks \in [Asks -> AskRows]
  BY VisitParts DEF Gaps
<1>5. k \in Settling /\ k # "edit"
  BY DEF Settling
<1> HIDE DEF r
<1>6. One(apart', asks', visit', served') /\ AtPeace(apart', asks', visit', served')
  BY <1>1, <1>2, <1>3, <1>4, <1>5, SettlingBegins
<1> QED BY <1>1, <1>4, <1>5, <1>6, VisitMovesUncounted

\* A step of a call that is not about the community, or of none.
LEMMA AsideMoves ==
  ASSUME VisitIInv, NEW c \in Asks, NEW r \in AskRows, WholeAsk(r),
         asks' = [asks EXCEPT ![c] = r],
         asks[c].kind \notin Settling, r.kind \notin Settling,
         visit' \in VisitRows, visit'.token = visit.token, visit'.profile = visit.profile,
         visit.shown = served.area /\ Stands(served) => visit'.shown = served.area,
         UNCHANGED <<served, apart>>, edits' \in Int, Counted(apart, asks', edits')
  PROVE  VisitIInv'
<1>1. /\ asks \in [Asks -> AskRows] /\ served \in ServedRows /\ apart \subseteq Gaps
      /\ One(apart, asks, visit, served) /\ AtPeace(apart, asks, visit, served)
  BY VisitParts
<1>2. \A d \in Asks : asks'[d] = IF d = c THEN r ELSE asks[d]
  BY <1>1
<1>3. \A d \in Asks : SettledBy(asks[d], visit, served) => SettledBy(asks[d], visit', served')
  BY DEF SettledBy
<1>4. One(apart', asks', visit', served') /\ AtPeace(apart', asks', visit', served')
  BY <1>1, <1>2, <1>3, Aside
<1> QED BY <1>1, <1>4, VisitMoves

\* Signing out, or a community that is disabled: no call moves.
LEMMA NoCallMoves ==
  ASSUME VisitIInv, UNCHANGED asks, served' \in ServedRows, visit' \in VisitRows,
         edits' \in Int, apart' \subseteq Gaps, "community" \in apart => "community" \in apart',
         "community" \notin apart' =>
           \A d \in Asks : SettledBy(asks[d], visit, served) => SettledBy(asks[d], visit', served'),
         "community" \notin apart' /\ visit'.token /\ visit'.profile # NoProfile =>
           /\ visit.token /\ visit.profile # NoProfile
           /\ visit.shown = served.area /\ Stands(served) =>
                visit'.shown = served'.area /\ Stands(served'),
         Counted(apart', asks', edits')
  PROVE  VisitIInv'
<1>1. /\ asks \in [Asks -> AskRows]
      /\ One(apart, asks, visit, served) /\ AtPeace(apart, asks, visit, served)
  BY VisitParts
<1>2. One(apart', asks', visit', served') /\ AtPeace(apart', asks', visit', served')
  BY <1>1, Aside
<1> QED BY <1>2, VisitParts

\* Every step of the visit keeps its invariant.
LEMMA VisitKeeps == VisitIInv /\ [VisitNext]_visitVars => VisitIInv'
<1> SUFFICES ASSUME VisitIInv, [VisitNext]_visitVars PROVE VisitIInv'
  OBVIOUS
<1>1. /\ served \in ServedRows /\ visit \in VisitRows /\ edits \in Int
      /\ asks \in [Asks -> AskRows] /\ apart \subseteq Gaps
      /\ \A c \in Asks : WholeAsk(asks[c]) /\ asks[c] \in AskRows
      /\ One(apart, asks, visit, served) /\ AtPeace(apart, asks, visit, served)
      /\ Counted(apart, asks, edits)
  BY VisitParts
<1>2. CASE UNCHANGED visitVars
  BY <1>1, <1>2, VisitParts DEF visitVars
<1>3. CASE Disable
  <2>1. PICK a \in served.enabled :
          /\ served' = [served EXCEPT !.enabled = @ \ {a}]
          /\ apart' = apart \cup (IF a \in {served.area, visit.shown} THEN {"community"} ELSE {})
    BY <1>3 DEF Disable
  <2>2. UNCHANGED <<visit, edits, asks>>
    BY <1>3 DEF Disable
  <2>3. /\ served' \in ServedRows /\ served'.area = served.area
        /\ served'.enabled = served.enabled \ {a}
    BY <1>1, <2>1 DEF ServedRows
  <2>4. /\ apart' \subseteq Gaps
        /\ "community" \in apart => "community" \in apart'
        /\ "count" \in apart' <=> "count" \in apart
    BY <1>1, <2>1 DEF Gaps
  <2>5. "community" \notin apart' => (Stands(served) => Stands(served'))
    BY <2>1, <2>3 DEF Stands
  <2>6. "community" \notin apart' =>
          \A d \in Asks : SettledBy(asks[d], visit, served) => SettledBy(asks[d], visit', served')
    BY <2>2, <2>3, <2>5 DEF SettledBy
  <2>7. Counted(apart', asks', edits')
    BY <1>1, <2>2, <2>4 DEF Counted
  <2> QED BY <1>1, <2>1, <2>2, <2>3, <2>4, <2>5, <2>6, <2>7, NoCallMoves
<1>4. CASE Logout
  <2>1. /\ visit' = SignedOut(visit) /\ edits' = 0 /\ UNCHANGED <<served, asks>>
        /\ apart' = apart \cup (IF UnderWay({"edit"}) = {} THEN {} ELSE {"count"})
    BY <1>4 DEF Logout
  <2>2. visit' \in VisitRows /\ ~visit'.token
    BY <1>1, <2>1 DEF SignedOut, VisitRows
  <2>3. Counted(apart', asks', 0)
    BY <2>1, CountResets DEF UnderWay
  <2>4. \A d \in Asks : SettledBy(asks[d], visit, served) => SettledBy(asks[d], visit', served')
    BY <2>1, <2>2 DEF SettledBy
  <2>5. apart' \subseteq Gaps /\ ("community" \in apart => "community" \in apart')
    BY <1>1, <2>1 DEF Gaps
  <2> QED BY <1>1, <2>1, <2>2, <2>3, <2>4, <2>5, NoCallMoves
<1>5. CASE Relaunch
  <2>1. /\ visit' = [visit EXCEPT !.profile = NoProfile, !.restoring = FALSE,
                                  !.loggingIn = FALSE, !.selecting = NoArea]
        /\ edits' = 0 /\ asks' = [c \in Asks |-> NoAsking] /\ apart' = {"community"}
        /\ served' \in [area : {served.area} \cup
                                 {asks[c].area : c \in UnderWay({"select", "sync"})},
                        enabled : {served.enabled}]
    BY <1>5 DEF Relaunch
  <2>2. visit' \in VisitRows /\ apart' \subseteq Gaps
    BY <1>1, <2>1 DEF VisitRows, Places, Gaps
  <2>3. served' \in ServedRows
    BY <1>1, <2>1 DEF ServedRows, AskRows, UnderWay
  <2>4. /\ asks' \in [Asks -> AskRows]
        /\ \A c \in Asks : WholeAsk(asks'[c]) /\ asks'[c].kind = "none"
    BY <2>1, NoAskingIsWhole
  <2>5. Counted(apart', asks', edits')
    BY <2>1, <2>4, CountResets
  <2>6. One(apart', asks', visit', served') /\ AtPeace(apart', asks', visit', served')
    BY <2>1, ApartIsExcepted
  <2> QED BY <2>1, <2>2, <2>3, <2>4, <2>5, <2>6, VisitParts
<1>6. CASE SelectCommunity
  <2>1. PICK a \in Areas :
          IF visit.token
          THEN /\ \E c \in Asks : Asking(c, "select", a)
               /\ visit' = [visit EXCEPT !.selecting = a]
               /\ apart' = IF UnderWay(Settling) = {} THEN apart \ {"community"}
                           ELSE apart \cup {"community"}
          ELSE /\ visit' = [visit EXCEPT !.shown = a]
               /\ apart' = apart \cup {"community"}
               /\ UNCHANGED asks
    BY <1>6 DEF SelectCommunity
  <2>2. a \in Places /\ UNCHANGED <<served, edits>>
    BY <1>6 DEF SelectCommunity, Places
  <2>3. CASE visit.token
    <3>1. PICK c \in Asks : Asking(c, "select", a)
      BY <2>1, <2>3
    <3>2. visit' \in VisitRows /\ visit'.token = visit.token
      BY <1>1, <2>1, <2>2, <2>3 DEF VisitRows
    <3>3. "select" \in Settling \ {"sync"}
      BY DEF Settling
    <3> QED BY <2>1, <2>2, <2>3, <3>1, <3>2, <3>3, AskingBegins
  <2>4. CASE ~visit.token
    <3>1. visit' \in VisitRows /\ UNCHANGED asks /\ apart' = apart \cup {"community"}
      BY <1>1, <2>1, <2>2, <2>4 DEF VisitRows
    <3>2. apart' \subseteq Gaps /\ Counted(apart', asks', edits')
      BY <1>1, <2>2, <3>1 DEF Gaps, Counted
    <3>3. One(apart', asks', visit', served') /\ AtPeace(apart', asks', visit', served')
      BY <3>1, ApartIsExcepted
    <3> QED BY <1>1, <2>2, <3>1, <3>2, <3>3, VisitParts
  <2> QED BY <2>3, <2>4
<1>7. ASSUME NEW c \in Asks, ReadProfile(c) PROVE VisitIInv'
  <2> DEFINE now == IF served.area \in served.enabled THEN served.area ELSE NoArea
             r == [asks[c] EXCEPT !.reply = "ok", !.area = now]
  <2>1. /\ asks[c].kind \in {"restore", "login"} /\ asks[c].reply = "none"
        /\ served' = [served EXCEPT !.area = now]
        /\ asks' = [asks EXCEPT ![c].reply = "ok", ![c].area = now]
        /\ UNCHANGED <<visit, edits, apart>>
    BY <1>7 DEF ReadProfile
  <2>2. now \in Places /\ now \in served.enabled \cup {NoArea}
    BY <1>1 DEF ServedRows, Places
  <2> HIDE DEF now
  <2>3. /\ r \in AskRows /\ WholeAsk(r) /\ r.kind = asks[c].kind /\ r.reply = "ok"
        /\ r.area = now /\ asks' = [asks EXCEPT ![c] = r]
    BY <1>1, <2>1, <2>2 DEF AskRows, WholeAsk
  <2> HIDE DEF r
  <2>4. served' \in ServedRows /\ served'.area = now /\ Stands(served')
    BY <1>1, <2>1, <2>2 DEF ServedRows, Stands
  <2>5. SettledBy(asks[c], visit, served) => SettledBy(r, visit', served')
    BY <2>1, <2>3, <2>4 DEF SettledBy
  <2>6. asks[c].kind \in Settling /\ asks[c].kind # "edit"
    BY <2>1 DEF Settling
  <2>7. One(apart', asks', visit', served') /\ AtPeace(apart', asks', visit', served')
    BY <1>1, <2>1, <2>3, <2>5, <2>6, SettlingGoesOn
  <2> QED BY <1>1, <2>1, <2>3, <2>4, <2>6, <2>7, VisitMovesUncounted
<1>8. ASSUME NEW c \in Asks, UpdateCommunity(c) PROVE VisitIInv'
  <2>1. /\ asks[c].kind \in {"select", "sync"} /\ asks[c].reply = "none"
        /\ UNCHANGED <<visit, edits, apart>>
    BY <1>8 DEF UpdateCommunity
  <2>2. asks[c].kind \in Settling /\ asks[c].kind # "edit" /\ asks[c].area \in Areas
    BY <1>1, <2>1 DEF Settling, WholeAsk
  <2> DEFINE r(reply) == [asks[c] EXCEPT !.reply = reply]
  <2>3. ASSUME NEW reply \in {"ok", "gone"}
        PROVE  /\ r(reply) \in AskRows /\ WholeAsk(r(reply)) /\ r(reply).kind = asks[c].kind
               /\ r(reply).area = asks[c].area /\ r(reply).reply = reply
    BY <1>1, <2>1 DEF AskRows, WholeAsk
  <2>4. \/ /\ asks[c].area \in served.enabled
           /\ served' = [served EXCEPT !.area = asks[c].area]
           /\ asks' = [asks EXCEPT ![c] = r("ok")]
        \/ asks' = [asks EXCEPT ![c] = r("gone")] /\ UNCHANGED served
    BY <1>8 DEF UpdateCommunity
  <2> HIDE DEF r
  <2>5. CASE /\ asks[c].area \in served.enabled
             /\ served' = [served EXCEPT !.area = asks[c].area]
             /\ asks' = [asks EXCEPT ![c] = r("ok")]
    <3>1. served' \in ServedRows /\ served'.area = asks[c].area /\ Stands(served')
      BY <1>1, <2>2, <2>5 DEF ServedRows, Stands, Places
    <3>2. SettledBy(r("ok"), visit', served')
      BY <2>1, <2>3, <3>1 DEF SettledBy
    <3>3. One(apart', asks', visit', served') /\ AtPeace(apart', asks', visit', served')
      BY <1>1, <2>1, <2>2, <2>3, <2>5, <3>2, SettlingGoesOn
    <3> QED BY <1>1, <2>1, <2>2, <2>3, <2>5, <3>1, <3>3, VisitMovesUncounted
  <2>6. CASE asks' = [asks EXCEPT ![c] = r("gone")] /\ UNCHANGED served
    <3>1. SettledBy(asks[c], visit, served) => SettledBy(r("gone"), visit', served')
      BY <2>1, <2>3, <2>6 DEF SettledBy
    <3>2. One(apart', asks', visit', served') /\ AtPeace(apart', asks', visit', served')
      BY <1>1, <2>1, <2>2, <2>3, <2>6, <3>1, SettlingGoesOn
    <3> QED BY <1>1, <2>1, <2>2, <2>3, <2>6, <3>2, VisitMovesUncounted
  <2> QED BY <2>4, <2>5, <2>6
\* An answer to a call, which stays under way.
<1>9. ASSUME NEW c \in Asks, NEW reply \in {"ok", "failed"},
             asks' = [asks EXCEPT ![c].reply = reply],
             UNCHANGED <<served, visit, edits, apart>>,
             asks[c].kind \in Settling => reply = "failed"
      PROVE  VisitIInv'
  <2> DEFINE r == [asks[c] EXCEPT !.reply = reply]
  <2>1. /\ r \in AskRows /\ WholeAsk(r) /\ r.kind = asks[c].kind /\ r.reply = reply
        /\ asks' = [asks EXCEPT ![c] = r]
    BY <1>1, <1>9 DEF AskRows, WholeAsk
  <2> HIDE DEF r
  <2>2. CASE asks[c].kind \in Settling
    <3>1. SettledBy(asks[c], visit, served) => SettledBy(r, visit', served')
      BY <1>9, <2>1, <2>2 DEF SettledBy
    <3>2. One(apart', asks', visit', served') /\ AtPeace(apart', asks', visit', served')
      BY <1>1, <1>9, <2>1, <2>2, <3>1, SettlingGoesOn
    <3> QED BY <1>1, <1>9, <2>1, <3>2, VisitMovesUncounted
  <2>3. CASE asks[c].kind \notin Settling
    <3>1. \A d \in Asks : asks'[d] = IF d = c THEN r ELSE asks[d]
      BY <1>1, <2>1
    <3>2. Counted(apart, asks', edits)
      BY <1>1, <2>1, <3>1, CountStays
    <3> QED BY <1>1, <1>9, <2>1, <2>3, <3>2, AsideMoves
  <2> QED BY <2>2, <2>3
<1>10. ASSUME NEW c \in Asks, ServeOther(c) PROVE VisitIInv'
  BY <1>9, <1>10 DEF ServeOther, Settling
<1>11. ASSUME NEW c \in Asks, Fail(c) PROVE VisitIInv'
  BY <1>9, <1>11 DEF Fail
<1>12. ASSUME NEW c \in Asks, RestoreSession(c) PROVE VisitIInv'
  <2>1. visit' \in VisitRows /\ visit'.token = visit.token
    BY <1>1, <1>12 DEF RestoreSession, VisitRows
  <2>2. "restore" \in Settling \ {"sync"} /\ NoArea \in Places
    BY DEF Settling, Places
  <2> QED BY <1>12, <2>1, <2>2, AskingBegins DEF RestoreSession
<1>13. ASSUME NEW c \in Asks, LoginWithWechat(c) PROVE VisitIInv'
  <2>1. visit' \in VisitRows /\ visit'.token = visit.token
    BY <1>1, <1>13 DEF LoginWithWechat, VisitRows
  <2>2. "login" \in Settling \ {"sync"} /\ NoArea \in Places
    BY DEF Settling, Places
  <2> QED BY <1>13, <2>1, <2>2, AskingBegins DEF LoginWithWechat
<1>14. ASSUME NEW c \in Asks, Restored(c) PROVE VisitIInv'
  <2>1. CASE Kept(c)
    BY <1>14, <2>1, SyncAfterLoginKeeps DEF Restored, Answered, Kept
  <2>2. CASE ~Kept(c)
    <3>1. /\ visit' = [SignedOut(visit) EXCEPT !.restoring = FALSE]
          /\ edits' = 0 /\ asks' = [asks EXCEPT ![c] = NoAsking] /\ UNCHANGED served
          /\ apart' = apart \cup (IF UnderWay({"edit"}) = {} THEN {} ELSE {"count"})
          /\ asks[c].kind = "restore"
      BY <1>14, <2>2 DEF Restored, Answered, Over
    <3>2. visit' \in VisitRows /\ ~visit'.token
      BY <1>1, <3>1 DEF SignedOut, VisitRows
    <3>3. \A d \in Asks : asks'[d] = IF d = c THEN NoAsking ELSE asks[d]
      BY <1>1, <3>1
    <3>4. Counted(apart', asks', 0)
      <4>1. "count" \notin apart' => \A d \in Asks : asks[d].kind # "edit"
        BY <3>1 DEF UnderWay
      <4>2. "count" \notin apart' => \A d \in Asks : asks'[d].kind # "edit"
        BY <3>3, <4>1, NoAskingIsWhole
      <4> QED BY <4>2, CountResets
    <3>5. apart' \subseteq Gaps /\ ("community" \in apart => "community" \in apart')
      BY <1>1, <3>1 DEF Gaps
    <3>6. asks[c].kind \in Settling
      BY <3>1 DEF Settling
    <3>7. One(apart', asks', visit', served') /\ AtPeace(apart', asks', visit', served')
      BY <1>1, <3>1, <3>2, <3>5, <3>6, SettlingEnds
    <3>8. edits' \in Int /\ Counted(apart', asks', edits') /\ served' \in ServedRows
      BY <1>1, <3>1, <3>4
    <3> QED BY <3>1, <3>2, <3>5, <3>7, <3>8, NoAskingIsWhole, VisitMoves
  <2> QED BY <2>1, <2>2
<1>15. ASSUME NEW c \in Asks, LoggedIn(c) PROVE VisitIInv'
  <2>1. CASE Kept(c)
    BY <1>15, <2>1, SyncAfterLoginKeeps DEF LoggedIn, Answered, Kept
  <2>2. CASE ~Kept(c)
    <3>1. /\ visit' = [visit EXCEPT !.loggingIn = FALSE]
          /\ asks' = [asks EXCEPT ![c] = NoAsking] /\ UNCHANGED <<served, edits, apart>>
          /\ asks[c].kind = "login"
      BY <1>15, <2>2 DEF LoggedIn, Answered, Over
    <3>2. visit' \in VisitRows /\ visit'.token = visit.token
      BY <1>1, <3>1 DEF VisitRows
    <3>3. asks[c].kind \in Settling /\ (SettledBy(asks[c], visit, served) => ~visit'.token)
      BY <3>1, <3>2 DEF Settling, SettledBy
    <3>4. One(apart', asks', visit', served') /\ AtPeace(apart', asks', visit', served')
      BY <1>1, <3>1, <3>2, <3>3, SettlingEnds
    <3> QED BY <1>1, <3>1, <3>2, <3>4, NoAskingIsWhole, VisitMovesUncounted
  <2> QED BY <2>1, <2>2
<1>16. ASSUME NEW c \in Asks, Synced(c) PROVE VisitIInv'
  <2> DEFINE r == asks[c]
             done == [visit EXCEPT ![r.from] = FALSE, !.selecting = NoArea]
  <2>1. /\ r.kind = "sync" /\ r.reply \in {"ok", "gone", "failed"} /\ r.area \in Areas
        /\ r.from \in {"restoring", "loggingIn"}
    BY <1>1, <1>16 DEF Synced, Answered, WholeAsk, AskRows
  <2>2. done \in VisitRows /\ done.shown = visit.shown
    BY <1>1, <2>1 DEF VisitRows, Places
  <2>3. /\ visit' = CASE r.reply = "ok"     -> [done EXCEPT !.shown = r.area,
                                                            !.profile = r.area]
                      [] r.reply = "gone"   -> [done EXCEPT !.shown = NoArea]
                      [] r.reply = "failed" -> done
        /\ apart' = IF r.reply = "failed" THEN apart \cup {"community"} ELSE apart
        /\ asks' = [asks EXCEPT ![c] = NoAsking] /\ UNCHANGED <<served, edits>>
    BY <1>16 DEF Synced, Over
  <2> HIDE DEF done, r
  <2>4. /\ visit' \in VisitRows
        /\ r.reply = "ok" => visit'.shown = r.area
        /\ r.reply = "gone" => visit'.shown = NoArea
    BY <2>1, <2>2, <2>3 DEF VisitRows, Places
  <2>5. /\ apart' \subseteq Gaps
        /\ "community" \in apart => "community" \in apart'
        /\ "count" \in apart => "count" \in apart'
        /\ r.reply = "failed" => "community" \in apart'
    BY <1>1, <2>3 DEF Gaps
  <2>6. /\ r.kind \in Settling /\ r.kind # "edit"
        /\ SettledBy(r, visit, served) /\ r.reply # "failed" =>
             visit'.shown = served.area /\ Stands(served)
    BY <2>1, <2>4 DEF Settling, SettledBy, Stands
  <2>7. One(apart', asks', visit', served') /\ AtPeace(apart', asks', visit', served')
    BY <1>1, <2>3, <2>5, <2>6, SettlingEnds DEF r
  <2> QED BY <1>1, <2>3, <2>4, <2>5, <2>6, <2>7, NoAskingIsWhole, VisitMovesUncounted DEF r
<1>17. ASSUME NEW c \in Asks, Selected(c) PROVE VisitIInv'
  <2> DEFINE r == asks[c]
  <2>1. r.kind = "select" /\ r.area \in Areas /\ (Kept(c) <=> r.reply = "ok")
    BY <1>1, <1>17 DEF Selected, Answered, WholeAsk, Kept
  <2>2. /\ visit' = IF Kept(c) THEN [visit EXCEPT !.selecting = NoArea, !.shown = r.area,
                                                  !.profile = r.area]
                    ELSE [visit EXCEPT !.selecting = NoArea]
        /\ apart' = IF Kept(c) THEN apart ELSE apart \cup {"community"}
        /\ asks' = [asks EXCEPT ![c] = NoAsking] /\ UNCHANGED <<served, edits>>
    BY <1>1, <1>17 DEF Selected, Over, VisitRows
  <2> HIDE DEF r
  <2>3. visit' \in VisitRows /\ (Kept(c) => visit'.shown = r.area)
    BY <1>1, <2>1, <2>2 DEF VisitRows, Places
  <2>4. /\ apart' \subseteq Gaps
        /\ "community" \in apart => "community" \in apart'
        /\ "count" \in apart => "count" \in apart'
        /\ ~Kept(c) => "community" \in apart'
    BY <1>1, <2>2 DEF Gaps
  <2>5. /\ r.kind \in Settling /\ r.kind # "edit"
        /\ SettledBy(r, visit, served) /\ Kept(c) => visit'.shown = served.area /\ Stands(served)
    BY <2>1, <2>3 DEF Settling, SettledBy
  <2>6. One(apart', asks', visit', served') /\ AtPeace(apart', asks', visit', served')
    BY <1>1, <2>2, <2>4, <2>5, SettlingEnds DEF r
  <2> QED BY <1>1, <2>2, <2>3, <2>4, <2>5, <2>6, NoAskingIsWhole, VisitMovesUncounted DEF r
\* A call that is not about the community begins.
<1>18. ASSUME NEW c \in Asks, NEW k \in {"communities", "edit"}, Asking(c, k, NoArea)
       PROVE  LET r == [NoAsking EXCEPT !.kind = k, !.area = NoArea] IN
              /\ r \in AskRows /\ WholeAsk(r) /\ r.kind = k /\ r.kind \notin Settling
              /\ asks' = [asks EXCEPT ![c] = r] /\ asks[c].kind = "none"
              /\ asks[c].kind \notin Settling
  BY <1>18 DEF Asking, NoAsking, AskRows, WholeAsk, AskingKinds, Settling, Places
<1>19. ASSUME NEW c \in Asks, LoadCommunities(c) PROVE VisitIInv'
  <2> DEFINE r == [NoAsking EXCEPT !.kind = "communities", !.area = NoArea]
  <2>1. /\ r \in AskRows /\ WholeAsk(r) /\ r.kind = "communities" /\ r.kind \notin Settling
        /\ asks' = [asks EXCEPT ![c] = r] /\ asks[c].kind = "none"
        /\ asks[c].kind \notin Settling
    BY <1>18, <1>19 DEF LoadCommunities
  <2> HIDE DEF r
  <2>2. \A d \in Asks : asks'[d] = IF d = c THEN r ELSE asks[d]
    BY <1>1, <2>1
  <2>3. Counted(apart, asks', edits)
    BY <1>1, <2>1, <2>2, CountStays
  <2> QED BY <1>1, <1>19, <2>1, <2>3, AsideMoves DEF LoadCommunities
<1>20. ASSUME NEW c \in Asks, CommunitiesLoaded(c) PROVE VisitIInv'
  <2>1. PICK listed \in SUBSET Areas :
          /\ served.enabled \subseteq listed
          /\ visit' = IF Kept(c) /\ visit.shown \notin listed
                      THEN [visit EXCEPT !.shown = NoArea] ELSE visit
    BY <1>20 DEF CommunitiesLoaded
  <2>2. /\ visit' \in VisitRows /\ visit'.token = visit.token
        /\ visit'.profile = visit.profile
        /\ visit.shown = served.area /\ Stands(served) => visit'.shown = served.area
    BY <1>1, <2>1 DEF VisitRows, Places, Stands
  <2>3. /\ asks' = [asks EXCEPT ![c] = NoAsking] /\ UNCHANGED <<served, edits, apart>>
        /\ asks[c].kind = "communities"
    BY <1>20 DEF CommunitiesLoaded, Answered, Over
  <2>4. \A d \in Asks : asks'[d] = IF d = c THEN NoAsking ELSE asks[d]
    BY <1>1, <2>3
  <2>5. Counted(apart, asks', edits)
    BY <1>1, <2>3, <2>4, CountStays, NoAskingIsWhole
  <2>6. asks[c].kind \notin Settling /\ NoAsking.kind \notin Settling
    BY <2>3, NoAskingIsWhole DEF Settling
  <2> QED BY <1>1, <2>2, <2>3, <2>5, <2>6, NoAskingIsWhole, AsideMoves
<1>21. ASSUME NEW c \in Asks, EditCart(c) PROVE VisitIInv'
  <2> DEFINE r == [NoAsking EXCEPT !.kind = "edit", !.area = NoArea]
  <2>1. /\ r \in AskRows /\ WholeAsk(r) /\ r.kind = "edit" /\ r.kind \notin Settling
        /\ asks' = [asks EXCEPT ![c] = r] /\ asks[c].kind = "none"
        /\ asks[c].kind \notin Settling
    BY <1>18, <1>21 DEF EditCart
  <2> HIDE DEF r
  <2>2. edits' = edits + 1 /\ UNCHANGED <<served, visit, apart>>
    BY <1>21 DEF EditCart
  <2>3. Counted(apart, asks', edits')
    BY <1>1, <2>1, <2>2, CountMoves
  <2>4. edits' \in Int
    BY <1>1, <2>2
  <2> QED BY <1>1, <2>1, <2>2, <2>3, <2>4, AsideMoves
<1>22. ASSUME NEW c \in Asks, CartEdited(c) PROVE VisitIInv'
  <2>1. /\ asks' = [asks EXCEPT ![c] = NoAsking] /\ UNCHANGED <<served, visit, apart>>
        /\ asks[c].kind = "edit" /\ edits' = edits - 1
    BY <1>22 DEF CartEdited, Answered, Over
  <2>2. Counted(apart, asks', edits')
    BY <1>1, <2>1, CountMoves, NoAskingIsWhole
  <2>3. edits' \in Int
    BY <1>1, <2>1
  <2>4. asks[c].kind \notin Settling /\ NoAsking.kind \notin Settling
    BY <2>1, NoAskingIsWhole DEF Settling
  <2> QED BY <1>1, <2>1, <2>2, <2>3, <2>4, NoAskingIsWhole, AsideMoves
<1> QED
  BY <1>2, <1>3, <1>4, <1>5, <1>6, <1>7, <1>8, <1>10, <1>11, <1>12, <1>13, <1>14, <1>15, <1>16,
     <1>17, <1>19, <1>20, <1>21, <1>22 DEF VisitNext

\* The visit is always in order.
LEMMA VisitInvariance == VisitSpec => []VisitIInv
<1>1. VisitIInv /\ [VisitNext]_visitVars => VisitIInv'
  BY VisitKeeps
<1> QED BY <1>1, VisitStart, PTL DEF VisitSpec

\* The cart's buttons are never left off when no change of it is under way (cart.ts).  They
\* are off while one is unless the count was reset under it; and between calls a signed-in
\* resident is shown the community the server holds, unless a selection failed or overlapped,
\* or the community was chosen while signed out or was disabled (user.ts, community.ts).
THEOREM ShownIsWhatIsHeld == VisitSpec => []VisitAgrees
<1>1. VisitIInv => VisitAgrees
  BY DEF VisitIInv
<1> QED BY <1>1, VisitInvariance, PTL

-----------------------------------------------------------------------------
(* The home page, a store's and a product's *)

LoadRows == [kind : Calls, key : Keys, latest : BOOLEAN]
Routes == [store : Offers \cup {NoOffer}, product : Offers \cup {NoOffer},
           at : Nearby \cup {Nowhere}, confirm : BOOLEAN]

\* StorePagesIInv, part by part: what a part shows, and what its latest call asks for.
Latest(q, kind) == load[q].kind = kind /\ load[q].latest
StoresRight ==
  LET key == Key(here, NoOffer, AllShelves) IN
  /\ \A q \in Loads : Latest(q, "stores") => load[q].key = key
  /\ (\E q \in Loads : Latest(q, "stores")) \/ shown["stores"] \in {key, Failed}
StoreRight ==
  LET key == Key(route.at, route.store, AllShelves) IN
  route.store # NoOffer =>
    /\ lent \/ shown["store"] \in {key, Nothing, Failed}
    /\ lent \/ \A q \in Loads : Latest(q, "store") => load[q].key = key
    /\ (\E q \in Loads : Latest(q, "store")) \/ shown["store"] # Nothing
CatalogRight ==
  LET key == Key(route.at, route.store, selectedCategory) IN
  route.store # NoOffer =>
    /\ \A q \in Loads : Latest(q, "catalog") => load[q].key = key
    /\ (\E q \in Loads : Latest(q, "catalog")) \/ shown["catalog"] \in {key, Failed}
ProductRight ==
  LET key == Key(route.at, route.product, AllShelves) IN
  route.product # NoOffer =>
    /\ shown["product"] \in {key, Nothing, Failed}
    /\ \A q \in Loads : Latest(q, "product") => load[q].key = key
    /\ (\E q \in Loads : Latest(q, "product")) \/ shown["product"] # Nothing
PageTypes ==
  /\ here \in Nearby \cup {Nowhere} /\ route \in Routes
  /\ selectedCategory \in Shelving \cup {AllShelves}
  /\ shown \in [Parts -> Keys \cup {Nothing, Failed}]
  /\ load \in [Loads -> LoadRows] /\ lent \in BOOLEAN
  /\ route.store = NoOffer => route.product = NoOffer

LEMMA StorePagesParts ==
  StorePagesIInv <=> PageTypes /\ StoresRight /\ StoreRight /\ CatalogRight /\ ProductRight
<1>1. LatestIsMeant <=>
        /\ \A q \in Loads : Latest(q, "stores") => load[q].key = Key(here, NoOffer, AllShelves)
        /\ route.store # NoOffer /\ ~lent => \A q \in Loads :
             Latest(q, "store") => load[q].key = Key(route.at, route.store, AllShelves)
        /\ route.store # NoOffer => \A q \in Loads :
             Latest(q, "catalog") => load[q].key = Key(route.at, route.store, selectedCategory)
        /\ route.product # NoOffer => \A q \in Loads :
             Latest(q, "product") => load[q].key = Key(route.at, route.product, AllShelves)
  <2> DEFINE claim(q) == load[q].kind \in Parts /\ load[q].latest /\ IsOpen(load[q].kind) =>
                           load[q].key = Meant(load[q].kind)
  <2>1. ASSUME NEW q \in Loads
        PROVE  claim(q) <=>
          /\ Latest(q, "stores") => load[q].key = Key(here, NoOffer, AllShelves)
          /\ route.store # NoOffer /\ ~lent /\ Latest(q, "store") =>
               load[q].key = Key(route.at, route.store, AllShelves)
          /\ route.store # NoOffer /\ Latest(q, "catalog") =>
               load[q].key = Key(route.at, route.store, selectedCategory)
          /\ route.product # NoOffer /\ Latest(q, "product") =>
               load[q].key = Key(route.at, route.product, AllShelves)
    BY DEF Latest, IsOpen, Meant, Parts
  <2> HIDE DEF claim
  <2>2. LatestIsMeant <=> \A q \in Loads : claim(q)
    BY DEF LatestIsMeant, claim
  <2> QED BY <2>1, <2>2
<1>2. StorePagesTypeOK /\ (route.store = NoOffer => route.product = NoOffer) <=> PageTypes
  BY DEF StorePagesTypeOK, PageTypes, LoadRows, Routes
<1> QED
  BY <1>1, <1>2
     DEF StorePagesIInv, ShownIsAsked, Loading, Latest, StoresRight, StoreRight, CatalogRight,
         ProductRight

\* The same after a step.
LEMMA PrimedParts ==
  StorePagesIInv' <=> PageTypes' /\ StoresRight' /\ StoreRight' /\ CatalogRight' /\ ProductRight'
BY StorePagesParts, PTL

\* What may be asked for.
LEMMA KeysAreKeys ==
  ASSUME NEW at \in Nearby \cup {Nowhere}, NEW of \in Offers \cup {NoOffer},
         NEW category \in Shelving \cup {AllShelves}
  PROVE  Key(at, of, category) \in Keys
BY DEF Key, Keys

LEMMA NoLoadIsARow == NoLoad \in LoadRows /\ NoLoad.kind \notin Parts
BY DEF NoLoad, LoadRows, Calls, Keys, Parts

\* Starting a call takes the claim from those of its kind.
LEMMA Starting ==
  ASSUME NEW calls \in [Loads -> LoadRows], NEW q \in Loads, NEW kind \in Calls,
         NEW key \in Keys
  PROVE  LET now == Start(calls, q, kind, key) IN
         /\ now \in [Loads -> LoadRows]
         /\ now[q] = [kind |-> kind, key |-> key, latest |-> TRUE]
         /\ \A p \in Loads \ {q} :
              /\ now[p].kind = calls[p].kind /\ now[p].key = calls[p].key
              /\ now[p].latest <=> calls[p].latest /\ calls[p].kind # kind
<1> DEFINE row(p) == IF p = q THEN [kind |-> kind, key |-> key, latest |-> TRUE]
                     ELSE [calls[p] EXCEPT !.latest = @ /\ calls[p].kind # kind]
<1>1. \A p \in Loads : row(p) \in LoadRows
  BY DEF LoadRows
<1>2. Start(calls, q, kind, key) = [p \in Loads |-> row(p)]
  BY DEF Start
<1>3. \A p \in Loads \ {q} :
        /\ row(p).kind = calls[p].kind /\ row(p).key = calls[p].key
        /\ row(p).latest <=> calls[p].latest /\ calls[p].kind # kind
  BY DEF LoadRows
<1> HIDE DEF row
<1>4. Start(calls, q, kind, key) \in [Loads -> LoadRows]
  BY <1>1, <1>2
<1>5. Start(calls, q, kind, key)[q] = [kind |-> kind, key |-> key, latest |-> TRUE]
  BY <1>2 DEF row
<1> QED BY <1>2, <1>3, <1>4, <1>5

\* Starting a call: it is the latest of its kind, and those of other kinds go on.
LEMMA AskForMoves ==
  ASSUME load \in [Loads -> LoadRows], NEW kind \in Calls, kind # "none",
         NEW key \in Keys, AskFor(kind, key)
  PROVE  /\ load' \in [Loads -> LoadRows]
         /\ \E q \in Loads : Latest(q, kind)'
         /\ \A q \in Loads : Latest(q, kind)' => load'[q].key = key
         /\ \A k \in Parts \ {kind}, q \in Loads :
              /\ Latest(q, k)' <=> Latest(q, k)
              /\ Latest(q, k) => load'[q].key = load[q].key
<1>1. PICK q \in Loads : load[q].kind = "none" /\ load' = Start(load, q, kind, key)
  BY DEF AskFor
<1>2. /\ load' \in [Loads -> LoadRows]
      /\ load'[q] = [kind |-> kind, key |-> key, latest |-> TRUE]
      /\ \A p \in Loads \ {q} :
           /\ load'[p].kind = load[p].kind /\ load'[p].key = load[p].key
           /\ load'[p].latest <=> load[p].latest /\ load[p].kind # kind
  BY <1>1, Starting
<1>3. ASSUME NEW k \in Parts \ {kind}, NEW p \in Loads
      PROVE  (Latest(p, k)' <=> Latest(p, k)) /\ (Latest(p, k) => load'[p].key = load[p].key)
  BY <1>1, <1>2, <1>3 DEF Latest, Parts
<1>4. \A p \in Loads : Latest(p, kind)' => load'[p].key = key
  BY <1>2 DEF Latest
<1>5. Latest(q, kind)'
  BY <1>2 DEF Latest
<1> QED BY <1>2, <1>3, <1>4, <1>5

\* Ending one.
LEMMA EndMoves ==
  ASSUME load \in [Loads -> LoadRows], NEW q \in Loads, load' = [load EXCEPT ![q] = NoLoad]
  PROVE  /\ load' \in [Loads -> LoadRows]
         /\ \A k \in Parts, p \in Loads :
              /\ Latest(p, k)' <=> Latest(p, k) /\ p # q
              /\ p # q => load'[p].key = load[p].key
BY NoLoadIsARow DEF Latest

\* The program starts with the stores of the current community asked for.
LEMMA StorePagesStart == StorePagesInit => StorePagesIInv
<1> SUFFICES ASSUME StorePagesInit PROVE StorePagesIInv
  OBVIOUS
<1>1. PICK q \in Loads :
        load = [p \in Loads |-> IF p = q THEN [kind |-> "stores", latest |-> TRUE,
                                               key |-> Key(here, NoOffer, AllShelves)]
                                ELSE NoLoad]
  BY DEF StorePagesInit
<1>2. Key(here, NoOffer, AllShelves) \in Keys
  BY KeysAreKeys DEF StorePagesInit
<1>3. [kind |-> "stores", latest |-> TRUE, key |-> Key(here, NoOffer, AllShelves)] \in LoadRows
  BY <1>2 DEF LoadRows, Calls, Parts
<1>4. load \in [Loads -> LoadRows]
  BY <1>1, <1>3, NoLoadIsARow
<1>5. /\ \A p \in Loads : Latest(p, "stores") => load[p].key = Key(here, NoOffer, AllShelves)
      /\ \E p \in Loads : Latest(p, "stores")
  BY <1>1, NoLoadIsARow DEF Latest, Parts
<1>6. PageTypes
  BY <1>4 DEF StorePagesInit, Home, Routes, PageTypes
<1> QED
  BY <1>5, <1>6, StorePagesParts
     DEF StorePagesInit, Home, StoresRight, StoreRight, CatalogRight, ProductRight

\* What an answer leaves alone: no part changes but by the answer to its latest call, and
\* the parts whose latest call has ended show what it brought.
LEMMA StorePagesKeep == StorePagesIInv /\ [StorePagesNext]_storeVars => StorePagesIInv'
<1> SUFFICES ASSUME StorePagesIInv, [StorePagesNext]_storeVars PROVE StorePagesIInv'
  OBVIOUS
<1>1. PageTypes /\ StoresRight /\ StoreRight /\ CatalogRight /\ ProductRight
  BY StorePagesParts
<1>2. /\ here \in Nearby \cup {Nowhere} /\ route \in Routes
      /\ selectedCategory \in Shelving \cup {AllShelves}
      /\ shown \in [Parts -> Keys \cup {Nothing, Failed}]
      /\ load \in [Loads -> LoadRows] /\ lent \in BOOLEAN
      /\ route.store = NoOffer => route.product = NoOffer
  BY <1>1 DEF PageTypes
<1>3. /\ "stores" \in Parts /\ "store" \in Parts /\ "catalog" \in Parts /\ "product" \in Parts
      /\ "stores" \in Calls /\ "store" \in Calls /\ "catalog" \in Calls /\ "product" \in Calls
      /\ "preview" \in Calls /\ "preview" \notin Parts
  BY DEF Parts, Calls
<1>4. /\ Key(here, NoOffer, AllShelves) \in Keys
      /\ Key(Nowhere, NoOffer, AllShelves) \in Keys
      /\ Key(route.at, route.store, selectedCategory) \in Keys
      /\ Key(route.at, route.store, AllShelves) \in Keys
      /\ Key(route.at, route.product, AllShelves) \in Keys
  BY <1>2, KeysAreKeys DEF Routes
<1>5. CASE UNCHANGED storeVars
  BY <1>1, <1>5, PrimedParts
     DEF storeVars, PageTypes, Latest, StoresRight, StoreRight, CatalogRight, ProductRight
<1>6. CASE CommunityChanges
  <2>1. Key(here', NoOffer, AllShelves) \in Keys /\ here' \in Nearby \cup {Nowhere}
    BY <1>6, KeysAreKeys DEF CommunityChanges
  <2>2. /\ AskFor("stores", Key(here', NoOffer, AllShelves))
        /\ UNCHANGED <<route, selectedCategory, shown, lent>>
    BY <1>6 DEF CommunityChanges
  <2>3. PageTypes'
    BY <1>2, <1>3, <2>1, <2>2, AskForMoves DEF PageTypes
  <2>4. StoresRight'
    BY <1>2, <1>3, <2>1, <2>2, AskForMoves DEF StoresRight
  <2>5. StoreRight' /\ CatalogRight' /\ ProductRight'
    BY <1>1, <1>2, <1>3, <2>1, <2>2, AskForMoves DEF StoreRight, CatalogRight, ProductRight
  <2> QED BY <2>3, <2>4, <2>5, PrimedParts
<1>. Home \in Routes /\ Home.store = NoOffer /\ Home.product = NoOffer
  BY DEF Home, Routes
<1>7. CASE SearchStores \/ GoHome
  <2>1. /\ AskFor("stores", Key(here, NoOffer, AllShelves))
        /\ UNCHANGED <<here, selectedCategory, shown, lent>>
        /\ route' = route \/ route' = Home
    BY <1>7 DEF SearchStores, GoHome
  <2>2. PageTypes'
    BY <1>2, <1>3, <1>4, <2>1, AskForMoves DEF PageTypes
  <2>3. StoresRight'
    BY <1>2, <1>3, <1>4, <2>1, AskForMoves DEF StoresRight
  <2>4. StoreRight' /\ CatalogRight' /\ ProductRight'
    BY <1>1, <1>2, <1>3, <1>4, <2>1, AskForMoves
       DEF StoreRight, CatalogRight, ProductRight, Home
  <2> QED BY <2>2, <2>3, <2>4, PrimedParts
<1>8. CASE OpenStorePage
  <2>1. PICK s \in Offers, q \in Loads, r \in Loads :
          LET key == Key(here, s, AllShelves) IN
          /\ q # r /\ load[q].kind = "none" /\ load[r].kind = "none"
          /\ load' = Start(Start(load, q, "store", key), r, "catalog", key)
          /\ route' = [route EXCEPT !.store = s, !.at = here]
    BY <1>8 DEF OpenStorePage
  <2>2. /\ selectedCategory' = AllShelves /\ lent' = FALSE /\ here' = here
        /\ shown' = [shown EXCEPT !["store"] = Nothing]
        /\ route.store = NoOffer
    BY <1>8 DEF OpenStorePage, StoresAreShown, AtHome
  <2> DEFINE key == Key(here, s, AllShelves)
             mid == Start(load, q, "store", key)
  <2>3. key \in Keys
    BY <1>2, KeysAreKeys
  <2>4. /\ mid \in [Loads -> LoadRows]
        /\ mid[q] = [kind |-> "store", key |-> key, latest |-> TRUE]
        /\ \A p \in Loads \ {q} :
             /\ mid[p].kind = load[p].kind /\ mid[p].key = load[p].key
             /\ mid[p].latest <=> load[p].latest /\ load[p].kind # "store"
    BY <1>2, <1>3, <2>3, Starting
  <2> HIDE DEF mid
  <2>5. /\ load' \in [Loads -> LoadRows]
        /\ load'[r] = [kind |-> "catalog", key |-> key, latest |-> TRUE]
        /\ \A p \in Loads \ {r} :
             /\ load'[p].kind = mid[p].kind /\ load'[p].key = mid[p].key
             /\ load'[p].latest <=> mid[p].latest /\ mid[p].kind # "catalog"
    BY <1>3, <2>1, <2>3, <2>4, Starting DEF mid
  <2> HIDE DEF key
  <2>6. /\ Latest(q, "store")' /\ Latest(r, "catalog")'
        /\ \A p \in Loads : Latest(p, "store")' \/ Latest(p, "catalog")' => load'[p].key = key
        /\ \A p \in Loads : Latest(p, "stores")' <=> Latest(p, "stores")
        /\ \A p \in Loads : Latest(p, "stores") => load'[p].key = load[p].key
    BY <2>1, <2>4, <2>5 DEF Latest
  <2>7. PageTypes'
    BY <1>2, <1>3, <2>1, <2>2, <2>5 DEF PageTypes, Routes
  <2>8. StoresRight'
    BY <1>1, <1>2, <1>3, <2>2, <2>6 DEF StoresRight
  <2>9. key = Key(route'.at, route'.store, AllShelves)
    BY <1>2, <2>1 DEF key, Routes
  <2>10. StoreRight' /\ CatalogRight'
    BY <1>2, <1>3, <2>2, <2>6, <2>9 DEF StoreRight, CatalogRight
  <2>11. ProductRight'
    BY <1>2, <2>1, <2>2 DEF ProductRight, Routes
  <2> QED BY <2>7, <2>8, <2>10, <2>11, PrimedParts
<1>9. CASE RetryStore
  <2>1. /\ AskFor("store", Key(route.at, route.store, AllShelves))
        /\ shown' = [shown EXCEPT !["store"] = Nothing] /\ lent' = FALSE
        /\ UNCHANGED <<here, route, selectedCategory>>
    BY <1>9 DEF RetryStore
  <2>2. PageTypes'
    BY <1>2, <1>3, <1>4, <2>1, AskForMoves DEF PageTypes
  <2>3. StoreRight'
    BY <1>2, <1>3, <1>4, <2>1, AskForMoves DEF StoreRight
  <2>4. StoresRight' /\ CatalogRight' /\ ProductRight'
    BY <1>1, <1>2, <1>3, <1>4, <2>1, AskForMoves DEF StoresRight, CatalogRight, ProductRight
  <2> QED BY <2>2, <2>3, <2>4, PrimedParts
<1>10. CASE RetryCatalog \/ SelectCategory
  <2>1. /\ AskFor("catalog", Key(route.at, route.store, selectedCategory'))
        /\ selectedCategory' \in Shelving \cup {AllShelves}
        /\ UNCHANGED <<here, route, shown, lent>>
    BY <1>2, <1>10 DEF RetryCatalog, SelectCategory
  <2>2. Key(route.at, route.store, selectedCategory') \in Keys
    BY <1>2, <2>1, KeysAreKeys DEF Routes
  <2>3. PageTypes'
    BY <1>2, <1>3, <2>1, <2>2, AskForMoves DEF PageTypes
  <2>4. CatalogRight'
    BY <1>2, <1>3, <2>1, <2>2, AskForMoves DEF CatalogRight
  <2>5. StoresRight' /\ StoreRight' /\ ProductRight'
    BY <1>1, <1>2, <1>3, <2>1, <2>2, AskForMoves DEF StoresRight, StoreRight, ProductRight
  <2> QED BY <2>3, <2>4, <2>5, PrimedParts
<1>11. CASE OpenProductPage \/ RetryProduct
  <2>1. /\ route.store # NoOffer
        /\ \E g \in Offers : LoadProduct(g) /\ route' = [route EXCEPT !.product = g]
    BY <1>2, <1>11 DEF OpenProductPage, RetryProduct, CatalogIsShown, OnStorePage, Routes
  <2>2. PICK g \in Offers : LoadProduct(g) /\ route' = [route EXCEPT !.product = g]
    BY <2>1
  <2>3. /\ AskFor("product", Key(route.at, g, AllShelves))
        /\ shown' = [shown EXCEPT !["product"] = Nothing]
        /\ UNCHANGED <<here, selectedCategory, lent>>
    BY <2>2 DEF LoadProduct
  <2>4. Key(route.at, g, AllShelves) \in Keys
    BY <1>2, KeysAreKeys DEF Routes
  <2>5. /\ route' \in Routes /\ route'.store = route.store /\ route'.at = route.at
        /\ route'.product = g
    BY <1>2, <2>2 DEF Routes
  <2>6. PageTypes'
    BY <1>2, <1>3, <2>1, <2>3, <2>4, <2>5, AskForMoves DEF PageTypes
  <2>7. ProductRight'
    BY <1>2, <1>3, <2>3, <2>4, <2>5, AskForMoves DEF ProductRight
  <2>8. StoresRight' /\ StoreRight' /\ CatalogRight'
    BY <1>1, <1>2, <1>3, <2>3, <2>4, <2>5, AskForMoves DEF StoresRight, StoreRight, CatalogRight
  <2> QED BY <2>6, <2>7, <2>8, PrimedParts
<1>12. CASE OpenConfirm
  <2>1. /\ AskFor("preview", Key(Nowhere, NoOffer, AllShelves))
        /\ route' = [route EXCEPT !.confirm = TRUE]
        /\ UNCHANGED <<here, selectedCategory, shown, lent>>
    BY <1>12 DEF OpenConfirm
  <2>2. /\ route' \in Routes /\ route'.store = route.store /\ route'.at = route.at
        /\ route'.product = route.product
    BY <1>2, <2>1 DEF Routes
  <2>3. PageTypes'
    BY <1>2, <1>3, <1>4, <2>1, <2>2, AskForMoves DEF PageTypes
  <2>4. StoresRight' /\ StoreRight' /\ CatalogRight' /\ ProductRight'
    BY <1>1, <1>2, <1>3, <1>4, <2>1, <2>2, AskForMoves
       DEF StoresRight, StoreRight, CatalogRight, ProductRight
  <2> QED BY <2>3, <2>4, PrimedParts
<1>13. CASE Back
  <2>1. /\ UNCHANGED <<here, selectedCategory, shown, load, lent>>
        /\ route' \in {[route EXCEPT !.confirm = FALSE], [route EXCEPT !.product = NoOffer], Home}
    BY <1>13 DEF Back
  <2>2. /\ route' \in Routes /\ (route'.store = NoOffer => route'.product = NoOffer)
        /\ route'.product \in {route.product, NoOffer}
        /\ route'.store \in {route.store, NoOffer}
        /\ route'.store # NoOffer => route'.at = route.at
    <3>1. CASE route' = [route EXCEPT !.confirm = FALSE]
      BY <1>2, <3>1 DEF Routes
    <3>2. CASE route' = [route EXCEPT !.product = NoOffer]
      BY <1>2, <3>2 DEF Routes
    <3>3. CASE route' = Home
      BY <3>3
    <3> QED BY <2>1, <3>1, <3>2, <3>3
  <2>3. PageTypes'
    BY <1>2, <2>1, <2>2 DEF PageTypes
  <2>4. \A q \in Loads, k \in Parts : Latest(q, k)' <=> Latest(q, k)
    BY <2>1 DEF Latest
  <2>5. StoresRight' /\ StoreRight' /\ CatalogRight' /\ ProductRight'
    BY <1>1, <1>3, <2>1, <2>2, <2>4
       DEF StoresRight, StoreRight, CatalogRight, ProductRight
  <2> QED BY <2>3, <2>5, PrimedParts
<1>14. ASSUME NEW q \in Loads, Previewed(q)
       PROVE  StorePagesIInv'
  <2>1. UNCHANGED <<here, route, selectedCategory>> /\ load[q].kind = "preview"
    BY <1>14 DEF Previewed
  <2>2. CASE load' = [load EXCEPT ![q] = NoLoad] /\ UNCHANGED <<shown, lent>>
    <3>1. load' \in [Loads -> LoadRows]
      BY <1>2, <2>2, EndMoves
    <3>2. \A k \in Parts, p \in Loads :
            (Latest(p, k)' <=> Latest(p, k)) /\ (Latest(p, k) => load'[p].key = load[p].key)
      <4>1. \A k \in Parts : ~Latest(q, k)
        BY <1>3, <2>1 DEF Latest
      <4>2. \A p \in Loads : p # q => load'[p] = load[p]
        BY <1>2, <2>2
      <4> QED BY <1>2, <2>2, <4>1, <4>2, EndMoves
    <3>3. PageTypes'
      BY <1>2, <2>1, <2>2, <3>1 DEF PageTypes
    <3>4. StoresRight' /\ StoreRight' /\ CatalogRight' /\ ProductRight'
      BY <1>1, <1>3, <2>1, <2>2, <3>2
         DEF StoresRight, StoreRight, CatalogRight, ProductRight
    <3> QED BY <3>3, <3>4, PrimedParts
  <2>3. ASSUME NEW at \in Nearby, NEW s \in Offers,
               load' = Start(load, q, "store", Key(at, s, AllShelves)),
               shown' = [shown EXCEPT !["store"] = Nothing], lent' = TRUE
        PROVE  StorePagesIInv'
    <3> DEFINE key == Key(at, s, AllShelves)
    <3>1. key \in Keys
      BY KeysAreKeys
    <3>0. load' = Start(load, q, "store", key)
      BY <2>3
    <3> HIDE DEF key
    <3>2. /\ load' \in [Loads -> LoadRows] /\ Latest(q, "store")'
          /\ \A k \in Parts \ {"store"}, p \in Loads :
               (Latest(p, k)' <=> Latest(p, k)) /\ (Latest(p, k) => load'[p].key = load[p].key)
      <4>1. /\ load' \in [Loads -> LoadRows] /\ load'[q].kind = "store" /\ load'[q].latest
            /\ \A p \in Loads \ {q} :
                 /\ load'[p].kind = load[p].kind /\ load'[p].key = load[p].key
                 /\ load'[p].latest <=> load[p].latest /\ load[p].kind # "store"
        <5>1. /\ load' \in [Loads -> LoadRows]
              /\ load'[q] = [kind |-> "store", key |-> key, latest |-> TRUE]
              /\ \A p \in Loads \ {q} :
                   /\ load'[p].kind = load[p].kind /\ load'[p].key = load[p].key
                   /\ load'[p].latest <=> load[p].latest /\ load[p].kind # "store"
          BY <1>2, <1>3, <3>1, <3>0, Starting
        <5> QED BY <5>1
      <4>2. ASSUME NEW k \in Parts \ {"store"}
            PROVE  ~Latest(q, k) /\ ~Latest(q, k)'
        BY <1>3, <2>1, <4>1 DEF Latest
      <4>3. ASSUME NEW k \in Parts \ {"store"}, NEW p \in Loads \ {q}
            PROVE  (Latest(p, k)' <=> Latest(p, k)) /\ load'[p].key = load[p].key
        BY <4>1 DEF Latest
      <4>4. Latest(q, "store")'
        BY <4>1 DEF Latest
      <4> QED BY <4>1, <4>2, <4>3, <4>4
    <3>3. PageTypes'
      BY <1>2, <1>3, <2>1, <2>3, <3>2 DEF PageTypes
    <3>4. StoreRight'
      BY <2>1, <2>3, <3>2 DEF StoreRight
    <3>5. StoresRight' /\ CatalogRight' /\ ProductRight'
      BY <1>1, <1>2, <1>3, <2>1, <2>3, <3>2 DEF StoresRight, CatalogRight, ProductRight
    <3> QED BY <3>3, <3>4, <3>5, PrimedParts
  <2> QED BY <1>14, <2>2, <2>3 DEF Previewed
<1>15. ASSUME NEW q \in Loads, Loaded(q)
       PROVE  StorePagesIInv'
  <2>1. /\ load[q].kind \in Parts /\ load' = [load EXCEPT ![q] = NoLoad]
        /\ UNCHANGED <<here, route, selectedCategory, lent>>
    BY <1>15 DEF Loaded
  <2>2. /\ load' \in [Loads -> LoadRows]
        /\ \A k \in Parts, p \in Loads : Latest(p, k)' <=> Latest(p, k) /\ p # q
        /\ \A k \in Parts, p \in Loads : Latest(p, k)' => load'[p].key = load[p].key
    BY <1>2, <2>1, EndMoves
  <2>3. CASE ~load[q].latest
    <3>1. shown' = shown /\ \A k \in Parts : ~Latest(q, k)
      BY <1>15, <2>3 DEF Loaded, IsLatest, Latest
    <3>2. PageTypes'
      BY <1>2, <2>1, <2>2, <3>1 DEF PageTypes
    <3>3. StoresRight' /\ StoreRight' /\ CatalogRight' /\ ProductRight'
      BY <1>1, <1>3, <2>1, <2>2, <3>1
         DEF StoresRight, StoreRight, CatalogRight, ProductRight
    <3> QED BY <3>2, <3>3, PrimedParts
  <2>4. CASE load[q].latest
    <3>1. PICK what \in {load[q].key, Failed} : shown' = [shown EXCEPT ![load[q].kind] = what]
      BY <1>15, <2>4 DEF Loaded, IsLatest
    <3>2. load[q].key \in Keys /\ Latest(q, load[q].kind) /\ what # Nothing
      BY <1>2, <2>4, <3>1, PagesHaveNames, TheseAreNoKeys DEF LoadRows, Latest
    <3>3. PageTypes'
      BY <1>2, <2>1, <2>2, <3>1, <3>2 DEF PageTypes
    <3>4. StoresRight'
      BY <1>1, <1>2, <1>3, <2>1, <2>2, <3>1, <3>2 DEF StoresRight, Latest
    <3>5. StoreRight'
      BY <1>1, <1>2, <1>3, <2>1, <2>2, <3>1, <3>2 DEF StoreRight, Latest
    <3>6. CatalogRight' /\ ProductRight'
      BY <1>1, <1>2, <1>3, <2>1, <2>2, <3>1, <3>2 DEF CatalogRight, ProductRight, Latest
    <3> QED BY <3>3, <3>4, <3>5, <3>6, PrimedParts
  <2> QED BY <2>3, <2>4
<1> QED
  BY <1>5, <1>6, <1>7, <1>8, <1>9, <1>10, <1>11, <1>12, <1>13, <1>14, <1>15
     DEF StorePagesNext

LEMMA StorePagesInvariance == StorePagesSpec => []StorePagesIInv
<1>1. StorePagesIInv /\ [StorePagesNext]_storeVars => StorePagesIInv'
  BY StorePagesKeep
<1> QED BY <1>1, StorePagesStart, PTL DEF StorePagesSpec

\* Whichever pages are open and whatever is under way, a page shows what it was opened for,
\* once the latest answer has come, unless a confirmation has lent it its store (store.ts,
\* product.ts, confirm.vue:122).
THEOREM PagesShowWhatWasAsked == StorePagesSpec => []ShownIsAsked
<1>1. StorePagesIInv => ShownIsAsked
  BY DEF StorePagesIInv
<1> QED BY <1>1, StorePagesInvariance, PTL

-----------------------------------------------------------------------------
\* What every page keeps has its type, whatever overlaps.
THEOREM ScreensAreTyped ==
  ScreenSpec /\ PagesSpec /\ DeskSpec /\ FormsSpec /\ VisitSpec /\ StorePagesSpec
    => []ScreensTypeOK
<1>1. ScreenIInv /\ PagesIInv /\ DeskIInv /\ FormsIInv /\ VisitIInv /\ StorePagesIInv
        => ScreensTypeOK
  BY DEF ScreenIInv, PagesIInv, DeskIInv, FormsIInv, VisitIInv, StorePagesIInv, ScreensTypeOK
<1> QED
  BY <1>1, ScreenInvariance, PagesInvariance, DeskInvariance, FormsInvariance,
     VisitInvariance, StorePagesInvariance, PTL
=============================================================================
