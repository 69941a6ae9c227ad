----------------------------- MODULE EditForms -----------------------------
(***************************************************************************)
(* The pages of the back office on which stores, products and delivery are *)
(* edited.  A form is a copy of the row it was opened for; the pictures    *)
(* chosen for it are uploaded meanwhile, and what a page loads is not      *)
(* numbered.  The server stores whatever form it is sent under the id it   *)
(* is sent with, so that every mix-up here becomes one of the catalog.     *)
(*                                                                         *)
(*   Rows     stores or products        Fetches  the calls under way       *)
(*                                                                         *)
(* Only one page is open; the calls of the others end in nothing.          *)
(***************************************************************************)
EXTENDS Naturals

CONSTANTS Rows, Fetches, NewRow, NoRow

ASSUME FormsHaveRows == NewRow \notin Rows /\ NoRow \notin Rows /\ NewRow # NoRow

VARIABLES
  view,      \* the page that is open
  form,      \* the dialog: the id it saves to, whose fields it shows, whose picture
  modes,     \* the delivery page: the store selected, whose switches it shows
  fetch,     \* the calls under way
  stray      \* what has got mixed up (see FormSavesItsRow)

formVars == <<view, form, modes, fetch, stray>>

Views == {"stores", "products", "delivery"}
Targets == Rows \cup {NewRow}
NoForm == [open |-> FALSE, editing |-> NewRow, fields |-> NewRow, picture |-> NoRow]
NoModes == [selected |-> NoRow, of |-> NoRow, loading |-> FALSE]
NoFetch == [kind |-> "none", row |-> NoRow]
Kinds == {"none", "open", "upload", "save", "config", "saveModes"}

FormsTypeOK ==
  /\ view \in Views
  /\ form \in [open : BOOLEAN, editing : Targets, fields : Targets,
               picture : Targets \cup {NoRow}]
  /\ modes \in [selected : Rows \cup {NoRow}, of : Rows \cup {NoRow}, loading : BOOLEAN]
  /\ fetch \in [Fetches -> [kind : Kinds, row : Targets \cup {NoRow}]]
  /\ stray \subseteq {"fields", "picture", "modes"}

FormsInit ==
  /\ view \in Views
  /\ form = NoForm /\ modes = NoModes
  /\ fetch = [f \in Fetches |-> NoFetch]
  /\ stray = {}

Busy(kind) == \E f \in Fetches : fetch[f].kind = kind
Send(f, kind, r) ==
  /\ fetch[f].kind = "none"
  /\ fetch' = [fetch EXCEPT ![f] = [kind |-> kind, row |-> r]]
Ended(f, kind) ==
  /\ fetch[f].kind = kind
  /\ fetch' = [fetch EXCEPT ![f] = NoFetch]

\* Another route: the component is gone, and with it whoever waits for its calls.
Navigate ==
  /\ view' \in Views \ {view}
  /\ form' = NoForm /\ modes' = NoModes
  /\ fetch' = [f \in Fetches |-> NoFetch]
  /\ stray' = {}

(***************************************************************************)
(* Stores: the id is set at once, the fields and the dialog follow when    *)
(* the communities to choose from have been loaded.                        *)
(***************************************************************************)
OpenStore(f) ==
  /\ view = "stores" /\ ~form.open
  /\ \E r \in Targets :
       /\ Send(f, "open", r)
       /\ form' = IF r = NewRow THEN NoForm ELSE [form EXCEPT !.editing = r]
  /\ stray' = (stray \ {"fields"}) \cup (IF Busy("open") THEN {"fields"} ELSE {})
  /\ UNCHANGED <<view, modes>>

StoreOpened(f) ==
  LET r == fetch[f].row IN
  /\ Ended(f, "open")
  /\ \/ form' = IF r = NewRow THEN [form EXCEPT !.open = TRUE]
                ELSE [form EXCEPT !.open = TRUE, !.fields = r, !.picture = NoRow]
     \/ UNCHANGED form  \* the communities could not be loaded
  /\ UNCHANGED <<view, modes, stray>>

(***************************************************************************)
(* Products: the form is filled and shown at once.                         *)
(***************************************************************************)
MutantOpenProduct ==
  /\ view = "products" /\ ~form.open
  /\ \E r \in Targets :
       form' = IF r = NewRow THEN [form EXCEPT !.open = TRUE, !.fields = r, !.picture = NoRow]
               ELSE [open |-> TRUE, editing |-> r, fields |-> r, picture |-> NoRow]
  /\ UNCHANGED <<view, modes, fetch, stray>>

OpenProduct ==
  /\ view = "products" /\ ~form.open
  /\ \E r \in Targets :
       form' = [open |-> TRUE, editing |-> r, fields |-> r, picture |-> NoRow]
  /\ stray' = IF Busy("upload") THEN stray ELSE stray \ {"picture"}
  /\ UNCHANGED <<view, modes, fetch>>

(***************************************************************************)
(* Pictures and saving, alike on both pages.  Neither a second upload nor  *)
(* saving is possible while a picture is uploaded, but closing is.         *)
(***************************************************************************)
UploadImage(f) ==
  /\ form.open /\ ~Busy("upload")
  /\ Send(f, "upload", form.editing)
  /\ UNCHANGED <<view, form, modes, stray>>

\* The picture goes into the form as it is by now.
ImageUploaded(f) ==
  /\ Ended(f, "upload")
  /\ \E p \in {form.picture, fetch[f].row} : form' = [form EXCEPT !.picture = p]
  /\ UNCHANGED <<view, modes, stray>>

RemoveImage ==
  /\ form.open /\ form.picture # NoRow
  /\ form' = [form EXCEPT !.picture = NoRow]
  /\ UNCHANGED <<view, modes, fetch, stray>>

CancelForm ==
  /\ form.open
  /\ form' = [form EXCEPT !.open = FALSE]
  /\ stray' = stray \cup (IF Busy("upload") THEN {"picture"} ELSE {})
  /\ UNCHANGED <<view, modes, fetch>>

\* The form is sent as it is when the button is pressed.
SaveForm(f) ==
  /\ form.open /\ ~Busy("upload") /\ ~Busy("save")
  /\ Send(f, "save", form.editing)
  /\ UNCHANGED <<view, form, modes, stray>>

\* A saved form closes the dialog, also one that was opened since.
FormSaved(f) ==
  /\ Ended(f, "save")
  /\ \/ /\ form' = [form EXCEPT !.open = FALSE]
        /\ stray' = stray \cup (IF Busy("upload") THEN {"picture"} ELSE {})
     \/ UNCHANGED <<form, stray>>
  /\ UNCHANGED <<view, modes>>

(***************************************************************************)
(* Delivery: the switches stay those of the store before until the         *)
(* configuration of the store selected now has come.                       *)
(***************************************************************************)
SelectStore(f) ==
  /\ view = "delivery"
  /\ \E r \in Rows :
       /\ Send(f, "config", r)
       /\ modes' = [modes EXCEPT !.selected = r, !.loading = TRUE]
  /\ stray' = IF Busy("config") \/ Busy("saveModes") THEN stray \cup {"modes"}
              ELSE stray \ {"modes"}
  /\ UNCHANGED <<view, form>>

ConfigLoaded(f) ==
  /\ Ended(f, "config")
  /\ \/ modes' = [modes EXCEPT !.of = fetch[f].row, !.loading = FALSE] /\ UNCHANGED stray
     \/ modes' = [modes EXCEPT !.loading = FALSE] /\ stray' = stray \cup {"modes"}
  /\ UNCHANGED <<view, form>>

\* The switches are covered while they load.
SaveModes(f) ==
  /\ view = "delivery" /\ modes.selected # NoRow
  /\ ~modes.loading /\ ~Busy("saveModes")
  /\ Send(f, "saveModes", modes.selected)
  /\ UNCHANGED <<view, form, modes, stray>>

\* The answer holds the switches as stored, for the store they were sent to.
ModesSaved(f) ==
  /\ Ended(f, "saveModes")
  /\ \E s \in {modes.of, fetch[f].row} : modes' = [modes EXCEPT !.of = s]
  /\ UNCHANGED <<view, form, stray>>

FormsNext ==
  \/ Navigate \/ OpenProduct \/ RemoveImage \/ CancelForm
  \/ \E f \in Fetches :
       \/ OpenStore(f) \/ StoreOpened(f)
       \/ UploadImage(f) \/ ImageUploaded(f) \/ SaveForm(f) \/ FormSaved(f)
       \/ SelectStore(f) \/ ConfigLoaded(f)
       \/ SaveModes(f) \/ ModesSaved(f)

FormsSpec == FormsInit /\ [][FormsNext]_formVars

----------------------------------------------------------------------------
\* What a dialog would save, it would save to the row that its fields and its pictures
\* were meant for, and what the delivery page would save are the switches of the store it
\* names (StoreListView.vue openEdit, ProductListView.vue uploadProductImage,
\* DeliveryConfigView.vue loadConfig).  Three windows are open in the code and excepted
\* here: a second store opened while the first is being loaded, a dialog left while its
\* picture is uploaded, and a configuration that failed to load or overlapped with
\* another call.
FormSavesItsRow ==
  /\ form.open /\ "fields" \notin stray =>
       /\ form.fields = form.editing
       /\ "picture" \notin stray => form.picture \in {NoRow, form.editing}
  /\ modes.selected # NoRow /\ ~modes.loading /\ "modes" \notin stray =>
       modes.of = modes.selected
-----------------------------------------------------------------------------
\* A store being loaded is the one the dialog, still closed, will save to.
OpeningIsAwaited ==
  "fields" \notin stray =>
    \A f \in Fetches : fetch[f].kind = "open" =>
      /\ ~form.open /\ form.editing = fetch[f].row /\ fetch[f].row \in Targets
      /\ \A g \in Fetches : fetch[g].kind = "open" => f = g
      /\ fetch[f].row = NewRow =>
           form.fields = NewRow /\ ("picture" \notin stray => form.picture = NoRow)

\* A picture being uploaded is for the dialog that is open.
PictureIsAwaited ==
  "picture" \notin stray =>
    \A f \in Fetches : fetch[f].kind = "upload" => form.open /\ fetch[f].row = form.editing

\* A configuration being loaded, or saved, is that of the store selected.
ModesAreAwaited ==
  "modes" \notin stray =>
    \A f \in Fetches :
      /\ fetch[f].kind = "config" =>
           /\ modes.loading /\ fetch[f].row = modes.selected
           /\ \A g \in Fetches : fetch[g].kind = "config" => f = g
      /\ fetch[f].kind = "saveModes" =>
           ~modes.loading /\ fetch[f].row = modes.selected /\ modes.selected # NoRow

\* Calls name the row they are about, and no call is made that its page does not make.
FetchesAreWhole ==
  \A f \in Fetches :
    /\ fetch[f].kind \in {"open", "upload", "save"} => fetch[f].row \in Targets
    /\ fetch[f].kind \in {"config", "saveModes"} => fetch[f].row \in Rows
    /\ fetch[f].kind = "open" => view = "stores"

FormsIInv ==
  /\ FormsTypeOK /\ FetchesAreWhole
  /\ OpeningIsAwaited /\ PictureIsAwaited /\ ModesAreAwaited
  /\ FormSavesItsRow
=============================================================================
