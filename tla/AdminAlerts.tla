---------------------------- MODULE AdminAlerts ----------------------------
(***************************************************************************)
(* Alerts of the back office.  A refresh, run by the notification job and  *)
(* by every look at the alerts, is four statements or transactions with    *)
(* nothing held between them: read candidates, reopen, insert, resolve.    *)
(* An administrator marks an alert read by a look and then a write.        *)
(*                                                                         *)
(*   Matters     what an alert may be about, of the kind KindOf            *)
(*   Refreshers  the refreshes under way                                   *)
(*   Readers     the administrators marking an alert                       *)
(*   AlertBatch  how many candidates of a kind a refresh reads             *)
(*                                                                         *)
(* What makes a matter need attention is one state: an order was paid; is  *)
(* paid and not accepted in time; a refund awaits review; stock is low.    *)
(* The candidates of each kind are read by a query of their own, but a     *)
(* matter is of one kind, so one step reads them all.                      *)
(***************************************************************************)
EXTENDS Integers, FiniteSets

CONSTANTS Matters, KindOf, Refreshers, Readers, AlertBatch, NoMatter

AlertKinds == {"NEW_PAID_ORDER", "UNACCEPTED_ORDER", "REFUND_REQUEST", "LOW_STOCK"}

ASSUME AlertsHaveKinds ==
  KindOf \in [Matters -> AlertKinds] /\ AlertBatch \in Nat /\ NoMatter \notin Matters

VARIABLES
  matter,   \* does it need attention: not yet, now, or no longer?
  alert,    \* rows of admin_alerts, by dedupeKey
  refresh,  \* where each refresh is, its candidates, what was due all along
  reading   \* the alert each administrator has found unread

alertVars == <<matter, alert, refresh, reading>>

AlertsTypeOK ==
  /\ matter \in [Matters -> {"before", "due", "over"}]
  /\ alert \in [Matters -> {"none", "UNREAD", "READ", "RESOLVED"}]
  /\ refresh \in [Refreshers -> [at : {"idle", "reopen", "create", "resolve", "end"},
                                 found : SUBSET Matters, lasting : SUBSET Matters]]
  /\ reading \in [Readers -> Matters \cup {NoMatter}]

NoRefresh == [at |-> "idle", found |-> {}, lasting |-> {}]

AlertsInit ==
  /\ matter = [m \in Matters |-> "before"]
  /\ alert = [m \in Matters |-> "none"]
  /\ refresh = [r \in Refreshers |-> NoRefresh]
  /\ reading = [a \in Readers |-> NoMatter]

Of(kinds) == {m \in Matters : KindOf[m] \in kinds}
Due == {m \in Matters : matter[m] = "due"}

(***************************************************************************)
(* Orders, refunds and stock go on meanwhile.  An order was paid once and  *)
(* for all, and a refund is reviewed once; an order may become unaccepted  *)
(* again when a refund is rejected, and stock comes and goes.              *)
(***************************************************************************)
BecomesDue(m) ==
  /\ \/ matter[m] = "before"
     \/ matter[m] = "over" /\ m \in Of({"UNACCEPTED_ORDER", "LOW_STOCK"})
  /\ matter' = [matter EXCEPT ![m] = "due"]
  /\ UNCHANGED <<alert, refresh, reading>>

Settles(m) ==
  /\ matter[m] = "due" /\ KindOf[m] # "NEW_PAID_ORDER"
  /\ matter' = [matter EXCEPT ![m] = "over"]
  /\ refresh' = [r \in Refreshers |-> [refresh[r] EXCEPT !.lasting = @ \ {m}]]
  /\ UNCHANGED <<alert, reading>>

(***************************************************************************)
(* refreshAdminAlerts                                                      *)
(***************************************************************************)
RefreshTo(r, at) == refresh' = [refresh EXCEPT ![r].at = at]

\* Orders and refunds that have no alert at all, the oldest of each kind first; products
\* whether or not they have one.  `lasting' leaves out what the batch has no room for.
ReadAlertCandidates(r) ==
  LET unknown(k) == {m \in Due \cap Of({k}) : alert[m] = "none"}
      limited == {"NEW_PAID_ORDER", "UNACCEPTED_ORDER", "REFUND_REQUEST"}
      batch(k, S) == /\ S \subseteq unknown(k)
                     /\ S # unknown(k) => Cardinality(S) = AlertBatch
                     /\ Cardinality(S) <= AlertBatch IN
  /\ refresh[r].at = "idle"
  /\ \E S \in SUBSET {m \in Due : alert[m] = "none"} :
       /\ \A k \in limited : batch(k, S \cap Of({k}))
       /\ S \subseteq Of(limited)
       /\ refresh' = [refresh EXCEPT ![r] =
            [at |-> "reopen", found |-> S \cup (Due \cap Of({"LOW_STOCK"})),
             lasting |-> Due \ ((UNION {unknown(k) : k \in limited}) \ S)]]
  /\ UNCHANGED <<matter, alert, reading>>

MutantReopen(r) ==
  /\ refresh[r].at = "reopen"
  /\ alert' = [m \in Matters |->
                 IF m \in Due \cap Of({"LOW_STOCK"}) /\ alert[m] = "RESOLVED"
                 THEN "UNREAD" ELSE alert[m]]
  /\ RefreshTo(r, "create")
  /\ UNCHANGED <<matter, reading>>

\* What is resolved but due again, as it is now.
Reopen(r) ==
  /\ refresh[r].at = "reopen"
  /\ alert' = [m \in Matters |->
                 IF /\ m \in Due \cap Of({"UNACCEPTED_ORDER", "LOW_STOCK"})
                    /\ alert[m] = "RESOLVED"
                 THEN "UNREAD" ELSE alert[m]]
  /\ RefreshTo(r, "create")
  /\ UNCHANGED <<matter, reading>>

\* createMany with skipDuplicates, of the candidates read two steps ago.
CreateAlerts(r) ==
  /\ refresh[r].at = "create"
  /\ alert' = [m \in Matters |-> IF m \in refresh[r].found /\ alert[m] = "none"
                                 THEN "UNREAD" ELSE alert[m]]
  /\ RefreshTo(r, "resolve")
  /\ UNCHANGED <<matter, reading>>

\* What is not due, as it is now; an alert of a new order is never resolved.
ResolveAlerts(r) ==
  /\ refresh[r].at = "resolve"
  /\ alert' = [m \in Matters |->
                 IF /\ m \notin Due /\ KindOf[m] # "NEW_PAID_ORDER"
                    /\ alert[m] \in {"UNREAD", "READ"}
                 THEN "RESOLVED" ELSE alert[m]]
  /\ RefreshTo(r, "end")
  /\ UNCHANGED <<matter, reading>>

\* The refresh is over, or its process died.
EndRefresh(r) ==
  /\ refresh[r].at # "idle"
  /\ refresh' = [refresh EXCEPT ![r] = NoRefresh]
  /\ UNCHANGED <<matter, alert, reading>>

(***************************************************************************)
(* markAlertRead: only an unread alert is written, whatever it has become. *)
(***************************************************************************)
FindAlert(a) ==
  /\ reading[a] = NoMatter
  /\ \E m \in Matters : alert[m] = "UNREAD" /\ reading' = [reading EXCEPT ![a] = m]
  /\ UNCHANGED <<matter, alert, refresh>>

MarkRead(a) ==
  /\ reading[a] # NoMatter
  /\ alert' = [alert EXCEPT ![reading[a]] = "READ"]
  /\ reading' = [reading EXCEPT ![a] = NoMatter]
  /\ UNCHANGED <<matter, refresh>>

AlertsNext ==
  \/ \E m \in Matters : BecomesDue(m) \/ Settles(m)
  \/ \E r \in Refreshers :
       \/ ReadAlertCandidates(r) \/ Reopen(r) \/ CreateAlerts(r) \/ ResolveAlerts(r)
       \/ EndRefresh(r)
  \/ \E a \in Readers : FindAlert(a) \/ MarkRead(a)

AlertsSpec == AlertsInit /\ [][AlertsNext]_alertVars

----------------------------------------------------------------------------
\* When a refresh ends, what needed attention all the time it took has an alert that is
\* not resolved, be it read or unread, whatever other refreshes and readers did meanwhile
\* (notification.repository.ts refreshAdminAlerts).  What its batch had no room for waits
\* for the next.
RaisedInTime ==
  \A r \in Refreshers : refresh[r].at = "end" =>
    \A m \in refresh[r].lasting : alert[m] \in {"UNREAD", "READ"}
----------------------------------------------------------------------------
\* An alert is of a matter that has been due.  One of a new order or of a refund is not
\* resolved while the matter is due: it does not become due twice.
AlertsHaveCause ==
  /\ \A m \in Matters : matter[m] = "before" =>
       alert[m] = "none" /\ \A r \in Refreshers : m \notin refresh[r].found
  /\ \A m \in Of({"NEW_PAID_ORDER", "REFUND_REQUEST"}) :
       matter[m] = "due" => alert[m] # "RESOLVED"
  /\ \A a \in Readers : reading[a] # NoMatter => alert[reading[a]] # "none"

\* How far each refresh has got with what is due all along.
RefreshesProgress ==
  \A r \in Refreshers : \A m \in refresh[r].lasting :
    /\ matter[m] = "due"
    /\ refresh[r].at \in {"reopen", "create"} => alert[m] # "none" \/ m \in refresh[r].found
    /\ refresh[r].at = "create" => alert[m] # "RESOLVED"
    /\ refresh[r].at \in {"resolve", "end"} => alert[m] \in {"UNREAD", "READ"}

AlertsIInv == AlertsTypeOK /\ AlertsHaveCause /\ RefreshesProgress
=============================================================================
