------------------------- MODULE NotificationOutbox -------------------------
(***************************************************************************)
(* Subscription messages to one resident.  Every order event (a row of     *)
(* order_status_logs) becomes one row of user_notifications; workers, one  *)
(* per server process, claim rows, spend one of the resident's reported    *)
(* one-time grants on each, and send the message to WeChat outside any     *)
(* transaction.  A worker may die at any step, may be so slow that another *)
(* takes it for dead, and may never learn what became of its message.      *)
(*                                                                         *)
(*   StartBatch ... Conclude     NotificationService.runBatch              *)
(*   Report                      NotificationService.reportSubscription-   *)
(*                               Results, called by the mini program       *)
(*                                                                         *)
(* claimNext picks its candidate from the transaction's snapshot and then  *)
(* updates the row as it is by then, so it is two steps, ReadCandidate and *)
(* Reserve; what a step picks (the oldest rows, up to the batch size) is   *)
(* abstracted to any choice.  The refusals REJECT and FILTER are alike.    *)
(***************************************************************************)
EXTENDS Naturals, FiniteSets

CONSTANTS Events,       \* order events that notify, known by their log rows
          Templates, NoTemplate,
          Requests,     \* request ids of authorization reports
          Workers,
          MaxAttempts   \* NOTIFICATION_MAX_ATTEMPTS

ASSUME AttemptsAreBounded == MaxAttempts \in Nat \ {0}
ASSUME NoTemplateIsNone == NoTemplate \notin Templates
ASSUME SetsAreFinite == IsFiniteSet(Events) /\ IsFiniteSet(Requests) /\ IsFiniteSet(Workers)

VARIABLES
  logged,     \* events committed to order_status_logs
  outbox,     \* rows of user_notifications by event; `ripe' says that nextAttemptAt
              \* is past (PENDING) or sendStartedAt is 5 minutes past (SENDING)
  consent,    \* rows of subscription_consents by template
  receipts,   \* subscription_consent_receipts: the results each request reported
  active,     \* is the resident's account ACTIVE?
  deployed,   \* the template id each worker's process was configured with
  at,         \* where each worker is in runBatch
  found,      \* the events without a row that each worker has read
  held,       \* the candidate each worker has read
  reply,      \* how WeChat answered each worker's message
  delivered   \* how often the resident got the message about each event

vars == <<logged, outbox, consent, receipts, active, deployed, at, found, held, reply,
          delivered>>
work == <<found, held, reply>>

Statuses == {"NONE", "PENDING", "SENDING", "SENT", "UNKNOWN", "SKIPPED", "FAILED"}
Decisions == {"ACCEPT", "REJECT", "BAN"}
Labels == {"idle", "discover", "create", "claim", "reserve", "send", "conclude"}
Replies == {"none", "sent", "unknown", "retryable", "not_subscribed", "rejected"}
Row == [status : Statuses, attempts : Nat, template : Templates \cup {NoTemplate},
        ripe : BOOLEAN]
Candidate == [event : Events, template : Templates \cup {NoTemplate}, attempts : Nat,
              active : BOOLEAN]
NoCandidate == [template |-> NoTemplate]
Results == UNION {[S -> Decisions] : S \in (SUBSET Templates) \ {{}}}

NoRow == [status |-> "NONE", attempts |-> 0, template |-> NoTemplate, ripe |-> FALSE]

Init ==
  /\ logged = {}
  /\ outbox = [e \in Events |-> NoRow]
  /\ consent = [t \in Templates |-> [decision |-> "REJECT", available |-> 0]]
  /\ receipts = [r \in Requests |-> <<>>]
  /\ active = TRUE
  /\ deployed \in [Workers -> Templates \cup {NoTemplate}]
  /\ at = [w \in Workers |-> "idle"]
  /\ found = [w \in Workers |-> {}]
  /\ held = [w \in Workers |-> NoCandidate]
  /\ reply = [w \in Workers |-> "none"]
  /\ delivered = [e \in Events |-> 0]

Goto(w, label) == at' = [at EXCEPT ![w] = label]

-----------------------------------------------------------------------------
\* An order changes status (OrderPayment, RefundFlow); the account is disabled or
\* enabled, which only happens in the database.
Log(e) == /\ e \notin logged
          /\ logged' = logged \cup {e}
          /\ UNCHANGED <<outbox, consent, receipts, active, deployed, at, work, delivered>>

ToggleAccount ==
  /\ active' = ~active
  /\ UNCHANGED <<logged, outbox, consent, receipts, deployed, at, work, delivered>>

\* reportConsents: a request id counts once, whatever is repeated.  The definitions
\* named Mutant... are wrong on purpose: each is a bug that the property it is paired
\* with in PROJECT.json has to notice.
MutantFirstReport(r) == TRUE

FirstReport(r) == receipts[r] = <<>>

Granted(row, decision) ==
  [decision  |-> decision,
   available |-> CASE decision = "ACCEPT" -> row.available + 1
                   [] decision = "BAN"    -> 0
                   [] OTHER               -> row.available]

Report(r, results) ==
  /\ FirstReport(r)
  /\ receipts' = [receipts EXCEPT ![r] = results]
  /\ consent' = [t \in Templates |-> IF t \in DOMAIN results
                                     THEN Granted(consent[t], results[t])
                                     ELSE consent[t]]
  /\ UNCHANGED <<logged, outbox, active, deployed, at, work, delivered>>

-----------------------------------------------------------------------------
\* markStaleSendingUnknown.
MutantInterrupted(e) == FALSE

Interrupted(e) == outbox[e].status = "SENDING" /\ outbox[e].ripe

StartBatch(w) ==
  /\ at[w] = "idle"
  /\ outbox' = [e \in Events |->
       IF Interrupted(e)
       THEN [outbox[e] EXCEPT !.status = "UNKNOWN", !.ripe = FALSE]
       ELSE outbox[e]]
  /\ Goto(w, "discover")
  /\ UNCHANGED <<logged, consent, receipts, active, deployed, work, delivered>>

\* discoverUserNotifications reads, then creates with skipDuplicates.
Undiscovered == {e \in logged : outbox[e].status = "NONE"}

ReadLogs(w, S) ==
  /\ at[w] = "discover"
  /\ S \in SUBSET Undiscovered
  /\ S = {} => Undiscovered = {}
  /\ found' = [found EXCEPT ![w] = S]
  /\ Goto(w, IF S = {} THEN "claim" ELSE "create")
  /\ UNCHANGED <<logged, outbox, consent, receipts, active, deployed, held, reply,
                 delivered>>

NewRow(template) ==
  [status |-> IF template = NoTemplate THEN "SKIPPED" ELSE "PENDING",
   attempts |-> 0, template |-> template, ripe |-> template # NoTemplate]

MutantIsNew(e) == outbox[e].status # "SENDING"

IsNew(e) == outbox[e].status = "NONE"

CreateRows(w) ==
  /\ at[w] = "create"
  /\ outbox' = [e \in Events |-> IF e \in found[w] /\ IsNew(e)
                                 THEN NewRow(deployed[w]) ELSE outbox[e]]
  /\ found' = [found EXCEPT ![w] = {}]
  /\ Goto(w, "claim")
  /\ UNCHANGED <<logged, consent, receipts, active, deployed, held, reply, delivered>>

Claimable(e) == /\ outbox[e].status = "PENDING"
                /\ outbox[e].attempts < MaxAttempts

ReadCandidate(w, e) ==
  /\ at[w] = "claim"
  /\ Claimable(e) /\ outbox[e].ripe
  /\ held' = [held EXCEPT ![w] = [event |-> e, template |-> outbox[e].template,
                                  attempts |-> outbox[e].attempts, active |-> active]]
  /\ Goto(w, "reserve")
  /\ UNCHANGED <<logged, outbox, consent, receipts, active, deployed, found, reply,
                 delivered>>

\* Nothing to claim: the batch ends (with refreshAdminAlerts, not modelled here).
NothingToClaim(w) ==
  /\ at[w] = "claim"
  /\ ~\E e \in Events : Claimable(e) /\ outbox[e].ripe
  /\ Goto(w, "idle")
  /\ UNCHANGED <<logged, outbox, consent, receipts, active, deployed, work, delivered>>

Drop(w) == held' = [held EXCEPT ![w] = NoCandidate]

\* The rest of claimNext: the row may have been claimed, or even tried and released,
\* since it was read.
MutantMayReserve(e) == outbox[e].status \in {"PENDING", "SENDING"}

MayReserve(e) == Claimable(e)

MutantHasGrant(c) == c.decision # "BAN"

HasGrant(c) == c.decision # "BAN" /\ c.available > 0

Reserve(w) ==
  LET e == held[w].event
      t == held[w].template
      row == [outbox[e] EXCEPT !.attempts = @ + 1, !.ripe = FALSE]
  IN
  /\ at[w] = "reserve"
  /\ IF ~MayReserve(e) THEN Drop(w) /\ Goto(w, "idle") /\ UNCHANGED <<outbox, consent>>
     ELSE IF held[w].active /\ HasGrant(consent[t])
     THEN /\ outbox' = [outbox EXCEPT ![e] = [row EXCEPT !.status = "SENDING"]]
          /\ consent' = [consent EXCEPT ![t].available = @ - 1]
          /\ Goto(w, "send")
          /\ UNCHANGED held
     ELSE /\ outbox' = [outbox EXCEPT ![e] = [row EXCEPT !.status = "SKIPPED"]]
          /\ UNCHANGED consent
          /\ Drop(w) /\ (Goto(w, "claim") \/ Goto(w, "idle"))
  /\ UNCHANGED <<logged, receipts, active, deployed, found, reply, delivered>>

\* provider.send, unless the row asks for a template this process no longer has.
\* WeChat delivers and says so; delivers or not and is not heard; or refuses.
Send(w) ==
  LET e == held[w].event IN
  /\ at[w] = "send"
  /\ \E r \in Replies \ {"none"} :
       /\ deployed[w] # held[w].template => r = "rejected"
       /\ reply' = [reply EXCEPT ![w] = r]
       /\ \E n \in CASE r = "sent" -> {1} [] r = "unknown" -> {0, 1} [] OTHER -> {0} :
            delivered' = [delivered EXCEPT ![e] = @ + n]
  /\ Goto(w, "conclude")
  /\ UNCHANGED <<logged, outbox, consent, receipts, active, deployed, found, held>>

\* markSent and completeFailure.  The count compared with maxAttempts is the one read
\* before claimNext incremented it.
MutantWillRetry(w) == reply[w] \in {"retryable", "unknown"} /\ held[w].attempts < MaxAttempts

WillRetry(w) == reply[w] = "retryable" /\ held[w].attempts < MaxAttempts

MutantRestoresGrant(w) == reply[w] \in {"retryable", "rejected", "unknown"}

RestoresGrant(w) == reply[w] \in {"retryable", "rejected"}

ConcludedStatus(w) ==
  CASE WillRetry(w)                   -> "PENDING"
    [] reply[w] = "sent"              -> "SENT"
    [] reply[w] = "unknown"           -> "UNKNOWN"
    [] reply[w] = "not_subscribed"    -> "SKIPPED"
    [] OTHER                          -> "FAILED"

Conclude(w) ==
  LET e == held[w].event
      t == held[w].template
  IN
  /\ at[w] = "conclude"
  /\ outbox' = [outbox EXCEPT ![e].status = ConcludedStatus(w), ![e].ripe = FALSE]
  /\ consent' = [consent EXCEPT ![t].available =
                   CASE reply[w] = "not_subscribed" -> 0
                     [] RestoresGrant(w)            -> @ + 1
                     [] OTHER                       -> @]
  /\ reply' = [reply EXCEPT ![w] = "none"]
  /\ Drop(w) /\ (Goto(w, "claim") \/ Goto(w, "idle"))
  /\ UNCHANGED <<logged, receipts, active, deployed, found, delivered>>

-----------------------------------------------------------------------------
\* The process dies and is started again, perhaps with other templates configured.
Restart(w, t) ==
  /\ at[w] # "idle" \/ t # deployed[w]
  /\ Goto(w, "idle")
  /\ deployed' = [deployed EXCEPT ![w] = t]
  /\ found' = [found EXCEPT ![w] = {}]
  /\ reply' = [reply EXCEPT ![w] = "none"]
  /\ Drop(w)
  /\ UNCHANGED <<logged, outbox, consent, receipts, active, delivered>>

\* The retry delay, or the five minutes a send may take, are over.
Ripen(e) ==
  /\ outbox[e].status \in {"PENDING", "SENDING"} /\ ~outbox[e].ripe
  /\ outbox' = [outbox EXCEPT ![e].ripe = TRUE]
  /\ UNCHANGED <<logged, consent, receipts, active, deployed, at, work, delivered>>

RunBatch(w) ==
  \/ StartBatch(w)
  \/ \E S \in SUBSET Events : ReadLogs(w, S)
  \/ CreateRows(w)
  \/ \E e \in Events : ReadCandidate(w, e)
  \/ NothingToClaim(w) \/ Reserve(w) \/ Send(w) \/ Conclude(w)

Next ==
  \/ \E e \in Events : Log(e) \/ Ripen(e)
  \/ ToggleAccount
  \/ \E r \in Requests : \E results \in Results : Report(r, results)
  \/ \E w \in Workers : \/ RunBatch(w)
                        \/ \E t \in Templates \cup {NoTemplate} : Restart(w, t)

Spec == Init /\ [][Next]_vars

\* Batches are started for ever, time passes, and restarts do not always hit a worker
\* between the same two steps.
Fairness ==
  /\ \A e \in Events : WF_vars(Ripen(e))
  /\ \A w \in Workers :
       /\ WF_vars(RunBatch(w))
       /\ SF_vars(\E S \in SUBSET Events : ReadLogs(w, S))
       /\ SF_vars(CreateRows(w))
       /\ SF_vars(\E e \in Events : ReadCandidate(w, e))
       /\ SF_vars(Reserve(w))

LiveSpec == Spec /\ Fairness

-----------------------------------------------------------------------------
TypeOK ==
  /\ logged \in SUBSET Events
  /\ outbox \in [Events -> Row]
  /\ consent \in [Templates -> [decision : Decisions, available : Nat]]
  /\ receipts \in [Requests -> Results \cup {<<>>}]
  /\ active \in BOOLEAN
  /\ deployed \in [Workers -> Templates \cup {NoTemplate}]
  /\ at \in [Workers -> Labels]
  /\ found \in [Workers -> SUBSET Events]
  /\ held \in [Workers -> Candidate \cup {NoCandidate}]
  /\ reply \in [Workers -> Replies]
  /\ delivered \in [Events -> Nat]

Sending(w) == at[w] \in {"send", "conclude"}

\* The resident gets at most one message about an event, whichever workers crash, are
\* slow, or do not hear the answer, and whatever they retry.
DeliveredOnce == \A e \in Events : delivered[e] <= 1

\* A message that is not accounted for is not sent again: while a worker has one on its
\* way no other worker touches that event, even after it was taken for interrupted.
OneSender ==
  \A w, x \in Workers :
    Sending(w) /\ Sending(x) /\ held[w].event = held[x].event => w = x

\* claimNext reads an attempt count that may be old, and still no row is tried more
\* often than configured.
AttemptsBounded == \A e \in Events : outbox[e].attempts <= MaxAttempts

\* One-time grants are spent once: what is left of a template's grants, what workers
\* have reserved and what the resident received never exceed what was accepted.
Accepted(t) == {r \in Requests : t \in DOMAIN receipts[r] /\ receipts[r][t] = "ACCEPT"}
Reserved(t) == {w \in Workers :
                  /\ Sending(w) /\ held[w].template = t
                  /\ delivered[held[w].event] = 0}
Received(t) == {e \in Events : outbox[e].template = t /\ delivered[e] > 0}

GrantsSpentOnce ==
  \A t \in Templates :
    consent[t].available + Cardinality(Reserved(t)) + Cardinality(Received(t))
      <= Cardinality(Accepted(t))

\* An outcome that may mean the message was delivered is never turned back into one
\* to be sent.
DeliveredStays ==
  [][\A e \in Events : delivered[e] > 0 => outbox'[e].status \notin {"NONE", "PENDING"}]_vars

\* Every event is dealt with in the end: its row reaches a final status, or was tried
\* as often as configured.
EventsConclude ==
  \A e \in Events :
    (e \in logged) ~> \/ outbox[e].status \in {"SENT", "UNKNOWN", "SKIPPED", "FAILED"}
                      \/ outbox[e].attempts = MaxAttempts

-----------------------------------------------------------------------------
\* What a worker with a candidate may rely on; with it DeliveredOnce is inductive.
CandidatesExist ==
  \A w \in Workers : at[w] \in {"reserve", "send", "conclude"} =>
    /\ held[w] \in Candidate /\ held[w].template \in Templates

UnderWay ==
  \A w \in Workers : Sending(w) =>
    /\ outbox[held[w].event].status \in {"SENDING", "UNKNOWN"}
    /\ at[w] = "send" \/ reply[w] \notin {"sent", "unknown"} =>
         delivered[held[w].event] = 0

DeliveredIsKnown ==
  \A e \in Events : delivered[e] > 0 => outbox[e].status \in {"SENDING", "UNKNOWN", "SENT"}

TriedHasTemplate ==
  \A e \in Events :
    outbox[e].status \notin {"NONE", "SKIPPED"} => outbox[e].template \in Templates

IInv == /\ TypeOK
        /\ DeliveredOnce
        /\ OneSender
        /\ AttemptsBounded
        /\ CandidatesExist
        /\ UnderWay
        /\ DeliveredIsKnown
        /\ TriedHasTemplate

\* A candidate's grant is of the template of its row, which does not change once the
\* row exists; GrantsSpentOnce is inductive relative to IInv and this.
HeldTemplates ==
  \A w \in Workers : at[w] \in {"reserve", "send", "conclude"} =>
    /\ outbox[held[w].event].status # "NONE"
    /\ outbox[held[w].event].template = held[w].template

-----------------------------------------------------------------------------
\* notifications-and-alerts.md: an attempt that failed is retried up to the limit (and
\* the code means the last failure to be FAILED), so no row that has used all its
\* attempts waits for another.
RetriesEndAtLimit ==
  \A e \in Events : outbox[e].attempts = MaxAttempts => outbox[e].status # "PENDING"
=============================================================================
