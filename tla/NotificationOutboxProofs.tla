---------------------- MODULE NotificationOutboxProofs ----------------------
(***************************************************************************)
(* Proofs about NotificationOutbox, for any number of events, templates,   *)
(* requests and workers, and any limit of attempts.                        *)
(***************************************************************************)
EXTENDS NotificationOutbox, FiniteSetTheorems, TLAPS

USE DEF Statuses, Decisions, Labels, Replies, work

LEMMA InitIInv == Init => IInv
<1> SUFFICES ASSUME Init PROVE IInv
  OBVIOUS
<1> USE DEF Init
<1>1. TypeOK
  BY DEF TypeOK, NoRow, Row
<1> QED
  BY <1>1, AttemptsAreBounded DEF IInv, DeliveredOnce, OneSender, AttemptsBounded,
     CandidatesExist, UnderWay, DeliveredIsKnown, TriedHasTemplate, Sending, NoRow

\* Steps of the world that no worker's claims depend on.
LEMMA LogIInv ==
  ASSUME IInv, NEW e \in Events, Log(e) PROVE IInv'
<1> USE DEF Log
<1>1. TypeOK'
  BY DEF IInv, TypeOK
<1> QED
  BY <1>1 DEF IInv, DeliveredOnce, OneSender, AttemptsBounded,
     CandidatesExist, UnderWay, DeliveredIsKnown, TriedHasTemplate, Sending

LEMMA ToggleAccountIInv ==
  ASSUME IInv, ToggleAccount PROVE IInv'
<1> USE DEF ToggleAccount
<1>1. TypeOK'
  BY DEF IInv, TypeOK
<1> QED
  BY <1>1 DEF IInv, DeliveredOnce, OneSender, AttemptsBounded,
     CandidatesExist, UnderWay, DeliveredIsKnown, TriedHasTemplate, Sending

LEMMA ReportIInv ==
  ASSUME IInv, NEW r \in Requests, NEW results \in Results, Report(r, results)
  PROVE  IInv'
<1> USE DEF Report
<1>1. TypeOK'
  <2>1. receipts' \in [Requests -> Results \cup {<<>>}]
    BY DEF IInv, TypeOK
  <2>2. consent' \in [Templates -> [decision : Decisions, available : Nat]]
    <3>1. ASSUME NEW t \in Templates, t \in DOMAIN results
          PROVE  Granted(consent[t], results[t]) \in [decision : Decisions, available : Nat]
      <4>1. results[t] \in Decisions
        BY <3>1 DEF Results
      <4>2. consent[t] \in [decision : Decisions, available : Nat]
        BY DEF IInv, TypeOK
      <4> QED BY <4>1, <4>2 DEF Granted
    <3> QED BY <3>1 DEF IInv, TypeOK
  <2> QED BY <2>1, <2>2 DEF IInv, TypeOK
<1> QED
  BY <1>1 DEF IInv, DeliveredOnce, OneSender, AttemptsBounded,
     CandidatesExist, UnderWay, DeliveredIsKnown, TriedHasTemplate, Sending

LEMMA RipenIInv ==
  ASSUME IInv, NEW e \in Events, Ripen(e) PROVE IInv'
<1> USE DEF Ripen
<1>1. outbox' \in [Events -> Row]
  <2>1. outbox \in [Events -> Row]
    BY DEF IInv, TypeOK
  <2>2. [outbox[e] EXCEPT !.ripe = TRUE] \in Row
    BY <2>1 DEF Row
  <2>3. outbox' = [outbox EXCEPT ![e] = [outbox[e] EXCEPT !.ripe = TRUE]]
    OBVIOUS
  <2> QED BY <2>1, <2>2, <2>3
<1>2. \A f \in Events : /\ outbox'[f].status = outbox[f].status
                        /\ outbox'[f].attempts = outbox[f].attempts
                        /\ outbox'[f].template = outbox[f].template
  BY DEF IInv, TypeOK, Row
<1>3. TypeOK'
  BY <1>1 DEF IInv, TypeOK
<1>4. UnderWay'
  BY <1>2 DEF IInv, UnderWay, Sending, CandidatesExist, Candidate
<1> QED
  BY <1>2, <1>3, <1>4 DEF IInv, DeliveredOnce, OneSender, AttemptsBounded,
     CandidatesExist, DeliveredIsKnown, TriedHasTemplate, Sending

-----------------------------------------------------------------------------
\* Steps of a worker that keep its hands empty.
LEMMA RestartIInv ==
  ASSUME IInv, NEW w \in Workers, NEW t \in Templates \cup {NoTemplate}, Restart(w, t)
  PROVE  IInv'
<1> USE DEF Restart, Goto, Drop
<1>1. TypeOK'
  <2>1. at' \in [Workers -> Labels] /\ deployed' \in [Workers -> Templates \cup {NoTemplate}]
    BY DEF IInv, TypeOK
  <2>2. found' \in [Workers -> SUBSET Events] /\ reply' \in [Workers -> Replies]
    BY DEF IInv, TypeOK
  <2>3. held' \in [Workers -> Candidate \cup {NoCandidate}]
    BY DEF IInv, TypeOK
  <2> QED BY <2>1, <2>2, <2>3 DEF IInv, TypeOK
<1>2. /\ ~Sending(w)' /\ at'[w] = "idle"
      /\ \A x \in Workers \ {w} :
           at'[x] = at[x] /\ held'[x] = held[x] /\ reply'[x] = reply[x]
  BY DEF IInv, TypeOK, Sending
<1>3. CandidatesExist' /\ OneSender' /\ UnderWay'
  BY <1>2 DEF IInv, CandidatesExist, OneSender, UnderWay, Sending
<1> QED
  BY <1>1, <1>3 DEF IInv, DeliveredOnce, AttemptsBounded, DeliveredIsKnown, TriedHasTemplate

LEMMA StartBatchIInv ==
  ASSUME IInv, NEW w \in Workers, StartBatch(w) PROVE IInv'
<1>1. \A e \in Events :
        /\ outbox'[e] \in Row
        /\ \/ outbox'[e].status = outbox[e].status
           \/ outbox[e].status = "SENDING" /\ outbox'[e].status = "UNKNOWN"
        /\ outbox'[e].attempts = outbox[e].attempts
        /\ outbox'[e].template = outbox[e].template
  <2> SUFFICES ASSUME NEW e \in Events
               PROVE  /\ outbox'[e] \in Row
                      /\ \/ outbox'[e].status = outbox[e].status
                         \/ outbox[e].status = "SENDING" /\ outbox'[e].status = "UNKNOWN"
                      /\ outbox'[e].attempts = outbox[e].attempts
                      /\ outbox'[e].template = outbox[e].template
    OBVIOUS
  <2>1. outbox[e] \in Row
    BY DEF IInv, TypeOK
  <2>2. outbox'[e] = IF Interrupted(e)
                     THEN [outbox[e] EXCEPT !.status = "UNKNOWN", !.ripe = FALSE]
                     ELSE outbox[e]
    BY DEF StartBatch
  <2> QED
    BY <2>1, <2>2 DEF Row, Interrupted
<1>2. UNCHANGED <<logged, consent, receipts, active, deployed, found, held, reply, delivered>>
  BY DEF StartBatch
<1>3. at' = [at EXCEPT ![w] = "discover"]
  BY DEF StartBatch, Goto
<1>4. TypeOK'
  <2>1. at' \in [Workers -> Labels]
    BY <1>3 DEF IInv, TypeOK
  <2>2. outbox' \in [Events -> Row]
    BY <1>1 DEF StartBatch
  <2> QED BY <1>2, <2>1, <2>2 DEF IInv, TypeOK
<1>5. \A x \in Workers : at'[x] = IF x = w THEN "discover" ELSE at[x]
  BY <1>3 DEF IInv, TypeOK
<1>6. CandidatesExist' /\ OneSender'
  BY <1>2, <1>5 DEF IInv, CandidatesExist, OneSender, Sending
<1>7. UnderWay'
  BY <1>1, <1>2, <1>5 DEF IInv, UnderWay, Sending, CandidatesExist, Candidate
<1> QED
  BY <1>1, <1>2, <1>4, <1>6, <1>7 DEF IInv, DeliveredOnce, AttemptsBounded,
     DeliveredIsKnown, TriedHasTemplate

LEMMA ReadLogsIInv ==
  ASSUME IInv, NEW w \in Workers, NEW S \in SUBSET Events, ReadLogs(w, S) PROVE IInv'
<1> USE DEF ReadLogs, Goto
<1>1. TypeOK'
  <2>1. at' \in [Workers -> Labels]
    BY DEF IInv, TypeOK
  <2>2. found' \in [Workers -> SUBSET Events]
    BY DEF IInv, TypeOK
  <2> QED BY <2>1, <2>2 DEF IInv, TypeOK
<1>2. at'[w] \in {"claim", "create"} /\ \A x \in Workers \ {w} : at'[x] = at[x]
  BY DEF IInv, TypeOK
<1>3. CandidatesExist' /\ OneSender' /\ UnderWay'
  BY <1>2 DEF IInv, CandidatesExist, OneSender, UnderWay, Sending
<1> QED
  BY <1>1, <1>3 DEF IInv, DeliveredOnce, AttemptsBounded, DeliveredIsKnown, TriedHasTemplate

LEMMA NothingToClaimIInv ==
  ASSUME IInv, NEW w \in Workers, NothingToClaim(w) PROVE IInv'
<1> USE DEF NothingToClaim, Goto
<1>1. TypeOK'
  BY DEF IInv, TypeOK
<1>2. at'[w] = "idle" /\ \A x \in Workers \ {w} : at'[x] = at[x]
  BY DEF IInv, TypeOK
<1>3. CandidatesExist' /\ OneSender' /\ UnderWay'
  BY <1>2 DEF IInv, CandidatesExist, OneSender, UnderWay, Sending
<1> QED
  BY <1>1, <1>3 DEF IInv, DeliveredOnce, AttemptsBounded, DeliveredIsKnown, TriedHasTemplate

\* A new row, whoever else created it in the meantime, is nobody's message yet.
LEMMA CreateRowsIInv ==
  ASSUME IInv, NEW w \in Workers, CreateRows(w) PROVE IInv'
<1> USE DEF CreateRows, Goto
<1>0. deployed[w] \in Templates \cup {NoTemplate}
  BY DEF IInv, TypeOK
<1>1. \A e \in Events :
        \/ outbox'[e] = outbox[e]
        \/ /\ outbox[e].status = "NONE"
           /\ outbox'[e] \in Row /\ outbox'[e].attempts = 0
           /\ \/ outbox'[e].status = "SKIPPED"
              \/ outbox'[e].status = "PENDING" /\ outbox'[e].template \in Templates
  BY <1>0 DEF IsNew, NewRow, Row
<1>2. TypeOK'
  <2>1. outbox' \in [Events -> Row]
    BY <1>1 DEF IInv, TypeOK
  <2>2. at' \in [Workers -> Labels]
    BY DEF IInv, TypeOK
  <2>3. found' \in [Workers -> SUBSET Events]
    BY DEF IInv, TypeOK
  <2> QED BY <2>1, <2>2, <2>3 DEF IInv, TypeOK
<1>3. at'[w] = "claim" /\ \A x \in Workers \ {w} : at'[x] = at[x]
  BY DEF IInv, TypeOK
<1>4. CandidatesExist' /\ OneSender'
  BY <1>3 DEF IInv, CandidatesExist, OneSender, Sending
<1>5. UnderWay'
  BY <1>1, <1>3 DEF IInv, UnderWay, Sending, CandidatesExist, Candidate
<1>6. AttemptsBounded' /\ TriedHasTemplate'
  BY <1>1, AttemptsAreBounded DEF IInv, AttemptsBounded, TriedHasTemplate
<1>7. DeliveredIsKnown'
  BY <1>1 DEF IInv, DeliveredIsKnown
<1> QED
  BY <1>2, <1>4, <1>5, <1>6, <1>7 DEF IInv, DeliveredOnce

-----------------------------------------------------------------------------
\* Steps of a worker with a candidate.
LEMMA ReadCandidateIInv ==
  ASSUME IInv, NEW w \in Workers, NEW e \in Events, ReadCandidate(w, e) PROVE IInv'
<1> USE DEF ReadCandidate, Goto
<1>1. outbox[e] \in Row /\ outbox[e].template \in Templates /\ active \in BOOLEAN
  BY DEF IInv, TypeOK, Claimable, TriedHasTemplate
<1>2. /\ held'[w] \in Candidate /\ held'[w].template \in Templates
      /\ at'[w] = "reserve"
      /\ \A x \in Workers \ {w} : at'[x] = at[x] /\ held'[x] = held[x]
  BY <1>1 DEF IInv, TypeOK, Candidate, Row
<1>3. TypeOK'
  <2>1. at' \in [Workers -> Labels]
    BY DEF IInv, TypeOK
  <2>2. held' \in [Workers -> Candidate \cup {NoCandidate}]
    BY <1>2 DEF IInv, TypeOK
  <2> QED BY <2>1, <2>2 DEF IInv, TypeOK
<1>4. CandidatesExist' /\ OneSender' /\ UnderWay'
  BY <1>2 DEF IInv, CandidatesExist, OneSender, UnderWay, Sending
<1> QED
  BY <1>3, <1>4 DEF IInv, DeliveredOnce, AttemptsBounded, DeliveredIsKnown, TriedHasTemplate

\* The update that claims the row checks it again, so nobody else is sending it.
LEMMA ReserveIInv ==
  ASSUME IInv, NEW w \in Workers, Reserve(w) PROVE IInv'
<1> DEFINE e == held[w].event
           t == held[w].template
<1>1. at[w] = "reserve" /\ held[w] \in Candidate /\ t \in Templates /\ e \in Events
  BY DEF Reserve, IInv, CandidatesExist, Candidate
<1>2. \A x \in Workers : reply'[x] = reply[x] /\ delivered' = delivered
  BY DEF Reserve
<1>3. CASE ~MayReserve(e)
  <2>1. /\ UNCHANGED <<outbox, consent>>
        /\ held' = [held EXCEPT ![w] = NoCandidate] /\ at' = [at EXCEPT ![w] = "idle"]
    BY <1>3 DEF Reserve, Drop, Goto
  <2>2. TypeOK'
    <3>1. at' \in [Workers -> Labels] /\ held' \in [Workers -> Candidate \cup {NoCandidate}]
      BY <2>1 DEF IInv, TypeOK
    <3> QED BY <2>1, <3>1 DEF IInv, TypeOK, Reserve
  <2>3. at'[w] = "idle" /\ \A x \in Workers \ {w} : at'[x] = at[x] /\ held'[x] = held[x]
    BY <2>1 DEF IInv, TypeOK
  <2>4. CandidatesExist' /\ OneSender' /\ UnderWay'
    BY <2>1, <2>3, <1>2 DEF IInv, CandidatesExist, OneSender, UnderWay, Sending
  <2> QED
    BY <1>2, <2>1, <2>2, <2>4 DEF IInv, DeliveredOnce, AttemptsBounded, DeliveredIsKnown,
       TriedHasTemplate
<1>4. CASE MayReserve(e) /\ held[w].active /\ HasGrant(consent[t])
  <2> DEFINE n == outbox[e].attempts + 1
             row == [outbox[e] EXCEPT !.attempts = n, !.ripe = FALSE, !.status = "SENDING"]
  <2>1. /\ outbox' = [outbox EXCEPT ![e] = row]
        /\ consent' = [consent EXCEPT ![t].available = @ - 1]
        /\ at' = [at EXCEPT ![w] = "send"] /\ UNCHANGED held
    BY <1>4 DEF Reserve, Goto
  <2>2. outbox[e] \in Row /\ outbox[e].status = "PENDING" /\ outbox[e].attempts < MaxAttempts
    BY <1>1, <1>4 DEF MayReserve, Claimable, IInv, TypeOK
  <2>3. /\ outbox'[e] \in Row /\ outbox'[e].status = "SENDING"
        /\ outbox'[e].attempts = outbox[e].attempts + 1
        /\ outbox'[e].template = outbox[e].template
        /\ \A f \in Events \ {e} : outbox'[f] = outbox[f]
    <3>1. outbox \in [Events -> Row]
      BY DEF IInv, TypeOK
    <3>2. /\ outbox'[e] = row
          /\ \A f \in Events \ {e} : outbox'[f] = outbox[f]
      BY <1>1, <2>1, <3>1
    <3>3. row \in Row /\ row.status = "SENDING" /\ row.attempts = n
      <4>1. n \in Nat
        BY <2>2 DEF Row
      <4> HIDE DEF n
      <4> QED BY <2>2, <4>1 DEF Row
    <3>4. row.template = outbox[e].template
      <4>1. n \in Nat
        BY <2>2 DEF Row
      <4> HIDE DEF n
      <4> QED BY <2>2, <4>1 DEF Row
    <3> HIDE DEF row
    <3> QED BY <3>2, <3>3, <3>4
  <2>4. consent' \in [Templates -> [decision : Decisions, available : Nat]]
    <3>1. /\ consent \in [Templates -> [decision : Decisions, available : Nat]]
          /\ consent[t].available > 0
      BY <1>4 DEF HasGrant, IInv, TypeOK
    <3>2. consent[t].available - 1 \in Nat
      BY <1>1, <3>1
    <3> QED BY <1>1, <2>1, <3>1, <3>2
  <2>5. TypeOK'
    <3>1. at' \in [Workers -> Labels]
      BY <2>1 DEF IInv, TypeOK
    <3>2. outbox' \in [Events -> Row]
      BY <2>1, <2>3 DEF IInv, TypeOK
    <3> QED BY <2>1, <2>4, <3>1, <3>2 DEF IInv, TypeOK, Reserve
  <2>6. at'[w] = "send" /\ \A x \in Workers \ {w} : at'[x] = at[x]
    BY <2>1 DEF IInv, TypeOK
  <2>7. delivered[e] = 0
    <3>1. delivered[e] \in Nat /\ ~(delivered[e] > 0)
      BY <1>1, <2>2 DEF IInv, TypeOK, DeliveredIsKnown
    <3> QED BY <3>1
  <2>8. \A x \in Workers : Sending(x) => held[x].event \in Events \ {e}
    BY <2>2 DEF IInv, UnderWay, CandidatesExist, Candidate, Sending
  <2>9. CandidatesExist' /\ OneSender'
    BY <1>1, <2>1, <2>6, <2>8 DEF IInv, CandidatesExist, OneSender, Sending
  <2>10. UnderWay'
    BY <1>2, <2>1, <2>3, <2>6, <2>7, <2>8 DEF IInv, UnderWay, Sending
  <2>11. AttemptsBounded'
    BY <1>1, <2>2, <2>3, AttemptsAreBounded DEF IInv, AttemptsBounded, Row
  <2>12. DeliveredIsKnown' /\ TriedHasTemplate'
    BY <1>1, <1>2, <2>2, <2>3, <2>7 DEF IInv, DeliveredIsKnown, TriedHasTemplate
  <2> QED
    BY <1>2, <2>5, <2>9, <2>10, <2>11, <2>12 DEF IInv, DeliveredOnce
<1>5. CASE MayReserve(e) /\ ~(held[w].active /\ HasGrant(consent[t]))
  <2> DEFINE n == outbox[e].attempts + 1
             row == [outbox[e] EXCEPT !.attempts = n, !.ripe = FALSE, !.status = "SKIPPED"]
  <2>1. /\ outbox' = [outbox EXCEPT ![e] = row]
        /\ UNCHANGED consent /\ held' = [held EXCEPT ![w] = NoCandidate]
        /\ at' = [at EXCEPT ![w] = "claim"] \/ at' = [at EXCEPT ![w] = "idle"]
    BY <1>5 DEF Reserve, Drop, Goto
  <2>2. outbox[e] \in Row /\ outbox[e].status = "PENDING" /\ outbox[e].attempts < MaxAttempts
    BY <1>1, <1>5 DEF MayReserve, Claimable, IInv, TypeOK
  <2>3. /\ outbox'[e] \in Row /\ outbox'[e].status = "SKIPPED"
        /\ outbox'[e].attempts = outbox[e].attempts + 1
        /\ \A f \in Events \ {e} : outbox'[f] = outbox[f]
    <3>1. outbox \in [Events -> Row]
      BY DEF IInv, TypeOK
    <3>2. /\ outbox'[e] = row
          /\ \A f \in Events \ {e} : outbox'[f] = outbox[f]
      BY <1>1, <2>1, <3>1
    <3>3. row \in Row /\ row.status = "SKIPPED" /\ row.attempts = n
      <4>1. n \in Nat
        BY <2>2 DEF Row
      <4> HIDE DEF n
      <4> QED BY <2>2, <4>1 DEF Row
    <3> HIDE DEF row
    <3> QED BY <3>2, <3>3
  <2>4. TypeOK'
    <3>1. at' \in [Workers -> Labels] /\ held' \in [Workers -> Candidate \cup {NoCandidate}]
      BY <2>1 DEF IInv, TypeOK
    <3>2. outbox' \in [Events -> Row]
      BY <2>1, <2>3 DEF IInv, TypeOK
    <3> QED BY <2>1, <3>1, <3>2 DEF IInv, TypeOK, Reserve
  <2>5. /\ at'[w] \in {"idle", "claim"}
        /\ \A x \in Workers \ {w} : at'[x] = at[x] /\ held'[x] = held[x]
    BY <2>1 DEF IInv, TypeOK
  <2>6. delivered[e] = 0
    <3>1. delivered[e] \in Nat /\ ~(delivered[e] > 0)
      BY <1>1, <2>2 DEF IInv, TypeOK, DeliveredIsKnown
    <3> QED BY <3>1
  <2>7. \A x \in Workers : Sending(x) => held[x].event \in Events \ {e}
    BY <2>2 DEF IInv, UnderWay, CandidatesExist, Candidate, Sending
  <2>8. CandidatesExist' /\ OneSender'
    BY <2>5 DEF IInv, CandidatesExist, OneSender, Sending
  <2>9. UnderWay'
    BY <1>2, <2>3, <2>5, <2>7 DEF IInv, UnderWay, Sending
  <2>10. AttemptsBounded'
    BY <1>1, <2>2, <2>3, AttemptsAreBounded DEF IInv, AttemptsBounded, Row
  <2>11. DeliveredIsKnown' /\ TriedHasTemplate'
    BY <1>1, <1>2, <2>3, <2>6 DEF IInv, DeliveredIsKnown, TriedHasTemplate
  <2> QED
    BY <1>2, <2>4, <2>8, <2>9, <2>10, <2>11 DEF IInv, DeliveredOnce
<1> QED
  BY <1>3, <1>4, <1>5

\* A worker that sends is the only one for its event, and nothing was delivered before.
LEMMA SendIInv ==
  ASSUME IInv, NEW w \in Workers, Send(w) PROVE IInv'
<1> DEFINE e == held[w].event
<1>1. Sending(w) /\ e \in Events /\ delivered[e] = 0 /\ outbox[e].status \in {"SENDING", "UNKNOWN"}
  BY DEF Send, IInv, UnderWay, Sending, CandidatesExist, Candidate
<1>2. PICK r \in Replies \ {"none"} :
        /\ reply' = [reply EXCEPT ![w] = r]
        /\ \E n \in CASE r = "sent" -> {1} [] r = "unknown" -> {0, 1} [] OTHER -> {0} :
             delivered' = [delivered EXCEPT ![e] = @ + n]
  BY DEF Send
<1>3. PICK n \in {0, 1} : /\ delivered' = [delivered EXCEPT ![e] = @ + n]
                          /\ r \notin {"sent", "unknown"} => n = 0
  BY <1>2
<1>4. /\ delivered'[e] = n /\ \A f \in Events \ {e} : delivered'[f] = delivered[f]
  BY <1>1, <1>3 DEF IInv, TypeOK
<1>5. /\ at'[w] = "conclude" /\ \A x \in Workers \ {w} : at'[x] = at[x] /\ reply'[x] = reply[x]
      /\ reply'[w] = r
  BY <1>2 DEF Send, Goto, IInv, TypeOK
<1>6. TypeOK'
  <2>1. at' \in [Workers -> Labels]
    BY DEF Send, Goto, IInv, TypeOK
  <2>2. reply' \in [Workers -> Replies]
    BY <1>2 DEF IInv, TypeOK
  <2>3. delivered' \in [Events -> Nat]
    BY <1>1, <1>3 DEF IInv, TypeOK
  <2> QED BY <2>1, <2>2, <2>3 DEF Send, IInv, TypeOK
<1>7. CandidatesExist' /\ OneSender'
  BY <1>1, <1>5 DEF Send, IInv, CandidatesExist, OneSender, Sending
<1>8. UnderWay'
  <2> SUFFICES ASSUME NEW x \in Workers, Sending(x)'
               PROVE  /\ outbox[held[x].event].status \in {"SENDING", "UNKNOWN"}
                      /\ at'[x] = "send" \/ reply'[x] \notin {"sent", "unknown"} =>
                           delivered'[held[x].event] = 0
    BY DEF Send, UnderWay
  <2>1. CASE x = w
    BY <2>1, <1>1, <1>3, <1>4, <1>5
  <2>2. CASE x # w
    <3>1. Sending(x) /\ held[x].event \in Events \ {e}
      BY <2>2, <1>1, <1>5 DEF IInv, OneSender, Sending, CandidatesExist, Candidate
    <3> QED
      BY <2>2, <3>1, <1>4, <1>5 DEF IInv, UnderWay
  <2> QED BY <2>1, <2>2
<1>9. DeliveredOnce' /\ DeliveredIsKnown'
  BY <1>1, <1>4 DEF Send, IInv, DeliveredOnce, DeliveredIsKnown
<1> QED
  BY <1>6, <1>7, <1>8, <1>9 DEF Send, IInv, AttemptsBounded, TriedHasTemplate

\* Only what was surely not delivered is put back, even if the row was marked UNKNOWN.
LEMMA ConcludeIInv ==
  ASSUME IInv, NEW w \in Workers, Conclude(w) PROVE IInv'
<1> DEFINE e == held[w].event
           t == held[w].template
<1>1. /\ Sending(w) /\ e \in Events /\ t \in Templates
      /\ outbox[e].status \in {"SENDING", "UNKNOWN"}
      /\ reply[w] \notin {"sent", "unknown"} => delivered[e] = 0
  BY DEF Conclude, IInv, UnderWay, Sending, CandidatesExist, Candidate
<1>2. /\ ConcludedStatus(w) \in {"PENDING", "SENT", "UNKNOWN", "SKIPPED", "FAILED"}
      /\ reply[w] \in {"sent", "unknown"} => ConcludedStatus(w) \in {"SENT", "UNKNOWN"}
  BY DEF ConcludedStatus, WillRetry
<1>3. /\ outbox'[e] \in Row /\ outbox'[e].status = ConcludedStatus(w)
      /\ outbox'[e].attempts = outbox[e].attempts /\ outbox'[e].template = outbox[e].template
      /\ \A f \in Events \ {e} : outbox'[f] = outbox[f]
      /\ outbox' \in [Events -> Row]
  <2>1. outbox \in [Events -> Row]
    BY DEF IInv, TypeOK
  <2>2. outbox' = [outbox EXCEPT ![e].status = ConcludedStatus(w), ![e].ripe = FALSE]
    BY DEF Conclude
  <2>3. /\ outbox'[e] = [outbox[e] EXCEPT !.status = ConcludedStatus(w), !.ripe = FALSE]
        /\ \A f \in Events \ {e} : outbox'[f] = outbox[f]
    BY <1>1, <2>1, <2>2
  <2>4. /\ outbox'[e] \in Row /\ outbox'[e].status = ConcludedStatus(w)
        /\ outbox'[e].attempts = outbox[e].attempts /\ outbox'[e].template = outbox[e].template
    BY <1>1, <1>2, <2>1, <2>3 DEF Row
  <2>5. DOMAIN outbox' = Events /\ outbox' = [f \in Events |-> outbox'[f]]
    BY <2>1, <2>2
  <2> QED BY <2>1, <2>3, <2>4, <2>5
<1>4. /\ at'[w] \in {"claim", "idle"}
      /\ \A x \in Workers \ {w} :
           at'[x] = at[x] /\ held'[x] = held[x] /\ reply'[x] = reply[x]
  BY DEF Conclude, Drop, Goto, IInv, TypeOK
<1>5. TypeOK'
  <2>1. at' \in [Workers -> Labels] /\ held' \in [Workers -> Candidate \cup {NoCandidate}]
    BY DEF Conclude, Drop, Goto, IInv, TypeOK
  <2>2. reply' \in [Workers -> Replies]
    BY DEF Conclude, IInv, TypeOK
  <2>3. consent' \in [Templates -> [decision : Decisions, available : Nat]]
    <3>1. consent \in [Templates -> [decision : Decisions, available : Nat]]
      BY DEF IInv, TypeOK
    <3> DEFINE n == CASE reply[w] = "not_subscribed" -> 0
                      [] RestoresGrant(w) -> consent[t].available + 1
                      [] OTHER -> consent[t].available
    <3>2. consent' = [consent EXCEPT ![t].available = n]
      BY DEF Conclude
    <3>3. n \in Nat
      BY <1>1, <3>1
    <3> HIDE DEF n
    <3> QED BY <1>1, <3>1, <3>2, <3>3
  <2> QED BY <1>3, <2>1, <2>2, <2>3 DEF Conclude, IInv, TypeOK
<1>6. CandidatesExist' /\ OneSender'
  BY <1>4 DEF IInv, CandidatesExist, OneSender, Sending
<1>7. UnderWay'
  <2> SUFFICES ASSUME NEW x \in Workers, Sending(x)' PROVE
        /\ outbox'[held'[x].event].status \in {"SENDING", "UNKNOWN"}
        /\ at'[x] = "send" \/ reply'[x] \notin {"sent", "unknown"} =>
             delivered[held'[x].event] = 0
    BY DEF Conclude, UnderWay
  <2>1. x # w /\ Sending(x) /\ held'[x] = held[x]
    BY <1>4 DEF Sending
  <2>2. held[x].event \in Events \ {e}
    BY <2>1, <1>1 DEF IInv, OneSender, Sending, CandidatesExist, Candidate
  <2> QED
    BY <2>1, <2>2, <1>3, <1>4 DEF IInv, UnderWay
<1>8. DeliveredIsKnown'
  BY <1>1, <1>2, <1>3 DEF Conclude, IInv, TypeOK, DeliveredIsKnown
<1>9. TriedHasTemplate'
  BY <1>1, <1>3 DEF IInv, TriedHasTemplate
<1>10. AttemptsBounded'
  BY <1>1, <1>3 DEF IInv, AttemptsBounded
<1> QED
  BY <1>5, <1>6, <1>7, <1>8, <1>9, <1>10 DEF Conclude, IInv, DeliveredOnce

LEMMA StutterIInv ==
  ASSUME IInv, UNCHANGED vars PROVE IInv'
<1> USE DEF vars
<1>1. TypeOK'
  BY DEF IInv, TypeOK
<1> QED
  BY <1>1 DEF IInv, DeliveredOnce, OneSender, AttemptsBounded,
     CandidatesExist, UnderWay, DeliveredIsKnown, TriedHasTemplate, Sending

LEMMA NextIInv == IInv /\ [Next]_vars => IInv'
<1> SUFFICES ASSUME IInv, [Next]_vars PROVE IInv'
  OBVIOUS
<1>1. ASSUME NEW w \in Workers, RunBatch(w) PROVE IInv'
  BY <1>1, StartBatchIInv, ReadLogsIInv, CreateRowsIInv, ReadCandidateIInv,
     NothingToClaimIInv, ReserveIInv, SendIInv, ConcludeIInv DEF RunBatch
<1> QED
  BY <1>1, LogIInv, RipenIInv, ToggleAccountIInv, ReportIInv, RestartIInv, StutterIInv
     DEF Next

\* The inductive invariant of the notification jobs.
THEOREM Invariance == Spec => []IInv
  BY InitIInv, NextIInv, PTL DEF Spec

\* Every variable keeps its type; no template's available_count gets below zero.
THEOREM TypeCorrect == Spec => []TypeOK
<1>1. IInv => TypeOK
  BY DEF IInv
<1> QED BY <1>1, Invariance, PTL

\* No resident gets two messages about one event, however many server processes run
\* the job, crash in it or are late (notification.service.ts, runBatch).
THEOREM AtMostOneDelivery == Spec => []DeliveredOnce
<1>1. IInv => DeliveredOnce
  BY DEF IInv
<1> QED BY <1>1, Invariance, PTL

\* Two processes never have a message about the same event on its way
\* (notification.repository.ts, claimNext).
THEOREM SendersExclude == Spec => []OneSender
<1>1. IInv => OneSender
  BY DEF IInv
<1> QED BY <1>1, Invariance, PTL

\* No event is tried more than NOTIFICATION_MAX_ATTEMPTS times.
THEOREM AttemptsStayBounded == Spec => []AttemptsBounded
<1>1. IInv => AttemptsBounded
  BY DEF IInv
<1> QED BY <1>1, Invariance, PTL

\* A message that may have been delivered is never queued again.
THEOREM DeliveredStaysDelivered == Spec => DeliveredStays
<1>1. IInv /\ IInv' /\ [Next]_vars =>
        [\A e \in Events : delivered[e] > 0 => outbox'[e].status \notin {"NONE", "PENDING"}]_vars
  <2> SUFFICES ASSUME IInv, IInv', [Next]_vars, NEW e \in Events, delivered[e] > 0
               PROVE  outbox'[e].status \notin {"NONE", "PENDING"}
    OBVIOUS
  <2>1. CASE UNCHANGED delivered
    BY <2>1 DEF IInv, DeliveredIsKnown
  <2>2. ASSUME NEW w \in Workers, Send(w)
        PROVE  outbox'[e].status \notin {"NONE", "PENDING"}
    BY <2>2 DEF Send, IInv, DeliveredIsKnown
  <2> QED
    BY <2>1, <2>2 DEF Next, RunBatch, Log, Ripen, ToggleAccount, Report, StartBatch,
       ReadLogs, CreateRows, ReadCandidate, NothingToClaim, Reserve, Conclude, Restart, vars
<1> QED
  BY <1>1, Invariance, PTL DEF Spec, DeliveredStays

-----------------------------------------------------------------------------
\* Grants.  GrantsSpentOnce for one template:
Covered(t) == consent[t].available + Cardinality(Reserved(t)) + Cardinality(Received(t))
                <= Cardinality(Accepted(t))

LEMMA CountsAreNat ==
  ASSUME NEW t
  PROVE  /\ IsFiniteSet(Reserved(t)) /\ Cardinality(Reserved(t)) \in Nat
         /\ IsFiniteSet(Received(t)) /\ Cardinality(Received(t)) \in Nat
         /\ IsFiniteSet(Accepted(t)) /\ Cardinality(Accepted(t)) \in Nat
         /\ IsFiniteSet(Reserved(t)') /\ Cardinality(Reserved(t)') \in Nat
         /\ IsFiniteSet(Received(t)') /\ Cardinality(Received(t)') \in Nat
         /\ IsFiniteSet(Accepted(t)') /\ Cardinality(Accepted(t)') \in Nat
<1>1. \A S \in SUBSET Workers : IsFiniteSet(S) /\ Cardinality(S) \in Nat
  BY SetsAreFinite, FS_Subset, FS_CardinalityType
<1>2. \A S \in SUBSET Events : IsFiniteSet(S) /\ Cardinality(S) \in Nat
  BY SetsAreFinite, FS_Subset, FS_CardinalityType
<1>3. \A S \in SUBSET Requests : IsFiniteSet(S) /\ Cardinality(S) \in Nat
  BY SetsAreFinite, FS_Subset, FS_CardinalityType
<1>4. Reserved(t) \in SUBSET Workers /\ Reserved(t)' \in SUBSET Workers
  BY DEF Reserved
<1>5. Received(t) \in SUBSET Events /\ Received(t)' \in SUBSET Events
  BY DEF Received
<1>6. Accepted(t) \in SUBSET Requests /\ Accepted(t)' \in SUBSET Requests
  BY DEF Accepted
<1> QED BY <1>1, <1>2, <1>3, <1>4, <1>5, <1>6

\* A step that adds to nothing but what was accepted.
LEMMA NothingSpent ==
  ASSUME NEW t \in Templates, TypeOK, TypeOK', Covered(t),
         consent'[t].available <= consent[t].available,
         Reserved(t)' \subseteq Reserved(t),
         Received(t)' \subseteq Received(t),
         Accepted(t) \subseteq Accepted(t)'
  PROVE  Covered(t)'
<1>1. Cardinality(Reserved(t)') <= Cardinality(Reserved(t))
  BY CountsAreNat, FS_Subset
<1>2. Cardinality(Received(t)') <= Cardinality(Received(t))
  BY CountsAreNat, FS_Subset
<1>3. Cardinality(Accepted(t)) <= Cardinality(Accepted(t)')
  BY CountsAreNat, FS_Subset
<1>4. consent[t].available \in Nat /\ consent'[t].available \in Nat
  BY DEF TypeOK
<1> QED BY <1>1, <1>2, <1>3, <1>4, CountsAreNat DEF Covered

LEMMA ReportCovered ==
  ASSUME IInv, IInv', NEW t \in Templates, Covered(t),
         NEW r \in Requests, NEW results \in Results, Report(r, results)
  PROVE  Covered(t)'
<1>1. /\ r \notin Accepted(t)
      /\ Accepted(t)' = IF t \in DOMAIN results /\ results[t] = "ACCEPT"
                        THEN Accepted(t) \cup {r} ELSE Accepted(t)
  <2>1. receipts[r] = <<>> /\ r \notin Accepted(t)
    BY DEF Report, FirstReport, Accepted
  <2>2. receipts'[r] = results /\ \A q \in Requests \ {r} : receipts'[q] = receipts[q]
    BY DEF Report, IInv, TypeOK
  <2>3. \A q \in Requests : q \in Accepted(t)' <=>
          \/ q \in Accepted(t)
          \/ q = r /\ t \in DOMAIN results /\ results[t] = "ACCEPT"
    BY <2>1, <2>2 DEF Accepted
  <2>4. Accepted(t) \subseteq Requests /\ Accepted(t)' \subseteq Requests
    BY DEF Accepted
  <2> QED BY <2>1, <2>3, <2>4
<1>2. Reserved(t)' = Reserved(t) /\ Received(t)' = Received(t)
  BY DEF Report, Reserved, Received, Sending, work
<1>3. consent[t].available \in Nat /\ consent'[t].available \in Nat
  BY DEF IInv, TypeOK
<1>4. CASE t \in DOMAIN results /\ results[t] = "ACCEPT"
  <2>1. consent'[t].available = consent[t].available + 1
    BY <1>4 DEF Report, Granted
  <2>2. Cardinality(Accepted(t)') = Cardinality(Accepted(t)) + 1
    BY <1>1, <1>4, CountsAreNat, FS_AddElement
  <2> QED BY <1>2, <1>3, <2>1, <2>2, CountsAreNat DEF Covered
<1>5. CASE ~(t \in DOMAIN results /\ results[t] = "ACCEPT")
  <2>1. consent'[t].available <= consent[t].available
    <3>1. CASE t \in DOMAIN results
      <4>1. results[t] \in {"REJECT", "BAN"}
        BY <1>5, <3>1 DEF Results
      <4> QED BY <1>3, <3>1, <4>1 DEF Report, Granted
    <3>2. CASE t \notin DOMAIN results
      BY <1>3, <3>2 DEF Report
    <3> QED BY <3>1, <3>2
  <2> QED BY <1>1, <1>2, <1>5, <2>1, NothingSpent DEF IInv
<1> QED BY <1>4, <1>5

LEMMA ReserveKeepsTemplates ==
  ASSUME IInv, NEW w \in Workers, Reserve(w), NEW f \in Events
  PROVE  /\ outbox'[f].template = outbox[f].template
         /\ outbox[f].status = "NONE" \/ outbox'[f].status # "NONE"
<1> DEFINE e == held[w].event
           n == outbox[e].attempts + 1
           row(s) == [outbox[e] EXCEPT !.attempts = n, !.ripe = FALSE, !.status = s]
<1>1. outbox \in [Events -> Row] /\ e \in Events /\ outbox[f] \in Row /\ outbox[e] \in Row
  BY DEF Reserve, IInv, TypeOK, CandidatesExist, Candidate
<1>2. outbox' = outbox \/ \E s \in {"SENDING", "SKIPPED"} : outbox' = [outbox EXCEPT ![e] = row(s)]
  BY DEF Reserve
<1>3. ASSUME NEW s \in {"SENDING", "SKIPPED"}
      PROVE  row(s).template = outbox[e].template /\ row(s).status = s
  <2> HIDE DEF n
  <2> QED BY <1>1 DEF Row
<1> HIDE DEF row
<1> QED BY <1>1, <1>2, <1>3

\* What Reserve takes from the grants it adds to the reserved ones.
LEMMA ReserveCovered ==
  ASSUME IInv, IInv', NEW t \in Templates, Covered(t), NEW w \in Workers, Reserve(w)
  PROVE  Covered(t)'
<1> DEFINE e == held[w].event
<1>1. /\ at[w] = "reserve" /\ held[w].template \in Templates /\ e \in Events
      /\ w \notin Reserved(t)
  BY DEF Reserve, IInv, CandidatesExist, Candidate, Reserved, Sending
<1>2. UNCHANGED <<receipts, delivered>> /\ Accepted(t)' = Accepted(t)
  BY DEF Reserve, Accepted
<1>3. \A f \in Events : outbox'[f].template = outbox[f].template
  BY ReserveKeepsTemplates
<1>4. Received(t)' = Received(t)
  BY <1>2, <1>3 DEF Received
<1>5. CASE MayReserve(e) /\ held[w].active /\ HasGrant(consent[held[w].template])
  <2>1. /\ UNCHANGED held /\ at' = [at EXCEPT ![w] = "send"]
        /\ consent' = [consent EXCEPT ![held[w].template].available = @ - 1]
        /\ outbox[e].status = "PENDING"
    BY <1>5 DEF Reserve, Goto, MayReserve, Claimable
  <2>2. delivered[e] = 0
    <3>1. delivered[e] \in Nat /\ ~(delivered[e] > 0)
      BY <1>1, <2>1 DEF IInv, TypeOK, DeliveredIsKnown
    <3> QED BY <3>1
  <2>3. at'[w] = "send" /\ \A x \in Workers \ {w} : at'[x] = at[x]
    BY <2>1 DEF IInv, TypeOK
  <2>4. consent \in [Templates -> [decision : Decisions, available : Nat]]
    BY DEF IInv, TypeOK
  <2>5. CASE held[w].template = t
    <3>1. Reserved(t)' = Reserved(t) \cup {w}
      BY <1>2, <2>1, <2>2, <2>3, <2>5 DEF Reserved, Sending
    <3>2. Cardinality(Reserved(t)') = Cardinality(Reserved(t)) + 1
      BY <1>1, <3>1, CountsAreNat, FS_AddElement
    <3>3. /\ consent'[t].available = consent[t].available - 1
          /\ consent[t].available \in Nat
      BY <2>1, <2>4, <2>5
    <3> QED BY <1>2, <1>4, <3>2, <3>3, CountsAreNat DEF Covered
  <2>6. CASE held[w].template # t
    <3>1. Reserved(t)' = Reserved(t)
      BY <1>2, <2>1, <2>3, <2>6 DEF Reserved, Sending
    <3>2. consent'[t].available = consent[t].available
      BY <2>1, <2>4, <2>6
    <3> QED BY <1>2, <1>4, <3>1, <3>2 DEF Covered
  <2> QED BY <2>5, <2>6
<1>6. CASE ~(MayReserve(e) /\ held[w].active /\ HasGrant(consent[held[w].template]))
  <2>1. UNCHANGED consent /\ \E l \in {"claim", "idle"} : at' = [at EXCEPT ![w] = l]
    BY <1>6 DEF Reserve, Goto
  <2>2. held' = [held EXCEPT ![w] = NoCandidate]
    BY <1>6 DEF Reserve, Drop
  <2>3. \A x \in Workers : Sending(x)' => Sending(x) /\ held'[x] = held[x]
    BY <2>1, <2>2 DEF Sending, IInv, TypeOK
  <2>4. Reserved(t)' \subseteq Reserved(t)
    BY <1>2, <2>3 DEF Reserved
  <2>5. consent'[t].available <= consent[t].available
    BY <2>1 DEF IInv, TypeOK
  <2> QED BY <1>2, <1>4, <2>4, <2>5, NothingSpent DEF IInv
<1> QED BY <1>5, <1>6

\* What was reserved for a message is received with it.
LEMMA SendCovered ==
  ASSUME IInv, IInv', HeldTemplates, NEW t \in Templates, Covered(t),
         NEW w \in Workers, Send(w)
  PROVE  Covered(t)'
<1> DEFINE e == held[w].event
<1>1. /\ Sending(w) /\ e \in Events /\ delivered[e] = 0
      /\ outbox[e].template = held[w].template
  BY DEF Send, IInv, UnderWay, Sending, CandidatesExist, Candidate, HeldTemplates
<1>2. UNCHANGED <<consent, receipts, outbox, held>> /\ Accepted(t)' = Accepted(t)
  BY DEF Send, Accepted
<1>3. PICK n \in {0, 1} : delivered' = [delivered EXCEPT ![e] = @ + n]
  BY DEF Send
<1>4. delivered'[e] = n /\ \A f \in Events \ {e} : delivered'[f] = delivered[f]
  BY <1>1, <1>3 DEF IInv, TypeOK
<1>5. \A x \in Workers : Sending(x)' <=> Sending(x)
  BY <1>1 DEF Send, Goto, Sending, IInv, TypeOK
<1>6. \A x \in Workers \ {w} : Sending(x) => held[x].event \in Events \ {e}
  BY <1>1 DEF IInv, OneSender, CandidatesExist, Candidate, Sending
<1>7. Reserved(t) \ {w} = Reserved(t)' \ {w}
  BY <1>2, <1>4, <1>5, <1>6 DEF Reserved
<1>8. CASE n = 1 /\ held[w].template = t
  <2>1. w \in Reserved(t) /\ Reserved(t)' = Reserved(t) \ {w}
    <3>1. w \in Reserved(t) /\ w \notin Reserved(t)'
      BY <1>1, <1>2, <1>4, <1>8 DEF Reserved
    <3> QED BY <1>7, <3>1
  <2>2. e \notin Received(t) /\ Received(t)' = Received(t) \cup {e}
    BY <1>1, <1>2, <1>4, <1>8 DEF Received
  <2>3. Cardinality(Reserved(t)') = Cardinality(Reserved(t)) - 1
    BY <2>1, CountsAreNat, FS_RemoveElement
  <2>4. Cardinality(Received(t)') = Cardinality(Received(t)) + 1
    BY <2>2, CountsAreNat, FS_AddElement
  <2>5. consent[t].available \in Nat
    BY DEF IInv, TypeOK
  <2> QED BY <1>2, <2>3, <2>4, <2>5, CountsAreNat DEF Covered
<1>9. CASE ~(n = 1 /\ held[w].template = t)
  <2>1. Received(t)' \subseteq Received(t)
    BY <1>1, <1>2, <1>3, <1>4, <1>9 DEF Received
  <2>2. Reserved(t)' \subseteq Reserved(t)
    BY <1>1, <1>2, <1>4, <1>5, <1>6 DEF Reserved
  <2>3. consent'[t].available <= consent[t].available
    BY <1>2 DEF IInv, TypeOK
  <2> QED BY <1>2, <2>1, <2>2, <2>3, NothingSpent DEF IInv
<1> QED BY <1>8, <1>9

\* A grant is put back only by the worker that reserved it, for a message that was
\* surely not delivered.
LEMMA ConcludeCovered ==
  ASSUME IInv, IInv', NEW t \in Templates, Covered(t), NEW w \in Workers, Conclude(w)
  PROVE  Covered(t)'
<1> DEFINE e == held[w].event
           u == held[w].template
<1>1. /\ Sending(w) /\ e \in Events /\ u \in Templates
      /\ reply[w] \notin {"sent", "unknown"} => delivered[e] = 0
  BY DEF Conclude, IInv, UnderWay, Sending, CandidatesExist, Candidate
<1>2. UNCHANGED <<receipts, delivered>> /\ Accepted(t)' = Accepted(t)
  BY DEF Conclude, Accepted
<1>3. Received(t)' = Received(t)
  <2>1. \A f \in Events : outbox[f] \in Row
    BY DEF IInv, TypeOK
  <2>2. \A f \in Events : outbox'[f].template = outbox[f].template
    BY <1>1, <2>1 DEF Conclude, Row, IInv, TypeOK
  <2> QED BY <1>2, <2>2 DEF Received
<1>4. \A x \in Workers : /\ x = w => ~Sending(x)'
                         /\ x # w => /\ Sending(x)' <=> Sending(x)
                                     /\ held'[x] = held[x]
  BY DEF Conclude, Drop, Goto, Sending, IInv, TypeOK
<1>5. Reserved(t)' = Reserved(t) \ {w}
  BY <1>2, <1>4 DEF Reserved
<1>6. consent \in [Templates -> [decision : Decisions, available : Nat]]
  BY DEF IInv, TypeOK
<1>7. CASE u = t /\ RestoresGrant(w)
  <2>1. w \in Reserved(t)
    BY <1>1, <1>7 DEF Reserved, RestoresGrant
  <2>2. Cardinality(Reserved(t)') = Cardinality(Reserved(t)) - 1
    BY <1>5, <2>1, CountsAreNat, FS_RemoveElement
  <2>3. reply[w] # "not_subscribed"
    BY <1>7 DEF RestoresGrant
  <2>4. consent'[t].available = consent[t].available + 1 /\ consent[t].available \in Nat
    BY <1>6, <1>7, <2>3 DEF Conclude
  <2> QED BY <1>2, <1>3, <2>2, <2>4, CountsAreNat DEF Covered
<1>8. CASE ~(u = t /\ RestoresGrant(w))
  <2>1. consent'[t].available <= consent[t].available
    BY <1>1, <1>6, <1>8 DEF Conclude
  <2> QED BY <1>2, <1>3, <1>5, <2>1, NothingSpent DEF IInv
<1> QED BY <1>7, <1>8

\* The other steps change neither the grants nor who has a message under way, except
\* that a worker may die with one.
LEMMA OthersCovered ==
  ASSUME IInv, IInv', NEW t \in Templates, Covered(t),
         UNCHANGED <<consent, receipts, delivered>>,
         \A x \in Workers : Sending(x)' => Sending(x) /\ held'[x] = held[x],
         \A e \in Events : \/ outbox'[e].template = outbox[e].template
                           \/ outbox[e].status = "NONE"
  PROVE  Covered(t)'
<1>1. Reserved(t)' \subseteq Reserved(t) /\ Accepted(t)' = Accepted(t)
  BY DEF Reserved, Accepted
<1>2. Received(t)' \subseteq Received(t)
  BY DEF Received, IInv, DeliveredIsKnown
<1>3. consent'[t].available <= consent[t].available
  BY DEF IInv, TypeOK
<1> QED BY <1>1, <1>2, <1>3, NothingSpent DEF IInv

\* A row, once it exists, never loses its template.
LEMMA RowsKeepTemplates ==
  ASSUME IInv, [Next]_vars, NEW e \in Events
  PROVE  \/ outbox[e].status = "NONE"
         \/ outbox'[e].status # "NONE" /\ outbox'[e].template = outbox[e].template
<1>1. outbox \in [Events -> Row] /\ outbox[e] \in Row
  BY DEF IInv, TypeOK
<1>2. CASE UNCHANGED outbox
  BY <1>2
<1>3. ASSUME NEW f \in Events, Ripen(f)
      PROVE  outbox'[e].status = outbox[e].status /\ outbox'[e].template = outbox[e].template
  BY <1>1, <1>3 DEF Ripen, Row
<1>4. ASSUME NEW w \in Workers, StartBatch(w)
      PROVE  \/ outbox[e].status = "NONE"
             \/ outbox'[e].status # "NONE" /\ outbox'[e].template = outbox[e].template
  BY <1>1, <1>4 DEF StartBatch, Row
<1>5. ASSUME NEW w \in Workers, CreateRows(w)
      PROVE  outbox[e].status = "NONE" \/ outbox'[e] = outbox[e]
  BY <1>5 DEF CreateRows, IsNew
<1>6. ASSUME NEW w \in Workers, Reserve(w)
      PROVE  \/ outbox[e].status = "NONE"
             \/ outbox'[e].status # "NONE" /\ outbox'[e].template = outbox[e].template
  BY <1>6, ReserveKeepsTemplates
<1>7. ASSUME NEW w \in Workers, Conclude(w)
      PROVE  \/ outbox[e].status = "NONE"
             \/ outbox'[e].status # "NONE" /\ outbox'[e].template = outbox[e].template
  BY <1>1, <1>7 DEF Conclude, ConcludedStatus, Row
<1> QED
  BY <1>2, <1>3, <1>4, <1>5, <1>6, <1>7
     DEF Next, RunBatch, Log, ToggleAccount, Report, ReadLogs, ReadCandidate,
         NothingToClaim, Send, Restart, vars

\* A worker keeps its candidate, or has just read it from its row, or has none.
LEMMA CandidatesAreRead ==
  ASSUME IInv, [Next]_vars, NEW w \in Workers,
         at'[w] \in {"reserve", "send", "conclude"}
  PROVE  \/ at[w] \in {"reserve", "send", "conclude"} /\ held'[w] = held[w]
         \/ \E e \in Events : /\ outbox[e].status = "PENDING"
                              /\ held'[w].event = e /\ held'[w].template = outbox[e].template
<1>1. at \in [Workers -> Labels] /\ held \in [Workers -> Candidate \cup {NoCandidate}]
  BY DEF IInv, TypeOK
<1>2. CASE UNCHANGED <<at, held>>
  BY <1>2
<1>3. ASSUME NEW x \in Workers, RunBatch(x)
      PROVE  \/ at[w] \in {"reserve", "send", "conclude"} /\ held'[w] = held[w]
             \/ \E e \in Events : /\ outbox[e].status = "PENDING"
                                  /\ held'[w].event = e
                                  /\ held'[w].template = outbox[e].template
  <2>1. CASE x # w
    BY <1>1, <1>3, <2>1 DEF RunBatch, StartBatch, ReadLogs, CreateRows, ReadCandidate,
       NothingToClaim, Reserve, Send, Conclude, Goto, Drop
  <2>2. CASE x = w
    <3>1. ASSUME NEW e \in Events, ReadCandidate(w, e)
          PROVE  /\ outbox[e].status = "PENDING"
                 /\ held'[w].event = e /\ held'[w].template = outbox[e].template
      BY <1>1, <3>1 DEF ReadCandidate, Claimable
    <3>2. CASE StartBatch(w) \/ CreateRows(w) \/ NothingToClaim(w) \/ Conclude(w)
      BY <1>1, <3>2 DEF StartBatch, CreateRows, NothingToClaim, Conclude, Goto
    <3>3. CASE \E S \in SUBSET Events : ReadLogs(w, S)
      BY <1>1, <3>3 DEF ReadLogs, Goto
    <3>4. CASE Reserve(w)
      BY <1>1, <3>4 DEF Reserve, Goto, Drop
    <3>5. CASE Send(w)
      BY <1>1, <3>5 DEF Send
    <3> QED BY <1>3, <2>2, <3>1, <3>2, <3>3, <3>4, <3>5 DEF RunBatch
  <2> QED BY <2>1, <2>2
<1>4. ASSUME NEW x \in Workers, NEW t \in Templates \cup {NoTemplate}, Restart(x, t)
      PROVE  at[w] \in {"reserve", "send", "conclude"} /\ held'[w] = held[w]
  BY <1>1, <1>4 DEF Restart, Goto, Drop
<1> QED
  BY <1>2, <1>3, <1>4 DEF Next, Log, Ripen, ToggleAccount, Report, work, vars

LEMMA NextHeldTemplates ==
  ASSUME IInv, IInv', HeldTemplates, [Next]_vars PROVE HeldTemplates'
<1> SUFFICES ASSUME NEW w \in Workers, at'[w] \in {"reserve", "send", "conclude"}
             PROVE  /\ outbox'[held'[w].event].status # "NONE"
                    /\ outbox'[held'[w].event].template = held'[w].template
  BY DEF HeldTemplates
<1>1. CASE at[w] \in {"reserve", "send", "conclude"} /\ held'[w] = held[w]
  <2>1. /\ held[w].event \in Events
        /\ outbox[held[w].event].status # "NONE"
        /\ outbox[held[w].event].template = held[w].template
    BY <1>1 DEF HeldTemplates, IInv, CandidatesExist, Candidate
  <2> QED BY <1>1, <2>1, RowsKeepTemplates
<1>2. ASSUME NEW e \in Events, outbox[e].status = "PENDING",
             held'[w].event = e, held'[w].template = outbox[e].template
      PROVE  /\ outbox'[held'[w].event].status # "NONE"
             /\ outbox'[held'[w].event].template = held'[w].template
  BY <1>2, RowsKeepTemplates
<1> QED BY <1>1, <1>2, CandidatesAreRead

LEMMA NextCovered ==
  ASSUME IInv, IInv', HeldTemplates, [Next]_vars, NEW t \in Templates, Covered(t)
  PROVE  Covered(t)'
<1>1. \A e \in Events : \/ outbox'[e].template = outbox[e].template
                        \/ outbox[e].status = "NONE"
  BY RowsKeepTemplates
<1>2. at \in [Workers -> Labels] /\ held \in [Workers -> Candidate \cup {NoCandidate}]
  BY DEF IInv, TypeOK
<1>3. CASE UNCHANGED <<consent, receipts, delivered, at, held>>
  BY <1>1, <1>3, OthersCovered DEF Sending
<1>4. ASSUME NEW w \in Workers,
             UNCHANGED <<consent, receipts, delivered>>,
             NEW l \in Labels \ {"send", "conclude"}, at' = [at EXCEPT ![w] = l],
             \A x \in Workers \ {w} : held'[x] = held[x]
      PROVE  Covered(t)'
  <2>1. \A x \in Workers : Sending(x)' => Sending(x) /\ held'[x] = held[x]
    BY <1>2, <1>4 DEF Sending
  <2> QED BY <1>1, <1>4, <2>1, OthersCovered
<1>5. ASSUME NEW w \in Workers, RunBatch(w) PROVE Covered(t)'
  <2>1. CASE StartBatch(w)
    BY <1>4, <2>1 DEF StartBatch, Goto
  <2>2. ASSUME NEW S \in SUBSET Events, ReadLogs(w, S) PROVE Covered(t)'
    BY <1>4, <2>2 DEF ReadLogs, Goto
  <2>3. CASE CreateRows(w)
    BY <1>4, <2>3 DEF CreateRows, Goto
  <2>4. ASSUME NEW e \in Events, ReadCandidate(w, e) PROVE Covered(t)'
    BY <1>2, <1>4, <2>4 DEF ReadCandidate, Goto
  <2>5. CASE NothingToClaim(w)
    BY <1>4, <2>5 DEF NothingToClaim, Goto
  <2> QED
    BY <1>5, <2>1, <2>2, <2>3, <2>4, <2>5, ReserveCovered, SendCovered, ConcludeCovered
       DEF RunBatch
<1>6. ASSUME NEW w \in Workers, NEW u \in Templates \cup {NoTemplate}, Restart(w, u)
      PROVE  Covered(t)'
  BY <1>2, <1>4, <1>6 DEF Restart, Goto, Drop
<1> QED
  BY <1>3, <1>5, <1>6, ReportCovered DEF Next, Log, Ripen, ToggleAccount, work, vars

LEMMA InitGrants == Init => HeldTemplates /\ GrantsSpentOnce
<1> SUFFICES ASSUME Init PROVE HeldTemplates /\ GrantsSpentOnce
  OBVIOUS
<1>1. HeldTemplates
  BY DEF Init, HeldTemplates
<1>2. ASSUME NEW t \in Templates PROVE Covered(t)
  <2>1. consent[t].available = 0 /\ Reserved(t) = {} /\ Received(t) = {}
    BY DEF Init, Reserved, Received, Sending
  <2> QED BY <2>1, CountsAreNat, FS_EmptySet DEF Covered
<1> QED BY <1>1, <1>2 DEF GrantsSpentOnce, Covered

\* A resident gives one-time consents, and each is spent on at most one message: the
\* grants left, those reserved by workers and the messages received never exceed the
\* acceptances reported (notification.repository.ts, reportConsents, claimNext and
\* completeFailure), whatever dies, is late or is repeated.
THEOREM GrantsAreSpentOnce == Spec => []GrantsSpentOnce
<1>1. /\ IInv /\ IInv' /\ HeldTemplates /\ GrantsSpentOnce /\ [Next]_vars
      => HeldTemplates' /\ GrantsSpentOnce'
  <2>1. GrantsSpentOnce <=> \A t \in Templates : Covered(t)
    BY DEF GrantsSpentOnce, Covered
  <2>2. GrantsSpentOnce' <=> \A t \in Templates : Covered(t)'
    BY DEF GrantsSpentOnce, Covered
  <2> QED BY <2>1, <2>2, NextCovered, NextHeldTemplates
<1> QED BY <1>1, InitGrants, Invariance, PTL DEF Spec
=============================================================================
