---------------------------- MODULE ExpirySweep ----------------------------
(***************************************************************************)
(* The job that closes expired orders.  A timer starts a batch unless one  *)
(* is running; a batch lists the oldest expired orders once and then tries *)
(* to close one after another, each attempt being a close of               *)
(* OrderPayment.tla, which may fail.  The process may stop at any time,    *)
(* and a new one starts with a batch.                                      *)
(*                                                                         *)
(*   SweepOrders  orders awaiting payment, numbered as they expire         *)
(*   SweepBatch   EXPIRED_ORDER_JOB_BATCH_SIZE                             *)
(*   MaxStuck     how many orders can never be closed (see OrderPayment's  *)
(*                ExpiredOrderCloses): fewer than a batch holds            *)
(*   MaxStops     how often the process stops (a bound of the model)       *)
(***************************************************************************)
EXTENDS Naturals, FiniteSets

CONSTANTS SweepOrders, SweepBatch, MaxStuck, MaxStops

ASSUME StuckLeaveRoom ==
  /\ SweepOrders \subseteq Nat /\ SweepBatch \in Nat
  /\ MaxStuck \in Nat /\ MaxStuck < SweepBatch
  /\ MaxStops \in Nat

VARIABLES
  awaiting,  \* is an order awaiting payment, expired as well, or neither any more?
  stuck,     \* the orders that can never be closed
  running,   \* the job's flag
  batch,     \* what is left of the batch
  stops      \* how often the process has stopped

sweepVars == <<awaiting, stuck, running, batch, stops>>

SweepTypeOK ==
  /\ awaiting \in [SweepOrders -> {"pending", "expired", "gone"}]
  /\ stuck \subseteq SweepOrders
  /\ running \in BOOLEAN
  /\ batch \subseteq SweepOrders
  /\ stops \in 0..MaxStops

SweepInit ==
  /\ awaiting = [o \in SweepOrders |-> "pending"]
  /\ stuck \in {S \in SUBSET SweepOrders : Cardinality(S) <= MaxStuck}
  /\ running = FALSE
  /\ batch = {}
  /\ stops = 0

\* Orders expire as they were placed; a resident may pay or cancel one that is not stuck.
ExpireNext ==
  /\ \E o \in SweepOrders :
       /\ awaiting[o] = "pending"
       /\ \A p \in SweepOrders : p < o => awaiting[p] # "pending"
       /\ awaiting' = [awaiting EXCEPT ![o] = "expired"]
  /\ UNCHANGED <<stuck, running, batch, stops>>

LeavesAwaiting ==
  /\ \E o \in SweepOrders \ stuck :
       awaiting[o] # "gone" /\ awaiting' = [awaiting EXCEPT ![o] = "gone"]
  /\ UNCHANGED <<stuck, running, batch, stops>>

Expired == {o \in SweepOrders : awaiting[o] = "expired"}
Oldest(S, n) == {o \in S : Cardinality({p \in S : p < o}) < n}

\* listExpiredOrderIds.
ListExpiredOrderIds == Oldest(Expired, SweepBatch)

\* runOnce, by the timer or at the start of a process.  A batch of none changes nothing.
StartSweep ==
  /\ ~running
  /\ Expired # {}
  /\ running' = TRUE
  /\ batch' = ListExpiredOrderIds
  /\ UNCHANGED <<awaiting, stuck, stops>>

\* The database cannot be asked: the batch ends as it begins.
ListFails ==
  /\ ~running
  /\ running' = TRUE
  /\ UNCHANGED <<awaiting, stuck, batch, stops>>

NextOf(o) == o \in batch /\ \A p \in batch : o <= p

\* closeExpired.  What is not awaiting payment any more needs no closing.
CloseExpired(o) ==
  /\ running /\ NextOf(o)
  /\ o \notin stuck
  /\ awaiting' = [awaiting EXCEPT ![o] = "gone"]
  /\ batch' = batch \ {o}
  /\ UNCHANGED <<stuck, running, stops>>

\* deferred: the next batch tries again.
DeferClose(o) ==
  /\ running /\ NextOf(o)
  /\ batch' = batch \ {o}
  /\ UNCHANGED <<awaiting, stuck, running, stops>>

MutantEndSweep ==
  /\ running /\ batch = {}
  /\ running' = (Expired \cap stuck # {})
  /\ UNCHANGED <<awaiting, stuck, batch, stops>>

\* finally.
EndSweep ==
  /\ running /\ batch = {}
  /\ running' = FALSE
  /\ UNCHANGED <<awaiting, stuck, batch, stops>>

\* The process dies, or is told to stop and leaves its batch; another one starts.
StopProcess ==
  /\ running
  /\ stops < MaxStops /\ stops' = stops + 1
  /\ running' = FALSE /\ batch' = {}
  /\ UNCHANGED <<awaiting, stuck>>

SweepNext ==
  \/ ExpireNext \/ LeavesAwaiting
  \/ StartSweep \/ ListFails \/ EndSweep \/ StopProcess
  \/ \E o \in SweepOrders : CloseExpired(o) \/ DeferClose(o)

SweepStep ==
  StartSweep \/ ListFails \/ EndSweep \/ \E o \in SweepOrders : CloseExpired(o) \/ DeferClose(o)

\* The timer keeps firing and a batch goes on; neither asking the database nor a close
\* that can succeed fails for ever.  (Stops are bounded by MaxStops.)
SweepFairness ==
  /\ WF_sweepVars(ExpireNext)
  /\ WF_sweepVars(SweepStep)
  /\ SF_sweepVars(StartSweep)
  /\ \A o \in SweepOrders : SF_sweepVars(CloseExpired(o))

----------------------------------------------------------------------------
\* Every order that can be closed leaves the orders awaiting payment, for good, even if
\* others can never be and stay at the head of every batch, as long as these are fewer
\* than a batch (order-closing.service.ts closeExpiredBatch, close-expired-orders.job.ts
\* runOnce).
SweepConcludes == <>(\A o \in SweepOrders \ stuck : awaiting[o] = "gone")
=============================================================================
