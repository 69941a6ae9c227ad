-------------------------- MODULE MCBackgroundJobs --------------------------
(***************************************************************************)
(* The two jobs of the server, for TLC.  They share nothing; a behaviour   *)
(* looks at one of them: there it moves, and its fairness holds.           *)
(***************************************************************************)
EXTENDS NotificationOutbox, ExpirySweep

CONSTANTS e1, e2, t1, r1, w1

VARIABLE looked  \* at: the outbox or the sweep

JobsInit ==
  /\ Init
  /\ \/ looked = "sweep" /\ SweepInit
     \/ /\ looked = "outbox"  \* and all orders are gone
        /\ awaiting = [o \in SweepOrders |-> "gone"] /\ stuck = {}
        /\ running = FALSE /\ batch = {} /\ stops = 0

JobsNext ==
  /\ \/ looked = "outbox" /\ Next /\ UNCHANGED sweepVars
     \/ looked = "sweep" /\ SweepNext /\ UNCHANGED vars
  /\ UNCHANGED looked

JobsSpec ==
  /\ JobsInit /\ [][JobsNext]_<<vars, sweepVars, looked>>
  /\ looked = "outbox" => Fairness
  /\ looked = "sweep" => SweepFairness
=============================================================================
