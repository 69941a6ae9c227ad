------------------------ MODULE OrderLifecycleProofs ------------------------
(* The abstract specification keeps the books: what its implementations inherit. *)
EXTENDS OrderLifecycle, TLAPS

\* The stock an order took comes back exactly when it was cancelled or refunded, and it
\* counts as sold exactly while the shop holds the money: true of every system that
\* implements OrderLifecycle (payment.repository.ts and refund.repository.ts move the
\* counters in the same transaction as the status).
THEOREM LifecycleBalanced == Spec => []Balanced
<1> USE DEF TypeOK, Balanced, Statuses, Settled
<1>1. Init => TypeOK /\ Balanced
  BY DEF Init
<1>2. TypeOK /\ Balanced /\ [Next]_vars => TypeOK' /\ Balanced'
  <2> SUFFICES ASSUME TypeOK, Balanced, [Next]_vars PROVE TypeOK' /\ Balanced'
    OBVIOUS
  <2>1. CASE Pay
    BY <2>1 DEF Pay
  <2>2. CASE Cancel
    BY <2>2 DEF Cancel
  <2>3. CASE Fulfil
    BY <2>3 DEF Fulfil, Fulfilment
  <2>4. CASE RequestRefund
    BY <2>4 DEF RequestRefund
  <2>5. CASE RejectRefund
    BY <2>5 DEF RejectRefund
  <2>6. CASE Refund
    BY <2>6 DEF Refund
  <2>7. CASE UNCHANGED vars
    BY <2>7 DEF vars
  <2> QED
    BY <2>1, <2>2, <2>3, <2>4, <2>5, <2>6, <2>7 DEF Next
<1> QED
  BY <1>1, <1>2, PTL DEF Spec
=============================================================================
