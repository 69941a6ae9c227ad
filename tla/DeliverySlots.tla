--------------------------- MODULE DeliverySlots ---------------------------
(***************************************************************************)
(* The delivery times of a store.  The back office keeps its slots and the *)
(* two modes; the confirmation page offers the slots it was given and      *)
(* seven days counted from the date in Shanghai; the order checks the      *)
(* choice against the clock of the server.  How many orders a slot takes   *)
(* is in Checkout.tla.                                                     *)
(***************************************************************************)
EXTENDS Naturals

CONSTANTS Slots, Times, LastDay

ASSUME TimesAreNumbers == Times \subseteq Nat /\ Times # {} /\ LastDay \in Nat

VARIABLES
  slot,   \* rows of delivery_slots
  modes,  \* which modes the store's row enables
  clock   \* the day and the time of day in Shanghai

slotVars == <<slot, modes, clock>>

SlotRows == [exists : BOOLEAN, delivery : Times, cutoff : Times, enabled : BOOLEAN]
EarliestTime == CHOOSE t \in Times : \A u \in Times : t <= u
NoSlotRow == [exists |-> FALSE, delivery |-> EarliestTime, cutoff |-> EarliestTime,
              enabled |-> FALSE]

SlotsTypeOK ==
  /\ slot \in [Slots -> SlotRows]
  /\ modes \in [asap : BOOLEAN, scheduled : BOOLEAN]
  /\ modes.asap \/ modes.scheduled
  /\ \A s \in Slots : slot[s].exists => slot[s].cutoff < slot[s].delivery
  /\ clock \in [day : 0..LastDay, time : Times]

SlotsInit ==
  /\ slot = [s \in Slots |-> NoSlotRow]
  /\ modes = [asap |-> TRUE, scheduled |-> FALSE]
  /\ clock = [day |-> 0, time |-> EarliestTime]

\* The unique key of a store and a delivery time.
Untaken(s, t) == \A o \in Slots \ {s} : slot[o].exists => slot[o].delivery # t

CreateSlot(s) ==
  /\ ~slot[s].exists
  /\ \E t, cut \in Times, on \in BOOLEAN :
       /\ cut < t /\ Untaken(s, t)
       /\ slot' = [slot EXCEPT ![s] = [exists |-> TRUE, delivery |-> t, cutoff |-> cut,
                                       enabled |-> on]]
  /\ UNCHANGED <<modes, clock>>

UpdateSlot(s) ==
  /\ slot[s].exists
  /\ \E t, cut \in Times, on \in BOOLEAN :
       /\ cut < t /\ Untaken(s, t)
       /\ slot' = [slot EXCEPT ![s] = [exists |-> TRUE, delivery |-> t, cutoff |-> cut,
                                       enabled |-> on]]
  /\ UNCHANGED <<modes, clock>>

UpdateSlotStatus(s) ==
  /\ slot[s].exists
  /\ \E on \in BOOLEAN : slot' = [slot EXCEPT ![s].enabled = on]
  /\ UNCHANGED <<modes, clock>>

UpdateModes ==
  /\ modes' \in {m \in [asap : BOOLEAN, scheduled : BOOLEAN] : m.asap \/ m.scheduled}
  /\ UNCHANGED <<slot, clock>>

Later(t) == \E u \in Times : u > t

ClockMoves ==
  /\ clock' \in IF Later(clock.time)
                THEN {[clock EXCEPT !.time = u] : u \in {u \in Times : u > clock.time}}
                ELSE {[day |-> d, time |-> EarliestTime] :
                        d \in {clock.day + 1} \cap 0..LastDay}
  /\ UNCHANGED <<slot, modes>>

SlotsNext ==
  \/ \E s \in Slots : CreateSlot(s) \/ UpdateSlot(s) \/ UpdateSlotStatus(s)
  \/ UpdateModes
  \/ ClockMoves

(***************************************************************************)
(* The page and the order                                                  *)
(***************************************************************************)
DateOptions == clock.day .. clock.day + 6
SlotOptions == {s \in Slots : slot[s].exists /\ slot[s].enabled}

MutantAcceptsTime(d, s) ==
  /\ modes.scheduled
  /\ d >= clock.day /\ d < clock.day + 6
  /\ slot[s].exists /\ slot[s].enabled
  /\ ~(d = clock.day /\ clock.time >= slot[s].cutoff)

AcceptsTime(d, s) ==
  /\ modes.scheduled
  /\ d >= clock.day /\ d <= clock.day + 6
  /\ slot[s].exists /\ slot[s].enabled
  /\ ~(d = clock.day /\ clock.time >= slot[s].cutoff)

CutOff(d, s) == d = clock.day /\ clock.time >= slot[s].cutoff
=============================================================================
