------------------------------- MODULE Slots -------------------------------
(***************************************************************************)
(* Interval arithmetic and the slot grid of booking-service                *)
(* (internal/booking/models.go and slots.go).                              *)
(*                                                                         *)
(* Time is a natural number of units; the source's unit is the nanosecond  *)
(* and its grid step is thirty minutes, here SlotStep units.  Lists of     *)
(* intervals are sets: none of the operators depends on their order, and   *)
(* BuildSlots sorts only for display.                                      *)
(***************************************************************************)
EXTENDS Integers

CONSTANT SlotStep      \* distance between two neighbouring grid starts

ASSUME SlotStepAssumption == SlotStep \in Nat \ {0}

\* Every interval, well formed or not: the code builds one before testing it.
Interval == [start : Nat, end : Nat]

Valid(i) == i.end > i.start

\* Intervals are half-open, [start, end): back to back is not an overlap.
Overlaps(i, j) == i.start < j.end /\ j.start < i.end

Contains(i, j) == i.start <= j.start /\ i.end >= j.end

OverlapsAny(candidate, intervals) ==
  \E item \in intervals : Overlaps(candidate, item)

\* A booking must lie within one shift: spanning two with a break between
\* them is not allowed.
FitsShift(shifts, wanted) == \E shift \in shifts : Contains(shift, wanted)

\* The first grid point at or after t.
AlignUp(t) ==
  LET rounded == (t \div SlotStep) * SlotStep
  IN  IF rounded < t THEN rounded + SlotStep ELSE rounded

\* The loop of BuildSlots: starts from the aligned beginning of the shift, one
\* step at a time, while the whole service still ends within the shift.
GridSlots(shift, duration) ==
  LET starts == { AlignUp(shift.start) + k * SlotStep : k \in 0 .. shift.end - shift.start }
  IN  { [start |-> s, end |-> s + duration] :
          s \in { t \in starts : t + duration <= shift.end } }

BuildSlots(shifts, duration) ==
  UNION { GridSlots(shift, duration) : shift \in shifts }

=============================================================================
