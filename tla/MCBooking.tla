----------------------------- MODULE MCBooking -----------------------------
(***************************************************************************)
(* A small instance of Booking.  Two employees, one of whom has a break    *)
(* between two shifts; a service shorter than the grid step, one longer.   *)
(* The Book requests compete for the same hours of one employee, one goes  *)
(* to the other, one asks for a service in the wrong branch.  Times are    *)
(* quarters of an hour, so a grid step is two units.                       *)
(***************************************************************************)
EXTENDS Booking, TLC

CONSTANTS e1, e2, none, b1, b2, cut, dye, r1, r2, c1, c2

Employees == {e1, e2}
Branches == {b1, b2}
Services == {cut, dye}
BranchTable == cut :> b1 @@ dye :> b1
DurationTable == cut :> 1 @@ dye :> 3
Requests == {r1, r2}
Closers == {c1, c2}

Shift(s, t) == [start |-> s, end |-> t]

Body(e, b, service, start) ==
  [employee |-> e, branch |-> b, service |-> service, start |-> start]
Bodies == { Body(e1, b1, cut, 2), Body(e1, b1, dye, 0), Body(e1, b1, dye, 2),
            Body(e2, b1, cut, 2), Body(e1, b2, cut, 2) }

Account(known, privileged, employee) ==
  [known |-> known, privileged |-> privileged, employee |-> employee]
Manager == Account(TRUE, TRUE, none)
Specialist == Account(TRUE, FALSE, e1)
Unbound == Account(TRUE, FALSE, none)

Closings ==
  [target : Requests, action : {"complete"}, caller : {Specialist, Unbound}]
  \cup [target : Requests, action : {"cancel"}, caller : {Manager}]

Rosters == { {Shift(0, 3), Shift(4, 7)} }

Windows == { Shift(0, 7), Shift(0, 2) }

\* "FreeSlots builds the grid of the specialist's free slots for a window": every
\* slot it offers, inside the window or not, is one that could be booked now.
OfferedSlotsAreFree ==
  \A window \in Window, e \in hired, service \in Service :
    \A slot \in FreeSlots(e, service, window) : Bookable(e, slot)

Symmetry == Permutations(Requests) \cup Permutations(Closers)

=============================================================================
