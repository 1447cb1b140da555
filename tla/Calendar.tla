------------------------------ MODULE Calendar ------------------------------
(***************************************************************************)
(* What booking-service promises, whatever its requests do concurrently:   *)
(* a diary in which one step reserves a period of an employee's time that  *)
(* nobody else holds, and a reservation is then closed exactly once, by    *)
(* being kept (the visit took place) or released (it was called off).      *)
(* Only a release gives the time back.                                     *)
(***************************************************************************)
EXTENDS Integers

CONSTANTS
  Id,        \* names of reservations
  Employee

VARIABLE diary     \* the entries made so far, by name

Period == [start : Nat, end : Nat]

Held == {"reserved", "kept"}
Entry == [state : Held \cup {"released"}, employee : Employee, period : Period]
Blank == [state |-> "blank"]

Clash(p, q) == p.start < q.end /\ q.start < p.end

\* e's time during p is held by nobody.
Vacant(e, p) ==
  \A id \in Id :
    diary[id].state \in Held /\ diary[id].employee = e => ~ Clash(diary[id].period, p)

Init == diary = [id \in Id |-> Blank]

\* Any entry may be made, as long as its time is vacant.
Reserve(id) ==
  LET entry == diary'[id]
  IN  /\ diary[id] = Blank
      /\ entry \in [state : {"reserved"}, employee : Employee, period : Period]
      /\ Vacant(entry.employee, entry.period)
      /\ diary' = [diary EXCEPT ![id] = entry]

Close(id, outcome) ==
  /\ diary[id].state = "reserved"
  /\ diary' = [diary EXCEPT ![id].state = outcome]

Next ==
  \E id \in Id :
    \/ Reserve(id)
    \/ Close(id, "kept")
    \/ Close(id, "released")

Spec == Init /\ [][Next]_diary

=============================================================================
