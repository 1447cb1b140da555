--------------------------- MODULE BookingProofs ---------------------------
(***************************************************************************)
(* Theorems about Booking, for any employees, services, shifts, arguments  *)
(* and any number of concurrent requests.                                  *)
(***************************************************************************)
EXTENDS Booking, TLAPS

\* The period a request asks for is an interval of the right length.
LEMMA WantedType ==
  ASSUME TypeOK, NEW r \in BookRequest
  PROVE  /\ args[r] \in [employee : Employee, branch : Branch,
                         service : Service, start : Nat]
         /\ Duration[args[r].service] \in Nat
         /\ Wanted(r) \in Interval
         /\ Wanted(r).end - Wanted(r).start = Duration[args[r].service]
<1>1. args[r] \in [employee : Employee, branch : Branch, service : Service, start : Nat]
  BY BookingAssumption DEF TypeOK
<1>2. Duration[args[r].service] \in Nat
  BY <1>1, BookingAssumption
<1>. QED
  BY <1>1, <1>2 DEF Wanted, Interval

\* The arguments of a Complete or Cancel request are well formed.
LEMMA ClosingType ==
  ASSUME TypeOK, NEW c \in CloseRequest
  PROVE  /\ closing[c].target \in BookRequest
         /\ closing[c].action \in {"complete", "cancel"}
  BY BookingAssumption DEF TypeOK

\* A row that is scheduled, completed or cancelled is a row of the table.
LEMMA RowType ==
  ASSUME TypeOK, NEW r \in BookRequest
  PROVE  /\ appointments[r] # NoRow <=> appointments[r] \in Row
         /\ appointments[r] # NoRow <=> appointments[r].status # "absent"
         /\ appointments[r].status \in Active => appointments[r] \in Row
         /\ appointments[r] \in Row => PeriodOf(appointments[r]) \in Interval
  BY DEF TypeOK, Row, NoRow, Active, PeriodOf, Interval

\* Sending changes at most one counter, by one.
LEMMA SendEffect ==
  ASSUME TypeOK, NEW r \in BookRequest, NEW kind \in Message, Send(kind, r)
  PROVE  /\ announced' \in [BookRequest -> [Message -> Nat]]
         /\ \A q \in BookRequest, k \in Message :
              \/ announced'[q][k] = announced[q][k]
              \/ q = r /\ k = kind /\ announced'[q][k] = announced[q][k] + 1
<1>1. CASE UNCHANGED announced
  BY <1>1 DEF TypeOK
<1>2. CASE announced' = [announced EXCEPT ![r][kind] = @ + 1]
  <2>1. announced[r] \in [Message -> Nat]
    BY DEF TypeOK
  <2>2. [announced[r] EXCEPT ![kind] = @ + 1] \in [Message -> Nat]
    BY <2>1
  <2>3. announced' = [announced EXCEPT ![r] = [announced[r] EXCEPT ![kind] = @ + 1]]
    BY <1>2
  <2>. QED
    BY <2>1, <2>2, <2>3 DEF TypeOK
<1>. QED
  BY <1>1, <1>2 DEF Send

\* A row's period determines its two columns.
LEMMA PeriodColumns ==
  ASSUME NEW x, NEW y, PeriodOf(x) = PeriodOf(y)
  PROVE  x.start = y.start /\ x.end = y.end
<1>1. PeriodOf(x).start = PeriodOf(y).start /\ PeriodOf(x).end = PeriodOf(y).end
  OBVIOUS
<1>. QED
  BY <1>1 DEF PeriodOf

LEMMA TypeInitial == Init => TypeOK
<1>. SUFFICES ASSUME Init PROVE TypeOK
  OBVIOUS
<1>1. pc \in [BookRequest \cup CloseRequest -> BookStage \cup CloseStage]
  BY DEF Init, BookStage
<1>2. announced \in [BookRequest -> [Message -> Nat]]
  BY DEF Init
<1>. QED
  BY <1>1, <1>2 DEF Init, TypeOK

LEMMA TypeStep == TypeOK /\ [Next]_vars => TypeOK'
<1>. SUFFICES ASSUME TypeOK, [Next]_vars PROVE TypeOK'
  OBVIOUS
<1>. USE DEF TypeOK, BookStage, CloseStage
<1>1. ASSUME NEW r \in BookRequest, Quote(r) PROVE TypeOK'
  BY <1>1 DEF Quote
<1>2. ASSUME NEW r \in BookRequest, CheckShift(r) PROVE TypeOK'
  BY <1>2 DEF CheckShift
<1>3. ASSUME NEW r \in BookRequest, RefuseBook(r) PROVE TypeOK'
  BY <1>3 DEF RefuseBook
<1>4. ASSUME NEW r \in BookRequest, LoseSlot(r) PROVE TypeOK'
  BY <1>4 DEF LoseSlot
<1>5. ASSUME NEW r \in BookRequest, NEW answered \in BOOLEAN, Insert(r, answered)
      PROVE  TypeOK'
  <2>1. [status |-> "scheduled", employee |-> args[r].employee,
         branch |-> args[r].branch, service |-> args[r].service,
         start |-> Wanted(r).start, end |-> Wanted(r).end] \in Row
    BY WantedType DEF Row, Active, Interval
  <2>2. pc' \in [BookRequest \cup CloseRequest -> BookStage \cup CloseStage]
    BY <1>5 DEF Insert
  <2>. QED
    BY <1>5, <2>1, <2>2 DEF Insert
<1>6. ASSUME NEW r \in BookRequest, AnnounceBooked(r) PROVE TypeOK'
  BY <1>6, SendEffect DEF AnnounceBooked, Message
<1>7. ASSUME NEW r \in BookRequest, ShowTaken(r) PROVE TypeOK'
  BY <1>7, SendEffect DEF ShowTaken, Message
<1>8. ASSUME NEW c \in CloseRequest, CheckOwner(c) PROVE TypeOK'
  BY <1>8 DEF CheckOwner
<1>9. ASSUME NEW c \in CloseRequest, NEW answered \in BOOLEAN, SetStatus(c, answered)
      PROVE  TypeOK'
  <2>. DEFINE t == closing[c].target
              s == IF closing[c].action = "complete" THEN "completed" ELSE "cancelled"
  <2>1. t \in BookRequest /\ appointments[t] \in Row
    BY <1>9, ClosingType, RowType DEF SetStatus, UpdateStatus, Active
  <2>2. [appointments[t] EXCEPT !.status = s] \in Row
    BY <2>1 DEF Row, Active
  <2>3. appointments' = [appointments EXCEPT ![t] = [appointments[t] EXCEPT !.status = s]]
    BY <1>9 DEF SetStatus, UpdateStatus
  <2>4. appointments' \in [BookRequest -> Row \cup {NoRow}]
    BY <2>1, <2>2, <2>3
  <2>5. pc' \in [BookRequest \cup CloseRequest -> BookStage \cup CloseStage]
    BY <1>9 DEF SetStatus, UpdateStatus
  <2>. QED
    BY <1>9, <2>4, <2>5 DEF SetStatus, UpdateStatus
<1>10. ASSUME NEW c \in CloseRequest, RefuseClose(c) PROVE TypeOK'
  BY <1>10 DEF RefuseClose
<1>11. ASSUME NEW c \in CloseRequest, AnnounceCompleted(c) PROVE TypeOK'
  BY <1>11, ClosingType, SendEffect DEF AnnounceCompleted, Message
<1>12. ASSUME NEW c \in CloseRequest, AnnounceCancelled(c) PROVE TypeOK'
  BY <1>12, ClosingType, SendEffect DEF AnnounceCancelled, Message
<1>13. ASSUME NEW c \in CloseRequest, ShowFreed(c) PROVE TypeOK'
  BY <1>13, ClosingType, SendEffect DEF ShowFreed, Message
<1>14. ASSUME NEW e \in Employee, NEW roster \in Roster, Hire(e, roster) PROVE TypeOK'
  BY <1>14, BookingAssumption DEF Hire
<1>15. CASE Crash
  BY <1>15 DEF Crash
<1>16. CASE UNCHANGED vars
  BY <1>16 DEF vars
<1>. QED
  BY <1>1, <1>2, <1>3, <1>4, <1>5, <1>6, <1>7, <1>8, <1>9, <1>10, <1>11, <1>12,
     <1>13, <1>14, <1>15, <1>16 DEF Next, Book, CloseAppointment

\* Every variable of booking-service keeps its type in every behaviour.
THEOREM TypeCorrect == Spec => []TypeOK
  BY TypeInitial, TypeStep, PTL DEF Spec

-----------------------------------------------------------------------------
(* Which steps write what.                                                 *)

\* Only an INSERT or a conditional UPDATE changes the table.
LEMMA TableStep ==
  ASSUME [Next]_vars
  PROVE  \/ UNCHANGED appointments
         \/ \E r \in BookRequest, answered \in BOOLEAN : Insert(r, answered)
         \/ \E c \in CloseRequest, answered \in BOOLEAN : SetStatus(c, answered)
  BY DEF Next, vars, Book, CloseAppointment, Quote, CheckShift, RefuseBook, LoseSlot,
     AnnounceBooked, ShowTaken, CheckOwner, RefuseClose, AnnounceCompleted,
     AnnounceCancelled, ShowFreed, Hire, Crash

\* Only hiring changes what core-service knows.
LEMMA RosterStep ==
  ASSUME [Next]_vars
  PROVE  \/ UNCHANGED <<shifts, hired>>
         \/ \E e \in Employee, roster \in Roster : Hire(e, roster)
  BY DEF Next, vars, Book, CloseAppointment, Quote, CheckShift, RefuseBook, LoseSlot,
     Insert, SetStatus, UpdateStatus, AnnounceBooked, ShowTaken, CheckOwner, RefuseClose,
     AnnounceCompleted, AnnounceCancelled, ShowFreed, Crash

\* Hiring leaves everybody already on record as they were.
LEMMA HireEffect ==
  ASSUME TypeOK, NEW e \in Employee, NEW roster \in Roster, Hire(e, roster),
         NEW o \in hired
  PROVE  o \in hired' /\ shifts'[o] = shifts[o]
<1>1. o # e /\ o \in Employee
  BY DEF Hire, TypeOK
<1>. QED
  BY <1>1 DEF Hire, TypeOK

\* The bodies of the requests never change.
LEMMA ArgumentsFixed ==
  ASSUME [Next]_vars
  PROVE  UNCHANGED <<args, closing>>
  BY DEF Next, vars, Book, CloseAppointment, Quote, CheckShift, RefuseBook, LoseSlot,
     Insert, SetStatus, UpdateStatus, AnnounceBooked, ShowTaken, CheckOwner, RefuseClose,
     AnnounceCompleted, AnnounceCancelled, ShowFreed, Hire, Crash

\* An INSERT adds the wanted row and leaves the others alone.
LEMMA InsertEffect ==
  ASSUME TypeOK, NEW r \in BookRequest, NEW answered \in BOOLEAN, Insert(r, answered)
  PROVE  /\ appointments'[r].status = "scheduled"
         /\ appointments'[r].employee = args[r].employee
         /\ appointments'[r].branch = args[r].branch
         /\ appointments'[r].service = args[r].service
         /\ appointments'[r].start = Wanted(r).start
         /\ appointments'[r].end = Wanted(r).end
         /\ PeriodOf(appointments'[r]) = Wanted(r)
         /\ appointments'[r] \in Row
         /\ \A q \in BookRequest \ {r} : appointments'[q] = appointments[q]
  BY WantedType DEF Insert, TypeOK, PeriodOf, Interval, Wanted, Row, Active

\* An UPDATE closes a scheduled row and changes nothing else in the table.
LEMMA SetStatusEffect ==
  ASSUME TypeOK, NEW c \in CloseRequest, NEW answered \in BOOLEAN, SetStatus(c, answered)
  PROVE  LET t == closing[c].target
         IN  /\ t \in BookRequest
             /\ appointments[t].status = "scheduled"
             /\ appointments[t] \in Row
             /\ appointments'[t] \in Row
             /\ appointments'[t].status =
                  IF closing[c].action = "complete" THEN "completed" ELSE "cancelled"
             /\ appointments'[t] = [appointments[t] EXCEPT !.status = appointments'[t].status]
             /\ appointments'[t].employee = appointments[t].employee
             /\ appointments'[t].branch = appointments[t].branch
             /\ appointments'[t].service = appointments[t].service
             /\ appointments'[t].start = appointments[t].start
             /\ appointments'[t].end = appointments[t].end
             /\ PeriodOf(appointments'[t]) = PeriodOf(appointments[t])
             /\ \A q \in BookRequest \ {t} : appointments'[q] = appointments[q]
<1>. DEFINE t == closing[c].target
            s == IF closing[c].action = "complete" THEN "completed" ELSE "cancelled"
<1>1. t \in BookRequest /\ appointments[t].status = "scheduled" /\ appointments[t] \in Row
  BY ClosingType, RowType DEF SetStatus, UpdateStatus, Active
<1>2. appointments' = [appointments EXCEPT ![t] = [appointments[t] EXCEPT !.status = s]]
  BY DEF SetStatus, UpdateStatus
<1>3. appointments'[t] = [appointments[t] EXCEPT !.status = s]
  BY <1>1, <1>2 DEF TypeOK
<1>4. \A q \in BookRequest \ {t} : appointments'[q] = appointments[q]
  BY <1>1, <1>2 DEF TypeOK
<1>5. appointments'[t] \in Row /\ appointments'[t].status = s
  BY <1>1, <1>3 DEF Row, Active
<1>. QED
  BY <1>1, <1>3, <1>4, <1>5 DEF Row, PeriodOf

\* Every row keeps its columns, the status apart, and never disappears.
LEMMA RowsKept ==
  ASSUME TypeOK, BookStages, [Next]_vars, NEW r \in BookRequest, appointments[r] # NoRow
  PROVE  /\ appointments'[r] # NoRow
         /\ appointments'[r].employee = appointments[r].employee
         /\ appointments'[r].branch = appointments[r].branch
         /\ appointments'[r].service = appointments[r].service
         /\ PeriodOf(appointments'[r]) = PeriodOf(appointments[r])
         /\ appointments[r].status # "scheduled" => appointments'[r] = appointments[r]
         /\ appointments'[r].status \in Active => appointments[r].status \in Active
         /\ \/ appointments'[r] = appointments[r]
            \/ /\ appointments[r].status = "scheduled"
               /\ appointments'[r].status \in {"completed", "cancelled"}
               /\ appointments'[r] = [appointments[r] EXCEPT
                                        !.status = appointments'[r].status]
<1>1. CASE UNCHANGED appointments
  BY <1>1
<1>2. ASSUME NEW q \in BookRequest, NEW answered \in BOOLEAN, Insert(q, answered)
      PROVE  appointments'[r] = appointments[r]
  BY <1>2, InsertEffect DEF Insert, BookStages, BookerKnows
<1>3. ASSUME NEW c \in CloseRequest, NEW answered \in BOOLEAN, SetStatus(c, answered),
             closing[c].target = r
      PROVE  /\ appointments'[r] # NoRow
             /\ appointments'[r].employee = appointments[r].employee
             /\ appointments'[r].branch = appointments[r].branch
             /\ appointments'[r].service = appointments[r].service
             /\ PeriodOf(appointments'[r]) = PeriodOf(appointments[r])
             /\ appointments[r].status = "scheduled"
             /\ appointments'[r].status \in {"completed", "cancelled"}
             /\ appointments'[r] = [appointments[r] EXCEPT !.status = appointments'[r].status]
  BY <1>3, SetStatusEffect DEF NoRow, Row
<1>4. ASSUME NEW c \in CloseRequest, NEW answered \in BOOLEAN, SetStatus(c, answered),
             closing[c].target # r
      PROVE  appointments'[r] = appointments[r]
  BY <1>4, SetStatusEffect
<1>. QED
  BY <1>1, <1>2, <1>3, <1>4, TableStep DEF Active

-----------------------------------------------------------------------------
(* The invariant, one conjunct at a time.                                  *)

LEMMA NoDoubleBookingStep == IInv /\ [Next]_vars => NoDoubleBooking'
<1>. SUFFICES ASSUME IInv, [Next]_vars,
                     NEW r \in BookRequest, NEW q \in BookRequest, r # q,
                     appointments'[r].status \in Active,
                     appointments'[q].status \in Active,
                     appointments'[r].employee = appointments'[q].employee
              PROVE  ~ Overlaps(PeriodOf(appointments'[r]), PeriodOf(appointments'[q]))
  BY DEF NoDoubleBooking
<1>. USE DEF IInv
<1>1. ASSUME NEW p \in BookRequest, NEW answered \in BOOLEAN, Insert(p, answered)
      PROVE  ~ Overlaps(PeriodOf(appointments'[r]), PeriodOf(appointments'[q]))
  <2>1. \A o \in BookRequest :
           /\ appointments[o].status \in Active
           /\ appointments[o].employee = args[p].employee
           => ~ Overlaps(PeriodOf(appointments[o]), Wanted(p))
    BY <1>1 DEF Insert, Collides
  <2>2. CASE p = r
    BY <1>1, <2>1, <2>2, InsertEffect DEF Overlaps
  <2>3. CASE p = q
    BY <1>1, <2>1, <2>3, InsertEffect DEF Overlaps
  <2>4. CASE p # r /\ p # q
    BY <1>1, <2>4, InsertEffect DEF NoDoubleBooking
  <2>. QED
    BY <2>2, <2>3, <2>4
<1>2. CASE \A p \in BookRequest, answered \in BOOLEAN : ~ Insert(p, answered)
  <2>1. appointments[r] # NoRow /\ appointments[q] # NoRow
    BY <1>2, TableStep, RowType, SetStatusEffect DEF Row, Active, NoRow
  <2>. QED
    BY <2>1, RowsKept DEF NoDoubleBooking
<1>. QED
  BY <1>1, <1>2

LEMMA BookedWithinShiftStep == IInv /\ [Next]_vars => BookedWithinShift'
<1>. SUFFICES ASSUME IInv, [Next]_vars, NEW r \in BookRequest, appointments'[r] # NoRow
              PROVE  LET row == appointments'[r]
                     IN  /\ row.employee \in hired'
                         /\ FitsShift(shifts'[row.employee], PeriodOf(row))
                         /\ row.branch = BranchOf[row.service]
                         /\ row.end - row.start = Duration[row.service]
                         /\ Valid(PeriodOf(row))
  BY DEF BookedWithinShift
<1>. USE DEF IInv
<1>1. CASE appointments[r] # NoRow
  <2>1. /\ appointments[r].employee \in hired
        /\ FitsShift(shifts[appointments[r].employee], PeriodOf(appointments[r]))
        /\ appointments[r].branch = BranchOf[appointments[r].service]
        /\ appointments[r].end - appointments[r].start = Duration[appointments[r].service]
        /\ Valid(PeriodOf(appointments[r]))
    BY <1>1 DEF BookedWithinShift
  <2>2. /\ appointments[r].employee \in hired'
        /\ shifts'[appointments[r].employee] = shifts[appointments[r].employee]
    <3>1. CASE UNCHANGED <<shifts, hired>>
      BY <2>1, <3>1
    <3>2. ASSUME NEW e \in Employee, NEW roster \in Roster, Hire(e, roster)
          PROVE  /\ appointments[r].employee \in hired'
                 /\ shifts'[appointments[r].employee] = shifts[appointments[r].employee]
      BY <2>1, <3>2, HireEffect
    <3>. QED
      BY <3>1, <3>2, RosterStep
  <2>. QED
    <3>1. /\ appointments'[r].employee = appointments[r].employee
          /\ appointments'[r].branch = appointments[r].branch
          /\ appointments'[r].service = appointments[r].service
          /\ PeriodOf(appointments'[r]) = PeriodOf(appointments[r])
      BY <1>1, RowsKept
    <3>2. /\ appointments'[r].start = appointments[r].start
          /\ appointments'[r].end = appointments[r].end
      BY <3>1, PeriodColumns
    <3>. QED
      BY <2>1, <2>2, <3>1, <3>2
<1>2. CASE appointments[r] = NoRow
  <2>1. PICK answered \in BOOLEAN : Insert(r, answered)
    <3>1. ASSUME NEW q \in BookRequest, NEW answered \in BOOLEAN, Insert(q, answered),
                 q # r
          PROVE  FALSE
      BY <1>2, <3>1, InsertEffect
    <3>2. ASSUME NEW c \in CloseRequest, NEW answered \in BOOLEAN, SetStatus(c, answered)
          PROVE  FALSE
      <4>1. appointments[r].status = "absent"
        BY <1>2, RowType
      <4>2. closing[c].target # r
        BY <3>2, <4>1, SetStatusEffect
      <4>. QED
        BY <1>2, <3>2, <4>2, SetStatusEffect
    <3>. QED
      BY <1>2, <3>1, <3>2, TableStep
  <2>2. /\ args[r].employee \in hired
        /\ FitsShift(shifts[args[r].employee], Wanted(r))
        /\ UNCHANGED <<shifts, hired>>
    BY <2>1 DEF Insert, BookStages, BookerKnows
  <2>3. Valid(Wanted(r)) /\ BranchOf[args[r].service] = args[r].branch
    BY <2>1 DEF Insert, BookStages, BookerKnows
  <2>. QED
    <3>1. /\ appointments'[r].employee = args[r].employee
          /\ appointments'[r].branch = args[r].branch
          /\ appointments'[r].service = args[r].service
          /\ appointments'[r].start = Wanted(r).start
          /\ appointments'[r].end = Wanted(r).end
          /\ PeriodOf(appointments'[r]) = Wanted(r)
      BY <2>1, InsertEffect
    <3>2. Wanted(r).end - Wanted(r).start = Duration[args[r].service]
      BY WantedType
    <3>. QED
      BY <2>2, <2>3, <3>1, <3>2
<1>. QED
  BY <1>1, <1>2

\* A message is sent for the first time, by a step that leaves the table alone,
\* and the table bears it out.
LEMMA FirstSending ==
  ASSUME IInv, [Next]_vars, NEW r \in BookRequest, NEW k \in Message,
         announced'[r][k] # announced[r][k]
  PROVE  /\ announced[r][k] = 0
         /\ announced'[r][k] = 1
         /\ UNCHANGED appointments
         /\ k \in {"created", "slot_taken"} => appointments[r] # NoRow
         /\ k = "completed" => appointments[r].status = "completed"
         /\ k \in {"cancelled", "slot_freed"} => appointments[r].status = "cancelled"
<1>. USE DEF IInv
<1>1. CASE UNCHANGED announced
  BY <1>1
<1>2. CASE \E q \in BookRequest : AnnounceBooked(q)
  BY <1>2, SendEffect DEF AnnounceBooked, Message, BookStages, BookerKnows
<1>3. CASE \E q \in BookRequest : ShowTaken(q)
  BY <1>3, SendEffect DEF ShowTaken, Message, BookStages, BookerKnows
<1>4. CASE \E c \in CloseRequest : AnnounceCompleted(c)
  BY <1>4, SendEffect, ClosingType DEF AnnounceCompleted, Message, CloseStages, CloserHolds, Stored
<1>5. CASE \E c \in CloseRequest : AnnounceCancelled(c)
  BY <1>5, SendEffect, ClosingType DEF AnnounceCancelled, Message, CloseStages, CloserHolds, Stored
<1>6. CASE \E c \in CloseRequest : ShowFreed(c)
  <2>1. PICK c \in CloseRequest : ShowFreed(c)
    BY <1>6
  <2>. QED
    BY <2>1, SendEffect, ClosingType DEF ShowFreed, Message, CloseStages, CloserHolds, Stored
<1>. QED
  BY <1>1, <1>2, <1>3, <1>4, <1>5, <1>6
  DEF Next, vars, Book, CloseAppointment, Quote, CheckShift, RefuseBook, LoseSlot,
      Insert, SetStatus, UpdateStatus, CheckOwner, RefuseClose, Hire, Crash

LEMMA AnnouncementsStep == IInv /\ [Next]_vars => AnnouncementsAreTrue'
<1>. SUFFICES ASSUME IInv, [Next]_vars, NEW r \in BookRequest, NEW k \in Message
              PROVE  /\ announced'[r][k] <= 1
                     /\ k \in {"created", "slot_taken"} /\ announced'[r][k] > 0
                        => appointments'[r] # NoRow
                     /\ k = "completed" /\ announced'[r][k] > 0
                        => appointments'[r].status = "completed"
                     /\ k \in {"cancelled", "slot_freed"} /\ announced'[r][k] > 0
                        => appointments'[r].status = "cancelled"
  BY DEF AnnouncementsAreTrue, Message
<1>1. CASE announced'[r][k] # announced[r][k]
  BY <1>1, FirstSending
<1>2. CASE announced'[r][k] = announced[r][k]
  <2>1. /\ announced[r][k] <= 1
        /\ k \in {"created", "slot_taken"} /\ announced[r][k] > 0
           => appointments[r] # NoRow
        /\ k = "completed" /\ announced[r][k] > 0
           => appointments[r].status = "completed"
        /\ k \in {"cancelled", "slot_freed"} /\ announced[r][k] > 0
           => appointments[r].status = "cancelled"
    BY DEF IInv, AnnouncementsAreTrue
  <2>2. appointments[r] # NoRow => appointments'[r] # NoRow
    BY RowsKept DEF IInv
  <2>3. appointments[r].status \in {"completed", "cancelled"} =>
          appointments'[r].status = appointments[r].status
    BY RowsKept, RowType DEF IInv
  <2>. QED
    BY <1>2, <2>1, <2>2, <2>3
<1>. QED
  BY <1>1, <1>2

-----------------------------------------------------------------------------
(* What one step does to one handler.                                      *)

\* A handler moves by its own steps or with a crash.
LEMMA BookerMoves ==
  ASSUME TypeOK, [Next]_vars, NEW r \in BookRequest
  PROVE  pc'[r] = pc[r] \/ pc'[r] = "crashed" \/ Book(r)
<1>1. ASSUME NEW q \in BookRequest, Book(q), q # r PROVE pc'[r] = pc[r]
  BY <1>1 DEF TypeOK, Book, Quote, CheckShift, RefuseBook, LoseSlot, Insert,
     AnnounceBooked, ShowTaken
<1>2. ASSUME NEW c \in CloseRequest, CloseAppointment(c) PROVE pc'[r] = pc[r]
  <2>1. c # r
    BY BookingAssumption
  <2>. QED
    BY <1>2, <2>1 DEF TypeOK, CloseAppointment, CheckOwner, RefuseClose, SetStatus, UpdateStatus,
       AnnounceCompleted, AnnounceCancelled, ShowFreed
<1>3. CASE Crash
  BY <1>3 DEF Crash, TypeOK
<1>. QED
  BY <1>1, <1>2, <1>3 DEF Next, vars, Hire

LEMMA CloserMoves ==
  ASSUME TypeOK, [Next]_vars, NEW c \in CloseRequest
  PROVE  pc'[c] = pc[c] \/ pc'[c] = "crashed" \/ CloseAppointment(c)
<1>1. ASSUME NEW d \in CloseRequest, CloseAppointment(d), d # c PROVE pc'[c] = pc[c]
  BY <1>1 DEF TypeOK, CloseAppointment, CheckOwner, RefuseClose, SetStatus, UpdateStatus,
     AnnounceCompleted, AnnounceCancelled, ShowFreed
<1>2. ASSUME NEW r \in BookRequest, Book(r) PROVE pc'[c] = pc[c]
  <2>1. r # c
    BY BookingAssumption
  <2>. QED
    BY <1>2, <2>1 DEF TypeOK, Book, Quote, CheckShift, RefuseBook, LoseSlot, Insert,
       AnnounceBooked, ShowTaken
<1>3. CASE Crash
  BY <1>3 DEF Crash, TypeOK
<1>. QED
  BY <1>1, <1>2, <1>3 DEF Next, vars, Hire

\* A message about r is counted only in the step that sends it.
LEMMA Sender ==
  ASSUME TypeOK, [Next]_vars, NEW r \in BookRequest, NEW k \in Message,
         announced'[r][k] # announced[r][k]
  PROVE  \/ k = "created" /\ AnnounceBooked(r)
         \/ k = "slot_taken" /\ ShowTaken(r)
         \/ \E c \in CloseRequest :
              /\ closing[c].target = r
              /\ \/ k = "completed" /\ AnnounceCompleted(c)
                 \/ k = "cancelled" /\ AnnounceCancelled(c)
                 \/ k = "slot_freed" /\ ShowFreed(c)
<1>1. ASSUME NEW q \in BookRequest, AnnounceBooked(q) PROVE q = r /\ k = "created"
  BY <1>1, SendEffect DEF AnnounceBooked, Message
<1>2. ASSUME NEW q \in BookRequest, ShowTaken(q) PROVE q = r /\ k = "slot_taken"
  BY <1>2, SendEffect DEF ShowTaken, Message
<1>3. ASSUME NEW c \in CloseRequest, AnnounceCompleted(c)
      PROVE  closing[c].target = r /\ k = "completed"
  BY <1>3, SendEffect, ClosingType DEF AnnounceCompleted, Message
<1>4. ASSUME NEW c \in CloseRequest, AnnounceCancelled(c)
      PROVE  closing[c].target = r /\ k = "cancelled"
  BY <1>4, SendEffect, ClosingType DEF AnnounceCancelled, Message
<1>5. ASSUME NEW c \in CloseRequest, ShowFreed(c)
      PROVE  closing[c].target = r /\ k = "slot_freed"
  BY <1>5, SendEffect, ClosingType DEF ShowFreed, Message
<1>6. \/ \E q \in BookRequest : AnnounceBooked(q) \/ ShowTaken(q)
      \/ \E c \in CloseRequest :
           AnnounceCompleted(c) \/ AnnounceCancelled(c) \/ ShowFreed(c)
  BY DEF Next, vars, Book, CloseAppointment, Quote, CheckShift, RefuseBook, LoseSlot,
     Insert, SetStatus, UpdateStatus, CheckOwner, RefuseClose, Hire, Crash
<1>. QED
  BY <1>1, <1>2, <1>3, <1>4, <1>5, <1>6

\* A row appears only by its own INSERT.
LEMMA RowAppears ==
  ASSUME TypeOK, [Next]_vars, NEW r \in BookRequest,
         appointments[r] = NoRow, appointments'[r] # NoRow
  PROVE  \E answered \in BOOLEAN : Insert(r, answered)
<1>1. ASSUME NEW q \in BookRequest, NEW answered \in BOOLEAN, Insert(q, answered), q # r
      PROVE  FALSE
  BY <1>1, InsertEffect
<1>2. ASSUME NEW c \in CloseRequest, NEW answered \in BOOLEAN, SetStatus(c, answered)
      PROVE  FALSE
  <2>1. appointments[r].status = "absent"
    BY RowType
  <2>2. closing[c].target # r
    BY <1>2, <2>1, SetStatusEffect
  <2>. QED
    BY <1>2, <2>2, SetStatusEffect
<1>. QED
  BY <1>1, <1>2, TableStep

\* A shift found for an employee on record stays theirs.
LEMMA RosterKept ==
  ASSUME TypeOK, [Next]_vars, NEW e \in hired
  PROVE  e \in hired' /\ shifts'[e] = shifts[e]
<1>1. CASE UNCHANGED <<shifts, hired>>
  BY <1>1
<1>2. ASSUME NEW o \in Employee, NEW roster \in Roster, Hire(o, roster)
      PROVE  e \in hired' /\ shifts'[e] = shifts[e]
  BY <1>2, HireEffect
<1>. QED
  BY <1>1, <1>2, RosterStep

-----------------------------------------------------------------------------
(* What the handlers know and hold.                                        *)

LEMMA BookStagesStep == IInv /\ [Next]_vars => BookStages'
<1>. SUFFICES ASSUME IInv, [Next]_vars, NEW r \in BookRequest PROVE BookerKnows(r)'
  BY DEF BookStages
<1>1. TypeOK /\ BookerKnows(r) /\ Wanted(r)' = Wanted(r) /\ args' = args
  BY ArgumentsFixed DEF IInv, BookStages, Wanted
<1>2. CASE pc'[r] = "crashed"
  BY <1>2 DEF BookerKnows
<1>3. CASE Book(r)
  <2>. USE <1>1 DEF BookerKnows, TypeOK
  <2>1. CASE Quote(r)
    BY <2>1 DEF Quote
  <2>2. CASE CheckShift(r)
    BY <2>2 DEF CheckShift, FitsShift, EmployeeShifts
  <2>3. CASE RefuseBook(r)
    BY <2>3 DEF RefuseBook
  <2>4. CASE LoseSlot(r)
    BY <2>4 DEF LoseSlot
  <2>5. CASE AnnounceBooked(r)
    BY <2>5, SendEffect DEF AnnounceBooked, Message
  <2>6. CASE ShowTaken(r)
    BY <2>6 DEF ShowTaken
  <2>7. ASSUME NEW answered \in BOOLEAN, Insert(r, answered) PROVE BookerKnows(r)'
    BY <2>7, InsertEffect, RowType DEF Insert, NoRow
  <2>. QED
    BY <1>3, <2>1, <2>2, <2>3, <2>4, <2>5, <2>6, <2>7 DEF Book
<1>4. CASE pc'[r] = pc[r] /\ ~ Book(r)
  <2>1. appointments[r] = NoRow <=> appointments'[r] = NoRow
    BY <1>1, <1>4, RowAppears, RowsKept DEF Book, IInv
  <2>2. \A k \in {"created", "slot_taken"} : announced'[r][k] = announced[r][k]
    BY <1>1, <1>4, Sender DEF Book, Message
  <2>3. args[r].employee \in hired =>
          args[r].employee \in hired' /\ shifts'[args[r].employee] = shifts[args[r].employee]
    BY <1>1, RosterKept
  <2>. QED
    BY <1>1, <1>4, <2>1, <2>2, <2>3 DEF BookerKnows
<1>. QED
  BY <1>1, <1>2, <1>3, <1>4, BookerMoves

LEMMA CloseStagesStep == IInv /\ [Next]_vars => CloseStages'
<1>. SUFFICES ASSUME IInv, [Next]_vars, NEW c \in CloseRequest PROVE CloserHolds(c)'
  BY DEF CloseStages
<1>. DEFINE t == closing[c].target
            result == IF closing[c].action = "complete" THEN "completed" ELSE "cancelled"
<1>1. TypeOK /\ CloserHolds(c) /\ closing' = closing /\ t \in BookRequest
  BY ArgumentsFixed, ClosingType DEF IInv, CloseStages
<1>2. CASE pc'[c] = "crashed"
  BY <1>2 DEF CloserHolds, Stored
<1>3. ASSUME appointments[t] # NoRow
      PROVE  /\ appointments'[t] # NoRow
             /\ appointments'[t].employee = appointments[t].employee
             /\ appointments[t].status = result => appointments'[t].status = result
  BY <1>1, <1>3, RowsKept DEF IInv
<1>4. ASSUME pc[c] \in Stored
      PROVE  /\ appointments[t] # NoRow
             /\ appointments'[t].status = result
             /\ \A d \in CloseRequest \ {c} : pc'[d] \in Stored => closing[d].target # t
  <2>1. appointments[t].status = result /\ appointments[t] # NoRow
    BY <1>1, <1>4, RowType DEF CloserHolds
  <2>2. ASSUME NEW d \in CloseRequest \ {c}, pc'[d] \in Stored, closing[d].target = t
        PROVE  FALSE
    <3>1. pc[d] \notin Stored
      BY <1>1, <1>4, <2>2 DEF CloserHolds
    <3>2. CloseAppointment(d)
      BY <1>1, <2>2, <3>1, CloserMoves DEF Stored
    <3>3. PICK answered \in BOOLEAN : SetStatus(d, answered)
      BY <1>1, <2>2, <3>1, <3>2 DEF TypeOK, Stored, CloseAppointment, CheckOwner, RefuseClose,
         AnnounceCompleted, AnnounceCancelled, ShowFreed
    <3>. QED
      BY <1>1, <2>1, <2>2, <3>3, SetStatusEffect
  <2>. QED
    BY <1>3, <2>1, <2>2
<1>5. ASSUME NEW k \in {"completed", "cancelled", "slot_freed"}, pc[c] \in Stored,
             announced'[t][k] # announced[t][k]
      PROVE  \/ k = "completed" /\ AnnounceCompleted(c)
             \/ k = "cancelled" /\ AnnounceCancelled(c)
             \/ k = "slot_freed" /\ ShowFreed(c)
  <2>1. PICK d \in CloseRequest :
          /\ closing[d].target = t
          /\ \/ k = "completed" /\ AnnounceCompleted(d)
             \/ k = "cancelled" /\ AnnounceCancelled(d)
             \/ k = "slot_freed" /\ ShowFreed(d)
    BY <1>1, <1>5, Sender DEF Message
  <2>2. pc[d] \in Stored
    BY <2>1 DEF AnnounceCompleted, AnnounceCancelled, ShowFreed, Stored
  <2>3. d = c
    BY <1>1, <1>5, <2>1, <2>2 DEF CloserHolds
  <2>. QED
    BY <2>1, <2>3
<1>6. CASE pc'[c] = pc[c] /\ ~ CloseAppointment(c)
  BY <1>1, <1>3, <1>4, <1>5, <1>6 DEF CloserHolds, CloseAppointment, Stored
<1>7. CASE CloseAppointment(c)
  <2>1. CASE CheckOwner(c)
    BY <1>1, <2>1 DEF CheckOwner, CloserHolds, TypeOK, Stored
  <2>2. CASE RefuseClose(c)
    BY <1>1, <2>2 DEF RefuseClose, CloserHolds, TypeOK, Stored
  <2>3. ASSUME NEW answered \in BOOLEAN, SetStatus(c, answered) PROVE CloserHolds(c)'
    <3>1. /\ appointments[t].status = "scheduled"
          /\ appointments'[t].status = result
          /\ announced' = announced
          /\ pc' = [pc EXCEPT ![c] = IF answered THEN "stored" ELSE "refused"]
      BY <2>3, SetStatusEffect, <1>1 DEF SetStatus, UpdateStatus
    <3>2. \A k \in {"completed", "cancelled", "slot_freed"} : announced[t][k] = 0
      <4>1. \A k \in {"completed", "cancelled", "slot_freed"} : ~ (announced[t][k] > 0)
        BY <3>1, <1>1 DEF IInv, AnnouncementsAreTrue
      <4>. QED
        BY <4>1, <1>1 DEF TypeOK, Message
    <3>3. ASSUME NEW d \in CloseRequest \ {c}, pc[d] \in Stored, closing[d].target = t
          PROVE  FALSE
      BY <3>1, <3>3 DEF IInv, CloseStages, CloserHolds
    <3>4. \A d \in CloseRequest \ {c} : pc'[d] = pc[d]
      BY <3>1, <1>1 DEF TypeOK
    <3>5. pc'[c] \in {"stored", "refused"}
      BY <3>1, <1>1 DEF TypeOK
    <3>. QED
      BY <1>1, <3>1, <3>2, <3>3, <3>4, <3>5 DEF CloserHolds, Stored
  <2>4. CASE AnnounceCompleted(c)
    BY <1>1, <2>4 DEF AnnounceCompleted, CloserHolds, TypeOK, Stored
  <2>5. CASE AnnounceCancelled(c)
    <3>1. pc[c] = "stored" /\ pc'[c] = "told" /\ closing[c].action = "cancel"
      BY <1>1, <2>5 DEF AnnounceCancelled, TypeOK
    <3>2. announced'[t]["slot_freed"] = announced[t]["slot_freed"]
      BY <3>1, <1>5, <2>5 DEF AnnounceCancelled, ShowFreed, Stored
    <3>. QED
      BY <1>1, <1>4, <3>1, <3>2 DEF CloserHolds, Stored
  <2>6. CASE ShowFreed(c)
    BY <1>1, <2>6 DEF ShowFreed, CloserHolds, TypeOK, Stored
  <2>. QED
    BY <1>7, <2>1, <2>2, <2>3, <2>4, <2>5, <2>6 DEF CloseAppointment
<1>. QED
  BY <1>1, <1>2, <1>6, <1>7, CloserMoves

-----------------------------------------------------------------------------
(* The theorems.                                                           *)

LEMMA InvInitial == Init => IInv
<1>. SUFFICES ASSUME Init PROVE IInv
  OBVIOUS
<1>1. TypeOK
  BY TypeInitial
<1>2. /\ \A r \in BookRequest : appointments[r] = NoRow /\ pc[r] = "received"
      /\ \A c \in CloseRequest : pc[c] = "received"
      /\ \A r \in BookRequest, k \in Message : announced[r][k] = 0
  BY DEF Init
<1>3. \A r \in BookRequest : appointments[r].status \notin Active
  BY <1>1, <1>2, RowType DEF Active
<1>4. BookStages /\ CloseStages
  BY <1>2 DEF BookStages, BookerKnows, CloseStages, CloserHolds, Stored, Message
<1>5. AnnouncementsAreTrue
  BY <1>2 DEF AnnouncementsAreTrue, Message
<1>6. NoDoubleBooking /\ BookedWithinShift
  BY <1>2, <1>3 DEF NoDoubleBooking, BookedWithinShift
<1>. QED
  BY <1>1, <1>4, <1>5, <1>6 DEF IInv

LEMMA InvStep == IInv /\ [Next]_vars => IInv'
  BY TypeStep, NoDoubleBookingStep, BookedWithinShiftStep, AnnouncementsStep,
     BookStagesStep, CloseStagesStep DEF IInv

\* The handlers keep the inductive invariant in every behaviour.
THEOREM Invariance == Spec => []IInv
  BY InvInitial, InvStep, PTL DEF Spec

\* However many Book, Complete and Cancel requests run at once, whatever fails
\* and wherever the process crashes, no employee is ever booked twice.
THEOREM DoubleBookingImpossible == Spec => []NoDoubleBooking
<1>1. IInv => NoDoubleBooking
  BY DEF IInv
<1>. QED
  BY <1>1, Invariance, PTL

\* Every appointment of the table lies within one shift of its employee and
\* takes the time of a service its branch offers.
THEOREM EveryBookingFitsShift == Spec => []BookedWithinShift
<1>1. IInv => BookedWithinShift
  BY DEF IInv
<1>. QED
  BY <1>1, Invariance, PTL

\* No message about an appointment is sent twice, or before the table bears it out.
THEOREM AnnouncedTruthfully == Spec => []AnnouncementsAreTrue
<1>1. IInv => AnnouncementsAreTrue
  BY DEF IInv
<1>. QED
  BY <1>1, Invariance, PTL

\* A closed appointment is closed for good, and no step rewrites a row.
THEOREM ClosedForGood == Spec => RowsOnlyClose
<1>1. IInv /\ [Next]_vars =>
        [ \A r \in BookRequest : appointments[r] # NoRow =>
            \/ appointments'[r] = appointments[r]
            \/ /\ appointments[r].status = "scheduled"
               /\ appointments'[r].status \in {"completed", "cancelled"}
               /\ appointments'[r] = [appointments[r] EXCEPT
                                        !.status = appointments'[r].status] ]_vars
  BY RowsKept DEF IInv
<1>. QED
  BY <1>1, Invariance, PTL DEF Spec, RowsOnlyClose

\* Nobody's request completes another employee's appointment.
THEOREM OwnersComplete == Spec => OnlyOwnerCompletes
<1>. DEFINE ByOwner(r) ==
       \E c \in CloseRequest :
         /\ pc'[c] # pc[c]
         /\ closing[c].target = r
         /\ closing[c].action = "complete"
         /\ EnsureOwner(closing[c].caller, appointments[r].employee)
<1>1. ASSUME IInv, [Next]_vars, NEW r \in BookRequest,
             appointments[r].status # "completed", appointments'[r].status = "completed"
      PROVE  ByOwner(r)
  <2>1. TypeOK
    BY <1>1 DEF IInv
  <2>2. PICK c \in CloseRequest, answered \in BOOLEAN : SetStatus(c, answered)
    <3>1. ASSUME NEW q \in BookRequest, NEW answered \in BOOLEAN, Insert(q, answered)
          PROVE  FALSE
      BY <1>1, <2>1, <3>1, InsertEffect
    <3>. QED
      BY <1>1, <3>1, TableStep
  <2>3. closing[c].target = r /\ closing[c].action = "complete"
    BY <1>1, <2>1, <2>2, SetStatusEffect
  <2>4. pc'[c] # pc[c]
    BY <2>1, <2>2 DEF SetStatus, UpdateStatus, TypeOK
  <2>5. EnsureOwner(closing[c].caller, appointments[r].employee)
    <3>1. CASE pc[c] = "cleared"
      BY <1>1, <2>3, <3>1 DEF IInv, CloseStages, CloserHolds
    <3>2. CASE ~ MustOwn(c)
      BY <2>3, <3>2 DEF MustOwn, EnsureOwner
    <3>. QED
      BY <2>2, <3>1, <3>2 DEF SetStatus, UpdateStatus
  <2>. QED
    BY <2>3, <2>4, <2>5
<1>2. IInv /\ [Next]_vars =>
        [ \A r \in BookRequest :
            appointments[r].status # "completed" /\ appointments'[r].status = "completed"
            => ByOwner(r) ]_vars
  BY <1>1
<1>. QED
  BY <1>2, Invariance, PTL DEF Spec, OnlyOwnerCompletes

\* An INSERT is a reservation of the diary, and an UPDATE closes one.
LEMMA InsertReserves ==
  ASSUME IInv, NEW r \in BookRequest, NEW answered \in BOOLEAN, Insert(r, answered)
  PROVE  Cal!Reserve(r)
<1>1. TypeOK /\ appointments[r] = NoRow
  BY DEF IInv, Insert, BookStages, BookerKnows
<1>2. /\ appointments'[r] # NoRow
      /\ appointments'[r].status = "scheduled"
      /\ appointments'[r].employee = args[r].employee
      /\ PeriodOf(appointments'[r]) = Wanted(r)
      /\ \A q \in BookRequest \ {r} : appointments'[q] = appointments[q]
  BY <1>1, InsertEffect, RowType DEF Row, NoRow
<1>3. diary[r] = Cal!Blank
  BY <1>1 DEF diary, Cal!Blank
<1>4. diary'[r] = [state |-> "reserved", employee |-> args[r].employee, period |-> Wanted(r)]
  BY <1>2 DEF diary, DiaryState
<1>5. diary'[r] \in [state : {"reserved"}, employee : Employee, period : Cal!Period]
  BY <1>1, <1>4, WantedType DEF Interval, Cal!Period
<1>6. Cal!Vacant(diary'[r].employee, diary'[r].period)
  <2>. SUFFICES ASSUME NEW q \in BookRequest, diary[q].state \in Cal!Held,
                       diary[q].employee = args[r].employee
                PROVE  ~ Cal!Clash(diary[q].period, Wanted(r))
    BY <1>4 DEF Cal!Vacant
  <2>1. appointments[q] # NoRow
    BY DEF diary, Cal!Held
  <2>2. appointments[q] \in Row
    BY <1>1, <2>1, RowType
  <2>3. /\ appointments[q].status \in Active
        /\ appointments[q].employee = args[r].employee
        /\ diary[q].period = PeriodOf(appointments[q])
    BY <2>1, <2>2 DEF diary, DiaryState, Cal!Held, Row, Active
  <2>. QED
    BY <2>3 DEF Insert, Collides, Overlaps, Cal!Clash
<1>7. diary' = [diary EXCEPT ![r] = diary'[r]]
  BY <1>2 DEF diary
<1>. QED
  BY <1>3, <1>5, <1>6, <1>7 DEF Cal!Reserve

LEMMA SetStatusCloses ==
  ASSUME IInv, NEW c \in CloseRequest, NEW answered \in BOOLEAN, SetStatus(c, answered)
  PROVE  Cal!Next
<1>. DEFINE t == closing[c].target
            outcome == IF closing[c].action = "complete" THEN "kept" ELSE "released"
<1>1. TypeOK
  BY DEF IInv
<1>2. /\ t \in BookRequest
      /\ appointments[t] # NoRow
      /\ appointments'[t] # NoRow
      /\ appointments[t].status = "scheduled"
      /\ appointments'[t].status =
           IF closing[c].action = "complete" THEN "completed" ELSE "cancelled"
      /\ appointments'[t].employee = appointments[t].employee
      /\ PeriodOf(appointments'[t]) = PeriodOf(appointments[t])
      /\ \A q \in BookRequest \ {t} : appointments'[q] = appointments[q]
  BY <1>1, SetStatusEffect DEF Row, NoRow
<1>3. diary[t] = [state |-> "reserved", employee |-> appointments[t].employee,
                  period |-> PeriodOf(appointments[t])]
  BY <1>2 DEF diary, DiaryState
<1>4. diary'[t] = [diary[t] EXCEPT !.state = outcome]
  BY <1>2, <1>3 DEF diary, DiaryState
<1>5. diary' = [diary EXCEPT ![t] = [diary[t] EXCEPT !.state = outcome]]
  BY <1>2, <1>4 DEF diary
<1>6. Cal!Close(t, outcome)
  BY <1>3, <1>5 DEF Cal!Close
<1>. QED
  BY <1>2, <1>6 DEF Cal!Next

\* Seen from outside, booking-service is a diary: what its handlers do in several
\* steps each reserves or closes in one, and nothing else happens to the diary.
THEOREM BookingIsCalendar == Spec => ImplementsCalendar
<1>1. Init => Cal!Init
  BY DEF Init, Cal!Init, diary, Cal!Blank
<1>2. ASSUME IInv, [Next]_vars PROVE [Cal!Next]_diary
  <2>1. CASE UNCHANGED appointments
    BY <2>1 DEF diary
  <2>2. ASSUME NEW r \in BookRequest, NEW answered \in BOOLEAN, Insert(r, answered)
        PROVE  Cal!Next
    BY <1>2, <2>2, InsertReserves DEF Cal!Next
  <2>3. ASSUME NEW c \in CloseRequest, NEW answered \in BOOLEAN, SetStatus(c, answered)
        PROVE  Cal!Next
    BY <1>2, <2>3, SetStatusCloses
  <2>. QED
    BY <1>2, <2>1, <2>2, <2>3, TableStep
<1>. QED
  BY <1>1, <1>2, Invariance, PTL DEF Spec, ImplementsCalendar, Cal!Spec

-----------------------------------------------------------------------------
(* Free slots.                                                             *)

\* AlignUp rounds up to the grid: the first of its points that is not before t.
LEMMA AlignUpIsFirst ==
  ASSUME NEW t \in Nat
  PROVE  /\ AlignUp(t) \in Nat /\ t <= AlignUp(t)
         /\ \E q \in Nat : AlignUp(t) = q * SlotStep
         /\ \A n \in Nat : t <= n * SlotStep => AlignUp(t) <= n * SlotStep
<1>. DEFINE q == t \div SlotStep
<1>1. SlotStep \in Nat /\ SlotStep > 0
  BY SlotStepAssumption
<1>2. q \in Nat /\ q * SlotStep \in Nat /\ q * SlotStep <= t /\ t < q * SlotStep + SlotStep
  BY <1>1
<1>3. (q + 1) * SlotStep = q * SlotStep + SlotStep
  BY <1>1, <1>2
<1>. HIDE DEF q
<1>4. ASSUME NEW n \in Nat, t <= n * SlotStep
      PROVE  q * SlotStep < t => q * SlotStep + SlotStep <= n * SlotStep
  <2>. SUFFICES ASSUME q * SlotStep < t PROVE q * SlotStep + SlotStep <= n * SlotStep
    OBVIOUS
  <2>1. n > q
    <3>. SUFFICES ASSUME n <= q PROVE FALSE
      BY <1>2
    <3>1. n * SlotStep <= q * SlotStep
      BY <1>1, <1>2
    <3>. QED
      BY <1>1, <1>2, <1>4, <3>1
  <2>2. (q + 1) * SlotStep <= n * SlotStep
    BY <1>1, <1>2, <2>1
  <2>. QED
    BY <1>3, <2>2
<1>5. AlignUp(t) = IF q * SlotStep < t THEN q * SlotStep + SlotStep ELSE q * SlotStep
  BY DEF AlignUp, q
<1>6. q \in Nat /\ q + 1 \in Nat
  BY <1>2
<1>7. CASE q * SlotStep < t
  <2>1. AlignUp(t) = (q + 1) * SlotStep /\ AlignUp(t) = q * SlotStep + SlotStep
    BY <1>3, <1>5, <1>7
  <2>2. AlignUp(t) \in Nat /\ t <= AlignUp(t)
    BY <1>1, <1>2, <2>1
  <2>3. \A n \in Nat : t <= n * SlotStep => AlignUp(t) <= n * SlotStep
    BY <1>4, <1>7, <2>1
  <2>. QED
    BY <1>6, <2>1, <2>2, <2>3
<1>8. CASE ~ (q * SlotStep < t)
  <2>1. AlignUp(t) = q * SlotStep /\ AlignUp(t) = t
    BY <1>2, <1>5, <1>8
  <2>. QED
    BY <1>6, <2>1
<1>. QED
  BY <1>7, <1>8

\* Every period of the service that starts on the grid and lies within the shift is
\* a slot, and there are no others: the loop of BuildSlots leaves none out.
THEOREM GridIsComplete ==
  ASSUME NEW shift \in Interval, NEW duration \in Nat
  PROVE  GridSlots(shift, duration) =
           { [start |-> s, end |-> s + duration] :
               s \in { n * SlotStep : n \in Nat } \cap shift.start .. shift.end - duration }
<1>. DEFINE a == AlignUp(shift.start)
            starts == { a + k * SlotStep : k \in 0 .. shift.end - shift.start }
            grid == { n * SlotStep : n \in Nat }
<1>1. SlotStep \in Nat /\ SlotStep > 0 /\ shift.start \in Nat /\ shift.end \in Nat
  BY SlotStepAssumption DEF Interval
<1>2. a \in Nat /\ shift.start <= a /\ \A n \in Nat : shift.start <= n * SlotStep => a <= n * SlotStep
  BY <1>1, AlignUpIsFirst
<1>3. PICK q \in Nat : a = q * SlotStep
  BY <1>1, AlignUpIsFirst
<1>. HIDE DEF a
<1>4. ASSUME NEW s
      PROVE  s \in starts /\ s + duration <= shift.end
             <=> s \in grid \cap shift.start .. shift.end - duration
  <2>1. ASSUME NEW k \in 0 .. shift.end - shift.start, s = a + k * SlotStep, s + duration <= shift.end
        PROVE  s \in grid \cap shift.start .. shift.end - duration
    <3>1. k \in Nat /\ q + k \in Nat /\ k * SlotStep \in Nat
      BY <1>1, <2>1
    <3>2. (q + k) * SlotStep = q * SlotStep + k * SlotStep
      BY <1>1, <3>1
    <3>3. s = (q + k) * SlotStep
      BY <1>3, <2>1, <3>2
    <3>4. s \in Int /\ shift.start <= s
      BY <1>1, <1>2, <2>1, <3>1
    <3>5. s <= shift.end - duration
      BY <1>1, <2>1, <3>4
    <3>6. s \in grid
      BY <3>1, <3>3
    <3>7. s \in shift.start .. shift.end - duration
      BY <1>1, <3>4, <3>5
    <3>. HIDE DEF grid
    <3>. QED
      BY <3>6, <3>7
  <2>2. ASSUME NEW n \in Nat, s = n * SlotStep, s \in shift.start .. shift.end - duration
        PROVE  s \in starts /\ s + duration <= shift.end
    <3>1. n * SlotStep \in Nat /\ q * SlotStep <= n * SlotStep
      BY <1>1, <1>2, <1>3, <2>2
    <3>2. q <= n
      <4>. SUFFICES ASSUME n < q PROVE FALSE
        OBVIOUS
      <4>1. (n + 1) * SlotStep <= q * SlotStep
        BY <1>1
      <4>2. (n + 1) * SlotStep = n * SlotStep + SlotStep
        BY <1>1
      <4>. QED
        BY <1>1, <3>1, <4>1, <4>2
    <3>3. PICK k \in Nat : n = q + k
      <4>1. n - q \in Nat /\ n = q + (n - q)
        BY <3>2
      <4>. QED
        BY <4>1
    <3>4. n * SlotStep = q * SlotStep + k * SlotStep /\ k <= k * SlotStep /\ k * SlotStep \in Nat
      BY <1>1, <3>3
    <3>5. s = a + k * SlotStep
      BY <1>3, <2>2, <3>4
    <3>6. k * SlotStep <= shift.end - shift.start
      BY <1>1, <1>2, <2>2, <3>4, <3>5
    <3>7. k \in 0 .. shift.end - shift.start
      BY <1>1, <3>4, <3>6
    <3>. QED
      BY <1>1, <2>2, <3>5, <3>7
  <2>. QED
    BY <2>1, <2>2
<1>5. GridSlots(shift, duration) =
        { [start |-> s, end |-> s + duration] : s \in { t \in starts : t + duration <= shift.end } }
  BY DEF GridSlots, a
<1>6. { t \in starts : t + duration <= shift.end } = grid \cap shift.start .. shift.end - duration
  <2>. HIDE DEF starts, grid
  <2>1. \A s : s \in { t \in starts : t + duration <= shift.end }
               <=> s \in grid \cap shift.start .. shift.end - duration
    BY <1>4
  <2>. QED
    BY <2>1, Zenon
<1>. HIDE DEF starts, grid
<1>. QED
  BY <1>5, <1>6 DEF grid

\* A slot of the grid that lies inside the window meets only shifts and appointments
\* that meet the window too.
LEMMA SlotsExactIn ==
  ASSUME TypeOK, NEW window \in Interval
  PROVE  FreeSlotsExactIn(window)
<1>. SUFFICES ASSUME NEW e \in hired, NEW service \in Service,
                     Valid(window), Duration[service] > 0
              PROVE  { slot \in FreeSlots(e, service, window) : Contains(window, slot) }
                     = { slot \in BuildSlots(shifts[e], Duration[service]) :
                           Contains(window, slot) /\ Bookable(e, slot) }
  BY DEF FreeSlotsExactIn
<1>. DEFINE d == Duration[service]
<1>1. e \in Employee /\ d \in Nat /\ shifts[e] \subseteq Interval /\ SlotStep \in Nat \ {0}
  BY BookingAssumption, SlotStepAssumption DEF TypeOK
<1>2. ASSUME NEW shift \in Interval, NEW slot \in GridSlots(shift, d)
      PROVE  /\ slot \in [start : Int, end : Int]
             /\ slot.end = slot.start + d
             /\ shift.start <= slot.start
             /\ slot.end <= shift.end
  <2>1. PICK k \in 0 .. shift.end - shift.start :
          /\ slot = [start |-> AlignUp(shift.start) + k * SlotStep,
                     end |-> AlignUp(shift.start) + k * SlotStep + d]
          /\ AlignUp(shift.start) + k * SlotStep + d <= shift.end
    BY <1>2 DEF GridSlots
  <2>2. shift.start \in Nat /\ shift.end \in Nat
    BY DEF Interval
  <2>3. AlignUp(shift.start) \in Int /\ AlignUp(shift.start) >= shift.start
    BY <1>1, <2>2 DEF AlignUp
  <2>4. k * SlotStep \in Int /\ k * SlotStep >= 0
    BY <1>1, <2>1
  <2>. QED
    BY <1>1, <2>1, <2>2, <2>3, <2>4
<1>3. ASSUME NEW slot, Contains(window, slot)
      PROVE  slot \in BuildSlots(EmployeeShifts(e, window), d)
             <=> slot \in BuildSlots(shifts[e], d)
  <2>1. ASSUME NEW shift \in shifts[e], slot \in GridSlots(shift, d)
        PROVE  shift \in EmployeeShifts(e, window)
    <3>1. shift \in Interval
      BY <1>1
    <3>2. /\ slot \in [start : Int, end : Int]
          /\ slot.end = slot.start + d
          /\ shift.start <= slot.start
          /\ slot.end <= shift.end
      BY <1>2, <2>1, <3>1
    <3>. QED
      BY <1>1, <1>3, <3>1, <3>2 DEF EmployeeShifts, Overlaps, Contains, Interval
  <2>2. EmployeeShifts(e, window) \subseteq shifts[e]
    BY DEF EmployeeShifts
  <2>. QED
    BY <2>1, <2>2 DEF BuildSlots
<1>4. ASSUME NEW slot \in BuildSlots(shifts[e], d), Contains(window, slot)
      PROVE  ~ OverlapsAny(slot, TakenIntervals(e, window)) <=> Bookable(e, slot)
  <2>1. PICK shift \in shifts[e] : slot \in GridSlots(shift, d)
    BY DEF BuildSlots
  <2>2. /\ slot \in [start : Int, end : Int]
        /\ shift.start <= slot.start
        /\ slot.end <= shift.end
    BY <1>1, <1>2, <2>1
  <2>3. FitsShift(shifts[e], slot)
    BY <2>1, <2>2, <1>1 DEF FitsShift, Contains, Interval
  <2>4. ASSUME NEW r \in BookRequest, appointments[r].status \in Active,
               appointments[r].employee = e
        PROVE  Overlaps(PeriodOf(appointments[r]), slot) <=>
               /\ Overlaps(PeriodOf(appointments[r]), window)
               /\ Overlaps(slot, PeriodOf(appointments[r]))
    <3>1. PeriodOf(appointments[r]) \in Interval
      BY <2>4, RowType
    <3>. QED
      BY <1>4, <2>2, <3>1 DEF Overlaps, Contains, Interval
  <2>5. OverlapsAny(slot, TakenIntervals(e, window)) <=>
          \E r \in BookRequest :
            /\ appointments[r].status \in Active
            /\ appointments[r].employee = e
            /\ Overlaps(PeriodOf(appointments[r]), window)
            /\ Overlaps(slot, PeriodOf(appointments[r]))
    BY DEF OverlapsAny, TakenIntervals
  <2>. QED
    BY <2>3, <2>4, <2>5 DEF Bookable
<1>5. ASSUME NEW slot, Contains(window, slot)
      PROVE  slot \in FreeSlots(e, service, window) <=>
             slot \in BuildSlots(shifts[e], d) /\ Bookable(e, slot)
  BY <1>3, <1>4, <1>5 DEF FreeSlots
<1>. QED
  BY <1>5, <1>3 DEF FreeSlots

\* The free slots shown for a window, as far as they lie inside it, are exactly
\* the slots of the grid inside it that can be booked at this moment: reading the
\* shifts and the appointments of the window alone overlooks nothing.
THEOREM SlotsShownAreBookable == Spec => []FreeSlotsExact
<1>1. TypeOK => FreeSlotsExact
  BY SlotsExactIn, BookingAssumption DEF FreeSlotsExact
<1>. QED
  BY <1>1, TypeCorrect, PTL

=============================================================================
