------------------------------- MODULE Booking -------------------------------
(***************************************************************************)
(* booking-service: HTTP handlers that book, complete and cancel           *)
(* appointments concurrently, each in its own goroutine, over one table of *)
(* Postgres.  A handler asks two neighbours over gRPC before it writes     *)
(* (catalog for the service, core for the shifts), writes one row in one   *)
(* statement, and announces what it did on RabbitMQ and NATS afterwards.   *)
(* Nothing ties those steps together: handlers interleave between them,    *)
(* a neighbour or a broker may fail, and the process may crash anywhere.   *)
(*                                                                         *)
(* An appointment is named by the Book request that made it: its id is a   *)
(* fresh uuid.  Names, prices and clients are not modelled: nothing here   *)
(* depends on them (module Billing takes the price it is booked at).       *)
(***************************************************************************)
EXTENDS Slots

CONSTANTS
  Employee,
  Branch,
  Service,
  BranchOf,       \* the branch that offers a service (catalog)
  Duration,       \* how long it takes (catalog)
  BookRequest,    \* POST /appointments requests: one handler each
  BookArgs,       \* what their bodies may say
  CloseRequest,   \* POST .../complete and .../cancel requests
  CloseArgs,      \* which appointment, which action, on whose behalf
  Roster,         \* sets of shifts an employee may be hired with (core)
  Window,         \* windows for which GET /branches/{id}/slots is asked
  NoEmployee      \* the caller's account is tied to no employee

\* infra.Caller, as far as a decision depends on it.
Caller == [known : BOOLEAN, privileged : BOOLEAN,
           employee : Employee \cup {NoEmployee}]

ASSUME BookingAssumption ==
  /\ BranchOf \in [Service -> Branch]
  /\ Duration \in [Service -> Nat]
  /\ NoEmployee \notin Employee
  /\ BookArgs \subseteq [employee : Employee, branch : Branch,
                         service : Service, start : Nat]
  /\ CloseArgs \subseteq [target : BookRequest, action : {"complete", "cancel"},
                          caller : Caller]
  /\ Roster \subseteq SUBSET Interval
  /\ Window \subseteq Interval
  /\ BookRequest \cap CloseRequest = {}

VARIABLES
  shifts,         \* core: the shifts each employee was hired with
  hired,          \* core: the employees on record
  appointments,   \* the table: row of each appointment, NoRow if not inserted
  args,           \* the body of each Book request
  closing,        \* the arguments of each Complete or Cancel request
  pc,             \* how far each handler has come
  announced       \* how often each kind of message about an appointment was sent

vars == <<shifts, hired, appointments, args, closing, pc, announced>>

\* The statuses for which the appointment occupies the employee's time: the
\* WHERE of the exclusion constraint and of TakenIntervals.
Active == {"scheduled", "completed"}

Row == [status : Active \cup {"cancelled"}, employee : Employee,
        branch : Branch, service : Service, start : Nat, end : Nat]
NoRow == [status |-> "absent"]

Message == {"created", "completed", "cancelled", "slot_taken", "slot_freed"}

BookStage == {"received", "quoted", "fits", "inserted", "told",
              "taken", "refused", "done", "crashed"}
CloseStage == {"received", "cleared", "stored", "told",
               "refused", "done", "crashed"}

PeriodOf(row) == [start |-> row.start, end |-> row.end]

-----------------------------------------------------------------------------
(* Queries.                                                                *)

\* get_schedule of core-service: the shifts that meet the window, unclipped.
EmployeeShifts(e, window) == { s \in shifts[e] : Overlaps(s, window) }

\* Mutant: a visit that took place no longer occupies its time.
TakenByScheduled(e, window) ==
  { PeriodOf(appointments[r]) :
      r \in { q \in BookRequest :
                /\ appointments[q].status = "scheduled"
                /\ appointments[q].employee = e
                /\ Overlaps(PeriodOf(appointments[q]), window) } }

\* The periods of e's active appointments that meet the window.
TakenIntervals(e, window) ==
  { PeriodOf(appointments[r]) :
      r \in { q \in BookRequest :
                /\ appointments[q].status \in Active
                /\ appointments[q].employee = e
                /\ Overlaps(PeriodOf(appointments[q]), window) } }

\* The answer of GET /branches/{id}/slots for an employee on record, a service
\* of the branch and a well-formed window.
FreeSlots(e, service, window) ==
  LET taken == TakenIntervals(e, window)
  IN  { slot \in BuildSlots(EmployeeShifts(e, window), Duration[service]) :
          ~ OverlapsAny(slot, taken) }

\* An account that is neither anonymous nor privileged works with its own
\* appointments only; one tied to no employee owns nothing.
Privileged(caller) == caller.privileged
EnsureOwner(caller, owner) ==
  caller.known /\ ~ Privileged(caller) =>
    caller.employee # NoEmployee /\ caller.employee = owner

-----------------------------------------------------------------------------
(* Book.                                                                   *)

Wanted(r) ==
  [start |-> args[r].start, end |-> args[r].start + Duration[args[r].service]]

\* Service.Book calls catalog, which knows the service only in its own branch.
Quote(r) ==
  /\ pc[r] = "received"
  /\ BranchOf[args[r].service] = args[r].branch
  /\ Valid(Wanted(r))
  /\ pc' = [pc EXCEPT ![r] = "quoted"]
  /\ UNCHANGED <<shifts, hired, appointments, args, closing, announced>>

\* Mutant: a shift that meets the period is taken for one that contains it.
CheckAnyShift(r) ==
  /\ pc[r] = "quoted"
  /\ args[r].employee \in hired
  /\ EmployeeShifts(args[r].employee, Wanted(r)) # {}
  /\ pc' = [pc EXCEPT ![r] = "fits"]
  /\ UNCHANGED <<shifts, hired, appointments, args, closing, announced>>

\* ... then core, for the shifts around the wanted period.
CheckShift(r) ==
  /\ pc[r] = "quoted"
  /\ args[r].employee \in hired
  /\ FitsShift(EmployeeShifts(args[r].employee, Wanted(r)), Wanted(r))
  /\ pc' = [pc EXCEPT ![r] = "fits"]
  /\ UNCHANGED <<shifts, hired, appointments, args, closing, announced>>

\* An unknown service or employee, a period outside the shifts, a neighbour or
\* a database that does not answer: the request ends with an error.
RefuseBook(r) ==
  /\ pc[r] \in {"received", "quoted", "fits"}
  /\ pc' = [pc EXCEPT ![r] = "refused"]
  /\ UNCHANGED <<shifts, hired, appointments, args, closing, announced>>

\* Mutant: a constraint without the completed rows.
CollidesWithScheduled(r) ==
  \E q \in BookRequest :
    /\ appointments[q].status = "scheduled"
    /\ appointments[q].employee = args[r].employee
    /\ Overlaps(PeriodOf(appointments[q]), Wanted(r))

\* The constraint appointments_no_overlap, on the row r is about to insert.
Collides(r) ==
  \E q \in BookRequest :
    /\ appointments[q].status \in Active
    /\ appointments[q].employee = args[r].employee
    /\ Overlaps(PeriodOf(appointments[q]), Wanted(r))

\* The one INSERT.  If its answer is lost, the row stays and the handler ends
\* with an error, announcing nothing.
Insert(r, answered) ==
  /\ pc[r] = "fits"
  /\ ~ Collides(r)
  /\ appointments' =
       [appointments EXCEPT ![r] =
          [status |-> "scheduled", employee |-> args[r].employee,
           branch |-> args[r].branch, service |-> args[r].service,
           start |-> Wanted(r).start, end |-> Wanted(r).end]]
  /\ pc' = [pc EXCEPT ![r] = IF answered THEN "inserted" ELSE "refused"]
  /\ UNCHANGED <<shifts, hired, args, closing, announced>>

\* The insert is rejected by the constraint: ErrSlotTaken.
LoseSlot(r) ==
  /\ pc[r] = "fits"
  /\ Collides(r)
  /\ pc' = [pc EXCEPT ![r] = "taken"]
  /\ UNCHANGED <<shifts, hired, appointments, args, closing, announced>>

\* A message goes out, or the broker refuses it and the error is only logged.
Send(kind, r) ==
  \/ announced' = [announced EXCEPT ![r][kind] = @ + 1]
  \/ UNCHANGED announced

AnnounceBooked(r) ==
  /\ pc[r] = "inserted"
  /\ Send("created", r)
  /\ pc' = [pc EXCEPT ![r] = "told"]
  /\ UNCHANGED <<shifts, hired, appointments, args, closing>>

ShowTaken(r) ==
  /\ pc[r] = "told"
  /\ Send("slot_taken", r)
  /\ pc' = [pc EXCEPT ![r] = "done"]
  /\ UNCHANGED <<shifts, hired, appointments, args, closing>>

-----------------------------------------------------------------------------
(* Complete and Cancel.                                                    *)

\* Mutant: an account tied to no employee is taken for one without restrictions.
MustOwnIfBound(c) ==
  /\ closing[c].action = "complete"
  /\ closing[c].caller.known
  /\ ~ Privileged(closing[c].caller)
  /\ closing[c].caller.employee # NoEmployee

\* Complete reads the row first when the caller is neither anonymous nor
\* privileged; Cancel never asks whose appointment it is.
MustOwn(c) ==
  /\ closing[c].action = "complete"
  /\ closing[c].caller.known
  /\ ~ Privileged(closing[c].caller)

CheckOwner(c) ==
  /\ pc[c] = "received"
  /\ MustOwn(c)
  /\ LET row == appointments[closing[c].target]
     IN  /\ row # NoRow
         /\ EnsureOwner(closing[c].caller, row.employee)
  /\ pc' = [pc EXCEPT ![c] = "cleared"]
  /\ UNCHANGED <<shifts, hired, appointments, args, closing, announced>>

\* SetStatus: one conditional UPDATE from "scheduled"; its answer may be lost too.
UpdateStatus(c, answered) ==
  /\ \/ pc[c] = "cleared"
     \/ pc[c] = "received" /\ ~ MustOwn(c)
  /\ appointments' =
       [appointments EXCEPT ![closing[c].target].status =
          IF closing[c].action = "complete" THEN "completed" ELSE "cancelled"]
  /\ pc' = [pc EXCEPT ![c] = IF answered THEN "stored" ELSE "refused"]
  /\ UNCHANGED <<shifts, hired, args, closing, announced>>

\* Mutants: the UPDATE forgets its condition on the status, or becomes an upsert.
SetExistingStatus(c, answered) ==
  appointments[closing[c].target] # NoRow /\ UpdateStatus(c, answered)

UpsertStatus(c, answered) == UpdateStatus(c, answered)

SetStatus(c, answered) ==
  /\ appointments[closing[c].target].status = "scheduled"
  /\ UpdateStatus(c, answered)

\* No such appointment, somebody else's, no longer scheduled, or no database.
RefuseClose(c) ==
  /\ pc[c] \in {"received", "cleared"}
  /\ pc' = [pc EXCEPT ![c] = "refused"]
  /\ UNCHANGED <<shifts, hired, appointments, args, closing, announced>>

AnnounceCompleted(c) ==
  /\ pc[c] = "stored"
  /\ closing[c].action = "complete"
  /\ Send("completed", closing[c].target)
  /\ pc' = [pc EXCEPT ![c] = "done"]
  /\ UNCHANGED <<shifts, hired, appointments, args, closing>>

AnnounceCancelled(c) ==
  /\ pc[c] = "stored"
  /\ closing[c].action = "cancel"
  /\ Send("cancelled", closing[c].target)
  /\ pc' = [pc EXCEPT ![c] = "told"]
  /\ UNCHANGED <<shifts, hired, appointments, args, closing>>

ShowFreed(c) ==
  /\ pc[c] = "told"
  /\ Send("slot_freed", closing[c].target)
  /\ pc' = [pc EXCEPT ![c] = "done"]
  /\ UNCHANGED <<shifts, hired, appointments, args, closing>>

-----------------------------------------------------------------------------
(* The surroundings.                                                       *)

\* core-service hires an employee together with their shifts; it has no
\* operation that changes or removes them.
Hire(e, roster) ==
  /\ e \notin hired
  /\ hired' = hired \cup {e}
  /\ shifts' = [shifts EXCEPT ![e] = roster]
  /\ UNCHANGED <<appointments, args, closing, pc, announced>>

\* The process dies with every handler in it; the table stays.
InFlight(p) == pc[p] \notin {"taken", "refused", "done", "crashed"}

Crash ==
  /\ \E p \in DOMAIN pc : InFlight(p)
  /\ pc' = [p \in DOMAIN pc |-> IF InFlight(p) THEN "crashed" ELSE pc[p]]
  /\ UNCHANGED <<shifts, hired, appointments, args, closing, announced>>

Init ==
  /\ shifts = [e \in Employee |-> {}]
  /\ hired = {}
  /\ appointments = [r \in BookRequest |-> NoRow]
  /\ args \in [BookRequest -> BookArgs]
  /\ closing \in [CloseRequest -> CloseArgs]
  /\ pc = [p \in BookRequest \cup CloseRequest |-> "received"]
  /\ announced = [r \in BookRequest |-> [kind \in Message |-> 0]]

Book(r) ==
  \/ Quote(r) \/ CheckShift(r) \/ RefuseBook(r) \/ LoseSlot(r)
  \/ AnnounceBooked(r) \/ ShowTaken(r)
  \/ \E answered \in BOOLEAN : Insert(r, answered)

CloseAppointment(c) ==
  \/ CheckOwner(c) \/ RefuseClose(c)
  \/ \E answered \in BOOLEAN : SetStatus(c, answered)
  \/ AnnounceCompleted(c) \/ AnnounceCancelled(c) \/ ShowFreed(c)

Next ==
  \/ \E r \in BookRequest : Book(r)
  \/ \E c \in CloseRequest : CloseAppointment(c)
  \/ \E e \in Employee, roster \in Roster : Hire(e, roster)
  \/ Crash

Spec == Init /\ [][Next]_vars

-----------------------------------------------------------------------------
(* Properties.                                                             *)

\* Every variable keeps its type.
TypeOK ==
  /\ shifts \in [Employee -> SUBSET Interval]
  /\ hired \subseteq Employee
  /\ appointments \in [BookRequest -> Row \cup {NoRow}]
  /\ args \in [BookRequest -> BookArgs]
  /\ closing \in [CloseRequest -> CloseArgs]
  /\ pc \in [BookRequest \cup CloseRequest -> BookStage \cup CloseStage]
  /\ announced \in [BookRequest -> [Message -> Nat]]

\* Two active appointments of one employee never overlap, whatever the order in
\* which concurrent Book, Complete and Cancel handlers reach the table.
NoDoubleBooking ==
  \A r, q \in BookRequest :
    /\ r # q
    /\ appointments[r].status \in Active
    /\ appointments[q].status \in Active
    /\ appointments[r].employee = appointments[q].employee
    => ~ Overlaps(PeriodOf(appointments[r]), PeriodOf(appointments[q]))

\* An appointment that got into the table lies within one shift of an employee
\* on record, for a service its branch offers, and takes exactly that service's
\* time: what Book checked before the INSERT still holds after it.
BookedWithinShift ==
  \A r \in BookRequest : appointments[r] # NoRow =>
    LET row == appointments[r]
    IN  /\ row.employee \in hired
        /\ FitsShift(shifts[row.employee], PeriodOf(row))
        /\ row.branch = BranchOf[row.service]
        /\ row.end - row.start = Duration[row.service]
        /\ Valid(PeriodOf(row))

\* The dual write never lies: a message is sent at most once, only after its row
\* says so, and an appointment is never announced both completed and cancelled,
\* although several handlers may try to close it at once.
AnnouncementsAreTrue ==
  \A r \in BookRequest :
    /\ \A kind \in Message : announced[r][kind] <= 1
    /\ \A kind \in {"created", "slot_taken"} :
         announced[r][kind] > 0 => appointments[r] # NoRow
    /\ announced[r]["completed"] > 0 => appointments[r].status = "completed"
    /\ \A kind \in {"cancelled", "slot_freed"} :
         announced[r][kind] > 0 => appointments[r].status = "cancelled"

\* What FreeSlots owes for a window: the slots of the grid inside the window
\* that could be booked at this moment, no fewer and no other.
Bookable(e, slot) ==
  /\ FitsShift(shifts[e], slot)
  /\ \A r \in BookRequest :
       appointments[r].status \in Active /\ appointments[r].employee = e
       => ~ Overlaps(PeriodOf(appointments[r]), slot)

FreeSlotsExactIn(window) ==
  \A e \in hired, service \in Service :
    Valid(window) /\ Duration[service] > 0 =>
      { slot \in FreeSlots(e, service, window) : Contains(window, slot) }
      = { slot \in BuildSlots(shifts[e], Duration[service]) :
            Contains(window, slot) /\ Bookable(e, slot) }

\* For each of the windows asked for, FreeSlots offers every grid slot inside the
\* window that could be booked now, and no slot inside it that could not.
FreeSlotsExact == \A window \in Window : FreeSlotsExactIn(window)

\* A row, once inserted, keeps everything but its status; the status leaves
\* "scheduled" once and for good.
RowsOnlyClose ==
  [][ \A r \in BookRequest : appointments[r] # NoRow =>
        \/ appointments'[r] = appointments[r]
        \/ /\ appointments[r].status = "scheduled"
           /\ appointments'[r].status \in {"completed", "cancelled"}
           /\ appointments'[r] = [appointments[r] EXCEPT
                                    !.status = appointments'[r].status] ]_vars

\* An appointment becomes completed only in a step of a request whose caller may
\* do so, although ownership was read in an earlier step than the UPDATE.
OnlyOwnerCompletes ==
  [][ \A r \in BookRequest :
        appointments[r].status # "completed" /\ appointments'[r].status = "completed"
        => \E c \in CloseRequest :
             /\ pc'[c] # pc[c]
             /\ closing[c].target = r
             /\ closing[c].action = "complete"
             /\ EnsureOwner(closing[c].caller, appointments[r].employee) ]_vars

\* What the handlers know at each stage, which makes the invariants above
\* inductive: what a Book handler found out before its INSERT ...
BookerKnows(r) ==
  /\ pc[r] \in {"received", "quoted", "fits", "taken"} => appointments[r] = NoRow
  /\ pc[r] \in {"quoted", "fits"} =>
       Valid(Wanted(r)) /\ BranchOf[args[r].service] = args[r].branch
  /\ pc[r] = "fits" =>
       args[r].employee \in hired /\ FitsShift(shifts[args[r].employee], Wanted(r))
  /\ pc[r] \in {"inserted", "told"} => appointments[r] # NoRow
  /\ pc[r] \notin {"told", "done", "crashed"} => announced[r]["created"] = 0
  /\ pc[r] \notin {"done", "crashed"} => announced[r]["slot_taken"] = 0

BookStages == \A r \in BookRequest : BookerKnows(r)

\* ... and what a Complete or Cancel handler holds until it has announced: the
\* appointment is closed its way, nobody has said so, and nobody else may.
Stored == {"stored", "told"}
CloserHolds(c) ==
  LET t == closing[c].target
  IN  /\ pc[c] = "cleared" =>
           /\ appointments[t] # NoRow
           /\ EnsureOwner(closing[c].caller, appointments[t].employee)
      /\ pc[c] \in Stored =>
           /\ appointments[t].status =
                IF closing[c].action = "complete" THEN "completed" ELSE "cancelled"
           /\ announced[t]["slot_freed"] = 0
           /\ \A d \in CloseRequest \ {c} :
                pc[d] \in Stored => closing[d].target # t
      /\ pc[c] = "stored" =>
           announced[t]["completed"] = 0 /\ announced[t]["cancelled"] = 0
      /\ pc[c] = "told" => closing[c].action = "cancel"

CloseStages == \A c \in CloseRequest : CloserHolds(c)

\* The inductive invariant.
IInv ==
  /\ TypeOK
  /\ NoDoubleBooking
  /\ BookedWithinShift
  /\ AnnouncementsAreTrue
  /\ BookStages
  /\ CloseStages

\* The table seen as a diary of employees' time.
DiaryState == [scheduled |-> "reserved", completed |-> "kept", cancelled |-> "released"]
diary ==
  [r \in BookRequest |->
     IF appointments[r] = NoRow THEN [state |-> "blank"]
     ELSE [state |-> DiaryState[appointments[r].status],
           employee |-> appointments[r].employee,
           period |-> PeriodOf(appointments[r])]]

Cal == INSTANCE Calendar WITH Id <- BookRequest

\* booking-service implements the diary: each handler takes effect in a single
\* step, and every other step of it leaves the diary as it is.
ImplementsCalendar == Cal!Spec

=============================================================================
