----------------------------- MODULE Analytics -----------------------------
(***************************************************************************)
(* analytics-service: fact tables filled from the event stream, and the    *)
(* reports computed from them.                                             *)
(*                                                                         *)
(* Every event of the system reaches this service, in any order and any    *)
(* number of times, and a consumer handles several at once.  A handler is  *)
(* one transaction: it marks the event in the inbox, reads the fact that   *)
(* the event updates, and commits the mark and what it has written.  The   *)
(* outcome of a visit and the payment of an invoice update a fact that     *)
(* another event makes; where that fact is not there yet they change       *)
(* nothing, and are marked all the same.                                   *)
(*                                                                         *)
(* An event says what it is about, at which time that counts in reports    *)
(* (the start of a visit, the time of the occurrence for everything else), *)
(* and one amount: minutes, kopecks or the quantity of a material.         *)
(***************************************************************************)
EXTENDS Integers, FiniteSetsExt

CONSTANTS
  Appointment, Invoice, Client, Consumable, Branch, Employee,
  Event,         \* the events there may be
  Handler,       \* handlers that may be at work at the same time
  Window,        \* the periods reports are asked for, [since, until)
  Caller,        \* who asks, as the headers of the request name him
  MaxFailures,   \* bound: transactions that may fail
  Nobody, Never, Refused

Subject == Appointment \cup Invoice \cup Client \cup Consumable

\* The routing keys with a branch of _apply; "other" stands for the rest.
Kind == {"created", "completed", "cancelled", "issued", "paid",
         "written_off", "registered", "other"}

\* A caller without a name comes from inside; an account may have no employee.
Role == {"admin", "manager", "specialist"}
CallerType == [known : BOOLEAN, roles : SUBSET Role, employee : Employee \cup {Nobody}]

\* The outcome of a visit is announced once (booking-service), and so is everything
\* else about one subject but the use of a material.
ASSUME AnalyticsAssumption ==
  /\ \A e \in Event :
       /\ e.kind \in Kind /\ e.about \in Subject /\ e.branch \in Branch
       /\ e.employee \in Employee /\ e.at \in Nat /\ e.amount \in Nat
  /\ \A e \in Event :
       /\ e.kind \in {"created", "completed", "cancelled"} => e.about \in Appointment
       /\ e.kind \in {"issued", "paid"} => e.about \in Invoice
       /\ e.kind = "registered" => e.about \in Client
       /\ e.kind = "written_off" => e.about \in Consumable
  /\ \A e, f \in Event :
       e.about = f.about /\ (e.kind = f.kind \/ {e.kind, f.kind} = {"completed", "cancelled"})
       /\ e.kind \notin {"written_off", "other"} => e = f
  /\ \A w \in Window : w.since \in Nat /\ w.until \in Nat
  /\ MaxFailures \in Nat
  /\ Caller \subseteq CallerType
  /\ Nobody \notin Employee /\ Never \notin Nat

VARIABLES
  inbox,         \* rows of processed_events
  appointments, invoices, clients,   \* rows of the fact tables, NoFact where there is none
  consumables,   \* how often the rows of each write-off were inserted
  task,          \* what each handler is at
  heard,         \* events whose effect has been committed (history)
  ready,         \* events that could take effect when their handler started (history)
  failures

tables == <<appointments, invoices, clients, consumables>>
vars == <<inbox, appointments, invoices, clients, consumables, task, heard, ready, failures>>

AppointmentFact ==
  [branch : Branch, employee : Employee, at : Nat, minutes : Nat,
   state : {"created", "completed", "cancelled"}]

InvoiceFact ==
  [branch : Branch, total : Nat, employee : Employee \cup {Nobody},
   commission : Nat, paidAt : Nat \cup {Never}]

NoFact == [state |-> "absent"]

\* No handler, a transaction that has marked the event, one that has read as well
\* and found the fact to update (or needs none), or has not found it.
Idle == [step |-> "idle"]
Task == [step : {"marked", "effective", "void"}, event : Event]

-----------------------------------------------------------------------------
(* handler and _apply of handlers.py.                                      *)

\* Mutant: a fact is updated without a look whether it is there.
FactAssumed(e) == TRUE

\* The fact an event updates is there.
FactKnown(e) ==
  CASE e.kind \in {"completed", "cancelled"} -> appointments[e.about] # NoFact
    [] e.kind = "paid" -> invoices[e.about] # NoFact
    [] OTHER -> TRUE

\* Mutant: the mark is committed before the fact is written.
MarkFirst(h, e) ==
  /\ task[h] = Idle
  /\ e \notin inbox
  /\ inbox' = inbox \cup {e}
  /\ task' = [task EXCEPT ![h] = [step |-> "marked", event |-> e]]
  /\ ready' = IF FactKnown(e) THEN ready \cup {e} ELSE ready \ {e}
  /\ UNCHANGED <<tables, heard, failures>>

\* mark_processed: a transaction waits for another one that has marked the same
\* event, and an event that is marked already is left alone.
Mark(h, e) ==
  /\ task[h] = Idle
  /\ e \notin inbox
  /\ \A g \in Handler : task[g] # Idle => task[g].event # e
  /\ task' = [task EXCEPT ![h] = [step |-> "marked", event |-> e]]
  /\ ready' = IF FactKnown(e) THEN ready \cup {e} ELSE ready \ {e}
  /\ UNCHANGED <<inbox, tables, heard, failures>>

\* session.get in resolve_appointment and record_invoice_paid.
Find(h) ==
  /\ task[h].step = "marked"
  /\ task' = [task EXCEPT ![h].step =
                IF FactKnown(task[h].event) THEN "effective" ELSE "void"]
  /\ UNCHANGED <<inbox, tables, heard, ready, failures>>

\* record_appointment_created.
RecordAppointmentCreated(e) ==
  /\ appointments' = IF appointments[e.about] # NoFact THEN appointments ELSE
       [appointments EXCEPT ![e.about] =
          [branch |-> e.branch, employee |-> e.employee, at |-> e.at,
           minutes |-> e.amount, state |-> "created"]]
  /\ UNCHANGED <<invoices, clients, consumables>>

ResolveAppointment(e) ==
  /\ appointments' = [appointments EXCEPT ![e.about].state = e.kind]
  /\ UNCHANGED <<invoices, clients, consumables>>

RecordInvoiceIssued(e) ==
  /\ invoices' = IF invoices[e.about] # NoFact THEN invoices ELSE
       [invoices EXCEPT ![e.about] =
          [branch |-> e.branch, total |-> e.amount, employee |-> Nobody,
           commission |-> 0, paidAt |-> Never]]
  /\ UNCHANGED <<appointments, clients, consumables>>

RecordInvoicePaid(e) ==
  /\ invoices' = [invoices EXCEPT ![e.about].employee = e.employee,
                                  ![e.about].commission = e.amount,
                                  ![e.about].paidAt = e.at]
  /\ UNCHANGED <<appointments, clients, consumables>>

\* The rows have no key of the event: every call inserts them.
RecordConsumables(e) ==
  /\ consumables' = [consumables EXCEPT ![e] = @ + 1]
  /\ UNCHANGED <<appointments, invoices, clients>>

RecordClient(e) ==
  /\ clients' = clients \cup {e.about}
  /\ UNCHANGED <<appointments, invoices, consumables>>

Apply(e) ==
  \/ e.kind = "created" /\ RecordAppointmentCreated(e)
  \/ e.kind \in {"completed", "cancelled"} /\ ResolveAppointment(e)
  \/ e.kind = "issued" /\ RecordInvoiceIssued(e)
  \/ e.kind = "paid" /\ RecordInvoicePaid(e)
  \/ e.kind = "written_off" /\ RecordConsumables(e)
  \/ e.kind = "registered" /\ RecordClient(e)
  \/ e.kind = "other" /\ UNCHANGED tables

\* session.commit: mark and fact become visible together.  The answer may be lost,
\* and the event is then delivered once more.
Commit(h) ==
  LET e == task[h].event IN
  /\ task[h].step \in {"effective", "void"}
  /\ inbox' = inbox \cup {e}
  /\ IF task[h].step = "effective"
       THEN Apply(e) /\ heard' = heard \cup {e}
       ELSE UNCHANGED <<tables, heard>>
  /\ task' = [task EXCEPT ![h] = Idle]
  /\ UNCHANGED <<ready, failures>>

\* The database fails or the process dies: the transaction leaves nothing behind.
Rollback(h) ==
  /\ task[h] # Idle
  /\ failures < MaxFailures
  /\ failures' = failures + 1
  /\ task' = [task EXCEPT ![h] = Idle]
  /\ UNCHANGED <<inbox, tables, heard, ready>>

-----------------------------------------------------------------------------
Init ==
  /\ inbox = {} /\ heard = {} /\ ready = {} /\ failures = 0
  /\ appointments = [a \in Appointment |-> NoFact]
  /\ invoices = [i \in Invoice |-> NoFact]
  /\ clients = {}
  /\ consumables = [e \in Event |-> 0]
  /\ task = [h \in Handler |-> Idle]

Next ==
  \E h \in Handler :
    \/ \E e \in Event : Mark(h, e)
    \/ Find(h) \/ Commit(h) \/ Rollback(h)

Spec == Init /\ [][Next]_vars

-----------------------------------------------------------------------------
(* The reports of domain.py, as GET requests ask for them.                 *)

In(t, w) == t # Never /\ w.since <= t /\ t < w.until

Average(total, count) == IF count = 0 THEN 0 ELSE total \div count

\* The ten-thousandth nearest to a fraction; of two, the even one.  (A tie takes 32
\* visits; in most of them the binary fraction is a little to one side.)
Rounded(part, whole) ==
  LET floor == (10000 * part) \div whole
      rest == 2 * ((10000 * part) % whole)
  IN  IF rest > whole \/ (rest = whole /\ floor % 2 = 1) THEN floor + 1 ELSE floor

\* Of the visits with a known outcome, how many took place, in ten-thousandths.
Conversion(completed, cancelled) ==
  IF completed + cancelled = 0 THEN 0 ELSE Rounded(completed, completed + cancelled)

\* Mutant: invoices count from the day they are issued.
RevenueOfIssued(b, w) ==
  LET mine == { i \in Invoice : invoices[i] # NoFact /\ invoices[i].branch = b }
      total == SumFunction([i \in mine |-> invoices[i].total])
  IN  [invoices |-> Cardinality(mine), total |-> total,
       average |-> Average(total, Cardinality(mine))]

BranchRevenue(b, w) ==
  LET paid == { i \in Invoice : /\ invoices[i] # NoFact
                                /\ invoices[i].branch = b /\ In(invoices[i].paidAt, w) }
      total == SumFunction([i \in paid |-> invoices[i].total])
  IN  [invoices |-> Cardinality(paid), total |-> total,
       average |-> Average(total, Cardinality(paid))]

EmployeeWorkload(m, w) ==
  LET mine == { a \in Appointment : /\ appointments[a] # NoFact
                                    /\ appointments[a].employee = m
                                    /\ In(appointments[a].at, w) }
      done == { a \in mine : appointments[a].state = "completed" }
      paid == { i \in Invoice : /\ invoices[i] # NoFact
                                /\ invoices[i].employee = m /\ In(invoices[i].paidAt, w) }
  IN  [appointments |-> Cardinality(mine), completed |-> Cardinality(done),
       minutes |-> SumFunction([a \in done |-> appointments[a].minutes]),
       commission |-> SumFunction([i \in paid |-> invoices[i].commission])]

\* branch_funnel of domain.py: how many visits are in a state.
Visits(b, w, state) ==
  Cardinality({ a \in Appointment : /\ appointments[a] # NoFact
                                    /\ appointments[a].branch = b
                                    /\ In(appointments[a].at, w)
                                    /\ appointments[a].state = state })

BranchFunnel(b, w) ==
  [created |-> Visits(b, w, "created") + Visits(b, w, "completed") + Visits(b, w, "cancelled"),
   completed |-> Visits(b, w, "completed"), cancelled |-> Visits(b, w, "cancelled"),
   pending |-> Visits(b, w, "created"),
   conversion |-> Conversion(Visits(b, w, "completed"), Visits(b, w, "cancelled"))]

\* consumables_usage of domain.py, for one material.
ConsumablesUsage(b, w, c) ==
  LET used == { e \in Event : /\ e.kind = "written_off" /\ e.about = c
                              /\ consumables[e] > 0
                              /\ e.branch = b /\ In(e.at, w) }
  IN  [amount |-> SumFunction([e \in used |-> consumables[e] * e.amount]),
       writeOffs |-> SumFunction([e \in used |-> consumables[e]])]

\* The report names the materials that were used.
ConsumablesReport(b, w) ==
  { [material |-> c, usage |-> ConsumablesUsage(b, w, c)] :
      c \in { d \in Consumable : ConsumablesUsage(b, w, d).writeOffs > 0 } }

\* ensure_owner: who comes from inside or is privileged sees everybody's workload, a
\* specialist his own; an account without an employee sees none.
Privileged == {"admin", "manager"}

EnsureOwner(caller, owner) ==
  \/ ~caller.known
  \/ caller.roles \cap Privileged # {}
  \/ caller.employee # Nobody /\ caller.employee = owner

WorkloadReport(caller, m, w) ==
  IF EnsureOwner(caller, m) THEN EmployeeWorkload(m, w) ELSE Refused

\* The name of the branch comes from core, and without it there is no report.
RevenueReport(b, w, core) == IF core = "answers" THEN BranchRevenue(b, w) ELSE Refused

-----------------------------------------------------------------------------
(* Properties.                                                             *)

\* Every variable keeps its type.
TypeOK ==
  /\ inbox \subseteq Event /\ heard \subseteq Event /\ ready \subseteq Event
  /\ appointments \in [Appointment -> AppointmentFact \cup {NoFact}]
  /\ invoices \in [Invoice -> InvoiceFact \cup {NoFact}]
  /\ clients \subseteq Client
  /\ consumables \in [Event -> Nat]
  /\ task \in [Handler -> Task \cup {Idle}]
  /\ failures \in 0 .. MaxFailures

\* An event that is marked and whose fact was there when its handler began has had
\* its effect, in whatever order and however often events are delivered; and
\* nothing takes effect that is not marked.
HandledIsHeard ==
  /\ heard \subseteq inbox
  /\ inbox \cap ready \subseteq heard

\* What the reports have to say about the events heard, counted without tables.
Heard(kind) == { e \in heard : e.kind = kind }
Outcome(e, kind) == \E o \in Heard(kind) : o.about = e.about
Dealt(b, w, kind) ==
  { e \in Heard("created") : e.branch = b /\ In(e.at, w) /\ Outcome(e, kind) }
Bills(b, w) ==
  { e \in Heard("issued") :
      e.branch = b /\ \E p \in Heard("paid") : p.about = e.about /\ In(p.at, w) }

RevenueTold(b, w) ==
  LET revenue == RevenueReport(b, w, "answers") IN
  /\ revenue.invoices = Cardinality(Bills(b, w))
  /\ revenue.total = SumFunction([e \in Bills(b, w) |-> e.amount])

WorkloadTold(caller, m, w) ==
  LET visits == { e \in Heard("created") : e.employee = m /\ In(e.at, w) }
      done == { e \in visits : Outcome(e, "completed") }
      paid == { e \in Heard("paid") : e.employee = m /\ In(e.at, w) }
  IN  WorkloadReport(caller, m, w) =
        [appointments |-> Cardinality(visits), completed |-> Cardinality(done),
         minutes |-> SumFunction([e \in done |-> e.amount]),
         commission |-> SumFunction([e \in paid |-> e.amount])]

FunnelTold(b, w) ==
  LET funnel == BranchFunnel(b, w) IN
  /\ funnel.created = Cardinality({ e \in Heard("created") : e.branch = b /\ In(e.at, w) })
  /\ funnel.completed = Cardinality(Dealt(b, w, "completed"))
  /\ funnel.cancelled = Cardinality(Dealt(b, w, "cancelled"))

UsageTold(b, w) ==
  LET Used(c) == { e \in Heard("written_off") : e.about = c /\ e.branch = b /\ In(e.at, w) }
  IN  ConsumablesReport(b, w) =
        { [material |-> c,
           usage |-> [amount |-> SumFunction([e \in Used(c) |-> e.amount]),
                      writeOffs |-> Cardinality(Used(c))]] :
          c \in { d \in Consumable : Used(d) # {} } }

\* A specialist, or somebody without any role, who is not employee m.
Stranger(caller, m) ==
  caller.known /\ caller.roles \subseteq {"specialist"} /\ caller.employee # m

\* "Every figure is derived from events, and a repeated delivery does not double
\* the revenue": each report is what the events that took effect say, whatever
\* their order, their repetitions and the failures between them; and a specialist
\* is told nothing about another one.
ReportsMatchEvents ==
  \A w \in Window :
    /\ \A b \in Branch : RevenueTold(b, w) /\ FunnelTold(b, w) /\ UsageTold(b, w)
    /\ \A m \in Employee, caller \in Caller :
         IF Stranger(caller, m) THEN WorkloadReport(caller, m, w) = Refused
         ELSE WorkloadTold(caller, m, w)

=============================================================================
