------------------------------ MODULE Billing ------------------------------
(***************************************************************************)
(* billing-service, together with the part of client-service it calls.     *)
(*                                                                         *)
(* A delivery of appointment.completed asks booking for the visit, enters  *)
(* event and invoice in one database transaction, and then publishes       *)
(* invoice.issued.  A Pay request moves the invoice from ISSUED to PAID,   *)
(* has client-service add the loyalty points, and then publishes           *)
(* invoice.paid.  The steps of a handler are tied together by nothing but  *)
(* the first of them: after a failure the event is delivered again, while  *)
(* a payment is not taken a second time.                                   *)
(*                                                                         *)
(* An invoice is named by the delivery whose handler made it.              *)
(***************************************************************************)
EXTENDS Integers, FiniteSetsExt

CONSTANTS
  Event,         \* appointment.completed events, one for each visit
  Client,
  ClientOf,      \* the client of each visit (booking)
  Employee,
  EmployeeOf,    \* its specialist (booking)
  Price,         \* its price in kopecks, fixed when it was booked (booking)
  Delivery,      \* deliveries of events to a handler
  EventOf,       \* the event each of them carries
  Payment,       \* POST /invoices/{id}/pay requests
  InvoiceOf,     \* the invoice each of them names
  PointValue

ASSUME BillingAssumption ==
  /\ ClientOf \in [Event -> Client]
  /\ EmployeeOf \in [Event -> Employee]
  /\ Price \in [Event -> Nat]
  /\ EventOf \in [Delivery -> Event]
  /\ InvoiceOf \in [Payment -> Delivery]
  /\ PointValue \in Nat \ {0}
  /\ Delivery \cap Payment = {}

VARIABLES
  invoices,      \* rows of invoices, NoInvoice where a handler has made none
  inbox,         \* rows of processed_events
  pc,            \* how far each handler has come
  announced,     \* how often each invoice was announced as issued and as paid
  balance, entries, earned, session, seen, overtaken      \* client-service

billingVars == <<invoices, inbox, pc, announced>>
clientVars == <<balance, entries, earned, session, seen, overtaken>>
vars == <<invoices, inbox, pc, announced, balance, entries, earned, session, seen, overtaken>>

\* billing makes one AddLoyaltyPoints call in each payment.
Asks ==
  [p \in Payment |->
     LET e == EventOf[InvoiceOf[p]]
     IN  [client |-> ClientOf[e], invoice |-> InvoiceOf[p], paid |-> Price[e]]]

Clients == INSTANCE Loyalty WITH Invoice <- Delivery, Call <- Payment

Invoice == [event : Event, status : {"issued", "paid"}, total : Nat, commission : Nat]
NoInvoice == [status |-> "absent"]

IssueStage == {"received", "quoted", "issued", "done", "failed"}
PayStage == {"received", "paid", "accruing", "accrued", "refused", "done", "failed"}

\* The specialist's share is forty per cent, rounded down.
CommissionFor(total) == (total * 2) \div 5

\* The unique index on appointment_id.
Invoiced(e) == \E d \in Delivery : invoices[d] # NoInvoice /\ invoices[d].event = e

-----------------------------------------------------------------------------
(* on_appointment_completed.                                               *)

\* GetAppointment of booking.
FetchDetails(d) ==
  /\ pc[d] = "received"
  /\ pc' = [pc EXCEPT ![d] = "quoted"]
  /\ UNCHANGED <<invoices, inbox, announced>>

\* What the transaction of issue_invoice stores.
Store(d, answered) ==
  /\ invoices' = [invoices EXCEPT ![d] =
                    [event |-> EventOf[d], status |-> "issued",
                     total |-> Price[EventOf[d]],
                     commission |-> CommissionFor(Price[EventOf[d]])]]
  /\ pc' = [pc EXCEPT ![d] = IF answered THEN "issued" ELSE "failed"]
  /\ UNCHANGED announced

\* Mutant: the event is marked in a transaction of its own, which commits first.
MarkFirst(d, answered) ==
  /\ pc[d] = "quoted"
  /\ inbox' = inbox \cup {EventOf[d]}
  /\ \/ EventOf[d] \notin inbox /\ Store(d, answered)
     \/ pc' = [pc EXCEPT ![d] = "failed"] /\ UNCHANGED <<invoices, announced>>

\* issue_invoice: mark and invoice become visible with one commit.  Transactions
\* with the same event wait for one another at the mark.  If the answer is lost,
\* the handler fails all the same.
Issue(d, answered) ==
  /\ pc[d] = "quoted"
  /\ EventOf[d] \notin inbox
  /\ ~ Invoiced(EventOf[d])
  /\ inbox' = inbox \cup {EventOf[d]}
  /\ Store(d, answered)

\* An event found in the inbox is acknowledged, and nothing else happens.
Skip(d) ==
  /\ pc[d] = "quoted"
  /\ EventOf[d] \in inbox
  /\ pc' = [pc EXCEPT ![d] = "done"]
  /\ UNCHANGED <<invoices, inbox, announced>>

\* The broker confirms the message, or the handler fails.
PublishIssued(d) ==
  /\ pc[d] = "issued"
  /\ announced' = [announced EXCEPT ![d].issued = @ + 1]
  /\ pc' = [pc EXCEPT ![d] = "done"]
  /\ UNCHANGED <<invoices, inbox>>

-----------------------------------------------------------------------------
(* pay_invoice of the API.                                                 *)

\* What the conditional UPDATE stores.
MarkPaid(p, answered) ==
  /\ pc[p] = "received"
  /\ invoices' = [invoices EXCEPT ![InvoiceOf[p]].status = "paid"]
  /\ pc' = [pc EXCEPT ![p] = IF answered THEN "paid" ELSE "failed"]
  /\ UNCHANGED <<inbox, announced>>

\* Mutants: an invoice paid already is paid again; the UPDATE becomes an upsert.
PayAgain(p, answered) == invoices[InvoiceOf[p]] # NoInvoice /\ MarkPaid(p, answered)

UpsertPaid(p, answered) == MarkPaid(p, answered)

Pay(p, answered) ==
  invoices[InvoiceOf[p]].status = "issued" /\ MarkPaid(p, answered)

\* No such invoice, or paid already.
RefusePay(p) ==
  /\ pc[p] = "received"
  /\ invoices[InvoiceOf[p]].status # "issued"
  /\ pc' = [pc EXCEPT ![p] = "refused"]
  /\ UNCHANGED <<invoices, inbox, announced>>

\* Mutants: the points are asked for before the invoice is paid; invoice.paid goes
\* out without waiting for them.
AccrueFirst(p) ==
  /\ pc[p] \in {"received", "paid"}
  /\ Clients!Receive(p)
  /\ UNCHANGED <<invoices, inbox, announced, pc>>

AnnounceEarly(p) ==
  /\ pc[p] = "accruing"
  /\ pc' = [pc EXCEPT ![p] = "accrued"]
  /\ UNCHANGED <<invoices, inbox, announced>>

\* accrue_points: the call leaves for client-service ...
Accrue(p) ==
  /\ pc[p] = "paid"
  /\ Clients!Receive(p)
  /\ pc' = [pc EXCEPT ![p] = "accruing"]
  /\ UNCHANGED <<invoices, inbox, announced>>

\* ... and its answer arrives.
HearOfPoints(p) ==
  /\ pc[p] = "accruing"
  /\ session[p] \in {"added", "known"}
  /\ pc' = [pc EXCEPT ![p] = "accrued"]
  /\ UNCHANGED <<invoices, inbox, announced>>

AnnouncePaid(p) ==
  /\ pc[p] = "accrued"
  /\ announced' = [announced EXCEPT ![InvoiceOf[p]].paid = @ + 1]
  /\ pc' = [pc EXCEPT ![p] = "done"]
  /\ UNCHANGED <<invoices, inbox>>

\* A neighbour, the database or the broker fails, or the process dies.  A call on
\* its way to client-service goes on there.
GiveUp(h) ==
  /\ pc[h] \in {"received", "quoted", "issued", "paid", "accruing", "accrued"}
  /\ pc' = [pc EXCEPT ![h] = "failed"]
  /\ UNCHANGED <<invoices, inbox, announced>>

-----------------------------------------------------------------------------
Init ==
  /\ invoices = [d \in Delivery |-> NoInvoice]
  /\ inbox = {}
  /\ pc = [h \in Delivery \cup Payment |-> "received"]
  /\ announced = [d \in Delivery |-> [issued |-> 0, paid |-> 0]]
  /\ Clients!Init

IssueInvoice(d) ==
  \/ FetchDetails(d) \/ Skip(d) \/ PublishIssued(d)
  \/ \E answered \in BOOLEAN : Issue(d, answered)

PayInvoice(p) ==
  \/ RefusePay(p) \/ HearOfPoints(p) \/ AnnouncePaid(p)
  \/ \E answered \in BOOLEAN : Pay(p, answered)

Next ==
  \/ \E d \in Delivery : IssueInvoice(d) /\ UNCHANGED clientVars
  \/ \E p \in Payment : PayInvoice(p) /\ UNCHANGED clientVars
  \/ \E h \in Delivery \cup Payment : GiveUp(h) /\ UNCHANGED clientVars
  \/ \E p \in Payment : Accrue(p)
  \/ \E p \in Payment : Clients!AddLoyaltyPoints(p) /\ UNCHANGED billingVars

Spec == Init /\ [][Next]_vars

-----------------------------------------------------------------------------
(* The report of a specialist's commission, over all time.                 *)

\* employee_commission: invoices that are paid, and no others.
EmployeeCommission(m) ==
  LET paid == { d \in Delivery : /\ invoices[d].status = "paid"
                                 /\ EmployeeOf[invoices[d].event] = m }
  IN  [invoices |-> Cardinality(paid),
       total |-> SumFunction([d \in paid |-> invoices[d].commission])]

-----------------------------------------------------------------------------
(* Properties.                                                             *)

\* Every variable keeps its type.
TypeOK ==
  /\ invoices \in [Delivery -> Invoice \cup {NoInvoice}]
  /\ inbox \subseteq Event
  /\ pc \in [Delivery \cup Payment -> IssueStage \cup PayStage]
  /\ announced \in [Delivery -> [issued : Nat, paid : Nat]]
  /\ Clients!TypeOK

\* A completed visit is marked as processed exactly if it has an invoice, and it
\* has one invoice at most, however often its event is delivered.
InvoicedOnce ==
  \A e \in Event :
    /\ e \in inbox <=> Invoiced(e)
    /\ \A c, d \in Delivery :
         invoices[c] # NoInvoice /\ invoices[c].event = e
         /\ invoices[d] # NoInvoice /\ invoices[d].event = e => c = d

Won(p) == pc[p] \in {"paid", "accruing", "accrued", "done"}

\* Of several Pay requests for one invoice a single one is let through to the
\* points, and the invoice is then paid.
PaidOnce ==
  \A p \in Payment : Won(p) =>
    /\ invoices[InvoiceOf[p]].status = "paid"
    /\ \A q \in Payment \ {p} : InvoiceOf[q] = InvoiceOf[p] => ~ Won(q)

\* Points are recorded only for an invoice that has been paid, and once for each.
PointsOnlyForPaid ==
  /\ \A p \in entries : invoices[InvoiceOf[p]].status = "paid"
  /\ Clients!OneEntryPerInvoice

\* The commission announced of a specialist, which analytics adds up, is never more
\* than the one that billing itself reports, and the same when every payment was
\* announced.
CommissionTold(m) ==
  LET told == { d \in Delivery : announced[d].paid > 0 /\ EmployeeOf[EventOf[d]] = m }
  IN  SumFunction([d \in told |-> announced[d].paid * CommissionFor(Price[EventOf[d]])])

ReportsAgree(m) ==
  LET report == EmployeeCommission(m) IN
  /\ CommissionTold(m) <= report.total
  /\ (\A d \in Delivery : invoices[d].status = "paid" => announced[d].paid = 1)
       => CommissionTold(m) = report.total

\* invoice.issued is published at most once and for an invoice that exists;
\* invoice.paid at most once and not before its points are recorded; and the two
\* services report the same commission.
AnnouncementsAreTrue ==
  /\ \A m \in Employee : ReportsAgree(m)
  /\ \A d \in Delivery :
       /\ announced[d].issued <= 1 /\ announced[d].paid <= 1
       /\ announced[d].issued = 1 => invoices[d] # NoInvoice
       /\ announced[d].paid = 1 => \E p \in entries : InvoiceOf[p] = d

\* Nobody works on an invoice any more.
Resting(d) ==
  \A p \in Payment : InvoiceOf[p] = d =>
    pc[p] \in {"refused", "done", "failed"} /\ session[p] \in {"idle"} \cup Clients!Ended

\* "Points are accrued only after the payment of an invoice, and exactly once":
\* when nobody works on a paid invoice any more, its points are recorded.
PaidEarnsPoints ==
  \A d \in Delivery : invoices[d].status = "paid" /\ Resting(d) =>
    \E p \in entries : InvoiceOf[p] = d

=============================================================================
