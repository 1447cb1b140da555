------------------------------ MODULE Inventory ------------------------------
(***************************************************************************)
(* inventory-service: the stock of one branch.                             *)
(*                                                                         *)
(* A delivery of appointment.completed asks catalog for the consumption    *)
(* norms and writes all of them off in one database transaction that also  *)
(* enters the event in the inbox; a Replenish request adds to the stock in *)
(* a transaction of its own; SetThreshold is a single UPDATE.  The broker  *)
(* delivers at least once: after a lost acknowledgement, a crash or a cut  *)
(* connection another handler gets the same event, perhaps while the first *)
(* one is still at work.                                                   *)
(*                                                                         *)
(* Postgres runs the transactions at READ COMMITTED: one statement is one  *)
(* step; a statement sees committed rows and its own; a row written by an  *)
(* unfinished transaction is locked for the others until it ends.          *)
(*                                                                         *)
(* Quantities are whole thousandths, the grain of numeric(14,3).           *)
(***************************************************************************)
EXTENDS Integers, Sequences

CONSTANTS
  Item,          \* materials (consumable_id)
  Event,         \* appointment.completed events, one per appointment
  Norms,         \* consumption norms of the service of each event (catalog)
  Delivery,      \* deliveries of events to a handler
  EventOf,       \* the event each of them carries
  Request,       \* POST .../stock/replenish requests
  Asked,         \* the positions in their bodies
  Threshold,     \* values somebody may set as a threshold
  Opening        \* the rows of the stock at the start

\* A row of stock_items; an item the branch does not keep has none.
StockRow == [kept : BOOLEAN, quantity : Int, threshold : Nat]
NoRow == [kept |-> FALSE, quantity |-> 0, threshold |-> 0]

Line == [item : Item, amount : Int]

ASSUME InventoryAssumption ==
  /\ Norms \in [Event -> Seq([item : Item, amount : Nat \ {0}])]
  /\ \A e \in Event : \A i, j \in DOMAIN Norms[e] :
       Norms[e][i].item = Norms[e][j].item => i = j
  /\ EventOf \in [Delivery -> Event]
  /\ Asked \in [Request -> Seq(Line)]
  /\ Threshold \subseteq Nat
  /\ Opening \in [Item -> StockRow]
  /\ \A c \in Item : Opening[c].quantity >= 0 /\ (Opening[c].kept \/ Opening[c] = NoRow)
  /\ Delivery \cap Request = {} /\ Event \cap Request = {}

Handler == Delivery \cup Request

\* A job is what may happen once: the write-off for an event, or a request.
Job == Event \cup Request
JobOf(t) == IF t \in Delivery THEN EventOf[t] ELSE t

VARIABLES
  stock,       \* committed rows of stock_items
  history,     \* committed rows of stock_movements: the sum of deltas of each item,
  recorded,    \*   and how many transactions have written rows for each job
  inbox,       \* committed rows of processed_events
  draft,       \* rows each open transaction has written, and so locked; else NoRow
  moves,       \* the history rows it has written: the sum of deltas of each item
  step,        \* how many lines of its job a transaction has applied
  pc,
  alerts,      \* the items a handler still has to raise a low-stock alert for
  sent         \* messages published: consumables.written_off and stock.low

vars == <<stock, history, recorded, inbox, draft, moves, step, pc, alerts, sent>>

Stage == {"received", "ready", "applying", "committed", "alerting", "done", "failed"}

Nothing == [c \in Item |-> NoRow]
NoMoves == [c \in Item |-> 0]

-----------------------------------------------------------------------------
(* A handler's job.                                                        *)

\* The movements of a job, in the order of its statements: the norms by name,
\* negated; the positions of the request as they come.
Lines(j) ==
  IF j \in Event
  THEN [i \in DOMAIN Norms[j] |-> [Norms[j][i] EXCEPT !.amount = - @]]
  ELSE Asked[j]
Movements(t) == Lines(JobOf(t))

Open(t) == pc[t] = "applying"

\* t has written the row of item c and holds its lock.
Holds(t, c) == draft[t][c].kept

\* What a statement of t sees of the row of item c.
Seen(t, c) == IF Holds(t, c) THEN draft[t][c] ELSE stock[c]

IsLow(row) == row.quantity < row.threshold

-----------------------------------------------------------------------------
(* Before the transaction.                                                 *)

\* catalog answers with the norms; a service without any needs no write-off,
\* and the event is acknowledged without a mark in the inbox.
FetchNorms(d) ==
  /\ pc[d] = "received"
  /\ pc' = [pc EXCEPT ![d] = IF Norms[EventOf[d]] = <<>> THEN "done" ELSE "ready"]
  /\ UNCHANGED <<stock, history, recorded, inbox, draft, moves, step, alerts, sent>>

\* Replenish takes positive amounts only, and not an empty list.
CheckAmounts(q) ==
  /\ pc[q] = "received"
  /\ pc' = [pc EXCEPT ![q] =
              IF Asked[q] # <<>> /\ \A i \in DOMAIN Asked[q] : Asked[q][i].amount > 0
              THEN "ready" ELSE "failed"]
  /\ UNCHANGED <<stock, history, recorded, inbox, draft, moves, step, alerts, sent>>

-----------------------------------------------------------------------------
(* ApplyMovements.                                                         *)

\* The inbox key is locked by a transaction that has inserted it and is open.
Marking(e) == \E u \in Delivery : EventOf[u] = e /\ Open(u)

\* Mutants: the answer of the INSERT is ignored; an event found in the inbox is
\* announced as if it had just been processed.
MarkBlindly(d) ==
  /\ pc[d] = "ready"
  /\ ~ Marking(EventOf[d])
  /\ pc' = [pc EXCEPT ![d] = "applying"]
  /\ UNCHANGED <<stock, history, recorded, inbox, draft, moves, step, alerts, sent>>

MarkAnnouncing(d) ==
  /\ pc[d] = "ready"
  /\ ~ Marking(EventOf[d])
  /\ pc' = [pc EXCEPT ![d] = IF EventOf[d] \in inbox THEN "committed" ELSE "applying"]
  /\ UNCHANGED <<stock, history, recorded, inbox, draft, moves, step, alerts, sent>>

\* INSERT INTO processed_events ... ON CONFLICT DO NOTHING: waits for an open
\* transaction with the same key, and then either enters it or finds it.
Mark(d) ==
  /\ pc[d] = "ready"
  /\ ~ Marking(EventOf[d])
  /\ pc' = [pc EXCEPT ![d] = IF EventOf[d] \in inbox THEN "done" ELSE "applying"]
  /\ UNCHANGED <<stock, history, recorded, inbox, draft, moves, step, alerts, sent>>

\* A replenishment has no event to mark.
BeginReplenish(q) ==
  /\ pc[q] = "ready"
  /\ pc' = [pc EXCEPT ![q] = "applying"]
  /\ UNCHANGED <<stock, history, recorded, inbox, draft, moves, step, alerts, sent>>

\* Mutant: the UPDATE forgets its condition on the quantity.
EnoughIfKept(t, line) == Seen(t, line.item).kept

\* writeOffOne: UPDATE ... WHERE quantity + delta >= 0; a CHECK of the table agrees.
Enough(t, line) ==
  /\ Seen(t, line.item).kept
  /\ Seen(t, line.item).quantity + line.amount >= 0

\* What either statement makes of the row; replenishOne, an upsert, may insert it.
Moved(row, amount) ==
  [kept |-> TRUE, quantity |-> row.quantity + amount, threshold |-> row.threshold]

\* Mutant: the quantity is read, added to and written back without a lock.
ApplyUnlocked(t) ==
  LET line == Movements(t)[step[t] + 1]
  IN  /\ Open(t)
      /\ step[t] < Len(Movements(t))
      /\ line.amount < 0 => Enough(t, line)
      /\ draft' = [draft EXCEPT ![t][line.item] = Moved(Seen(t, line.item), line.amount)]
      /\ moves' = [moves EXCEPT ![t][line.item] = @ + line.amount]
      /\ step' = [step EXCEPT ![t] = @ + 1]
      /\ UNCHANGED <<stock, history, recorded, inbox, pc, alerts, sent>>

\* The next movement: the row is written and stays locked, together with its
\* line in the history.
ApplyOne(t) ==
  LET line == Movements(t)[step[t] + 1]
  IN  /\ Open(t)
      /\ step[t] < Len(Movements(t))
      /\ line.amount < 0 => Enough(t, line)
      /\ \A u \in Handler \ {t} : ~ Holds(u, line.item)
      /\ draft' = [draft EXCEPT ![t][line.item] = Moved(Seen(t, line.item), line.amount)]
      /\ moves' = [moves EXCEPT ![t][line.item] = @ + line.amount]
      /\ step' = [step EXCEPT ![t] = @ + 1]
      /\ UNCHANGED <<stock, history, recorded, inbox, pc, alerts, sent>>

\* The transaction is rolled back: its rows, locks and mark are gone.
Rollback(t) ==
  /\ draft' = [draft EXCEPT ![t] = Nothing]
  /\ moves' = [moves EXCEPT ![t] = NoMoves]
  /\ step' = [step EXCEPT ![t] = 0]
  /\ pc' = [pc EXCEPT ![t] = "failed"]
  /\ UNCHANGED <<stock, history, recorded, inbox, alerts, sent>>

\* Mutant: the transaction stays open until there is enough.
KeepTrying(t) ==
  /\ Open(t)
  /\ step[t] < Len(Movements(t))
  /\ LET line == Movements(t)[step[t] + 1]
     IN  line.amount < 0 /\ ~ Enough(t, line)
  /\ UNCHANGED vars

\* The item is not kept here, or there is too little of it.
Conflict(t) ==
  /\ Open(t)
  /\ step[t] < Len(Movements(t))
  /\ LET line == Movements(t)[step[t] + 1]
     IN  line.amount < 0 /\ ~ Enough(t, line)
  /\ Rollback(t)

\* The commit makes rows, history and mark visible at once and frees the locks.
\* If its answer is lost, the handler ends with an error all the same.
EndTransaction(t, answered) ==
  /\ Open(t)
  /\ stock' = [c \in Item |-> Seen(t, c)]
  /\ history' = [c \in Item |-> history[c] + moves[t][c]]
  /\ recorded' = [recorded EXCEPT ![JobOf(t)] = @ + 1]
  /\ alerts' = [alerts EXCEPT ![t] =
                  IF t \in Delivery /\ answered
                  THEN { c \in Item : Holds(t, c) /\ IsLow(draft[t][c]) } ELSE {}]
  /\ draft' = [draft EXCEPT ![t] = Nothing]
  /\ moves' = [moves EXCEPT ![t] = NoMoves]
  /\ pc' = [pc EXCEPT ![t] = IF ~ answered THEN "failed"
                             ELSE IF t \in Delivery THEN "committed" ELSE "done"]
  /\ UNCHANGED <<step, sent>>

\* Mutants: the inbox remembers the delivery instead of the event; every movement
\* may be the last of its transaction.
CommitMarkingDelivery(t, answered) ==
  /\ step[t] = Len(Movements(t))
  /\ inbox' = IF t \in Delivery THEN inbox \cup {t} ELSE inbox
  /\ EndTransaction(t, answered)

CommitAnyTime(t, answered) ==
  /\ inbox' = IF t \in Delivery THEN inbox \cup {EventOf[t]} ELSE inbox
  /\ EndTransaction(t, answered)

Commit(t, answered) ==
  /\ step[t] = Len(Movements(t))
  /\ inbox' = IF t \in Delivery THEN inbox \cup {EventOf[t]} ELSE inbox
  /\ EndTransaction(t, answered)

\* catalog or the database fails, or the process dies: the handler ends, and an
\* open transaction is rolled back.  Nothing announced yet is announced later.
Fail(t) ==
  /\ pc[t] \in {"received", "ready", "applying", "committed", "alerting"}
  /\ draft' = [draft EXCEPT ![t] = Nothing]
  /\ moves' = [moves EXCEPT ![t] = NoMoves]
  /\ pc' = [pc EXCEPT ![t] = "failed"]
  /\ alerts' = [alerts EXCEPT ![t] = {}]
  /\ UNCHANGED <<stock, history, recorded, inbox, step, sent>>

-----------------------------------------------------------------------------
(* Waiting for locks.                                                      *)

\* t's next statement needs a row that u holds.
WaitsFor(t, u) ==
  /\ Open(t)
  /\ step[t] < Len(Movements(t))
  /\ LET line == Movements(t)[step[t] + 1]
     IN  /\ Holds(u, line.item)
         /\ line.amount < 0 => Enough(t, line)

\* Transactions that wait for one another in a circle.
Deadlock(T) ==
  \A t \in T : /\ \E u \in T \ {t} : WaitsFor(t, u)
              /\ \E u \in T \ {t} : WaitsFor(u, t)

\* Postgres detects a deadlock and aborts one of its transactions.
AbortVictim(t) ==
  /\ \E u \in Handler : WaitsFor(t, u)
  /\ \E T \in SUBSET { u \in Handler : Open(u) } : t \in T /\ Deadlock(T)
  /\ Rollback(t)

-----------------------------------------------------------------------------
(* After the commit.                                                       *)

\* RabbitMQ takes the message, or the error is only logged.
PublishWrittenOff(d) ==
  /\ pc[d] = "committed"
  /\ \/ sent' = [sent EXCEPT !.writtenOff[EventOf[d]] = @ + 1]
     \/ UNCHANGED sent
  /\ pc' = [pc EXCEPT ![d] = "alerting"]
  /\ UNCHANGED <<stock, history, recorded, inbox, draft, moves, step, alerts>>

\* raiseLowStock, one item at a time, to both brokers.
RaiseLowStock(d, c) ==
  /\ pc[d] = "alerting"
  /\ c \in alerts[d]
  /\ alerts' = [alerts EXCEPT ![d] = @ \ {c}]
  /\ \/ sent' = [sent EXCEPT !.low = @ \cup {<<EventOf[d], c>>}]
     \/ UNCHANGED sent
  /\ UNCHANGED <<stock, history, recorded, inbox, draft, moves, step, pc>>

Finish(d) ==
  /\ pc[d] = "alerting"
  /\ alerts[d] = {}
  /\ pc' = [pc EXCEPT ![d] = "done"]
  /\ UNCHANGED <<stock, history, recorded, inbox, draft, moves, step, alerts, sent>>

\* PUT .../threshold: one UPDATE of an existing row, which waits for its lock.
SetThreshold(c, threshold) ==
  /\ stock[c].kept
  /\ stock[c].threshold # threshold
  /\ \A t \in Handler : ~ Holds(t, c)
  /\ stock' = [stock EXCEPT ![c].threshold = threshold]
  /\ UNCHANGED <<history, recorded, inbox, draft, moves, step, pc, alerts, sent>>

-----------------------------------------------------------------------------
Init ==
  /\ stock = Opening
  /\ history = [c \in Item |-> Opening[c].quantity]
  /\ recorded = [j \in Job |-> 0]
  /\ inbox = {}
  /\ draft = [t \in Handler |-> Nothing]
  /\ moves = [t \in Handler |-> NoMoves]
  /\ step = [t \in Handler |-> 0]
  /\ pc = [t \in Handler |-> "received"]
  /\ alerts = [t \in Handler |-> {}]
  /\ sent = [writtenOff |-> [e \in Event |-> 0], low |-> {}]

WriteOffForAppointment(d) ==
  \/ FetchNorms(d) \/ Mark(d) \/ PublishWrittenOff(d)
  \/ \E c \in Item : RaiseLowStock(d, c)
  \/ Finish(d)

Replenish(q) == CheckAmounts(q) \/ BeginReplenish(q)

ApplyMovements(t) ==
  \/ ApplyOne(t) \/ Conflict(t) \/ AbortVictim(t)
  \/ \E answered \in BOOLEAN : Commit(t, answered)

Next ==
  \/ \E d \in Delivery : WriteOffForAppointment(d)
  \/ \E q \in Request : Replenish(q)
  \/ \E t \in Handler : ApplyMovements(t) \/ Fail(t)
  \/ \E c \in Item, threshold \in Threshold : SetThreshold(c, threshold)

Spec == Init /\ [][Next]_vars

\* Postgres goes on with some transaction while any can proceed; it breaks deadlocks.
Fairness == WF_vars(\E t \in Handler : ApplyMovements(t))

FairSpec == Spec /\ Fairness

-----------------------------------------------------------------------------
(* Properties.                                                             *)

\* Every variable keeps its type.
TypeOK ==
  /\ stock \in [Item -> StockRow]
  /\ history \in [Item -> Int]
  /\ recorded \in [Job -> Nat]
  /\ inbox \subseteq Event
  /\ draft \in [Handler -> [Item -> StockRow]]
  /\ moves \in [Handler -> [Item -> Int]]
  /\ step \in [Handler -> Nat]
  /\ pc \in [Handler -> Stage]
  /\ alerts \in [Handler -> SUBSET Item]
  /\ sent \in [writtenOff : [Event -> Nat], low : SUBSET (Event \X Item)]

\* The stock never goes negative, neither committed nor within a transaction,
\* although write-offs and replenishments change the same rows at once.
StockNeverNegative ==
  \A c \in Item :
    /\ stock[c].quantity >= 0
    /\ \A t \in Handler : draft[t][c].quantity >= 0

\* Summing the history of movements gives the stock: no movement is applied and
\* not recorded, recorded and not applied, or overwritten by a concurrent one.
HistoryRestoresStock ==
  \A c \in Item : history[c] = stock[c].quantity

\* An event is marked as processed exactly if its materials were written off,
\* and that happened once, however often and to whomever it was delivered.
MarkedIffWrittenOff ==
  \A e \in Event : recorded[e] = IF e \in inbox THEN 1 ELSE 0

\* What is announced did happen: consumables.written_off goes out at most once,
\* after its write-off, and so does every low-stock alert.
AnnouncementsAreTrue ==
  \A e \in Event :
    /\ sent.writtenOff[e] <= recorded[e]
    /\ \A c \in Item : <<e, c>> \in sent.low => recorded[e] > 0

\* The materials a job is about, and by how much it changes each of them: what its
\* first n lines add up to, for n up to all of them.
Touched == [j \in Job |-> { Lines(j)[i].item : i \in DOMAIN Lines(j) }]
RunningTotal(lines, c) ==
  LET total[n \in 0 .. Len(lines)] ==
        IF n = 0 THEN 0
        ELSE total[n - 1] + (IF lines[n].item = c THEN lines[n].amount ELSE 0)
  IN  total
Change == [j \in Job |-> [c \in Item |-> RunningTotal(Lines(j), c)[Len(Lines(j))]]]

\* The rows a write-off got back statement by statement, from which it raises
\* alerts, are still the rows of the table when it commits.
AlertsMatchStock ==
  [][ \A d \in Delivery :
        pc[d] = "applying" /\ pc'[d] = "committed" =>
          alerts'[d] = { c \in Touched[EventOf[d]] : IsLow(stock'[c]) } ]_vars

\* A transaction never waits for ever, although a replenishment may lock the rows
\* in another order than a write-off does.
TransactionsEnd ==
  []<>(\A t \in Handler : ~ Open(t))

\* What makes the invariants inductive.  A row is locked by one transaction at
\* most, and what that transaction has recorded of it is how far it has moved it;
\* a finished handler holds nothing.
LocksHeld ==
  \A t \in Handler, c \in Item :
    /\ Holds(t, c) => Open(t) /\ \A u \in Handler \ {t} : ~ Holds(u, c)
    /\ ~ Holds(t, c) => draft[t][c] = NoRow
    /\ moves[t][c] = IF Holds(t, c) THEN draft[t][c].quantity - stock[c].quantity ELSE 0

\* An event is in the hands of one transaction at most, while it is not marked;
\* a handler that has committed has still to announce what nobody announced.
EventsHeld ==
  \A d \in Delivery :
    LET e == EventOf[d]
    IN  /\ Open(d) => e \notin inbox
                     /\ \A o \in Delivery \ {d} : Open(o) => EventOf[o] # e
        /\ pc[d] \in {"committed", "alerting"} => e \in inbox
        /\ pc[d] = "committed" =>
             /\ sent.writtenOff[e] = 0
             /\ \A o \in Delivery \ {d} : pc[o] = "committed" => EventOf[o] # e

\* How far a transaction has come: it holds the rows its statements so far are about,
\* and has recorded of each what they add up to; a write-off found them all kept by
\* the branch.  A request that has taken effect is over.
LinesApplied ==
  /\ \A c \in Item : stock[c].kept \/ stock[c] = NoRow
  /\ \A t \in Handler :
       /\ pc[t] \in {"received", "ready"} => step[t] = 0
       /\ Open(t) =>
            /\ step[t] <= Len(Movements(t))
            /\ \A c \in Item :
                 /\ Holds(t, c) <=> \E i \in 1 .. step[t] : Movements(t)[i].item = c
                 /\ moves[t][c] = RunningTotal(Movements(t), c)[step[t]]
                 /\ Holds(t, c) /\ t \in Delivery => stock[c].kept
  /\ \A q \in Request : recorded[q] > 0 => pc[q] \in {"done", "failed"}

\* The inductive invariant.
IInv ==
  /\ TypeOK
  /\ StockNeverNegative
  /\ HistoryRestoresStock
  /\ MarkedIffWrittenOff
  /\ AnnouncementsAreTrue
  /\ LocksHeld
  /\ EventsHeld
  /\ LinesApplied

\* The stock seen as a warehouse.
Ware == INSTANCE Warehouse WITH
  Taking <- Event,
  onHand <- [c \in Item |-> IF stock[c].kept THEN stock[c].quantity ELSE -1],
  doneJobs <- { j \in Job : recorded[j] > 0 }

\* A job of several statements takes effect as a whole in one step, once.
ImplementsWarehouse == Ware!Spec

=============================================================================
