------------------------------ MODULE Delivery ------------------------------
(***************************************************************************)
(* How an event gets from its publisher to the handler of one service: a   *)
(* quorum queue of RabbitMQ (deploy/rabbitmq/definitions.json) and the     *)
(* consumer of libs/go-common or libs/py-common.                           *)
(*                                                                         *)
(* The broker counts how often a message has come back to the queue; the   *)
(* consumer takes that number for the number of failed attempts.  A cut    *)
(* connection gives everything unsettled back, while a handler that is     *)
(* already at work goes on and finds its delivery void at the end.         *)
(*                                                                         *)
(* A handler is reduced to what the services have in common: one database  *)
(* transaction with the effect and the inbox mark of the event.            *)
(***************************************************************************)
EXTENDS Integers, FiniteSets

CONSTANTS
  Message,
  Mix,            \* the kinds of messages there may be
  Prefetch,       \* deliveries a consumer may hold unsettled
  RetryLimit,     \* attempts the consumer makes (RETRY_LIMIT)
  DeliveryLimit   \* returns the queue admits (x-delivery-limit)

\* An event with a handler, one that nobody has subscribed to, and a body that is
\* no envelope.
Kind == {"routed", "unrouted", "unparsable"}

ASSUME DeliveryAssumption ==
  /\ IsFiniteSet(Message)
  /\ Mix \subseteq [Message -> Kind]
  /\ Prefetch \in Nat \ {0}
  /\ RetryLimit \in Nat \ {0}
  /\ DeliveryLimit \in Nat /\ RetryLimit <= DeliveryLimit

VARIABLES
  parallel,    \* deliveries are handled at the same time, not one by one
  kind,        \* what the consumer makes of each message
  place,       \* where each message is
  returned,    \* x-delivery-count: how often it has come back to the queue
  task,        \* how far the consumer is with each delivery of each message
  inbox,       \* committed rows of processed_events
  effects      \* how often the effect of each message has been committed

vars == <<parallel, kind, place, returned, task, inbox, effects>>

Place == {"unsent", "ready", "out", "acked", "dead"}

\* The k-th delivery of a message is the one made after k - 1 returns.
Attempt == 1 .. DeliveryLimit + 1

Busy == {"working", "applied", "failing", "hopeless"}
\* Given up after the last attempt, rejected as hopeless, killed, ended otherwise.
Ended == {"buried", "rejected", "gone", "over"}
Stage == {"none", "held"} \cup Busy \cup Ended

Out == { m \in Message : place[m] = "out" }

\* The delivery that the broker waits to see settled.
Current(m, k) == place[m] = "out" /\ k = returned[m] + 1

-----------------------------------------------------------------------------
(* The queue.                                                              *)

\* Mutant: a queue without x-delivery-limit.
ReturnAnyway(count) == "ready"

\* A message that comes back too often goes to the dead-letter exchange.
ReturnTo(count) == IF count > DeliveryLimit THEN "dead" ELSE "ready"

Publish(m) ==
  /\ place[m] = "unsent"
  /\ place' = [place EXCEPT ![m] = "ready"]
  /\ UNCHANGED <<parallel, kind, returned, task, inbox, effects>>

Deliver(m) ==
  /\ place[m] = "ready"
  /\ Cardinality(Out) < Prefetch
  /\ place' = [place EXCEPT ![m] = "out"]
  /\ task' = [task EXCEPT ![m][returned[m] + 1] = "held"]
  /\ UNCHANGED <<parallel, kind, returned, inbox, effects>>

-----------------------------------------------------------------------------
(* _on_message, dispatch.                                                  *)

\* A Go consumer takes up a delivery when it is done with the one before it.
MayStart ==
  parallel \/ \A m \in Message, k \in Attempt : task[m][k] \notin Busy

\* What a handler does is settled only on the channel of its delivery: if that is
\* gone, the delivery is over when the handler ends.
EndHandler(m, k, stage) ==
  task' = [task EXCEPT ![m][k] = IF Current(m, k) THEN stage ELSE "over"]

\* The body is parsed and its handler looked up.  An event without a handler
\* needs nothing done, and a body that is no envelope is hopeless.
Start(m, k) ==
  /\ task[m][k] = "held"
  /\ MayStart
  /\ \/ kind[m] = "routed" /\ task' = [task EXCEPT ![m][k] = "working"]
     \/ kind[m] = "unrouted" /\ EndHandler(m, k, "applied")
     \/ kind[m] = "unparsable" /\ EndHandler(m, k, "hopeless")
  /\ UNCHANGED <<parallel, kind, place, returned, inbox, effects>>

\* Mutant: the handler does not look into the inbox.
CommitUnmarked(m, k, answered) ==
  /\ task[m][k] = "working"
  /\ inbox' = inbox \cup {m}
  /\ effects' = [effects EXCEPT ![m] = @ + 1]
  /\ EndHandler(m, k, IF answered THEN "applied" ELSE "failing")
  /\ UNCHANGED <<parallel, kind, place, returned>>

\* Mark and effect are committed together, unless the mark is there already.  The
\* handler may yet fail: the answer of the database is lost, or an event that it
\* publishes afterwards.
Commit(m, k, answered) ==
  /\ task[m][k] = "working"
  /\ inbox' = inbox \cup {m}
  /\ effects' = [effects EXCEPT ![m] = IF m \in inbox THEN @ ELSE @ + 1]
  /\ EndHandler(m, k, IF answered THEN "applied" ELSE "failing")
  /\ UNCHANGED <<parallel, kind, place, returned>>

\* The handler fails before it has changed anything: for now, or for good
\* (InvalidArgumentError).
Fail(m, k) ==
  /\ task[m][k] = "working"
  /\ \E stage \in {"failing", "hopeless"} : EndHandler(m, k, stage)
  /\ UNCHANGED <<parallel, kind, place, returned, inbox, effects>>

\* ack, nack or reject.
Settle(m, k, to, outcome) ==
  /\ place' = [place EXCEPT ![m] = to]
  /\ task' = [task EXCEPT ![m][k] = outcome]
  /\ UNCHANGED <<parallel, kind, inbox, effects>>

\* Mutant: the message is acknowledged while its handler is at work.
AckEarly(m, k) ==
  /\ Current(m, k)
  /\ task[m][k] \in {"working", "applied"}
  /\ Settle(m, k, "acked", IF task[m][k] = "working" THEN "working" ELSE "over")
  /\ UNCHANGED returned

Ack(m, k) ==
  /\ task[m][k] = "applied"
  /\ Settle(m, k, "acked", "over")
  /\ UNCHANGED returned

\* _retry_or_bury: back to the queue, after a pause ...
Retry(m, k) ==
  /\ task[m][k] = "failing"
  /\ k < RetryLimit
  /\ Settle(m, k, ReturnTo(returned[m] + 1), "over")
  /\ returned' = [returned EXCEPT ![m] = @ + 1]

\* Mutants: the first failure is the last; the limit is never reached.
BuryAtOnce(m, k) ==
  /\ task[m][k] \in {"failing", "hopeless"}
  /\ Settle(m, k, "dead", IF task[m][k] = "failing" THEN "buried" ELSE "rejected")
  /\ UNCHANGED returned

BuryHopeless(m, k) ==
  /\ task[m][k] = "hopeless"
  /\ Settle(m, k, "dead", "rejected")
  /\ UNCHANGED returned

\* ... or to the dead-letter queue, at once if trying again is no use.
Bury(m, k) ==
  /\ \/ task[m][k] = "hopeless"
     \/ task[m][k] = "failing" /\ k >= RetryLimit
  /\ Settle(m, k, "dead", IF task[m][k] = "failing" THEN "buried" ELSE "rejected")
  /\ UNCHANGED returned

-----------------------------------------------------------------------------
(* Failures.                                                               *)

\* Whatever is unsettled comes back.
ReturnAll ==
  /\ returned' = [m \in Message |-> IF m \in Out THEN returned[m] + 1 ELSE returned[m]]
  /\ place' = [m \in Message |->
                IF m \in Out THEN ReturnTo(returned[m] + 1) ELSE place[m]]

\* The connection is cut.  A handler at work knows nothing of it, and one that has
\* ended can no longer settle its delivery.  Deliveries that a Go consumer has not
\* taken up are dropped with their channel.
AfterCut(stage) ==
  CASE stage \in {"applied", "failing", "hopeless"} -> "over"
    [] stage = "held" /\ ~ parallel -> "gone"
    [] OTHER -> stage

Disconnect ==
  /\ Out # {}
  /\ ReturnAll
  /\ task' = [m \in Message |-> [k \in Attempt |-> AfterCut(task[m][k])]]
  /\ UNCHANGED <<parallel, kind, inbox, effects>>

\* The process dies or is stopped, with all its handlers.
Live == Busy \cup {"held"}

Crash ==
  /\ \E m \in Message, k \in Attempt : task[m][k] \in Live
  /\ ReturnAll
  /\ task' = [m \in Message |-> [k \in Attempt |->
                IF task[m][k] \in Live THEN "gone" ELSE task[m][k]]]
  /\ UNCHANGED <<parallel, kind, inbox, effects>>

-----------------------------------------------------------------------------
Init ==
  /\ parallel \in BOOLEAN
  /\ kind \in Mix
  /\ place = [m \in Message |-> "unsent"]
  /\ returned = [m \in Message |-> 0]
  /\ task = [m \in Message |-> [k \in Attempt |-> "none"]]
  /\ inbox = {}
  /\ effects = [m \in Message |-> 0]

Handle(m, k) == Fail(m, k) \/ \E answered \in BOOLEAN : Commit(m, k, answered)

Dispatch(m, k) ==
  Start(m, k) \/ Handle(m, k) \/ Ack(m, k) \/ Retry(m, k) \/ Bury(m, k)

Next ==
  \/ \E m \in Message : Publish(m) \/ Deliver(m)
  \/ \E m \in Message, k \in Attempt : Dispatch(m, k)
  \/ Disconnect
  \/ Crash

Spec == Init /\ [][Next]_vars

\* The broker delivers as long as the consumer has room, and a delivery that is
\* taken up is dealt with: a handler ends, well or badly (it does not hang).
Fairness ==
  /\ \A m \in Message : WF_vars(Deliver(m))
  /\ \A m \in Message, k \in Attempt : WF_vars(Dispatch(m, k))

FairSpec == Spec /\ Fairness

-----------------------------------------------------------------------------
(* Properties.                                                             *)

\* Every variable keeps its type; no message is delivered more often than the
\* queue's limit admits.
TypeOK ==
  /\ parallel \in BOOLEAN
  /\ kind \in Mix
  /\ place \in [Message -> Place]
  /\ returned \in [Message -> 0 .. DeliveryLimit + 1]
  /\ task \in [Message -> [Attempt -> Stage]]
  /\ inbox \subseteq Message
  /\ effects \in [Message -> Nat]

\* An event takes effect once at most: redelivery after a failure that struck
\* behind the commit, and a handler that outlives its connection and runs beside
\* the next one, repeat nothing.
EffectOnce == \A m \in Message : effects[m] <= 1

\* An acknowledged message is done: an event with a handler has taken effect, one
\* without has none, and a body that is no envelope is not acknowledged.
AckedIsDone ==
  \A m \in Message : place[m] = "acked" =>
    /\ kind[m] # "unparsable"
    /\ effects[m] = IF kind[m] = "routed" THEN 1 ELSE 0

\* A message is given up only if trying again is no use, or after it has been
\* delivered RetryLimit times; an event whose deliveries all failed for now gets
\* all its attempts.
DeadAfterRetries ==
  \A m \in Message : place[m] = "dead" =>
    \/ \E k \in Attempt : task[m][k] = "rejected"
    \/ Cardinality({ k \in Attempt : task[m][k] # "none" }) >= RetryLimit

\* Whatever is published is acknowledged or given up in the end, whatever fails:
\* no queue stands still.
EverythingSettles ==
  []<>(\A m \in Message : place[m] \in {"unsent", "acked", "dead"})

\* "An event goes back to the queue, not to the dead-letter queue at the first
\* failure": a handler that gives an event up has seen it fail before.
SecondChance ==
  \A m \in Message, k \in Attempt : task[m][k] = "buried" =>
    \E j \in 1 .. k - 1 : task[m][j] # "gone"

=============================================================================
