--------------------------- MODULE DeliveryProofs ---------------------------
(***************************************************************************)
(* Theorems about the queue and its consumer, for any messages, prefetch   *)
(* and limits: an event takes effect once at most, what is acknowledged is *)
(* done, and nothing is given up before its attempts are.                  *)
(***************************************************************************)
EXTENDS Delivery, FiniteSetTheorems, TLAPS

-----------------------------------------------------------------------------
(* The inductive invariant.                                                *)

\* Only a message that has come back too often, or was given up, is past the limit.
ReturnsBounded ==
  \A m \in Message : place[m] \in {"unsent", "ready", "out"} => returned[m] <= DeliveryLimit

\* The effect is there exactly where the inbox says so.
EffectMarked ==
  \A m \in Message : effects[m] = IF m \in inbox THEN 1 ELSE 0

\* Marked, if it has a handler at all.
Dealt(m) == kind[m] = "unrouted" \/ (kind[m] = "routed" /\ m \in inbox)

\* Handlers are at work on routed messages only, one that may acknowledge its message
\* has dealt with it, and one that may settle it has the channel to do so.
HandlersKnow ==
  /\ \A m \in inbox : kind[m] = "routed"
  /\ \A m \in Message, k \in Attempt :
       /\ task[m][k] = "working" => kind[m] = "routed"
       /\ task[m][k] = "applied" => Dealt(m)
       /\ task[m][k] \in {"applied", "failing", "hopeless"} => Current(m, k)

AckedDealt == \A m \in Message : place[m] = "acked" => Dealt(m)

\* Every return was that of a delivery, and a message that is out has one more.
DeliveriesCounted ==
  \A m \in Message, k \in Attempt :
    k <= returned[m] \/ Current(m, k) => task[m][k] # "none"

DeadTried ==
  \A m \in Message : place[m] = "dead" =>
    \/ \E k \in Attempt : task[m][k] = "rejected"
    \/ \A k \in 1 .. RetryLimit : task[m][k] # "none"

IInv ==
  /\ TypeOK
  /\ ReturnsBounded
  /\ EffectMarked
  /\ HandlersKnow
  /\ AckedDealt
  /\ DeliveriesCounted
  /\ DeadTried

-----------------------------------------------------------------------------
(* Lemmas.                                                                 *)

LEMMA Constants ==
  /\ RetryLimit \in Nat /\ RetryLimit >= 1
  /\ DeliveryLimit \in Nat /\ RetryLimit <= DeliveryLimit
  /\ Mix \subseteq [Message -> Kind]
  /\ \A k \in Attempt : k \in Nat /\ k >= 1
  /\ 1 .. RetryLimit \subseteq Attempt
BY DeliveryAssumption DEF Attempt

\* A message whose first attempts were all made has been delivered that often.
LEMMA AttemptsCounted ==
  ASSUME NEW m \in Message, \A k \in 1 .. RetryLimit : task[m][k] # "none"
  PROVE  Cardinality({ k \in Attempt : task[m][k] # "none" }) >= RetryLimit
<1>. DEFINE S == { k \in Attempt : task[m][k] # "none" }
<1>1. IsFiniteSet(Attempt)
  BY FS_Interval, Constants DEF Attempt
<1>2. IsFiniteSet(S) /\ Cardinality(S) \in Nat
  BY <1>1, FS_Subset, FS_CardinalityType
<1>3. 1 .. RetryLimit \in SUBSET S
  BY Constants
<1>4. Cardinality(1 .. RetryLimit) = RetryLimit
  BY FS_Interval, Constants
<1>5. Cardinality(1 .. RetryLimit) <= Cardinality(S)
  BY <1>2, <1>3, FS_Subset
<1>. QED
  BY <1>2, <1>4, <1>5, Constants

LEMMA InvInitial == Init => IInv
BY Constants DEF Init, IInv, TypeOK, ReturnsBounded, EffectMarked, HandlersKnow, AckedDealt,
   DeliveriesCounted, DeadTried, Current, Place, Stage, Busy, Ended, Dealt

\* A step that leaves the queue alone and moves one delivery on, from a stage in which
\* it was made to another one.
LEMMA HandlerStep ==
  ASSUME IInv, NEW m \in Message, NEW k \in Attempt, NEW stage \in Stage,
         UNCHANGED <<parallel, kind, place, returned>>,
         task' = [task EXCEPT ![m][k] = stage],
         inbox' \subseteq Message, inbox \subseteq inbox',
         \A n \in inbox' : kind[n] = "routed",
         effects' \in [Message -> Nat],
         \A n \in Message : effects'[n] = IF n \in inbox' THEN 1 ELSE 0,
         task[m][k] \in {"held", "working"}, stage # "none",
         stage = "working" => kind[m] = "routed",
         stage = "applied" => kind[m] = "unrouted" \/ (kind[m] = "routed" /\ m \in inbox'),
         stage \in {"applied", "failing", "hopeless"} => Current(m, k)
  PROVE  IInv'
<1>1. TypeOK'
  BY DEF IInv, TypeOK
<1>2. /\ ReturnsBounded' /\ EffectMarked' /\ AckedDealt'
  BY DEF IInv, ReturnsBounded, EffectMarked, AckedDealt, Dealt
<1>3. \A n \in Message, j \in Attempt :
        task'[n][j] = IF n = m /\ j = k THEN stage ELSE task[n][j]
  BY DEF IInv, TypeOK
<1>4. HandlersKnow'
  BY <1>3 DEF IInv, HandlersKnow, Dealt, Current
<1>5. DeliveriesCounted'
  BY <1>3 DEF IInv, DeliveriesCounted, Current
<1>6. DeadTried'
  <2>. SUFFICES ASSUME NEW n \in Message, place[n] = "dead"
                PROVE  \/ \E j \in Attempt : task'[n][j] = "rejected"
                       \/ \A j \in 1 .. RetryLimit : task'[n][j] # "none"
    BY DEF DeadTried
  <2>1. CASE \E j \in Attempt : task[n][j] = "rejected"
    BY <2>1, <1>3
  <2>2. CASE \A j \in 1 .. RetryLimit : task[n][j] # "none"
    BY <2>2, <1>3, Constants
  <2>. QED
    BY <2>1, <2>2 DEF IInv, DeadTried
<1>. QED
  BY <1>1, <1>2, <1>4, <1>5, <1>6 DEF IInv

\* The stages that a delivery may end in when its handler does.
LEMMA EndedStage ==
  ASSUME NEW m, NEW k, NEW stage \in {"applied", "failing", "hopeless"},
         EndHandler(m, k, stage)
  PROVE  \E s \in {stage, "over"} :
           /\ task' = [task EXCEPT ![m][k] = s]
           /\ s = stage => Current(m, k)
BY DEF EndHandler

LEMMA StartKeeps ==
  ASSUME IInv, NEW m \in Message, NEW k \in Attempt, Start(m, k)
  PROVE  IInv'
<1>. USE DEF Start
<1>1. /\ inbox \subseteq Message /\ \A n \in inbox : kind[n] = "routed"
      /\ effects \in [Message -> Nat]
      /\ \A n \in Message : effects[n] = IF n \in inbox THEN 1 ELSE 0
  BY DEF IInv, TypeOK, HandlersKnow, EffectMarked
<1>2. CASE kind[m] = "routed" /\ task' = [task EXCEPT ![m][k] = "working"]
  <2>. "working" \in Stage
    BY DEF Stage, Busy
  <2>. QED
    BY <1>1, <1>2, HandlerStep
<1>3. ASSUME NEW stage \in {"applied", "hopeless"}, EndHandler(m, k, stage),
             stage = "applied" => kind[m] = "unrouted"
      PROVE  IInv'
  <2>1. PICK s \in {stage, "over"} : /\ task' = [task EXCEPT ![m][k] = s]
                                     /\ s = stage => Current(m, k)
    BY <1>3, EndedStage
  <2>2. s \in Stage /\ s # "none" /\ s # "working"
    BY DEF Stage, Busy, Ended
  <2>. QED
    BY <1>1, <1>3, <2>1, <2>2, HandlerStep
<1>. QED
  BY <1>2, <1>3

LEMMA HandleKeeps ==
  ASSUME IInv, NEW m \in Message, NEW k \in Attempt, Handle(m, k)
  PROVE  IInv'
<1>1. /\ inbox \subseteq Message /\ \A n \in inbox : kind[n] = "routed"
      /\ effects \in [Message -> Nat]
      /\ \A n \in Message : effects[n] = IF n \in inbox THEN 1 ELSE 0
  BY DEF IInv, TypeOK, HandlersKnow, EffectMarked
<1>2. task[m][k] = "working" /\ kind[m] = "routed"
  BY DEF Handle, Fail, Commit, IInv, HandlersKnow
<1>3. CASE Fail(m, k)
  <2>1. PICK stage \in {"failing", "hopeless"} : EndHandler(m, k, stage)
    BY <1>3 DEF Fail
  <2>2. PICK s \in {stage, "over"} : /\ task' = [task EXCEPT ![m][k] = s]
                                     /\ s = stage => Current(m, k)
    BY <2>1, EndedStage
  <2>3. s \in Stage /\ s \notin {"none", "working", "applied"}
    BY DEF Stage, Busy, Ended
  <2>4. UNCHANGED <<parallel, kind, place, returned, inbox, effects>>
    BY <1>3 DEF Fail
  <2>. QED
    BY <1>1, <1>2, <2>2, <2>3, <2>4, HandlerStep
<1>4. ASSUME NEW answered \in BOOLEAN, Commit(m, k, answered) PROVE IInv'
  <2>1. PICK stage \in {"applied", "failing"} : EndHandler(m, k, stage)
    BY <1>4 DEF Commit
  <2>2. PICK s \in {stage, "over"} : /\ task' = [task EXCEPT ![m][k] = s]
                                     /\ s = stage => Current(m, k)
    BY <2>1, EndedStage
  <2>3. s \in Stage /\ s \notin {"none", "working"}
    BY DEF Stage, Busy, Ended
  <2>4. inbox' = inbox \cup {m} /\ UNCHANGED <<parallel, kind, place, returned>>
    BY <1>4 DEF Commit
  <2>5. effects' = [effects EXCEPT ![m] = IF m \in inbox THEN @ ELSE @ + 1]
    BY <1>4 DEF Commit
  <2>6. /\ effects' \in [Message -> Nat]
        /\ \A n \in Message : effects'[n] = IF n \in inbox' THEN 1 ELSE 0
    BY <1>1, <2>4, <2>5
  <2>. QED
    BY <1>1, <1>2, <2>2, <2>3, <2>4, <2>6, HandlerStep
<1>. QED
  BY <1>3, <1>4 DEF Handle

\* A message in the queue that is delivered: a new delivery, not yet begun.
LEMMA DeliverKeeps ==
  ASSUME IInv, NEW m \in Message, Deliver(m)
  PROVE  IInv'
<1>. DEFINE k == returned[m] + 1
<1>1. k \in Attempt /\ returned[m] \in Nat
  BY Constants DEF Deliver, IInv, TypeOK, ReturnsBounded, Attempt
<1>2. \A n \in Message, j \in Attempt :
        task'[n][j] = IF n = m /\ j = k THEN "held" ELSE task[n][j]
  BY <1>1 DEF Deliver, IInv, TypeOK
<1>3. \A n \in Message : place'[n] = IF n = m THEN "out" ELSE place[n]
  BY DEF Deliver, IInv, TypeOK
<1>4. UNCHANGED <<parallel, kind, returned, inbox, effects>> /\ place[m] = "ready"
  BY DEF Deliver
<1>5. TypeOK'
  BY <1>1 DEF Deliver, IInv, TypeOK, Place, Stage
<1>6. ReturnsBounded' /\ EffectMarked' /\ AckedDealt'
  BY <1>3, <1>4 DEF IInv, ReturnsBounded, EffectMarked, AckedDealt, Dealt
<1>7. HandlersKnow'
  BY <1>2, <1>3, <1>4 DEF IInv, HandlersKnow, Dealt, Current
<1>8. DeliveriesCounted'
  BY <1>1, <1>2, <1>3, <1>4 DEF IInv, DeliveriesCounted, Current
<1>9. DeadTried'
  BY <1>2, <1>3, <1>4, Constants DEF IInv, DeadTried
<1>. QED
  BY <1>5, <1>6, <1>7, <1>8, <1>9 DEF IInv

\* ack, nack or reject: the delivery was the current one, and is over.
LEMMA SettleKeeps ==
  ASSUME IInv, NEW m \in Message, NEW k \in Attempt,
         NEW to \in Place, NEW outcome \in Ended, NEW count \in Nat,
         task[m][k] \in {"applied", "failing", "hopeless"}, Settle(m, k, to, outcome),
         returned' = [returned EXCEPT ![m] = count],
         count \in {returned[m], k}, to = "ready" => count <= DeliveryLimit,
         to \notin {"unsent", "out"}, to = "acked" => Dealt(m),
         to = "dead" => outcome = "rejected" \/ k >= RetryLimit
  PROVE  IInv'
<1>1. /\ Current(m, k) /\ returned[m] <= DeliveryLimit
      /\ returned[m] \in 0 .. DeliveryLimit + 1 /\ k = returned[m] + 1 /\ place[m] = "out"
  BY DEF IInv, HandlersKnow, ReturnsBounded, TypeOK, Current
<1>2. \A n \in Message, j \in Attempt :
        task'[n][j] = IF n = m /\ j = k THEN outcome ELSE task[n][j]
  BY DEF Settle, IInv, TypeOK
<1>3. \A n \in Message : /\ place'[n] = IF n = m THEN to ELSE place[n]
                         /\ returned'[n] = IF n = m THEN count ELSE returned[n]
  BY DEF Settle, IInv, TypeOK
<1>4. UNCHANGED <<parallel, kind, inbox, effects>>
  BY DEF Settle
<1>5. TypeOK'
  BY <1>1, Constants DEF Settle, IInv, TypeOK, Stage
<1>6. ReturnsBounded' /\ EffectMarked' /\ AckedDealt'
  BY <1>3, <1>4 DEF IInv, ReturnsBounded, EffectMarked, AckedDealt, Dealt
<1>7. HandlersKnow'
  <2>1. \A j \in Attempt : task[m][j] \in {"applied", "failing", "hopeless"} => j = k
    BY <1>1 DEF IInv, HandlersKnow, Current
  <2>. QED
    BY <1>2, <1>3, <1>4, <2>1 DEF IInv, HandlersKnow, Dealt, Current, Ended
<1>8. DeliveriesCounted'
  <2>. SUFFICES ASSUME NEW n \in Message, NEW j \in Attempt,
                       j <= returned'[n] \/ Current(n, j)'
                PROVE  task'[n][j] # "none"
    BY DEF DeliveriesCounted
  <2>1. CASE n = m
    <3>1. j <= k
      BY <1>1, <1>3, <2>1, Constants DEF Current
    <3>2. j = k \/ j <= returned[m]
      BY <1>1, <3>1, Constants
    <3>. QED
      BY <1>2, <2>1, <3>2 DEF IInv, DeliveriesCounted, Ended
  <2>2. CASE n # m
    BY <1>2, <1>3, <2>2 DEF IInv, DeliveriesCounted, Current
  <2>. QED
    BY <2>1, <2>2
<1>9. DeadTried'
  <2>. SUFFICES ASSUME NEW n \in Message, place'[n] = "dead"
                PROVE  \/ \E j \in Attempt : task'[n][j] = "rejected"
                       \/ \A j \in 1 .. RetryLimit : task'[n][j] # "none"
    BY DEF DeadTried
  <2>1. CASE n = m /\ outcome = "rejected"
    BY <1>2, <2>1
  <2>2. CASE n = m /\ k >= RetryLimit
    <3>1. \A j \in 1 .. RetryLimit : j \in Attempt /\ (j <= returned[m] \/ j = k)
      BY <1>1, <2>2, Constants
    <3>. QED
      BY <1>1, <1>2, <2>2, <3>1 DEF IInv, DeliveriesCounted, Ended
  <2>3. CASE n # m
    BY <1>2, <1>3, <2>3, Constants DEF IInv, DeadTried
  <2>. QED
    BY <1>3, <2>1, <2>2, <2>3
<1>. QED
  BY <1>5, <1>6, <1>7, <1>8, <1>9 DEF IInv

LEMMA SettlingKeeps ==
  ASSUME IInv, NEW m \in Message, NEW k \in Attempt,
         Ack(m, k) \/ Retry(m, k) \/ Bury(m, k)
  PROVE  IInv'
<1>1. returned[m] \in Nat /\ returned[m] = returned[m]
  BY DEF IInv, TypeOK
<1>2. {"over", "buried", "rejected"} \subseteq Ended /\ {"ready", "acked", "dead"} \subseteq Place
  BY DEF Ended, Place
<1>3. CASE Ack(m, k)
  <2>1. Dealt(m) /\ returned' = [returned EXCEPT ![m] = returned[m]]
    BY <1>3 DEF Ack, IInv, HandlersKnow, TypeOK
  <2>. QED
    BY <1>1, <1>2, <1>3, <2>1, SettleKeeps DEF Ack
<1>4. CASE Retry(m, k)
  <2>1. k = returned[m] + 1 /\ k \in Nat
    BY <1>4, Constants DEF Retry, IInv, HandlersKnow, Current
  <2>2. returned' = [returned EXCEPT ![m] = k]
    BY <1>4, <2>1 DEF Retry
  <2>3. ReturnTo(returned[m] + 1) = "ready" /\ k <= DeliveryLimit
    BY <1>4, <2>1, Constants DEF Retry, ReturnTo
  <2>4. task[m][k] = "failing" /\ Settle(m, k, "ready", "over")
    BY <1>4, <2>3 DEF Retry
  <2>. QED
    BY <1>2, <2>1, <2>2, <2>3, <2>4, SettleKeeps
<1>5. CASE Bury(m, k)
  <2>1. returned' = [returned EXCEPT ![m] = returned[m]]
    BY <1>5 DEF Bury, IInv, TypeOK
  <2>2. CASE task[m][k] = "hopeless"
    BY <1>1, <1>2, <1>5, <2>1, <2>2, SettleKeeps DEF Bury
  <2>3. CASE task[m][k] = "failing" /\ k >= RetryLimit
    BY <1>1, <1>2, <1>5, <2>1, <2>3, SettleKeeps DEF Bury
  <2>. QED
    BY <1>5, <2>2, <2>3 DEF Bury
<1>. QED
  BY <1>3, <1>4, <1>5

\* Everything that is out comes back, and no handler keeps a channel.
LEMMA ReturnAllKeeps ==
  ASSUME IInv, ReturnAll, UNCHANGED <<parallel, kind, inbox, effects>>,
         task' \in [Message -> [Attempt -> Stage]],
         \A m \in Message, k \in Attempt :
           /\ task'[m][k] \notin {"applied", "failing", "hopeless"}
           /\ task'[m][k] = "working" => task[m][k] = "working"
           /\ task[m][k] = "rejected" => task'[m][k] = "rejected"
           /\ task[m][k] # "none" => task'[m][k] # "none"
  PROVE  IInv'
<1>1. \A m \in Message :
        /\ returned[m] \in 0 .. DeliveryLimit + 1 /\ place[m] \in Place
        /\ place[m] = "out" => returned[m] <= DeliveryLimit
        /\ returned'[m] = IF place[m] = "out" THEN returned[m] + 1 ELSE returned[m]
        /\ place'[m] = IF place[m] = "out" THEN ReturnTo(returned[m] + 1) ELSE place[m]
  BY DEF IInv, TypeOK, ReturnsBounded, ReturnAll, Out
<1>2. \A m \in Message :
        /\ returned'[m] \in 0 .. DeliveryLimit + 1 /\ place'[m] \in Place
        /\ place'[m] # "out"
  BY <1>1, Constants DEF ReturnTo, Place
<1>3. TypeOK'
  BY <1>2 DEF IInv, TypeOK, ReturnAll
<1>4. ReturnsBounded'
  BY <1>1, Constants DEF IInv, ReturnsBounded, ReturnTo
<1>5. EffectMarked' /\ AckedDealt'
  BY <1>1 DEF IInv, EffectMarked, AckedDealt, Dealt, ReturnTo
<1>6. HandlersKnow'
  BY DEF IInv, HandlersKnow, Dealt, Current
<1>7. DeliveriesCounted'
  <2>. SUFFICES ASSUME NEW m \in Message, NEW k \in Attempt, k <= returned'[m]
                PROVE  task[m][k] # "none"
    BY <1>2 DEF DeliveriesCounted, Current
  <2>1. k <= returned[m] \/ Current(m, k)
    <3>1. k \in Nat /\ returned[m] \in Nat
      BY <1>1, Constants
    <3>2. CASE place[m] = "out"
      BY <1>1, <3>1, <3>2 DEF Current
    <3>3. CASE place[m] # "out"
      BY <1>1, <3>3
    <3>. QED
      BY <3>2, <3>3
  <2>. QED
    BY <2>1 DEF IInv, DeliveriesCounted
<1>8. DeadTried'
  <2>. SUFFICES ASSUME NEW m \in Message, place'[m] = "dead"
                PROVE  \/ \E j \in Attempt : task'[m][j] = "rejected"
                       \/ \A j \in 1 .. RetryLimit : task'[m][j] # "none"
    BY DEF DeadTried
  <2>1. CASE place[m] = "out"
    <3>1. returned'[m] > DeliveryLimit
      BY <1>1, <2>1, Constants DEF ReturnTo
    <3>2. \A j \in 1 .. RetryLimit : j \in Attempt /\ j <= returned'[m]
      BY <1>2, <3>1, Constants
    <3>. QED
      BY <1>7, <3>2 DEF DeliveriesCounted
  <2>2. CASE place[m] # "out"
    BY <1>1, <2>2, Constants DEF IInv, DeadTried
  <2>. QED
    BY <2>1, <2>2
<1>. QED
  BY <1>3, <1>4, <1>5, <1>6, <1>7, <1>8 DEF IInv

LEMMA InvStep == IInv /\ [Next]_vars => IInv'
<1>. SUFFICES ASSUME IInv, [Next]_vars PROVE IInv'
  OBVIOUS
<1>1. CASE UNCHANGED vars
  BY <1>1 DEF vars, IInv, TypeOK, ReturnsBounded, EffectMarked, HandlersKnow, AckedDealt,
     DeliveriesCounted, DeadTried, Current, Dealt
<1>2. ASSUME NEW m \in Message, Publish(m) PROVE IInv'
  <2>1. \A n \in Message : place'[n] = IF n = m THEN "ready" ELSE place[n]
    BY <1>2 DEF Publish, IInv, TypeOK
  <2>2. TypeOK'
    BY <1>2 DEF Publish, IInv, TypeOK, Place
  <2>. QED
    BY <1>2, <2>1, <2>2 DEF Publish, IInv, ReturnsBounded, EffectMarked, HandlersKnow,
       AckedDealt, DeliveriesCounted, DeadTried, Current, Dealt
<1>3. ASSUME NEW m \in Message, Deliver(m) PROVE IInv'
  BY <1>3, DeliverKeeps
<1>4. ASSUME NEW m \in Message, NEW k \in Attempt, Dispatch(m, k) PROVE IInv'
  BY <1>4, StartKeeps, HandleKeeps, SettlingKeeps DEF Dispatch
<1>5. CASE Disconnect
  <2>1. \A m \in Message, k \in Attempt :
          task'[m][k] = AfterCut(task[m][k]) /\ task[m][k] \in Stage
    BY <1>5 DEF Disconnect, IInv, TypeOK
  <2>2. \A stage \in Stage :
          /\ AfterCut(stage) \in Stage \ {"applied", "failing", "hopeless"}
          /\ AfterCut(stage) = "working" => stage = "working"
          /\ stage = "rejected" => AfterCut(stage) = "rejected"
          /\ stage # "none" => AfterCut(stage) # "none"
    BY DEF AfterCut, Stage, Busy, Ended
  <2>3. task' \in [Message -> [Attempt -> Stage]]
    BY <1>5, <2>1, <2>2 DEF Disconnect
  <2>. QED
    BY <1>5, <2>1, <2>2, <2>3, ReturnAllKeeps DEF Disconnect
<1>6. CASE Crash
  <2>1. \A m \in Message, k \in Attempt :
          task'[m][k] = (IF task[m][k] \in Live THEN "gone" ELSE task[m][k])
    BY <1>6 DEF Crash, IInv, TypeOK
  <2>2. task' \in [Message -> [Attempt -> Stage]]
    BY <1>6 DEF Crash, IInv, TypeOK, Stage, Ended
  <2>. QED
    BY <1>6, <2>1, <2>2, ReturnAllKeeps DEF Crash, Live, Busy
<1>. QED
  BY <1>1, <1>2, <1>3, <1>4, <1>5, <1>6 DEF Next

-----------------------------------------------------------------------------
(* The theorems.                                                           *)

\* Queue and consumer keep the inductive invariant in every behaviour.
THEOREM Invariance == Spec => []IInv
BY InvInitial, InvStep, PTL DEF Spec

\* Every variable keeps its type, and no message comes back more often than the queue
\* admits.
THEOREM TypeCorrect == Spec => []TypeOK
<1>1. IInv => TypeOK
  BY DEF IInv
<1>. QED
  BY <1>1, Invariance, PTL

\* However often an event is delivered, by however many handlers at once, and wherever
\* connection and process break, it takes effect once at most.
THEOREM EffectAtMostOnce == Spec => []EffectOnce
<1>1. IInv => EffectOnce
  BY DEF IInv, EffectMarked, EffectOnce
<1>. QED
  BY <1>1, Invariance, PTL

\* The acknowledgement of a message comes after its effect.
THEOREM AcknowledgedWhenDone == Spec => []AckedIsDone
<1>1. IInv => AckedIsDone
  BY DEF IInv, AckedDealt, Dealt, EffectMarked, HandlersKnow, AckedIsDone
<1>. QED
  BY <1>1, Invariance, PTL

\* A message is given up as hopeless, or after RetryLimit deliveries and not before.
THEOREM GivenUpAfterRetries == Spec => []DeadAfterRetries
<1>1. IInv => DeadAfterRetries
  BY AttemptsCounted DEF IInv, DeadTried, DeadAfterRetries
<1>. QED
  BY <1>1, Invariance, PTL

=============================================================================
