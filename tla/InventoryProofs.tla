-------------------------- MODULE InventoryProofs --------------------------
(***************************************************************************)
(* Theorems about Inventory, for any materials, norms, thresholds and any  *)
(* number of deliveries and replenishments at once.                        *)
(***************************************************************************)
EXTENDS Inventory, SequenceTheorems, WellFoundedInduction, TLAPS

LEMMA NegatedType ==
  ASSUME NEW norm \in [item : Item, amount : Nat \ {0}]
  PROVE  [norm EXCEPT !.amount = - @] \in Line
  BY DEF Line

LEMMA MovedType ==
  ASSUME NEW row \in StockRow, NEW amount \in Int
  PROVE  /\ Moved(row, amount) \in StockRow
         /\ Moved(row, amount).kept
         /\ Moved(row, amount).quantity = row.quantity + amount
  BY DEF Moved, StockRow

LEMMA ThresholdType ==
  ASSUME NEW row \in StockRow, NEW threshold \in Nat
  PROVE  /\ [row EXCEPT !.threshold = threshold] \in StockRow
         /\ [row EXCEPT !.threshold = threshold].kept = row.kept
         /\ [row EXCEPT !.threshold = threshold].quantity = row.quantity
  BY DEF StockRow

\* The norms of an event, negated, are a list of lines.
LEMMA NormLines ==
  ASSUME NEW e \in Event
  PROVE  Lines(e) \in Seq(Line)
<1>. DEFINE norms == Norms[e]
            f(i) == [norms[i] EXCEPT !.amount = - @]
<1>1. norms \in Seq([item : Item, amount : Nat \ {0}])
  BY InventoryAssumption
<1>2. DOMAIN norms = 1 .. Len(norms) /\ Len(norms) \in Nat
  BY <1>1
<1>3. ASSUME NEW i \in 1 .. Len(norms) PROVE f(i) \in Line
  <2>1. norms[i] \in [item : Item, amount : Nat \ {0}]
    BY <1>1, <1>2, ElementOfSeq
  <2>. QED
    BY <2>1, NegatedType
<1>4. [i \in 1 .. Len(norms) |-> f(i)] \in Seq(Line)
  BY <1>2, <1>3, IsASeq
<1>. QED
  BY <1>2, <1>4 DEF Lines

\* A movement to be applied is a line, of an item and an amount.
LEMMA MovementsType ==
  ASSUME NEW t \in Handler
  PROVE  Movements(t) \in Seq(Line)
<1>1. Movements(t) \in Seq(Line)
  <2>1. CASE t \in Delivery
    BY <2>1, NormLines, InventoryAssumption DEF Movements, JobOf
  <2>2. CASE t \in Request
    BY <2>2, InventoryAssumption DEF Movements, JobOf, Lines, Handler
  <2>. QED
    BY <2>1, <2>2 DEF Handler
<1>. QED
  BY <1>1

LEMMA LineType ==
  ASSUME NEW t \in Handler, NEW n \in Nat, n < Len(Movements(t))
  PROVE  Movements(t)[n + 1] \in Line
  BY MovementsType

\* A write-off takes something of each of its materials.
LEMMA WriteOffTakes ==
  ASSUME NEW d \in Delivery, NEW n \in Nat, n < Len(Movements(d))
  PROVE  Movements(d)[n + 1].amount < 0
<1>. DEFINE norms == Norms[EventOf[d]]
<1>1. EventOf[d] \in Event /\ norms \in Seq([item : Item, amount : Nat \ {0}])
  BY InventoryAssumption
<1>2. Movements(d) = [i \in DOMAIN norms |-> [norms[i] EXCEPT !.amount = - @]]
  BY <1>1 DEF Movements, JobOf, Lines
<1>3. Len(norms) \in Nat /\ n + 1 \in 1 .. Len(norms) /\ DOMAIN norms = 1 .. Len(norms)
  BY <1>1, <1>2
<1>4. norms[n + 1] \in [item : Item, amount : Nat \ {0}]
  BY <1>1, <1>3, ElementOfSeq
<1>. QED
  BY <1>2, <1>3, <1>4

LEMMA JobType ==
  ASSUME NEW t \in Handler
  PROVE  /\ JobOf(t) \in Job
         /\ t \in Delivery => JobOf(t) = EventOf[t] /\ EventOf[t] \in Event
         /\ t \notin Delivery => JobOf(t) \notin Event
  BY InventoryAssumption DEF JobOf, Job, Handler

LEMMA EmptyType == Nothing \in [Item -> StockRow] /\ NoMoves \in [Item -> Int]
  BY DEF Nothing, NoMoves, NoRow, StockRow

\* What a statement sees of a row is a row.
LEMMA SeenType ==
  ASSUME TypeOK, NEW t \in Handler, NEW c \in Item
  PROVE  Seen(t, c) \in StockRow /\ draft[t][c] \in StockRow /\ stock[c] \in StockRow
  BY DEF TypeOK, Seen

-----------------------------------------------------------------------------
(* What lines add up to.                                                   *)

\* A non-empty set of naturals has a least member.
LEMMA LeastNatural ==
  ASSUME NEW B, B \subseteq Nat, B # {}
  PROVE  \E n \in B : \A m \in B : n <= m
<1>1. PICK n \in B : \A m \in B : <<m, n>> \notin OpToRel(<, Nat)
  BY NatLessThanWellFounded, WFMin, Zenon
<1>2. \A m \in B : ~ (m < n)
  BY <1>1, Zenon DEF OpToRel
<1>. QED
  BY <1>2

Sums(g, lines, c, n) ==
  g = [k \in 0 .. n |-> IF k = 0 THEN 0
                        ELSE g[k - 1] + (IF lines[k].item = c THEN lines[k].amount ELSE 0)]

LEMMA RunningTotalExists ==
  ASSUME NEW lines, NEW c, NEW m \in Nat
  PROVE  \E g : Sums(g, lines, c, m)
<1>. DEFINE B == { n \in Nat : ~ \E g : Sums(g, lines, c, n) }
<1>. SUFFICES ASSUME B # {} PROVE FALSE
  OBVIOUS
<1>1. B \subseteq Nat
  OBVIOUS
<1>2. PICK n \in B : \A k \in B : n <= k
  <2>. HIDE DEF B
  <2>. QED
    BY <1>1, LeastNatural
<1>3. CASE n = 0
  <2>. DEFINE g == [k \in 0 .. 0 |-> 0]
  <2>1. Sums(g, lines, c, 0)
    BY DEF Sums
  <2>. QED
    BY <1>3, <2>1
<1>4. CASE n # 0
  <2>1. n \in Nat /\ n - 1 \in Nat /\ n - 1 \notin B
    BY <1>2, <1>4
  <2>2. PICK h : Sums(h, lines, c, n - 1)
    BY <2>1
  <2>. DEFINE last == h[n - 1] + (IF lines[n].item = c THEN lines[n].amount ELSE 0)
              g == [k \in 0 .. n |-> IF k = n THEN last ELSE h[k]]
  <2>3. ASSUME NEW k \in 0 .. n
        PROVE  g[k] = IF k = 0 THEN 0
                      ELSE g[k - 1] + (IF lines[k].item = c THEN lines[k].amount ELSE 0)
    <3>1. CASE k = n
      <4>1. g[n - 1] = h[n - 1] /\ g[n] = last
        BY <1>4, <2>1
      <4>. QED
        BY <1>4, <3>1, <4>1
    <3>2. CASE k # n
      <4>1. k \in 0 .. (n - 1) /\ g[k] = h[k]
        BY <2>1, <3>2
      <4>2. k # 0 => g[k - 1] = h[k - 1]
        BY <2>1, <3>2
      <4>3. h[k] = IF k = 0 THEN 0
                   ELSE h[k - 1] + (IF lines[k].item = c THEN lines[k].amount ELSE 0)
        BY <2>2, <4>1 DEF Sums
      <4>. QED
        BY <4>1, <4>2, <4>3
    <3>. QED
      BY <3>1, <3>2
  <2>4. Sums(g, lines, c, n)
    BY <2>3 DEF Sums
  <2>. QED
    BY <2>4
<1>. QED
  BY <1>3, <1>4

\* The running total starts at zero and takes in one line after the other.
LEMMA RunningTotalStep ==
  ASSUME NEW lines, NEW c, Len(lines) \in Nat
  PROVE  /\ RunningTotal(lines, c)[0] = 0
         /\ \A n \in 1 .. Len(lines) :
              RunningTotal(lines, c)[n] =
                RunningTotal(lines, c)[n - 1]
                  + (IF lines[n].item = c THEN lines[n].amount ELSE 0)
<1>. DEFINE total == RunningTotal(lines, c)
<1>1. total = CHOOSE g : Sums(g, lines, c, Len(lines))
  BY DEF RunningTotal, Sums
<1>2. Sums(total, lines, c, Len(lines))
  BY <1>1, RunningTotalExists
<1>3. \A k \in 0 .. Len(lines) :
        total[k] = IF k = 0 THEN 0
                   ELSE total[k - 1] + (IF lines[k].item = c THEN lines[k].amount ELSE 0)
  <2>. HIDE DEF total
  <2>. QED
    BY <1>2 DEF Sums
<1>. QED
  BY <1>3

-----------------------------------------------------------------------------
(* What the steps write.                                                   *)

\* A movement changes one entry of the transaction's own rows and history.
LEMMA ApplyEffect ==
  ASSUME TypeOK, NEW t \in Handler, ApplyOne(t)
  PROVE  \E line \in Line :
           /\ line = Movements(t)[step[t] + 1]
           /\ line.amount < 0 => Enough(t, line)
           /\ \A u \in Handler \ {t} : ~ Holds(u, line.item)
           /\ Moved(Seen(t, line.item), line.amount) \in StockRow
           /\ draft' \in [Handler -> [Item -> StockRow]]
           /\ moves' \in [Handler -> [Item -> Int]]
           /\ draft'[t][line.item] = Moved(Seen(t, line.item), line.amount)
           /\ moves'[t][line.item] = moves[t][line.item] + line.amount
           /\ \A u \in Handler, c \in Item : u # t \/ c # line.item =>
                draft'[u][c] = draft[u][c] /\ moves'[u][c] = moves[u][c]
<1>. DEFINE line == Movements(t)[step[t] + 1]
            c0 == line.item
            row == Moved(Seen(t, c0), line.amount)
<1>1. line \in Line
  BY LineType DEF ApplyOne, TypeOK
<1>2. c0 \in Item /\ line.amount \in Int
  BY <1>1 DEF Line
<1>3. row \in StockRow
  BY <1>2, SeenType, MovedType
<1>4. /\ draft' = [draft EXCEPT ![t] = [draft[t] EXCEPT ![c0] = row]]
      /\ moves' = [moves EXCEPT ![t] = [moves[t] EXCEPT ![c0] = moves[t][c0] + line.amount]]
  BY DEF ApplyOne
<1>5. /\ [draft[t] EXCEPT ![c0] = row] \in [Item -> StockRow]
      /\ [moves[t] EXCEPT ![c0] = moves[t][c0] + line.amount] \in [Item -> Int]
  BY <1>2, <1>3 DEF TypeOK
<1>6. draft' \in [Handler -> [Item -> StockRow]] /\ moves' \in [Handler -> [Item -> Int]]
  BY <1>4, <1>5 DEF TypeOK
<1>7. draft'[t][c0] = row /\ moves'[t][c0] = moves[t][c0] + line.amount
  BY <1>2, <1>4 DEF TypeOK
<1>8. \A u \in Handler, c \in Item : u # t \/ c # c0 =>
        draft'[u][c] = draft[u][c] /\ moves'[u][c] = moves[u][c]
  BY <1>2, <1>4 DEF TypeOK
<1>9. /\ line.amount < 0 => Enough(t, line)
      /\ \A u \in Handler \ {t} : ~ Holds(u, c0)
  BY DEF ApplyOne
<1>. QED
  BY <1>1, <1>3, <1>6, <1>7, <1>8, <1>9

\* A step of the system, told by what it does to the tables.
LEMMA StepKinds ==
  ASSUME TypeOK, [Next]_vars
  PROVE  \/ UNCHANGED <<stock, history, recorded, inbox, draft, moves, step, pc, sent>>
         \/ \E c \in Item, threshold \in Threshold : SetThreshold(c, threshold)
         \/ \E t \in Handler : ApplyOne(t)
         \/ \E t \in Handler, answered \in BOOLEAN : Commit(t, answered)
         \/ \E t \in Handler : Rollback(t) /\ Open(t)
         \/ \E t \in Handler : Fail(t)
         \/ \E d \in Delivery : FetchNorms(d) \/ Mark(d) \/ PublishWrittenOff(d) \/ Finish(d)
         \/ \E d \in Delivery, c \in Item : RaiseLowStock(d, c)
         \/ \E q \in Request : CheckAmounts(q) \/ BeginReplenish(q)
  BY DEF Next, vars, WriteOffForAppointment, Replenish, ApplyMovements, Conflict, AbortVictim,
     WaitsFor

-----------------------------------------------------------------------------
(* Types.                                                                  *)

LEMMA TypeInitial == Init => TypeOK
<1>. SUFFICES ASSUME Init PROVE TypeOK
  OBVIOUS
<1>1. stock \in [Item -> StockRow] /\ history \in [Item -> Int]
  BY InventoryAssumption DEF Init, StockRow
<1>. QED
  BY <1>1, EmptyType DEF Init, TypeOK, Stage

LEMMA TypeStep == TypeOK /\ [Next]_vars => TypeOK'
<1>. SUFFICES ASSUME TypeOK, [Next]_vars PROVE TypeOK'
  OBVIOUS
<1>. USE EmptyType DEF TypeOK, Stage
<1>1. CASE UNCHANGED vars
  BY <1>1 DEF vars
<1>2. ASSUME NEW c \in Item, NEW threshold \in Threshold, SetThreshold(c, threshold)
      PROVE  TypeOK'
  <2>1. [stock[c] EXCEPT !.threshold = threshold] \in StockRow
    BY InventoryAssumption, ThresholdType
  <2>2. stock' = [stock EXCEPT ![c] = [stock[c] EXCEPT !.threshold = threshold]]
    BY <1>2 DEF SetThreshold
  <2>. QED
    BY <1>2, <2>1, <2>2 DEF SetThreshold
<1>3. ASSUME NEW t \in Handler, ApplyOne(t) PROVE TypeOK'
  <2>1. draft' \in [Handler -> [Item -> StockRow]] /\ moves' \in [Handler -> [Item -> Int]]
    BY <1>3, ApplyEffect
  <2>. QED
    BY <1>3, <2>1 DEF ApplyOne
<1>4. ASSUME NEW t \in Handler, NEW answered \in BOOLEAN, Commit(t, answered) PROVE TypeOK'
  <2>1. stock' \in [Item -> StockRow] /\ history' \in [Item -> Int]
    BY <1>4, SeenType DEF Commit, EndTransaction
  <2>2. recorded' \in [Job -> Nat] /\ inbox' \subseteq Event
    BY <1>4, JobType DEF Commit, EndTransaction
  <2>3. alerts' \in [Handler -> SUBSET Item] /\ pc' \in [Handler -> Stage]
    BY <1>4 DEF Commit, EndTransaction
  <2>. QED
    BY <1>4, <2>1, <2>2, <2>3 DEF Commit, EndTransaction
<1>5. ASSUME NEW t \in Handler, Rollback(t) PROVE TypeOK'
  BY <1>5 DEF Rollback
<1>6. ASSUME NEW t \in Handler, Fail(t) PROVE TypeOK'
  BY <1>6 DEF Fail
<1>7. ASSUME NEW d \in Delivery, WriteOffForAppointment(d) PROVE TypeOK'
  <2>. USE DEF Handler
  <2>1. CASE FetchNorms(d)
    BY <2>1 DEF FetchNorms
  <2>2. CASE Mark(d)
    BY <2>2 DEF Mark
  <2>3. CASE PublishWrittenOff(d)
    <3>1. EventOf[d] \in Event
      BY InventoryAssumption
    <3>2. sent' \in [writtenOff : [Event -> Nat], low : SUBSET (Event \X Item)]
      BY <2>3, <3>1 DEF PublishWrittenOff
    <3>. QED
      BY <2>3, <3>2 DEF PublishWrittenOff
  <2>4. ASSUME NEW c \in Item, RaiseLowStock(d, c) PROVE TypeOK'
    <3>1. EventOf[d] \in Event
      BY InventoryAssumption
    <3>2. sent' \in [writtenOff : [Event -> Nat], low : SUBSET (Event \X Item)]
      BY <2>4, <3>1 DEF RaiseLowStock
    <3>. QED
      BY <2>4, <3>2 DEF RaiseLowStock
  <2>5. CASE Finish(d)
    BY <2>5 DEF Finish
  <2>. QED
    BY <1>7, <2>1, <2>2, <2>3, <2>4, <2>5 DEF WriteOffForAppointment
<1>8. ASSUME NEW q \in Request, Replenish(q) PROVE TypeOK'
  BY <1>8 DEF Replenish, CheckAmounts, BeginReplenish, Handler
<1>. HIDE DEF TypeOK
<1>. QED
  BY <1>1, <1>2, <1>3, <1>4, <1>5, <1>6, <1>7, <1>8
  DEF Next, ApplyMovements, Conflict, AbortVictim

\* Every variable of inventory-service keeps its type in every behaviour.
THEOREM TypeCorrect == Spec => []TypeOK
  BY TypeInitial, TypeStep, PTL DEF Spec

-----------------------------------------------------------------------------
(* The invariant, one conjunct at a time.                                  *)

\* Ending a transaction empties its own rows and nobody else's.
LEMMA EmptiedEffect ==
  ASSUME TypeOK, NEW t \in Handler,
         draft' = [draft EXCEPT ![t] = Nothing], moves' = [moves EXCEPT ![t] = NoMoves]
  PROVE  /\ \A c \in Item : draft'[t][c] = NoRow /\ moves'[t][c] = 0
         /\ \A u \in Handler \ {t}, c \in Item :
              draft'[u][c] = draft[u][c] /\ moves'[u][c] = moves[u][c]
  BY DEF TypeOK, Nothing, NoMoves

LEMMA ThresholdEffect ==
  ASSUME TypeOK, NEW c \in Item, NEW threshold \in Threshold, SetThreshold(c, threshold)
  PROVE  \A o \in Item : stock'[o].quantity = stock[o].quantity
<1>1. stock' = [stock EXCEPT ![c] = [stock[c] EXCEPT !.threshold = threshold]]
  BY DEF SetThreshold
<1>2. stock[c] \in StockRow /\ threshold \in Nat
  BY InventoryAssumption DEF TypeOK
<1>. QED
  BY <1>1, <1>2, ThresholdType DEF TypeOK

LEMMA StockNeverNegativeStep == IInv /\ [Next]_vars => StockNeverNegative'
<1>. SUFFICES ASSUME IInv, [Next]_vars, NEW c \in Item
              PROVE  /\ stock'[c].quantity >= 0
                     /\ \A u \in Handler : draft'[u][c].quantity >= 0
  BY DEF StockNeverNegative
<1>0. /\ TypeOK
      /\ stock[c].quantity >= 0 /\ stock[c].quantity \in Int
      /\ \A u \in Handler : draft[u][c].quantity >= 0
      /\ NoRow.quantity = 0
  BY DEF IInv, StockNeverNegative, TypeOK, StockRow, NoRow
<1>1. CASE UNCHANGED <<stock, draft>>
  BY <1>0, <1>1
<1>2. ASSUME NEW o \in Item, NEW threshold \in Threshold, SetThreshold(o, threshold)
      PROVE  UNCHANGED draft /\ stock'[c].quantity = stock[c].quantity
  BY <1>0, <1>2, ThresholdEffect DEF SetThreshold
<1>3. ASSUME NEW t \in Handler, ApplyOne(t)
      PROVE  UNCHANGED stock /\ \A u \in Handler : draft'[u][c].quantity >= 0
  <2>1. PICK line \in Line :
          /\ line.amount < 0 => Enough(t, line)
          /\ draft'[t][line.item] = Moved(Seen(t, line.item), line.amount)
          /\ \A u \in Handler, o \in Item : u # t \/ o # line.item =>
               draft'[u][o] = draft[u][o]
    BY <1>0, <1>3, ApplyEffect
  <2>2. line.item \in Item /\ line.amount \in Int
    BY DEF Line
  <2>3. Seen(t, line.item) \in StockRow /\ Seen(t, line.item).quantity >= 0
    BY <1>0, <2>2, SeenType DEF Seen, IInv, StockNeverNegative
  <2>4. Seen(t, line.item).quantity \in Int
    BY <2>3 DEF StockRow
  <2>5. draft'[t][line.item].quantity = Seen(t, line.item).quantity + line.amount
    BY <2>1, <2>2, <2>3, MovedType
  <2>6. draft'[t][line.item].quantity >= 0
    BY <2>1, <2>2, <2>3, <2>4, <2>5 DEF Enough
  <2>. QED
    BY <1>0, <1>3, <2>1, <2>6 DEF ApplyOne
<1>4. ASSUME NEW t \in Handler, draft' = [draft EXCEPT ![t] = Nothing],
             stock' = stock \/ stock' = [o \in Item |-> Seen(t, o)]
      PROVE  stock'[c].quantity >= 0 /\ \A u \in Handler : draft'[u][c].quantity >= 0
  <2>1. stock'[c].quantity >= 0
    BY <1>0, <1>4 DEF Seen
  <2>2. \A u \in Handler : draft'[u][c] = draft[u][c] \/ draft'[u][c] = NoRow
    BY <1>0, <1>4 DEF TypeOK, Nothing
  <2>. QED
    BY <1>0, <2>1, <2>2
<1>5. ASSUME NEW t \in Handler, NEW answered \in BOOLEAN, Commit(t, answered)
      PROVE  draft' = [draft EXCEPT ![t] = Nothing] /\ stock' = [o \in Item |-> Seen(t, o)]
  BY <1>5 DEF Commit, EndTransaction
<1>6. ASSUME NEW t \in Handler, Rollback(t) \/ Fail(t)
      PROVE  draft' = [draft EXCEPT ![t] = Nothing] /\ stock' = stock
  BY <1>6 DEF Rollback, Fail
<1>. QED
  BY <1>0, <1>1, <1>2, <1>3, <1>4, <1>5, <1>6, StepKinds
  DEF FetchNorms, Mark, PublishWrittenOff, Finish, RaiseLowStock, CheckAmounts, BeginReplenish

LEMMA HistoryRestoresStockStep == IInv /\ [Next]_vars => HistoryRestoresStock'
<1>. SUFFICES ASSUME IInv, [Next]_vars, NEW c \in Item PROVE history'[c] = stock'[c].quantity
  BY DEF HistoryRestoresStock
<1>0. TypeOK /\ history[c] = stock[c].quantity
  BY DEF IInv, HistoryRestoresStock
<1>1. CASE UNCHANGED <<stock, history>>
  BY <1>0, <1>1
<1>2. ASSUME NEW o \in Item, NEW threshold \in Threshold, SetThreshold(o, threshold)
      PROVE  UNCHANGED history /\ stock'[c].quantity = stock[c].quantity
  BY <1>0, <1>2, ThresholdEffect DEF SetThreshold
<1>3. ASSUME NEW t \in Handler, NEW answered \in BOOLEAN, Commit(t, answered)
      PROVE  history'[c] = stock'[c].quantity
  <2>1. stock'[c] = Seen(t, c) /\ history'[c] = history[c] + moves[t][c]
    BY <1>3 DEF Commit, EndTransaction
  <2>2. moves[t][c] = IF Holds(t, c) THEN draft[t][c].quantity - stock[c].quantity ELSE 0
    BY DEF IInv, LocksHeld
  <2>3. stock[c].quantity \in Int /\ draft[t][c].quantity \in Int
    BY <1>0 DEF TypeOK, StockRow
  <2>. QED
    BY <1>0, <2>1, <2>2, <2>3 DEF Seen
<1>. QED
  BY <1>0, <1>1, <1>2, <1>3, StepKinds
  DEF FetchNorms, Mark, PublishWrittenOff, Finish, RaiseLowStock, CheckAmounts, BeginReplenish,
      ApplyOne, Rollback, Fail

LEMMA MarkedIffWrittenOffStep == IInv /\ [Next]_vars => MarkedIffWrittenOff'
<1>. SUFFICES ASSUME IInv, [Next]_vars, NEW e \in Event
              PROVE  recorded'[e] = IF e \in inbox' THEN 1 ELSE 0
  BY DEF MarkedIffWrittenOff
<1>0. TypeOK /\ recorded[e] = IF e \in inbox THEN 1 ELSE 0
  BY DEF IInv, MarkedIffWrittenOff
<1>1. CASE UNCHANGED <<recorded, inbox>>
  BY <1>0, <1>1
<1>2. ASSUME NEW t \in Handler, NEW answered \in BOOLEAN, Commit(t, answered)
      PROVE  recorded'[e] = IF e \in inbox' THEN 1 ELSE 0
  <2>1. /\ recorded' = [recorded EXCEPT ![JobOf(t)] = @ + 1]
        /\ inbox' = IF t \in Delivery THEN inbox \cup {EventOf[t]} ELSE inbox
        /\ Open(t)
    BY <1>2 DEF Commit, EndTransaction
  <2>2. e \in Job
    BY DEF Job
  <2>3. CASE JobOf(t) # e
    BY <1>0, <2>1, <2>2, <2>3, JobType DEF TypeOK
  <2>4. CASE JobOf(t) = e
    <3>1. t \in Delivery /\ EventOf[t] = e
      BY <2>4, JobType
    <3>2. e \notin inbox
      BY <2>1, <3>1 DEF IInv, EventsHeld
    <3>. QED
      BY <1>0, <2>1, <2>2, <2>4, <3>1, <3>2 DEF TypeOK
  <2>. QED
    BY <2>3, <2>4
<1>. QED
  BY <1>0, <1>1, <1>2, StepKinds
  DEF FetchNorms, Mark, PublishWrittenOff, Finish, RaiseLowStock, CheckAmounts, BeginReplenish,
      ApplyOne, Rollback, Fail, SetThreshold

\* Each handler moves alone.
LEMMA HandlerMoves ==
  ASSUME TypeOK, NEW t \in Handler, NEW stage, pc' = [pc EXCEPT ![t] = stage]
  PROVE  pc'[t] = stage /\ \A u \in Handler \ {t} : pc'[u] = pc[u]
  BY DEF TypeOK

\* A finished or failed handler's rows are gone, and no others are touched.
LEMMA LocksHeldStep == IInv /\ [Next]_vars => LocksHeld'
<1>. SUFFICES ASSUME IInv, [Next]_vars PROVE LocksHeld'
  OBVIOUS
<1>. DEFINE Locked(t, c) ==
       /\ Holds(t, c) => Open(t) /\ \A u \in Handler \ {t} : ~ Holds(u, c)
       /\ ~ Holds(t, c) => draft[t][c] = NoRow
       /\ moves[t][c] = IF Holds(t, c) THEN draft[t][c].quantity - stock[c].quantity ELSE 0
<1>0. TypeOK /\ (\A t \in Handler, c \in Item : Locked(t, c)) /\ NoRow.kept = FALSE
  BY DEF IInv, LocksHeld, NoRow
<1>1. ASSUME UNCHANGED <<draft, moves>>,
             \A c \in Item : stock'[c].quantity = stock[c].quantity,
             \A t \in Handler : Open(t) => Open(t)'
      PROVE  \A t \in Handler, c \in Item : Locked(t, c)'
  BY <1>0, <1>1 DEF Holds
<1>2. ASSUME NEW t \in Handler,
             draft' = [draft EXCEPT ![t] = Nothing], moves' = [moves EXCEPT ![t] = NoMoves],
             \A u \in Handler \ {t} : pc'[u] = pc[u],
             \A c \in Item : stock'[c].quantity = Seen(t, c).quantity \/ stock'[c] = stock[c]
      PROVE  \A u \in Handler, c \in Item : Locked(u, c)'
  <2>. SUFFICES ASSUME NEW u \in Handler, NEW c \in Item PROVE Locked(u, c)'
    OBVIOUS
  <2>1. \A o \in Handler : o # t => Holds(o, c)' = Holds(o, c) /\ draft'[o][c] = draft[o][c]
                                   /\ moves'[o][c] = moves[o][c]
    BY <1>0, <1>2, EmptiedEffect DEF Holds
  <2>2. ~ Holds(t, c)' /\ draft'[t][c] = NoRow /\ moves'[t][c] = 0
    BY <1>0, <1>2, EmptiedEffect DEF Holds
  <2>3. CASE u = t
    BY <2>2, <2>3
  <2>4. CASE u # t /\ ~ Holds(u, c)
    BY <1>0, <2>1, <2>4
  <2>5. CASE u # t /\ Holds(u, c)
    <3>1. ~ Holds(t, c) /\ Open(u) /\ \A o \in Handler \ {u} : ~ Holds(o, c)
      BY <1>0, <2>5
    <3>2. stock'[c].quantity = stock[c].quantity
      BY <1>2, <3>1 DEF Seen
    <3>3. Open(u)' /\ \A o \in Handler \ {u} : ~ Holds(o, c)'
      BY <1>2, <2>1, <2>2, <2>5, <3>1 DEF Open
    <3>4. moves[u][c] = draft[u][c].quantity - stock[c].quantity
      BY <1>0, <2>5
    <3>. QED
      BY <2>1, <2>5, <3>2, <3>3, <3>4
  <2>. QED
    BY <2>3, <2>4, <2>5
<1>3. ASSUME NEW t \in Handler, ApplyOne(t)
      PROVE  \A u \in Handler, c \in Item : Locked(u, c)'
  <2>. SUFFICES ASSUME NEW u \in Handler, NEW c \in Item PROVE Locked(u, c)'
    OBVIOUS
  <2>1. PICK line \in Line :
          /\ \A o \in Handler \ {t} : ~ Holds(o, line.item)
          /\ draft'[t][line.item] = Moved(Seen(t, line.item), line.amount)
          /\ moves'[t][line.item] = moves[t][line.item] + line.amount
          /\ \A o \in Handler, i \in Item : o # t \/ i # line.item =>
               draft'[o][i] = draft[o][i] /\ moves'[o][i] = moves[o][i]
    BY <1>0, <1>3, ApplyEffect
  <2>2. line.item \in Item /\ line.amount \in Int /\ stock' = stock /\ pc' = pc /\ Open(t)
    BY <1>3 DEF Line, ApplyOne
  <2>3. \A o \in Handler, i \in Item : o # t \/ i # line.item => Holds(o, i)' = Holds(o, i)
    BY <2>1 DEF Holds
  <2>4. CASE u = t /\ c = line.item
    <3>1. Seen(t, c) \in StockRow
      BY <1>0, SeenType
    <3>2. Holds(t, c)' /\ draft'[t][c].quantity = Seen(t, c).quantity + line.amount
      BY <2>1, <2>2, <2>4, <3>1, MovedType DEF Holds
    <3>3. \A o \in Handler \ {t} : ~ Holds(o, c)'
      BY <2>1, <2>2, <2>3, <2>4
    <3>4. moves[t][c] = Seen(t, c).quantity - stock[c].quantity
      <4>1. stock[c].quantity \in Int
        BY <1>0 DEF TypeOK, StockRow
      <4>. QED
        BY <1>0, <4>1 DEF Seen
    <3>5. /\ stock[c].quantity \in Int /\ Seen(t, c).quantity \in Int
          /\ moves'[t][c] = moves[t][c] + line.amount
      BY <1>0, <2>1, <2>4, <3>1 DEF TypeOK, StockRow
    <3>. QED
      BY <2>2, <2>4, <3>2, <3>3, <3>4, <3>5 DEF Open
  <2>5. CASE u # t \/ c # line.item
    <3>1. Holds(u, c) => \A o \in Handler \ {u} : ~ Holds(o, c)'
      BY <1>0, <2>1, <2>2, <2>3, <2>5
    <3>. QED
      BY <1>0, <2>1, <2>2, <2>3, <2>5, <3>1 DEF Open
  <2>. QED
    BY <2>4, <2>5
<1>4. ASSUME NEW c \in Item, NEW threshold \in Threshold, SetThreshold(c, threshold)
      PROVE  LocksHeld'
  BY <1>0, <1>1, <1>4, ThresholdEffect DEF SetThreshold, Open, LocksHeld
<1>5. ASSUME NEW t \in Handler, NEW answered \in BOOLEAN, Commit(t, answered)
      PROVE  LocksHeld'
  <2>1. \A u \in Handler \ {t} : pc'[u] = pc[u]
    BY <1>0, <1>5 DEF Commit, EndTransaction, TypeOK
  <2>2. \A c \in Item : stock'[c] = Seen(t, c)
    BY <1>5 DEF Commit, EndTransaction
  <2>. QED
    BY <1>2, <1>5, <2>1, <2>2 DEF Commit, EndTransaction, LocksHeld
<1>6. ASSUME NEW t \in Handler, Rollback(t) \/ Fail(t) PROVE LocksHeld'
  <2>1. \A u \in Handler \ {t} : pc'[u] = pc[u]
    BY <1>0, <1>6 DEF Rollback, Fail, TypeOK
  <2>. QED
    BY <1>2, <1>6, <2>1 DEF Rollback, Fail, LocksHeld
<1>7. ASSUME NEW d \in Delivery,
             FetchNorms(d) \/ Mark(d) \/ PublishWrittenOff(d) \/ Finish(d)
      PROVE  LocksHeld'
  <2>1. \A u \in Handler : Open(u) => Open(u)'
    BY <1>0, <1>7 DEF TypeOK, Handler, Open, FetchNorms, Mark, PublishWrittenOff, Finish
  <2>. QED
    BY <1>1, <1>7, <2>1 DEF FetchNorms, Mark, PublishWrittenOff, Finish, LocksHeld
<1>8. ASSUME NEW q \in Request, CheckAmounts(q) \/ BeginReplenish(q) PROVE LocksHeld'
  <2>1. \A u \in Handler : Open(u) => Open(u)'
    BY <1>0, <1>8 DEF TypeOK, Handler, Open, CheckAmounts, BeginReplenish
  <2>. QED
    BY <1>1, <1>8, <2>1 DEF CheckAmounts, BeginReplenish, LocksHeld
<1>9. ASSUME NEW d \in Delivery, NEW c \in Item, RaiseLowStock(d, c) PROVE LocksHeld'
  BY <1>1, <1>9 DEF RaiseLowStock, LocksHeld, Open
<1>10. CASE UNCHANGED <<stock, draft, moves, pc>>
  BY <1>1, <1>10 DEF LocksHeld, Open
<1>. HIDE DEF Locked
<1>. QED
  BY <1>0, <1>3, <1>4, <1>5, <1>6, <1>7, <1>8, <1>9, <1>10, StepKinds DEF LocksHeld, Locked

LEMMA AnnouncementsAreTrueStep == IInv /\ [Next]_vars => AnnouncementsAreTrue'
<1>. SUFFICES ASSUME IInv, [Next]_vars, NEW e \in Event
              PROVE  /\ sent'.writtenOff[e] <= recorded'[e]
                     /\ \A c \in Item : <<e, c>> \in sent'.low => recorded'[e] > 0
  BY DEF AnnouncementsAreTrue
<1>0. /\ TypeOK
      /\ sent.writtenOff[e] <= recorded[e]
      /\ \A c \in Item : <<e, c>> \in sent.low => recorded[e] > 0
      /\ recorded[e] \in Nat /\ sent.writtenOff[e] \in Nat
      /\ e \in inbox => recorded[e] = 1
  BY DEF IInv, AnnouncementsAreTrue, MarkedIffWrittenOff, TypeOK, Job
<1>1. CASE UNCHANGED <<recorded, sent>>
  BY <1>0, <1>1
<1>2. ASSUME NEW t \in Handler, NEW answered \in BOOLEAN, Commit(t, answered)
      PROVE  sent' = sent /\ recorded'[e] >= recorded[e]
  <2>1. e \in Job /\ recorded' = [recorded EXCEPT ![JobOf(t)] = @ + 1] /\ sent' = sent
    BY <1>2 DEF Job, Commit, EndTransaction
  <2>. QED
    BY <1>0, <2>1 DEF TypeOK
<1>3. ASSUME NEW d \in Delivery, PublishWrittenOff(d), sent' # sent
      PROVE  /\ recorded' = recorded
             /\ sent'.low = sent.low
             /\ sent'.writtenOff[e] <= recorded[e]
  <2>1. /\ pc[d] = "committed"
        /\ recorded' = recorded
        /\ sent' = [sent EXCEPT !.writtenOff = [sent.writtenOff EXCEPT ![EventOf[d]] = @ + 1]]
    BY <1>3 DEF PublishWrittenOff
  <2>2. EventOf[d] \in inbox /\ sent.writtenOff[EventOf[d]] = 0
    BY <2>1 DEF IInv, EventsHeld
  <2>3. /\ sent'.low = sent.low
        /\ sent'.writtenOff = [sent.writtenOff EXCEPT ![EventOf[d]] = @ + 1]
    BY <1>0, <2>1 DEF TypeOK
  <2>4. CASE EventOf[d] = e
    BY <1>0, <2>1, <2>2, <2>3, <2>4 DEF TypeOK
  <2>5. CASE EventOf[d] # e
    BY <1>0, <2>1, <2>3, <2>5 DEF TypeOK
  <2>. QED
    BY <2>1, <2>3, <2>4, <2>5
<1>4. ASSUME NEW d \in Delivery, NEW c \in Item, RaiseLowStock(d, c), sent' # sent
      PROVE  /\ recorded' = recorded
             /\ sent'.writtenOff = sent.writtenOff
             /\ \A o \in Item : <<e, o>> \in sent'.low => recorded[e] > 0
  <2>1. /\ recorded' = recorded
        /\ sent' = [sent EXCEPT !.low = @ \cup {<<EventOf[d], c>>}]
        /\ EventOf[d] \in inbox
    BY <1>4 DEF RaiseLowStock, IInv, EventsHeld
  <2>2. /\ sent'.writtenOff = sent.writtenOff
        /\ sent'.low = sent.low \cup {<<EventOf[d], c>>}
    BY <1>0, <2>1 DEF TypeOK
  <2>. QED
    BY <1>0, <2>1, <2>2
<1>5. \/ UNCHANGED <<recorded, sent>>
      \/ \E t \in Handler, answered \in BOOLEAN : Commit(t, answered)
      \/ \E d \in Delivery : PublishWrittenOff(d) /\ sent' # sent
      \/ \E d \in Delivery, c \in Item : RaiseLowStock(d, c) /\ sent' # sent
  <2>1. ASSUME NEW d \in Delivery, PublishWrittenOff(d), sent' = sent
        PROVE  UNCHANGED <<recorded, sent>>
    BY <2>1 DEF PublishWrittenOff
  <2>2. ASSUME NEW d \in Delivery, NEW c \in Item, RaiseLowStock(d, c), sent' = sent
        PROVE  UNCHANGED <<recorded, sent>>
    BY <2>2 DEF RaiseLowStock
  <2>. QED
    BY <1>0, <2>1, <2>2, StepKinds
    DEF FetchNorms, Mark, Finish, CheckAmounts, BeginReplenish, ApplyOne, Rollback, Fail,
        SetThreshold
<1>6. ASSUME sent' = sent, recorded'[e] >= recorded[e], recorded'[e] \in Nat
      PROVE  /\ sent'.writtenOff[e] <= recorded'[e]
             /\ \A c \in Item : <<e, c>> \in sent'.low => recorded'[e] > 0
  BY <1>0, <1>6
<1>7. recorded'[e] \in Nat
  BY <1>0, TypeStep DEF TypeOK, Job
<1>. QED
  BY <1>0, <1>1, <1>2, <1>3, <1>4, <1>5, <1>6, <1>7

LEMMA EventsHeldStep == IInv /\ [Next]_vars => EventsHeld'
<1>. SUFFICES ASSUME IInv, [Next]_vars, NEW d \in Delivery, NEW e \in Event, e = EventOf[d]
              PROVE  /\ Open(d)' => /\ e \notin inbox'
                                    /\ \A o \in Delivery \ {d} : Open(o)' => EventOf[o] # e
                     /\ pc'[d] \in {"committed", "alerting"} => e \in inbox'
                     /\ pc'[d] = "committed" =>
                          /\ sent'.writtenOff[e] = 0
                          /\ \A o \in Delivery \ {d} : pc'[o] = "committed" => EventOf[o] # e
  BY InventoryAssumption DEF EventsHeld
<1>. DEFINE Good(o) ==
       /\ Open(o) => /\ EventOf[o] \notin inbox
                     /\ \A u \in Delivery \ {o} : Open(u) => EventOf[u] # EventOf[o]
       /\ pc[o] \in {"committed", "alerting"} => EventOf[o] \in inbox
       /\ pc[o] = "committed" =>
            /\ sent.writtenOff[EventOf[o]] = 0
            /\ \A u \in Delivery \ {o} : pc[u] = "committed" => EventOf[u] # EventOf[o]
<1>0. /\ TypeOK
      /\ \A o \in Delivery : Good(o)
      /\ \A o \in Delivery : o \in Handler
      /\ \A o \in Request : o \in Handler /\ o \notin Delivery
  BY InventoryAssumption DEF IInv, EventsHeld, Handler
<1>. USE DEF Open
<1>1. CASE UNCHANGED <<inbox, pc, sent>>
  BY <1>0, <1>1
<1>2. ASSUME NEW t \in Handler, NEW answered \in BOOLEAN, Commit(t, answered)
      PROVE  Good(d)'
  <2>1. /\ pc[t] = "applying"
        /\ inbox' = IF t \in Delivery THEN inbox \cup {EventOf[t]} ELSE inbox
        /\ sent' = sent
        /\ pc'[t] \in {"failed", "committed", "done"}
        /\ pc'[t] = "committed" => t \in Delivery
        /\ \A u \in Handler \ {t} : pc'[u] = pc[u]
    BY <1>0, <1>2 DEF Commit, EndTransaction, TypeOK
  <2>2. e \notin inbox => sent.writtenOff[e] = 0
    BY <1>0 DEF IInv, AnnouncementsAreTrue, MarkedIffWrittenOff, TypeOK, Job
  <2>3. CASE d = t
    <3>1. e \notin inbox
      BY <1>0, <2>1, <2>3
    <3>2. \A o \in Delivery \ {d} : pc[o] = "committed" => EventOf[o] # e
      BY <1>0, <3>1
    <3>. QED
      BY <1>0, <2>1, <2>2, <2>3, <3>1, <3>2
  <2>4. CASE d # t /\ t \in Delivery
    <3>1. pc'[d] = pc[d]
      BY <1>0, <2>1, <2>4
    <3>2. pc[d] = "applying" => EventOf[t] # e
      BY <1>0, <2>1, <2>4
    <3>3. pc[d] = "committed" => EventOf[t] # e
      BY <1>0, <2>1, <2>4
    <3>. QED
      BY <1>0, <2>1, <2>4, <3>1, <3>2, <3>3
  <2>5. CASE t \notin Delivery
    BY <1>0, <2>1, <2>5
  <2>. QED
    BY <2>3, <2>4, <2>5
<1>3. ASSUME NEW t \in Handler, NEW stage \in {"failed", "done", "ready"},
             pc' = [pc EXCEPT ![t] = stage], UNCHANGED <<inbox, sent>>
      PROVE  Good(d)'
  BY <1>0, <1>3, HandlerMoves
<1>4. ASSUME NEW t \in Handler, t \notin Delivery,
             pc' = [pc EXCEPT ![t] = "applying"], UNCHANGED <<inbox, sent>>
      PROVE  Good(d)'
  BY <1>0, <1>4, HandlerMoves
<1>5. ASSUME NEW t \in Delivery, Mark(t) PROVE Good(d)'
  <2>1. CASE EventOf[t] \in inbox
    BY <1>0, <1>3, <1>5, <2>1 DEF Mark
  <2>2. CASE EventOf[t] \notin inbox
    <3>1. pc'[t] = "applying" /\ \A u \in Handler \ {t} : pc'[u] = pc[u]
      BY <1>0, <1>5, <2>2, HandlerMoves DEF Mark
    <3>2. UNCHANGED <<inbox, sent>> /\ \A u \in Delivery : EventOf[u] = EventOf[t] => pc[u] # "applying"
      BY <1>5 DEF Mark, Marking
    <3>. QED
      BY <1>0, <2>2, <3>1, <3>2
  <2>. QED
    BY <2>1, <2>2
<1>6. ASSUME NEW t \in Delivery, PublishWrittenOff(t) PROVE Good(d)'
  <2>1. /\ pc[t] = "committed"
        /\ inbox' = inbox
        /\ sent' = sent \/
             sent' = [sent EXCEPT !.writtenOff = [sent.writtenOff EXCEPT ![EventOf[t]] = @ + 1]]
        /\ pc'[t] = "alerting"
        /\ \A u \in Handler \ {t} : pc'[u] = pc[u]
    BY <1>0, <1>6, HandlerMoves DEF PublishWrittenOff
  <2>2. EventOf[t] # e => sent'.writtenOff[e] = sent.writtenOff[e]
    BY <1>0, <2>1 DEF TypeOK
  <2>3. d # t /\ pc[d] = "committed" => EventOf[t] # e
    BY <1>0, <2>1
  <2>. QED
    BY <1>0, <2>1, <2>2, <2>3
<1>7. ASSUME NEW t \in Delivery, NEW c \in Item, RaiseLowStock(t, c) PROVE Good(d)'
  <2>1. UNCHANGED <<inbox, pc>> /\ sent'.writtenOff = sent.writtenOff
    BY <1>0, <1>7 DEF RaiseLowStock, TypeOK
  <2>. QED
    BY <1>0, <2>1
<1>8. CASE \E t \in Handler : Rollback(t) \/ Fail(t)
  BY <1>3, <1>8 DEF Rollback, Fail
<1>9. CASE \E t \in Delivery : FetchNorms(t) \/ Finish(t)
  BY <1>0, <1>3, <1>9 DEF FetchNorms, Finish
<1>10. CASE \E q \in Request : CheckAmounts(q) \/ BeginReplenish(q)
  BY <1>0, <1>3, <1>4, <1>10 DEF CheckAmounts, BeginReplenish
<1>11. CASE \E c \in Item, threshold \in Threshold : SetThreshold(c, threshold)
  BY <1>1, <1>11 DEF SetThreshold
<1>12. CASE \E t \in Handler : ApplyOne(t)
  BY <1>1, <1>12 DEF ApplyOne
<1>13. \/ UNCHANGED <<inbox, pc, sent>>
       \/ Good(d)'
  BY <1>0, <1>2, <1>5, <1>6, <1>7, <1>8, <1>9, <1>10, <1>11, <1>12, StepKinds
<1>. QED
  BY <1>1, <1>13

\* What the invariant says of one transaction.
Applied(t) ==
  /\ pc[t] \in {"received", "ready"} => step[t] = 0
  /\ Open(t) =>
       /\ step[t] <= Len(Movements(t))
       /\ \A c \in Item :
            /\ Holds(t, c) <=> \E i \in 1 .. step[t] : Movements(t)[i].item = c
            /\ moves[t][c] = RunningTotal(Movements(t), c)[step[t]]
            /\ Holds(t, c) /\ t \in Delivery => stock[c].kept

\* While nobody touches its rows a transaction is as far as it was.
LEMMA AppliedStays ==
  ASSUME IInv, NEW t \in Handler,
         draft'[t] = draft[t], moves'[t] = moves[t], step'[t] = step[t],
         Open(t)' => Open(t),
         pc'[t] \in {"received", "ready"} => pc[t] \in {"received", "ready"},
         \A c \in Item : stock[c].kept => stock'[c].kept
  PROVE  Applied(t)'
<1>1. Applied(t)
  BY DEF IInv, LinesApplied, Applied
<1>2. \A c \in Item : Holds(t, c)' <=> Holds(t, c)
  BY DEF Holds
<1>. QED
  BY <1>1, <1>2 DEF Applied

\* A transaction begins with no line applied and no row held.
LEMMA AppliedBegins ==
  ASSUME IInv, NEW t \in Handler, pc[t] = "ready", pc'[t] = "applying",
         UNCHANGED <<draft, moves, step>>
  PROVE  Applied(t)'
<1>1. step[t] = 0 /\ Len(Movements(t)) \in Nat
  BY MovementsType DEF IInv, LinesApplied
<1>2. \A c \in Item : ~ Holds(t, c) /\ moves[t][c] = 0
  BY DEF IInv, LocksHeld, Open
<1>3. \A c \in Item : RunningTotal(Movements(t), c)[0] = 0
  BY <1>1, RunningTotalStep
<1>4. \A c \in Item : ~ Holds(t, c)' /\ moves'[t][c] = 0
  BY <1>2 DEF Holds
<1>. QED
  BY <1>1, <1>3, <1>4 DEF Applied

LEMMA AppliedGrows ==
  ASSUME IInv, NEW t \in Handler, ApplyOne(t)
  PROVE  Applied(t)'
<1>. DEFINE lines == Movements(t)
            n == step[t]
<1>0. TypeOK /\ Open(t) /\ n \in Nat /\ n < Len(lines) /\ Len(lines) \in Nat
  BY MovementsType DEF ApplyOne, IInv, TypeOK
<1>1. PICK line \in Line :
        /\ line = lines[n + 1]
        /\ line.amount < 0 => Enough(t, line)
        /\ Moved(Seen(t, line.item), line.amount) \in StockRow
        /\ draft'[t][line.item] = Moved(Seen(t, line.item), line.amount)
        /\ moves'[t][line.item] = moves[t][line.item] + line.amount
        /\ \A u \in Handler, c \in Item : u # t \/ c # line.item =>
             draft'[u][c] = draft[u][c] /\ moves'[u][c] = moves[u][c]
  BY <1>0, ApplyEffect
<1>2. line.item \in Item /\ line.amount \in Int
  BY DEF Line
<1>3. step'[t] = n + 1 /\ pc' = pc /\ stock' = stock
  BY <1>0 DEF ApplyOne, TypeOK
<1>4. \A c \in Item :
        /\ Holds(t, c) <=> \E i \in 1 .. n : lines[i].item = c
        /\ moves[t][c] = RunningTotal(lines, c)[n]
        /\ Holds(t, c) /\ t \in Delivery => stock[c].kept
  BY <1>0 DEF IInv, LinesApplied
<1>5. Holds(t, line.item)' /\ \A c \in Item \ {line.item} : Holds(t, c)' = Holds(t, c)
  BY <1>1, <1>2 DEF Holds, Moved
<1>6. ASSUME NEW c \in Item
      PROVE  Holds(t, c)' <=> \E i \in 1 .. (n + 1) : lines[i].item = c
  <2>1. (\E i \in 1 .. (n + 1) : lines[i].item = c)
          <=> (\E i \in 1 .. n : lines[i].item = c) \/ lines[n + 1].item = c
    BY <1>0
  <2>. QED
    BY <1>1, <1>4, <1>5, <2>1
<1>7. ASSUME NEW c \in Item
      PROVE  moves'[t][c] = RunningTotal(lines, c)[n + 1]
  <2>1. n + 1 \in 1 .. Len(lines) /\ (n + 1) - 1 = n
    BY <1>0
  <2>2. RunningTotal(lines, c)[n + 1] =
          RunningTotal(lines, c)[n] + (IF lines[n + 1].item = c THEN lines[n + 1].amount ELSE 0)
    BY <1>0, <2>1, RunningTotalStep
  <2>3. moves[t][c] \in Int
    BY <1>0 DEF TypeOK
  <2>. QED
    BY <1>1, <1>4, <2>2, <2>3
<1>8. ASSUME NEW c \in Item, Holds(t, c)', t \in Delivery
      PROVE  stock'[c].kept
  <2>1. CASE c = line.item
    <3>1. Seen(t, c).kept
      BY <1>0, <1>1, <1>8, <2>1, WriteOffTakes DEF Enough
    <3>. QED
      BY <1>3, <1>4, <1>8, <3>1 DEF Seen
  <2>2. CASE c # line.item
    BY <1>3, <1>4, <1>5, <1>8, <2>2
  <2>. QED
    BY <2>1, <2>2
<1>. QED
  BY <1>0, <1>3, <1>6, <1>7, <1>8 DEF Applied, Open

LEMMA LinesAppliedStep == IInv /\ [Next]_vars => LinesApplied'
<1>. SUFFICES ASSUME IInv, [Next]_vars PROVE LinesApplied'
  OBVIOUS
<1>0. TypeOK /\ TypeOK'
  BY TypeStep DEF IInv
<1>1. ASSUME NEW c \in Item
      PROVE  /\ stock'[c].kept \/ stock'[c] = NoRow
             /\ stock[c].kept => stock'[c].kept
  <2>0. stock[c].kept \/ stock[c] = NoRow
    BY DEF IInv, LinesApplied
  <2>1. CASE stock' = stock
    BY <2>0, <2>1
  <2>2. ASSUME NEW o \in Item, NEW threshold \in Threshold, SetThreshold(o, threshold)
        PROVE  stock'[c].kept = stock[c].kept /\ (stock'[c] = stock[c] \/ stock[c].kept)
    <3>1. /\ stock' = [stock EXCEPT ![o] = [stock[o] EXCEPT !.threshold = threshold]]
          /\ stock[o].kept
      BY <2>2 DEF SetThreshold
    <3>2. stock[o] \in StockRow /\ threshold \in Nat
      BY <1>0, InventoryAssumption DEF TypeOK
    <3>. QED
      BY <1>0, <3>1, <3>2, ThresholdType DEF TypeOK
  <2>3. ASSUME NEW t \in Handler, NEW answered \in BOOLEAN, Commit(t, answered)
        PROVE  stock'[c] = Seen(t, c)
    BY <2>3 DEF Commit, EndTransaction
  <2>4. \A t \in Handler : Seen(t, c) = stock[c] \/ Seen(t, c).kept
    BY DEF Seen, Holds
  <2>. QED
    BY <1>0, <2>0, <2>1, <2>2, <2>3, <2>4, StepKinds
    DEF FetchNorms, Mark, PublishWrittenOff, Finish, RaiseLowStock, CheckAmounts, BeginReplenish,
        ApplyOne, Rollback, Fail
<1>2. ASSUME NEW q \in Request, recorded'[q] > 0 PROVE pc'[q] \in {"done", "failed"}
  <2>0. /\ recorded[q] > 0 => pc[q] \in {"done", "failed"}
        /\ q \in Handler /\ q \in Job /\ q \notin Delivery
    BY InventoryAssumption DEF IInv, LinesApplied, Handler, Job
  <2>1. ASSUME NEW t \in Handler, NEW answered \in BOOLEAN, Commit(t, answered)
        PROVE  pc'[q] \in {"done", "failed"}
    <3>1. CASE t = q
      BY <1>0, <2>0, <2>1, <3>1 DEF Commit, EndTransaction, TypeOK
    <3>2. CASE t # q
      <4>1. JobOf(t) # q
        BY <2>0, <3>2, InventoryAssumption DEF JobOf, Handler
      <4>. QED
        BY <1>0, <1>2, <2>0, <2>1, <3>2, <4>1, JobType DEF Commit, EndTransaction, TypeOK
    <3>. QED
      BY <3>1, <3>2
  <2>2. ASSUME recorded' = recorded PROVE pc'[q] \in {"done", "failed"}
    <3>1. pc[q] \in {"done", "failed"}
      BY <1>2, <2>0, <2>2
    <3>. QED
      BY <1>0, <2>0, <3>1, StepKinds, HandlerMoves
      DEF FetchNorms, Mark, PublishWrittenOff, Finish, RaiseLowStock, CheckAmounts,
          BeginReplenish, ApplyOne, Rollback, Open, Fail, Commit, EndTransaction, SetThreshold,
          TypeOK, Handler
  <2>. QED
    BY <1>0, <2>1, <2>2, StepKinds
    DEF FetchNorms, Mark, PublishWrittenOff, Finish, RaiseLowStock, CheckAmounts, BeginReplenish,
        ApplyOne, Rollback, Fail, SetThreshold
<1>3. ASSUME NEW t \in Handler PROVE Applied(t)'
  <2>1. CASE UNCHANGED <<draft, moves, step, pc>>
    BY <1>1, <2>1, AppliedStays DEF Open
  <2>2. ASSUME NEW u \in Handler, ApplyOne(u) PROVE Applied(t)'
    <3>1. CASE u = t
      BY <2>2, <3>1, AppliedGrows
    <3>2. CASE u # t
      <4>1. draft'[t] = draft[t] /\ moves'[t] = moves[t] /\ step'[t] = step[t] /\ pc' = pc
        BY <1>0, <2>2, <3>2 DEF ApplyOne, TypeOK
      <4>. QED
        BY <1>1, <4>1, AppliedStays DEF Open
    <3>. QED
      BY <3>1, <3>2
  <2>3. ASSUME NEW u \in Handler, NEW stage \in {"done", "failed", "committed"},
               pc' = [pc EXCEPT ![u] = stage],
               draft' = [draft EXCEPT ![u] = Nothing], moves' = [moves EXCEPT ![u] = NoMoves],
               step' = step \/ step' = [step EXCEPT ![u] = 0]
        PROVE  Applied(t)'
    <3>1. CASE u = t
      BY <1>0, <2>3, <3>1 DEF Applied, Open, TypeOK
    <3>2. CASE u # t
      <4>1. draft'[t] = draft[t] /\ moves'[t] = moves[t] /\ step'[t] = step[t] /\ pc'[t] = pc[t]
        BY <1>0, <2>3, <3>2 DEF TypeOK
      <4>. QED
        BY <1>1, <4>1, AppliedStays DEF Open
    <3>. QED
      BY <3>1, <3>2
  <2>4. ASSUME NEW u \in Handler, NEW stage \in Stage,
               pc' = [pc EXCEPT ![u] = stage], UNCHANGED <<draft, moves, step>>,
               \/ stage = "ready" /\ pc[u] = "received"
               \/ stage = "applying" /\ pc[u] = "ready"
               \/ stage \in {"done", "failed", "alerting"}
        PROVE  Applied(t)'
    <3>1. pc'[t] = IF u = t THEN stage ELSE pc[t]
      BY <1>0, <2>4 DEF TypeOK
    <3>2. CASE u = t /\ stage = "applying"
      BY <2>4, <3>1, <3>2, AppliedBegins
    <3>3. CASE u # t \/ stage # "applying"
      BY <1>1, <2>4, <3>1, <3>3, AppliedStays DEF Open
    <3>. QED
      BY <3>2, <3>3
  <2>5. ASSUME NEW u \in Handler, NEW answered \in BOOLEAN, Commit(u, answered)
        PROVE  Applied(t)'
    BY <2>3, <2>5 DEF Commit, EndTransaction
  <2>6. ASSUME NEW u \in Handler, Rollback(u) \/ Fail(u) PROVE Applied(t)'
    BY <2>3, <2>6 DEF Rollback, Fail
  <2>7. ASSUME NEW d \in Delivery,
               FetchNorms(d) \/ Mark(d) \/ PublishWrittenOff(d) \/ Finish(d)
        PROVE  Applied(t)'
    BY <2>4, <2>7 DEF FetchNorms, Mark, PublishWrittenOff, Finish, Stage, Handler
  <2>8. ASSUME NEW q \in Request, CheckAmounts(q) \/ BeginReplenish(q) PROVE Applied(t)'
    BY <2>4, <2>8 DEF CheckAmounts, BeginReplenish, Stage, Handler
  <2>. QED
    BY <1>0, <2>1, <2>2, <2>5, <2>6, <2>7, <2>8, StepKinds DEF RaiseLowStock, SetThreshold
<1>. QED
  BY <1>1, <1>2, <1>3 DEF LinesApplied, Applied

-----------------------------------------------------------------------------
(* The theorems.                                                           *)

LEMMA InvInitial == Init => IInv
<1>. SUFFICES ASSUME Init PROVE IInv
  OBVIOUS
<1>1. TypeOK
  BY TypeInitial
<1>2. \A t \in Handler, c \in Item :
        draft[t][c] = NoRow /\ moves[t][c] = 0 /\ pc[t] = "received"
  BY DEF Init, Nothing, NoMoves
<1>3. NoRow.quantity = 0 /\ NoRow.kept = FALSE
  BY DEF NoRow
<1>4. StockNeverNegative /\ HistoryRestoresStock
  BY <1>2, <1>3, InventoryAssumption DEF Init, StockNeverNegative, HistoryRestoresStock
<1>5. MarkedIffWrittenOff /\ AnnouncementsAreTrue
  BY DEF Init, MarkedIffWrittenOff, AnnouncementsAreTrue, Job
<1>6. LocksHeld
  BY <1>2, <1>3 DEF LocksHeld, Holds
<1>7. EventsHeld
  <2>1. \A t \in Handler : pc[t] = "received"
    BY DEF Init
  <2>. QED
    BY <2>1 DEF EventsHeld, Open, Handler
<1>8. LinesApplied
  <2>1. \A c \in Item : stock[c].kept \/ stock[c] = NoRow
    BY InventoryAssumption DEF Init
  <2>2. \A q \in Request : recorded[q] = 0
    BY DEF Init, Job
  <2>3. \A t \in Handler : pc[t] = "received" /\ step[t] = 0
    BY DEF Init
  <2>. QED
    BY <2>1, <2>2, <2>3 DEF LinesApplied, Open
<1>. QED
  BY <1>1, <1>4, <1>5, <1>6, <1>7, <1>8 DEF IInv

LEMMA InvStep == IInv /\ [Next]_vars => IInv'
  BY TypeStep, StockNeverNegativeStep, HistoryRestoresStockStep, MarkedIffWrittenOffStep,
     AnnouncementsAreTrueStep, LocksHeldStep, EventsHeldStep, LinesAppliedStep DEF IInv

\* The handlers keep the inductive invariant in every behaviour.
THEOREM Invariance == Spec => []IInv
  BY InvInitial, InvStep, PTL DEF Spec

\* No write-off takes what is not there, whatever replenishes or takes beside it.
THEOREM NeverNegative == Spec => []StockNeverNegative
<1>1. IInv => StockNeverNegative
  BY DEF IInv
<1>. QED
  BY <1>1, Invariance, PTL

\* The history of movements always adds up to the stock.
THEOREM HistoryAddsUp == Spec => []HistoryRestoresStock
<1>1. IInv => HistoryRestoresStock
  BY DEF IInv
<1>. QED
  BY <1>1, Invariance, PTL

\* However often an event is delivered, its materials are written off once, and
\* the event is marked exactly when they are.
THEOREM WrittenOffOnce == Spec => []MarkedIffWrittenOff
<1>1. IInv => MarkedIffWrittenOff
  BY DEF IInv
<1>. QED
  BY <1>1, Invariance, PTL

\* Nothing is announced that was not written off, and no write-off twice.
THEOREM AnnouncedTruthfully == Spec => []AnnouncementsAreTrue
<1>1. IInv => AnnouncementsAreTrue
  BY DEF IInv
<1>. QED
  BY <1>1, Invariance, PTL

LEMMA TouchedType ==
  ASSUME NEW t \in Handler
  PROVE  Touched[JobOf(t)] \subseteq Item
<1>. DEFINE lines == Movements(t)
<1>1. lines \in Seq(Line) /\ DOMAIN lines = 1 .. Len(lines) /\ Len(lines) \in Nat
  BY MovementsType
<1>2. ASSUME NEW i \in 1 .. Len(lines) PROVE lines[i].item \in Item
  <2>1. lines[i] \in Line
    BY <1>1, ElementOfSeq
  <2>. QED
    BY <2>1 DEF Line
<1>3. Touched[JobOf(t)] = { lines[i].item : i \in DOMAIN lines }
  BY JobType DEF Touched, Movements
<1>. QED
  BY <1>1, <1>2, <1>3

\* A transaction at its end holds the rows its job is about and has moved each of
\* them by the job's change.
LEMMA WholeJob ==
  ASSUME IInv, NEW t \in Handler, NEW answered \in BOOLEAN, Commit(t, answered), NEW c \in Item
  PROVE  /\ Holds(t, c) <=> c \in Touched[JobOf(t)]
         /\ moves[t][c] = Change[JobOf(t)][c]
         /\ Holds(t, c) /\ t \in Delivery => stock[c].kept
<1>. DEFINE lines == Movements(t)
<1>1. Open(t) /\ step[t] = Len(lines) /\ lines \in Seq(Line)
  BY MovementsType DEF Commit, EndTransaction
<1>2. /\ Holds(t, c) <=> \E i \in 1 .. Len(lines) : lines[i].item = c
      /\ moves[t][c] = RunningTotal(lines, c)[Len(lines)]
      /\ Holds(t, c) /\ t \in Delivery => stock[c].kept
  BY <1>1 DEF IInv, LinesApplied
<1>3. DOMAIN lines = 1 .. Len(lines)
  BY <1>1
<1>4. Touched[JobOf(t)] = { lines[i].item : i \in 1 .. Len(lines) }
  BY <1>3, JobType DEF Touched, Movements
<1>5. Change[JobOf(t)][c] = RunningTotal(lines, c)[Len(lines)]
  BY JobType DEF Change, Movements
<1>. QED
  BY <1>2, <1>4, <1>5

\* A write-off that commits raises an alert for those of its materials that are low
\* in the table it leaves behind: what its statements returned is not out of date.
THEOREM AlertsAreCurrent == Spec => AlertsMatchStock
<1>. DEFINE Current ==
       \A d \in Delivery :
         pc[d] = "applying" /\ pc'[d] = "committed" =>
           alerts'[d] = { c \in Touched[EventOf[d]] : IsLow(stock'[c]) }
<1>1. IInv /\ [Next]_vars => [Current]_vars
  <2>. SUFFICES ASSUME IInv, [Next]_vars, NEW d \in Delivery,
                       pc[d] = "applying", pc'[d] = "committed"
                PROVE  alerts'[d] = { c \in Touched[EventOf[d]] : IsLow(stock'[c]) }
    OBVIOUS
  <2>1. TypeOK /\ d \in Handler
    BY DEF IInv, Handler
  <2>2. PICK t \in Handler, answered \in BOOLEAN : Commit(t, answered)
    BY <2>1, StepKinds
    DEF SetThreshold, ApplyOne, Rollback, Open, Fail, FetchNorms, Mark, PublishWrittenOff, Finish,
        RaiseLowStock, CheckAmounts, BeginReplenish, TypeOK, Handler
  <2>3. t = d /\ answered
    BY <2>1, <2>2 DEF Commit, EndTransaction, TypeOK
  <2>4. alerts'[d] = { c \in Item : Holds(d, c) /\ IsLow(draft[d][c]) }
    BY <2>1, <2>2, <2>3 DEF Commit, EndTransaction, TypeOK
  <2>5. \A c \in Item : stock'[c] = Seen(d, c)
    BY <2>2, <2>3 DEF Commit, EndTransaction
  <2>6. \A c \in Item : Holds(d, c) <=> c \in Touched[EventOf[d]]
    BY <2>1, <2>2, <2>3, WholeJob, JobType
  <2>7. Touched[EventOf[d]] \subseteq Item
    BY <2>1, TouchedType, JobType
  <2>. QED
    BY <2>4, <2>5, <2>6, <2>7 DEF Seen
<1>. QED
  BY <1>1, Invariance, PTL DEF Spec, AlertsMatchStock

-----------------------------------------------------------------------------
(* The stock implements a warehouse.                                       *)

LEMMA WarehouseInitial == Init => Ware!Init
<1>. SUFFICES ASSUME Init PROVE Ware!Init
  OBVIOUS
<1>1. ASSUME NEW c \in Item PROVE stock[c].quantity \in Nat
  <2>1. Opening[c] \in StockRow /\ Opening[c].quantity >= 0 /\ stock[c] = Opening[c]
    BY InventoryAssumption DEF Init
  <2>. QED
    BY <2>1 DEF StockRow
<1>2. \A j \in Job : recorded[j] = 0
  BY DEF Init
<1>. QED
  BY <1>1, <1>2 DEF Ware!Init

\* What a commit does, it does as a whole: it carries out one job not done before.
LEMMA CommitIsDo ==
  ASSUME IInv, NEW t \in Handler, NEW answered \in BOOLEAN, Commit(t, answered)
  PROVE  Ware!Do(JobOf(t))
<1>. DEFINE j == JobOf(t)
            onHand == [c \in Item |-> IF stock[c].kept THEN stock[c].quantity ELSE -1]
            done == { i \in Job : recorded[i] > 0 }
<1>0. TypeOK /\ j \in Job /\ recorded[j] \in Nat
  BY JobType DEF IInv, TypeOK
<1>1. Open(t) /\ recorded' = [recorded EXCEPT ![j] = @ + 1]
  BY DEF Commit, EndTransaction
<1>2. recorded[j] = 0
  <2>1. CASE t \in Delivery
    <3>1. j \in Event /\ j \notin inbox
      BY <1>1, <2>1, JobType DEF IInv, EventsHeld
    <3>. QED
      BY <3>1 DEF IInv, MarkedIffWrittenOff
  <2>2. CASE t \notin Delivery
    <3>1. t \in Request /\ j = t
      BY <2>2 DEF Handler, JobOf
    <3>. QED
      BY <1>0, <1>1, <3>1 DEF IInv, LinesApplied, Open
  <2>. QED
    BY <2>1, <2>2
<1>3. done' = done \cup {j}
  BY <1>0, <1>1, <1>2 DEF TypeOK
<1>4. ASSUME NEW c \in Item
      PROVE  /\ stock'[c] = Seen(t, c)
             /\ Holds(t, c) <=> c \in Touched[j]
             /\ Holds(t, c) /\ t \in Delivery => stock[c].kept
             /\ Holds(t, c) => draft[t][c].quantity = stock[c].quantity + Change[j][c]
             /\ Change[j][c] \in Int /\ stock[c].quantity \in Nat /\ draft[t][c].quantity \in Nat
             /\ ~ stock[c].kept => stock[c].quantity = 0
  <2>1. /\ stock[c].quantity \in Nat /\ draft[t][c].quantity \in Nat
        /\ moves[t][c] \in Int
    BY <1>0 DEF IInv, StockNeverNegative, TypeOK, StockRow
  <2>2. /\ Holds(t, c) => moves[t][c] = draft[t][c].quantity - stock[c].quantity
        /\ ~ stock[c].kept => stock[c].quantity = 0
    BY DEF IInv, LocksHeld, LinesApplied, NoRow
  <2>3. stock'[c] = Seen(t, c)
    BY DEF Commit, EndTransaction
  <2>. QED
    BY <2>1, <2>2, <2>3, WholeJob
<1>5. Touched[j] \subseteq Item
  BY TouchedType
<1>6. Ware!Feasible(j)
  <2>. SUFFICES ASSUME j \in Event, NEW c \in Touched[j]
                PROVE  onHand[c] >= 0 /\ onHand[c] + Change[j][c] >= 0
    BY DEF Ware!Feasible
  <2>1. t \in Delivery
    BY JobType
  <2>. QED
    BY <1>4, <1>5, <2>1
<1>7. ASSUME NEW c \in Item
      PROVE  onHand'[c] = IF c \notin Touched[j] THEN onHand[c]
                          ELSE (IF onHand[c] = -1 THEN 0 ELSE onHand[c]) + Change[j][c]
  <2>1. CASE c \notin Touched[j]
    BY <1>4, <2>1 DEF Seen
  <2>2. CASE c \in Touched[j]
    <3>1. stock'[c] = draft[t][c] /\ draft[t][c].kept
      BY <1>4, <2>2 DEF Seen, Holds
    <3>2. onHand'[c] = stock[c].quantity + Change[j][c]
      BY <1>4, <2>2, <3>1
    <3>. QED
      BY <1>4, <2>2, <3>2
  <2>. QED
    BY <2>1, <2>2
<1>8. onHand' = [c \in Item |-> IF c \notin Touched[j] THEN onHand[c]
                                ELSE (IF onHand[c] = -1 THEN 0 ELSE onHand[c]) + Change[j][c]]
  BY <1>7
<1>9. j \in Job \ done
  BY <1>0, <1>2
<1>. QED
  BY <1>3, <1>6, <1>8, <1>9 DEF Ware!Do

\* No other step shows in the warehouse.
LEMMA OthersAreInvisible ==
  ASSUME IInv, [Next]_vars,
         ~ \E t \in Handler, answered \in BOOLEAN : Commit(t, answered)
  PROVE  UNCHANGED Ware!vars
<1>0. TypeOK
  BY DEF IInv
<1>1. recorded' = recorded
  BY <1>0, StepKinds
  DEF FetchNorms, Mark, PublishWrittenOff, Finish, RaiseLowStock, CheckAmounts, BeginReplenish,
      ApplyOne, Rollback, Fail, SetThreshold
<1>2. ASSUME NEW c \in Item
      PROVE  stock'[c].kept = stock[c].kept /\ stock'[c].quantity = stock[c].quantity
  <2>1. ASSUME NEW o \in Item, NEW threshold \in Threshold, SetThreshold(o, threshold)
        PROVE  stock'[c].kept = stock[c].kept /\ stock'[c].quantity = stock[c].quantity
    <3>1. stock' = [stock EXCEPT ![o] = [stock[o] EXCEPT !.threshold = threshold]]
      BY <2>1 DEF SetThreshold
    <3>2. stock[o] \in StockRow /\ threshold \in Nat
      BY <1>0, InventoryAssumption DEF TypeOK
    <3>. QED
      BY <1>0, <3>1, <3>2, ThresholdType DEF TypeOK
  <2>. QED
    BY <1>0, <2>1, StepKinds
    DEF FetchNorms, Mark, PublishWrittenOff, Finish, RaiseLowStock, CheckAmounts, BeginReplenish,
        ApplyOne, Rollback, Fail
<1>. QED
  BY <1>1, <1>2 DEF Ware!vars

LEMMA WarehouseStep == IInv /\ [Next]_vars => [Ware!Next]_Ware!vars
<1>. SUFFICES ASSUME IInv, [Next]_vars PROVE Ware!Next \/ UNCHANGED Ware!vars
  OBVIOUS
<1>1. ASSUME NEW t \in Handler, NEW answered \in BOOLEAN, Commit(t, answered)
      PROVE  Ware!Next
  BY <1>1, CommitIsDo, JobType DEF Ware!Next
<1>. QED
  BY <1>1, OthersAreInvisible

\* Seen from outside, a job of several statements, run beside others, failing and
\* delivered again, takes effect as a whole in one step, and once.
THEOREM StockIsWarehouse == Spec => ImplementsWarehouse
  BY WarehouseInitial, WarehouseStep, Invariance, PTL DEF Spec, ImplementsWarehouse, Ware!Spec

-----------------------------------------------------------------------------
(* Deadlocks.                                                              *)

\* catalog sorts the norms of a service by the names of the materials, and no two
\* materials have one name.
NormsByName ==
  \E rank \in [Item -> Nat] : \A e \in Event : \A i, j \in DOMAIN Norms[e] :
    i < j => rank[Norms[e][i].item] < rank[Norms[e][j].item]

ReplenishmentInCircle ==
  \A T \in SUBSET Handler : T # {} /\ Deadlock(T) => T \cap Request # {}

\* Write-offs lock their rows in one order, that of the names, and so never wait for
\* one another in a circle: whenever transactions do, one of them is a replenishment,
\* which locks in the order of its request.
THEOREM WriteOffsNeverDeadlock ==
  ASSUME NormsByName
  PROVE  Spec => []ReplenishmentInCircle
<1>1. IInv => ReplenishmentInCircle
  <2>. SUFFICES ASSUME IInv, NEW T \in SUBSET Delivery, T # {}, Deadlock(T) PROVE FALSE
    BY DEF ReplenishmentInCircle, Handler
  <2>. DEFINE next(t) == Movements(t)[step[t] + 1].item
  <2>1. PICK rank \in [Item -> Nat] : \A e \in Event : \A i, j \in DOMAIN Norms[e] :
          i < j => rank[Norms[e][i].item] < rank[Norms[e][j].item]
    BY NormsByName DEF NormsByName
  <2>2. ASSUME NEW t \in T
        PROVE  /\ t \in Handler /\ Open(t) /\ step[t] \in Nat /\ EventOf[t] \in Event
               /\ step[t] + 1 \in DOMAIN Norms[EventOf[t]]
               /\ \A i \in 1 .. step[t] + 1 :
                    i \in DOMAIN Norms[EventOf[t]] /\ Movements(t)[i].item = Norms[EventOf[t]][i].item
               /\ next(t) \in Item
    <3>1. EventOf[t] \in Event /\ t \in Handler /\ Norms[EventOf[t]] \in Seq([item : Item, amount : Nat \ {0}])
      BY InventoryAssumption DEF Handler
    <3>2. Movements(t) = [i \in DOMAIN Norms[EventOf[t]] |-> [Norms[EventOf[t]][i] EXCEPT !.amount = - @]]
      BY <3>1 DEF Movements, Lines, JobOf
    <3>3. Len(Movements(t)) = Len(Norms[EventOf[t]]) /\ Len(Movements(t)) \in Nat
          /\ DOMAIN Norms[EventOf[t]] = 1 .. Len(Movements(t))
      BY <3>1, <3>2
    <3>4. Open(t) /\ step[t] < Len(Movements(t))
      BY DEF Deadlock, WaitsFor
    <3>5. step[t] \in Nat
      BY <3>1 DEF IInv, TypeOK
    <3>6. \A i \in 1 .. step[t] + 1 : i \in DOMAIN Norms[EventOf[t]]
      BY <3>3, <3>4, <3>5
    <3>7. \A i \in DOMAIN Norms[EventOf[t]] : Movements(t)[i].item = Norms[EventOf[t]][i].item
          /\ Norms[EventOf[t]][i].item \in Item
      <4>. SUFFICES ASSUME NEW i \in DOMAIN Norms[EventOf[t]]
                    PROVE  /\ Movements(t)[i].item = Norms[EventOf[t]][i].item
                           /\ Norms[EventOf[t]][i].item \in Item
        OBVIOUS
      <4>1. Norms[EventOf[t]][i] \in [item : Item, amount : Nat \ {0}]
        <5>1. \A S : \A s \in Seq(S) : \A k \in DOMAIN s : s[k] \in S
          OBVIOUS
        <5>. QED
          BY <3>1, <5>1
      <4>2. Movements(t)[i] = [Norms[EventOf[t]][i] EXCEPT !.amount = - @]
        BY <3>2
      <4>. QED
        BY <4>1, <4>2
    <3>8. step[t] + 1 \in 1 .. step[t] + 1
      BY <3>5
    <3>. QED
      BY <3>1, <3>4, <3>5, <3>6, <3>7, <3>8
  <2>. DEFINE ranks == { rank[next(t)] : t \in T }
  <2>3. ranks \subseteq Nat /\ ranks # {}
    BY <2>1, <2>2
  <2>. HIDE DEF next
  <2>4. PICK t \in T : \A u \in T : rank[next(t)] <= rank[next(u)]
    <3>1. PICK m \in ranks : \A x \in ranks : m <= x
      <4>. HIDE DEF ranks
      <4>. QED
        BY <2>3, LeastNatural
    <3>. QED
      BY <3>1
  <2>5. PICK u \in T : WaitsFor(u, t)
    BY <2>4 DEF Deadlock
  <2>6. Holds(t, next(u))
    BY <2>5 DEF WaitsFor, next
  <2>7. PICK i \in 1 .. step[t] : Movements(t)[i].item = next(u)
    BY <2>2, <2>4, <2>6 DEF IInv, LinesApplied
  <2>8. i \in 1 .. step[t] + 1 /\ step[t] + 1 \in 1 .. step[t] + 1 /\ i < step[t] + 1
    BY <2>2, <2>4, <2>7
  <2>9. rank[next(u)] < rank[next(t)]
    BY <2>1, <2>2, <2>4, <2>7, <2>8 DEF next
  <2>10. rank[next(u)] \in Nat /\ rank[next(t)] \in Nat
    BY <2>1, <2>2, <2>4, <2>5
  <2>. QED
    BY <2>4, <2>5, <2>9, <2>10
<1>. QED
  BY <1>1, Invariance, PTL

=============================================================================
