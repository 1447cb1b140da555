--------------------------- MODULE AnalyticsProofs ---------------------------
(***************************************************************************)
(* Theorems about the fact tables, for any events, in any order and any    *)
(* number of repetitions: what is handled is heard if it can be, and the   *)
(* tables hold what was heard and nothing else.                            *)
(***************************************************************************)
EXTENDS Analytics, FiniteSetTheorems, WellFoundedInduction, TLAPS

-----------------------------------------------------------------------------
(* Sums over finite sets.  What the sum of a function over a set is has to *)
(* be shown by induction over the set: every lemma looks at a smallest     *)
(* subset for which it would fail.                                         *)

\* A non-empty family of subsets of a finite set has a member without a smaller one.
LEMMA LeastSubset ==
  ASSUME NEW S, IsFiniteSet(S), NEW B, B \subseteq SUBSET S, B # {}
  PROVE  \E T \in B : \A U \in B : U \subseteq T => U = T
<1>1. IsWellFoundedOn(StrictSubsetOrdering(S), SUBSET S)
  BY FS_StrictSubsetOrderingWellFounded, FS_FiniteSubsetsOfFinite
<1>2. PICK T \in B : \A U \in B : <<U, T>> \notin StrictSubsetOrdering(S)
  BY <1>1, WFMin
<1>3. \A U \in B : U \subseteq T => U = T
  BY <1>2 DEF StrictSubsetOrdering
<1>. QED
  BY <1>3

\* The element that a sum over S adds last.
Some(S) == CHOOSE x \in S : TRUE

LEMMA SomeIsIn == \A S : S # {} => Some(S) \in S
  BY DEF Some

\* g gives the sums of f over all subsets of S.
SumsUp(g, f, S) ==
  g = [T \in SUBSET S |-> IF T = {} THEN 0 ELSE f[Some(T)] + g[T \ {Some(T)}]]

LEMMA SumIsChosen ==
  \A f, S : SumFunctionOnSet(f, S) = (CHOOSE g : SumsUp(g, f, S))[S]
  BY DEF SumFunctionOnSet, FoldFunctionOnSet, MapThenFoldSet, SumsUp, Some

LEMMA SumsUpUnique ==
  ASSUME NEW S, IsFiniteSet(S), NEW f, NEW g, NEW h, SumsUp(g, f, S), SumsUp(h, f, S)
  PROVE  g = h
<1>. DEFINE B == { T \in SUBSET S : g[T] # h[T] }
<1>1. B = {}
  <2>. SUFFICES ASSUME B # {} PROVE FALSE
    OBVIOUS
  <2>1. B \subseteq SUBSET S
    OBVIOUS
  <2>2. PICK T \in B : \A U \in B : U \subseteq T => U = T
    <3>. HIDE DEF B
    <3>. QED
      BY <2>1, LeastSubset
  <2>3. CASE T = {}
    BY <2>2, <2>3 DEF SumsUp
  <2>4. CASE T # {}
    <3>1. Some(T) \in T
      BY <2>4, SomeIsIn
    <3>2. T \ {Some(T)} \in SUBSET S /\ T \ {Some(T)} \notin B
      BY <2>2, <3>1
    <3>3. g[T \ {Some(T)}] = h[T \ {Some(T)}]
      BY <3>2
    <3>. QED
      BY <2>2, <2>4, <3>3 DEF SumsUp
  <2>. QED
    BY <2>3, <2>4
<1>. QED
  BY <1>1 DEF SumsUp

\* What gives the sums over the subsets of S does so for the subsets of a part of S.
LEMMA SumsUpBelow ==
  ASSUME NEW S, NEW f, NEW g, SumsUp(g, f, S), NEW T \in SUBSET S
  PROVE  SumsUp([U \in SUBSET T |-> g[U]], f, T)
<1>. DEFINE h == [U \in SUBSET T |-> g[U]]
<1>1. ASSUME NEW U \in SUBSET T
      PROVE  h[U] = IF U = {} THEN 0 ELSE f[Some(U)] + h[U \ {Some(U)}]
  <2>1. U \in SUBSET S /\ U \ {Some(U)} \in SUBSET T
    OBVIOUS
  <2>. QED
    BY <2>1 DEF SumsUp
<1>. QED
  BY <1>1 DEF SumsUp

LEMMA SumsUpExists ==
  ASSUME NEW S, IsFiniteSet(S), NEW f
  PROVE  \E g : SumsUp(g, f, S)
<1>. DEFINE B == { T \in SUBSET S : ~ \E g : SumsUp(g, f, T) }
            G(T) == CHOOSE g : SumsUp(g, f, T)
<1>. SUFFICES ASSUME B # {} PROVE FALSE
  <2>. B = {} => S \notin B
    OBVIOUS
  <2>. QED
    OBVIOUS
<1>0. B \subseteq SUBSET S
  OBVIOUS
<1>1. PICK T \in B : \A U \in B : U \subseteq T => U = T
  <2>. HIDE DEF B
  <2>. QED
    BY <1>0, LeastSubset
<1>2. \A U \in SUBSET T : U # T => SumsUp(G(U), f, U)
  BY <1>1
<1>3. \A U \in SUBSET T : IsFiniteSet(U)
  BY <1>1, FS_Subset
<1>. HIDE DEF G
<1>4. ASSUME NEW U \in SUBSET T, U # T, U # {}
      PROVE  G(U)[U] = f[Some(U)] + G(U \ {Some(U)})[U \ {Some(U)}]
  <2>. DEFINE V == U \ {Some(U)}
              h == [W \in SUBSET V |-> G(U)[W]]
  <2>1. Some(U) \in U /\ V \in SUBSET U /\ V \in SUBSET T /\ V # T
    BY <1>4, SomeIsIn
  <2>2. SumsUp(G(U), f, U) /\ SumsUp(G(V), f, V)
    BY <1>2, <1>4, <2>1
  <2>3. SumsUp(h, f, V)
    BY <2>1, <2>2, SumsUpBelow
  <2>4. h = G(V)
    BY <1>3, <2>1, <2>2, <2>3, SumsUpUnique
  <2>5. h[V] = G(U)[V]
    OBVIOUS
  <2>6. G(U)[U] = f[Some(U)] + G(U)[V]
    BY <1>4, <2>2 DEF SumsUp
  <2>. QED
    BY <2>4, <2>5, <2>6
<1>5. ASSUME NEW U \in SUBSET T, U # T, U = {}
      PROVE  G(U)[U] = 0
  <2>1. SumsUp(G(U), f, U)
    BY <1>2, <1>5
  <2>. QED
    BY <1>5, <2>1 DEF SumsUp
<1>. DEFINE rest == T \ {Some(T)}
            last == IF T = {} THEN 0 ELSE f[Some(T)] + G(rest)[rest]
            g == [U \in SUBSET T |-> IF U # T THEN G(U)[U] ELSE last]
<1>6. ASSUME NEW U \in SUBSET T
      PROVE  g[U] = IF U = {} THEN 0 ELSE f[Some(U)] + g[U \ {Some(U)}]
  <2>1. CASE U = {}
    BY <1>5, <2>1
  <2>2. CASE U # {}
    <3>1. Some(U) \in U
      BY <2>2, SomeIsIn
    <3>2. U \ {Some(U)} \in SUBSET T /\ U \ {Some(U)} # T
      BY <3>1
    <3>3. g[U \ {Some(U)}] = G(U \ {Some(U)})[U \ {Some(U)}]
      BY <3>2
    <3>4. CASE U # T
      BY <1>4, <2>2, <3>3, <3>4
    <3>5. CASE U = T
      BY <2>2, <3>3, <3>5
    <3>. QED
      BY <3>4, <3>5
  <2>. QED
    BY <2>1, <2>2
<1>7. SumsUp(g, f, T)
  BY <1>6 DEF SumsUp
<1>. QED
  BY <1>1, <1>7

\* A sum is that of its last element and of the rest.
LEMMA SumUnfolds ==
  ASSUME NEW S, IsFiniteSet(S), NEW f
  PROVE  SumFunctionOnSet(f, S) =
           IF S = {} THEN 0 ELSE f[Some(S)] + SumFunctionOnSet(f, S \ {Some(S)})
<1>. DEFINE G(T) == CHOOSE g : SumsUp(g, f, T)
            V == S \ {Some(S)}
            h == [W \in SUBSET V |-> G(S)[W]]
<1>1. IsFiniteSet(V) /\ V \in SUBSET S
  BY FS_Subset
<1>2. SumsUp(G(S), f, S) /\ SumsUp(G(V), f, V)
  BY <1>1, SumsUpExists
<1>. HIDE DEF G
<1>3. SumsUp(h, f, V)
  BY <1>1, <1>2, SumsUpBelow
<1>4. h = G(V)
  BY <1>1, <1>2, <1>3, SumsUpUnique
<1>5. h[V] = G(S)[V]
  OBVIOUS
<1>6. G(S)[S] = IF S = {} THEN 0 ELSE f[Some(S)] + G(S)[V]
  BY <1>2 DEF SumsUp
<1>7. SumFunctionOnSet(f, S) = G(S)[S] /\ SumFunctionOnSet(f, V) = G(V)[V]
  BY SumIsChosen DEF G
<1>. QED
  BY <1>4, <1>5, <1>6, <1>7

LEMMA SumOfNone == \A f : SumFunctionOnSet(f, {}) = 0
  BY SumUnfolds, FS_EmptySet

LEMMA SumIsNat ==
  ASSUME NEW S, IsFiniteSet(S), NEW f, \A x \in S : f[x] \in Nat
  PROVE  SumFunctionOnSet(f, S) \in Nat
<1>. DEFINE B == { T \in SUBSET S : SumFunctionOnSet(f, T) \notin Nat }
<1>. SUFFICES ASSUME B # {} PROVE FALSE
  <2>. B = {} => S \notin B
    OBVIOUS
  <2>. QED
    OBVIOUS
<1>1. B \subseteq SUBSET S
  OBVIOUS
<1>2. PICK T \in B : \A U \in B : U \subseteq T => U = T
  <2>. HIDE DEF B
  <2>. QED
    BY <1>1, LeastSubset
<1>3. T # {} /\ IsFiniteSet(T)
  <2>1. SumFunctionOnSet(f, {}) \in Nat
    BY SumOfNone
  <2>. QED
    BY <1>2, <2>1, FS_Subset
<1>4. Some(T) \in T
  BY <1>3, SomeIsIn
<1>5. SumFunctionOnSet(f, T \ {Some(T)}) \in Nat
  BY <1>2, <1>4
<1>6. SumFunctionOnSet(f, T) = f[Some(T)] + SumFunctionOnSet(f, T \ {Some(T)})
  BY <1>3, SumUnfolds
<1>7. f[Some(T)] \in Nat
  BY <1>4
<1>. QED
  BY <1>2, <1>5, <1>6, <1>7

\* Any element may be taken out.
LEMMA SumTakesOut ==
  ASSUME NEW S, IsFiniteSet(S), NEW f, \A x \in S : f[x] \in Nat, NEW x \in S
  PROVE  SumFunctionOnSet(f, S) = f[x] + SumFunctionOnSet(f, S \ {x})
<1>. DEFINE Good(T) == \A y \in T :
                         SumFunctionOnSet(f, T) = f[y] + SumFunctionOnSet(f, T \ {y})
            B == { T \in SUBSET S : ~ Good(T) }
<1>. SUFFICES ASSUME B # {} PROVE FALSE
  <2>. B = {} => S \notin B
    OBVIOUS
  <2>. QED
    OBVIOUS
<1>1. B \subseteq SUBSET S
  OBVIOUS
<1>2. PICK T \in B : \A U \in B : U \subseteq T => U = T
  <2>. HIDE DEF B
  <2>. QED
    BY <1>1, LeastSubset
<1>3. PICK y \in T : SumFunctionOnSet(f, T) # f[y] + SumFunctionOnSet(f, T \ {y})
  BY <1>2
<1>. DEFINE z == Some(T)
<1>4. z \in T /\ IsFiniteSet(T) /\ T \subseteq S
  BY <1>2, SomeIsIn, FS_Subset
<1>5. SumFunctionOnSet(f, T) = f[z] + SumFunctionOnSet(f, T \ {z})
  BY <1>4, SumUnfolds
<1>6. y # z
  BY <1>3, <1>5
<1>7. Good(T \ {z}) /\ Good(T \ {y})
  BY <1>2, <1>3, <1>4
<1>8. SumFunctionOnSet(f, T \ {z}) = f[y] + SumFunctionOnSet(f, (T \ {z}) \ {y})
  BY <1>3, <1>6, <1>7
<1>9. SumFunctionOnSet(f, T \ {y}) = f[z] + SumFunctionOnSet(f, (T \ {y}) \ {z})
  BY <1>4, <1>6, <1>7
<1>10. SumFunctionOnSet(f, (T \ {z}) \ {y}) = SumFunctionOnSet(f, (T \ {y}) \ {z})
  <2>1. (T \ {z}) \ {y} = (T \ {y}) \ {z}
    OBVIOUS
  <2>. QED
    BY <2>1
<1>11. f[y] \in Nat /\ f[z] \in Nat /\ SumFunctionOnSet(f, (T \ {y}) \ {z}) \in Nat
  <2>1. IsFiniteSet((T \ {y}) \ {z}) /\ \A u \in (T \ {y}) \ {z} : f[u] \in Nat
    BY <1>4, FS_Subset
  <2>. QED
    BY <1>3, <1>4, <2>1, SumIsNat
<1>. HIDE DEF z
<1>. QED
  BY <1>3, <1>5, <1>8, <1>9, <1>10, <1>11

\* Sums over two sets agree if their elements correspond one to one and contribute the same.
LEMMA SumCorresponds ==
  ASSUME NEW S, IsFiniteSet(S), NEW f, NEW g, NEW b,
         \A x \in S : f[x] \in Nat /\ g[b[x]] = f[x],
         \A x, y \in S : b[x] = b[y] => x = y
  PROVE  SumFunctionOnSet(f, S) = SumFunctionOnSet(g, { b[x] : x \in S })
<1>. DEFINE Img(T) == { b[x] : x \in T }
            B == { T \in SUBSET S : SumFunctionOnSet(f, T) # SumFunctionOnSet(g, Img(T)) }
<1>. SUFFICES ASSUME B # {} PROVE FALSE
  <2>. B = {} => S \notin B
    OBVIOUS
  <2>. QED
    OBVIOUS
<1>1. B \subseteq SUBSET S
  OBVIOUS
<1>2. PICK T \in B : \A U \in B : U \subseteq T => U = T
  <2>. HIDE DEF B
  <2>. QED
    BY <1>1, LeastSubset
<1>3. IsFiniteSet(T) /\ T \subseteq S
  BY <1>2, FS_Subset
<1>4. T # {}
  BY <1>2, SumOfNone
<1>. DEFINE x == Some(T)
            V == T \ {x}
<1>5. x \in T /\ x \in S
  BY <1>3, <1>4, SomeIsIn
<1>6. SumFunctionOnSet(f, V) = SumFunctionOnSet(g, Img(V))
  BY <1>2, <1>5
<1>7. SumFunctionOnSet(f, T) = f[x] + SumFunctionOnSet(f, V)
  BY <1>3, <1>5, SumTakesOut
<1>8. IsFiniteSet(Img(T))
  <2>1. [y \in T |-> b[y]] \in Surjection(T, Img(T))
    BY DEF Surjection
  <2>. QED
    BY <1>3, <2>1, FS_Surjection
<1>9. b[x] \in Img(T) /\ (\A y \in Img(T) : g[y] \in Nat)
  BY <1>3, <1>5
<1>. HIDE DEF x
<1>10. Img(T) \ {b[x]} = Img(V)
  BY <1>3, <1>5
<1>11. SumFunctionOnSet(g, Img(T)) = g[b[x]] + SumFunctionOnSet(g, Img(V))
  <2>. HIDE DEF Img
  <2>. QED
    BY <1>8, <1>9, <1>10, SumTakesOut
<1>. QED
  BY <1>2, <1>5, <1>6, <1>7, <1>11

\* Sets whose elements correspond one to one have the same size.
LEMMA CountCorresponds ==
  ASSUME NEW S, IsFiniteSet(S), NEW b, \A x, y \in S : b[x] = b[y] => x = y
  PROVE  Cardinality({ b[x] : x \in S }) = Cardinality(S)
<1>. DEFINE T == { b[x] : x \in S }
<1>1. [x \in S |-> b[x]] \in Surjection(S, T) /\ [x \in S |-> b[x]] \in Injection(S, T)
  BY DEF Surjection, Injection, IsInjective
<1>. QED
  BY <1>1, FS_Surjection

\* Adding up ones is counting.
LEMMA SumCounts ==
  ASSUME NEW S, IsFiniteSet(S), NEW f, \A x \in S : f[x] = 1
  PROVE  SumFunctionOnSet(f, S) = Cardinality(S)
<1>. DEFINE B == { T \in SUBSET S : SumFunctionOnSet(f, T) # Cardinality(T) }
<1>. SUFFICES ASSUME B # {} PROVE FALSE
  <2>. B = {} => S \notin B
    OBVIOUS
  <2>. QED
    OBVIOUS
<1>1. B \subseteq SUBSET S
  OBVIOUS
<1>2. PICK T \in B : \A U \in B : U \subseteq T => U = T
  <2>. HIDE DEF B
  <2>. QED
    BY <1>1, LeastSubset
<1>3. T # {} /\ IsFiniteSet(T)
  <2>1. SumFunctionOnSet(f, {}) = Cardinality({})
    BY SumOfNone, FS_EmptySet
  <2>. QED
    BY <1>2, <2>1, FS_Subset
<1>. DEFINE x == Some(T)
<1>4. x \in T /\ f[x] = 1
  BY <1>2, <1>3, SomeIsIn
<1>5. SumFunctionOnSet(f, T) = f[x] + SumFunctionOnSet(f, T \ {x})
  BY <1>3, SumUnfolds
<1>6. SumFunctionOnSet(f, T \ {x}) = Cardinality(T \ {x})
  BY <1>2, <1>4
<1>7. Cardinality(T \ {x}) = Cardinality(T) - 1 /\ Cardinality(T) \in Nat
  BY <1>3, <1>4, FS_RemoveElement, FS_CardinalityType
<1>. HIDE DEF x
<1>. QED
  BY <1>2, <1>4, <1>5, <1>6, <1>7


-----------------------------------------------------------------------------
(* The inductive invariant.                                                *)

\* A handler at work has its event to itself, with the mark still to be committed; what
\* it has found, or could have found when it began, is there.
HandlersHold ==
  \A h \in Handler : task[h] # Idle =>
    /\ task[h].event \notin inbox
    /\ \A g \in Handler \ {h} : task[g] # Idle => task[g].event # task[h].event
    /\ task[h].event \in ready \/ task[h].step = "effective" => FactKnown(task[h].event)
    /\ task[h].step = "void" => task[h].event \notin ready

\* What the fact of a visit says, from the event that made it and those heard since.
StateOf(e) ==
  IF Outcome(e, "completed") THEN "completed"
  ELSE IF Outcome(e, "cancelled") THEN "cancelled" ELSE "created"

VisitsHeard ==
  /\ \A a \in Appointment : appointments[a] # NoFact => \E e \in Heard("created") : e.about = a
  /\ \A e \in Heard("created") :
       appointments[e.about] =
         [branch |-> e.branch, employee |-> e.employee, at |-> e.at, minutes |-> e.amount,
          state |-> StateOf(e)]
  /\ \A e \in Heard("completed") \cup Heard("cancelled") : appointments[e.about] # NoFact

InvoicesHeard ==
  /\ \A i \in Invoice : invoices[i] # NoFact => \E e \in Heard("issued") : e.about = i
  /\ \A e \in Heard("issued") :
       /\ invoices[e.about] # NoFact
       /\ invoices[e.about].branch = e.branch /\ invoices[e.about].total = e.amount
       /\ ~ Outcome(e, "paid") => invoices[e.about].paidAt = Never
  /\ \A e \in Heard("paid") :
       /\ invoices[e.about] # NoFact
       /\ invoices[e.about].employee = e.employee
       /\ invoices[e.about].commission = e.amount /\ invoices[e.about].paidAt = e.at

\* A material used is entered once for each event, a client once and for all.
UsesHeard ==
  \A e \in Event : consumables[e] = IF e \in Heard("written_off") THEN 1 ELSE 0

ClientsHeard ==
  \A c \in Client : c \in clients <=> \E e \in Heard("registered") : e.about = c

\* The tables hold what was heard, and nothing else.
FactsMatchEvents ==
  VisitsHeard /\ InvoicesHeard /\ UsesHeard /\ ClientsHeard

IInv ==
  /\ TypeOK
  /\ HandledIsHeard
  /\ HandlersHold
  /\ FactsMatchEvents

-----------------------------------------------------------------------------
(* Lemmas.                                                                 *)

LEMMA EventTypes ==
  \A e \in Event :
    /\ e.kind \in Kind /\ e.branch \in Branch /\ e.employee \in Employee
    /\ e.at \in Nat /\ e.amount \in Nat
    /\ e.kind \in {"created", "completed", "cancelled"} => e.about \in Appointment
    /\ e.kind \in {"issued", "paid"} => e.about \in Invoice
    /\ e.kind = "registered" => e.about \in Client
BY AnalyticsAssumption

\* What is announced once.
LEMMA AnnouncedOnce ==
  \A e, f \in Event :
    e.about = f.about /\ (e.kind = f.kind \/ {e.kind, f.kind} = {"completed", "cancelled"})
    /\ e.kind \notin {"written_off", "other"} => e = f
BY AnalyticsAssumption

LEMMA VisitIsFact == \A f \in AppointmentFact : f # NoFact
<1>. SUFFICES ASSUME NEW f \in AppointmentFact PROVE f # NoFact
  OBVIOUS
<1>1. f.state \in {"created", "completed", "cancelled"}
  BY DEF AppointmentFact
<1>2. NoFact.state = "absent"
  BY DEF NoFact
<1>. QED
  BY <1>1, <1>2

LEMMA InvoiceIsFact == \A f \in InvoiceFact : f # NoFact
<1>. SUFFICES ASSUME NEW f \in InvoiceFact PROVE f # NoFact
  OBVIOUS
<1>1. "branch" \in DOMAIN f
  BY DEF InvoiceFact
<1>2. "branch" \notin DOMAIN NoFact
  BY DEF NoFact
<1>. QED
  BY <1>1, <1>2

LEMMA AtWork ==
  ASSUME TypeOK, NEW h \in Handler
  PROVE  /\ task[h] # Idle => /\ task[h] \in Task /\ task[h].event \in Event
                              /\ task[h].step \in {"marked", "effective", "void"}
         /\ task[h].step \in {"marked", "effective", "void"} => task[h] # Idle
BY DEF TypeOK, Task, Idle

LEMMA InvInitial == Init => IInv
BY AnalyticsAssumption DEF Init, IInv, TypeOK, HandledIsHeard, HandlersHold, FactsMatchEvents, VisitsHeard,
   InvoicesHeard, UsesHeard, ClientsHeard, Heard

\* The parts of the invariant that the tables do not enter.
LEMMA SameFacts ==
  ASSUME FactsMatchEvents, UNCHANGED <<tables, heard>>
  PROVE  FactsMatchEvents'
BY DEF FactsMatchEvents, VisitsHeard, InvoicesHeard, UsesHeard, ClientsHeard, Heard, Outcome,
   StateOf, tables

LEMMA MarkKeeps ==
  ASSUME IInv, NEW h \in Handler, NEW e \in Event, Mark(h, e)
  PROVE  IInv'
<1>1. task' = [task EXCEPT ![h] = [step |-> "marked", event |-> e]]
  BY DEF Mark
<1>2. [step |-> "marked", event |-> e] \in Task /\ [step |-> "marked", event |-> e] # Idle
  BY DEF Task, Idle
<1>3. \A g \in Handler :
        task'[g] = IF g = h THEN [step |-> "marked", event |-> e] ELSE task[g]
  BY <1>1 DEF IInv, TypeOK
<1>4. UNCHANGED <<inbox, tables, heard, failures>>
  BY DEF Mark
<1>5. TypeOK'
  BY <1>2, <1>4 DEF Mark, IInv, TypeOK, tables
<1>6. HandledIsHeard'
  BY <1>4 DEF Mark, IInv, HandledIsHeard
<1>7. \A f \in Event : FactKnown(f)' = FactKnown(f)
  BY <1>4 DEF FactKnown, tables
<1>8. HandlersHold'
  <2>. SUFFICES ASSUME NEW g \in Handler, task'[g] # Idle
                PROVE  /\ task'[g].event \notin inbox'
                       /\ \A d \in Handler \ {g} :
                            task'[d] # Idle => task'[d].event # task'[g].event
                       /\ task'[g].event \in ready' \/ task'[g].step = "effective"
                            => FactKnown(task[g].event)'
                       /\ task'[g].step = "void" => task'[g].event \notin ready'
    BY DEF HandlersHold
  <2>1. CASE g = h
    BY <1>3, <1>4, <1>7, <2>1 DEF Mark
  <2>2. CASE g # h
    <3>1. task'[g] = task[g] /\ task[g].event \in Event /\ task[g].event # e
      BY <1>3, <2>2, AtWork DEF Mark, IInv
    <3>2. task[g].event \in ready' <=> task[g].event \in ready
      BY <3>1 DEF Mark
    <3>. QED
      BY <1>3, <1>4, <1>7, <2>2, <3>1, <3>2 DEF IInv, HandlersHold
  <2>. QED
    BY <2>1, <2>2
<1>9. FactsMatchEvents'
  BY <1>4, SameFacts DEF IInv
<1>. QED
  BY <1>5, <1>6, <1>8, <1>9 DEF IInv

LEMMA FindKeeps ==
  ASSUME IInv, NEW h \in Handler, Find(h)
  PROVE  IInv'
<1>. DEFINE s == IF FactKnown(task[h].event) THEN "effective" ELSE "void"
<1>1. task[h] \in Task /\ task[h] # Idle
  BY AtWork DEF IInv, Find
<1>2. \A g \in Handler :
        /\ g # h => task'[g] = task[g]
        /\ g = h => task'[g] = [step |-> s, event |-> task[h].event]
  BY <1>1 DEF Find, IInv, TypeOK, Task
<1>3. [step |-> s, event |-> task[h].event] \in Task
  BY <1>1 DEF Task
<1>4. UNCHANGED <<inbox, tables, heard, ready, failures>>
  BY DEF Find
<1>5. TypeOK'
  <2>1. task' \in [Handler -> Task \cup {Idle}]
    BY <1>2, <1>3 DEF Find, IInv, TypeOK
  <2>. QED
    BY <1>4, <2>1 DEF IInv, TypeOK, tables
<1>6. HandledIsHeard'
  BY <1>4 DEF IInv, HandledIsHeard
<1>7. \A f \in Event : FactKnown(f)' = FactKnown(f)
  BY <1>4 DEF FactKnown, tables
<1>8. HandlersHold'
  <2>1. \A g \in Handler : task'[g] # Idle =>
          /\ task[g] # Idle /\ task'[g].event = task[g].event /\ task[g].event \in Event
          /\ g # h => task'[g].step = task[g].step
    BY <1>1, <1>2, AtWork DEF IInv
  <2>2. task'[h].step = s /\ task'[h].event = task[h].event
    BY <1>2
  <2>. QED
    BY <1>4, <1>7, <2>1, <2>2 DEF IInv, HandlersHold
<1>9. FactsMatchEvents'
  BY <1>4, SameFacts DEF IInv
<1>. QED
  BY <1>5, <1>6, <1>8, <1>9 DEF IInv

LEMMA RollbackKeeps ==
  ASSUME IInv, NEW h \in Handler, Rollback(h)
  PROVE  IInv'
<1>1. \A g \in Handler : task'[g] = IF g = h THEN Idle ELSE task[g]
  BY DEF Rollback, IInv, TypeOK
<1>2. UNCHANGED <<inbox, tables, heard, ready>>
  BY DEF Rollback
<1>3. TypeOK'
  BY <1>2, AnalyticsAssumption DEF Rollback, IInv, TypeOK, tables
<1>4. HandledIsHeard'
  BY <1>2 DEF IInv, HandledIsHeard
<1>5. \A f : FactKnown(f)' = FactKnown(f)
  BY <1>2 DEF FactKnown, tables
<1>6. HandlersHold'
  BY <1>1, <1>2, <1>5 DEF IInv, HandlersHold
<1>7. FactsMatchEvents'
  BY <1>2, SameFacts DEF IInv
<1>. QED
  BY <1>3, <1>4, <1>6, <1>7 DEF IInv

\* What an event does to the tables that it updates, where it can.
LEMMA VisitsKept ==
  ASSUME TypeOK, FactsMatchEvents, NEW e \in Event, e \notin heard, FactKnown(e), Apply(e),
         heard' = heard \cup {e}
  PROVE  VisitsHeard' /\ appointments' \in [Appointment -> AppointmentFact \cup {NoFact}]
<1>. USE EventTypes, AnnouncedOnce
<1>. heard \subseteq Event
  BY DEF TypeOK
<1>1. CASE e.kind \notin {"created", "completed", "cancelled"}
  <2>1. appointments' = appointments
    BY <1>1 DEF Apply, RecordInvoiceIssued, RecordInvoicePaid, RecordConsumables, RecordClient,
       tables
  <2>2. \A kind \in {"created", "completed", "cancelled"} : Heard(kind)' = Heard(kind)
    BY <1>1 DEF Heard
  <2>3. \A f : StateOf(f)' = StateOf(f)
    BY <2>2 DEF StateOf, Outcome
  <2>. QED
    BY <2>1, <2>2, <2>3 DEF FactsMatchEvents, VisitsHeard, TypeOK
<1>2. CASE e.kind = "created"
  <2>1. appointments[e.about] = NoFact
    <3>. SUFFICES ASSUME appointments[e.about] # NoFact PROVE FALSE
      OBVIOUS
    <3>1. PICK f \in Heard("created") : f.about = e.about
      BY <1>2 DEF FactsMatchEvents, VisitsHeard
    <3>. QED
      BY <1>2, <3>1 DEF Heard
  <2>. DEFINE fact == [branch |-> e.branch, employee |-> e.employee, at |-> e.at,
                       minutes |-> e.amount, state |-> "created"]
  <2>2. appointments' = [appointments EXCEPT ![e.about] = fact]
    BY <1>2, <2>1 DEF Apply, RecordAppointmentCreated
  <2>3. fact \in AppointmentFact
    BY DEF AppointmentFact
  <2>4. fact # NoFact
    BY <2>3, VisitIsFact
  <2>5. /\ Heard("created")' = Heard("created") \cup {e}
        /\ Heard("completed")' = Heard("completed") /\ Heard("cancelled")' = Heard("cancelled")
    BY <1>2 DEF Heard
  <2>6. \A f : StateOf(f)' = StateOf(f)
    BY <2>5 DEF StateOf, Outcome
  <2>7. StateOf(e) = "created"
    BY <2>1 DEF StateOf, Outcome, FactsMatchEvents, VisitsHeard
  <2>8. \A f \in Heard("created") : f.about # e.about
    BY <1>2 DEF Heard
  <2>9. \A f \in Heard("created") \cup Heard("completed") \cup Heard("cancelled") :
          f.about \in Appointment
    BY DEF Heard
  <2>10. appointments' \in [Appointment -> AppointmentFact \cup {NoFact}]
    BY <2>2, <2>3 DEF TypeOK
  <2>. HIDE DEF fact
  <2>11. \A a \in Appointment :
           appointments'[a] = IF a = e.about THEN fact ELSE appointments[a]
    BY <2>2 DEF TypeOK
  <2>12. fact = [branch |-> e.branch, employee |-> e.employee, at |-> e.at,
                 minutes |-> e.amount, state |-> StateOf(e)]
    BY <2>7 DEF fact
  <2>13. \A f \in Heard("created")' : appointments'[f.about] =
           [branch |-> f.branch, employee |-> f.employee, at |-> f.at, minutes |-> f.amount,
            state |-> StateOf(f)']
    BY <1>2, <2>5, <2>6, <2>8, <2>9, <2>11, <2>12 DEF FactsMatchEvents, VisitsHeard
  <2>14. \A f \in (Heard("completed") \cup Heard("cancelled"))' : appointments'[f.about] # NoFact
    BY <2>4, <2>5, <2>9, <2>11 DEF FactsMatchEvents, VisitsHeard
  <2>15. \A a \in Appointment :
           appointments'[a] # NoFact => \E f \in Heard("created")' : f.about = a
    BY <2>5, <2>11 DEF FactsMatchEvents, VisitsHeard
  <2>. QED
    BY <2>10, <2>13, <2>14, <2>15 DEF VisitsHeard
<1>3. CASE e.kind \in {"completed", "cancelled"}
  <2>1. appointments[e.about] # NoFact /\ e.about \in Appointment
    BY <1>3 DEF FactKnown
  <2>2. PICK v \in Heard("created") : v.about = e.about
    BY <2>1 DEF FactsMatchEvents, VisitsHeard
  <2>3. appointments' = [appointments EXCEPT ![e.about].state = e.kind]
    BY <1>3 DEF Apply, ResolveAppointment
  <2>. DEFINE fact == [branch |-> v.branch, employee |-> v.employee, at |-> v.at,
                       minutes |-> v.amount, state |-> e.kind]
  <2>4. fact \in AppointmentFact /\ fact # NoFact
    BY <1>3, VisitIsFact DEF Heard, AppointmentFact
  <2>5. appointments[e.about] = [branch |-> v.branch, employee |-> v.employee, at |-> v.at,
                                 minutes |-> v.amount, state |-> StateOf(v)]
    BY <2>2 DEF FactsMatchEvents, VisitsHeard
  <2>6. \A a \in Appointment :
          appointments'[a] = IF a = e.about THEN fact ELSE appointments[a]
    BY <2>1, <2>3, <2>5 DEF TypeOK
  <2>7. appointments' \in [Appointment -> AppointmentFact \cup {NoFact}]
    BY <2>3, <2>4, <2>6 DEF TypeOK
  <2>8. /\ Heard("created")' = Heard("created")
        /\ e.kind = "completed" => Heard("completed")' = Heard("completed") \cup {e}
                                   /\ Heard("cancelled")' = Heard("cancelled")
        /\ e.kind = "cancelled" => Heard("cancelled")' = Heard("cancelled") \cup {e}
                                   /\ Heard("completed")' = Heard("completed")
    BY <1>3 DEF Heard
  <2>9. \A f \in Heard("created") :
          /\ f.about \in Appointment
          /\ f.about # e.about => StateOf(f)' = StateOf(f)
          /\ f.about = e.about => f = v
    BY <1>3, <2>2, <2>8 DEF Heard, StateOf, Outcome
  <2>10. StateOf(v)' = e.kind
    <3>1. CASE e.kind = "completed"
      BY <2>2, <2>8, <3>1 DEF StateOf, Outcome
    <3>2. CASE e.kind = "cancelled"
      <4>1. \A f \in Heard("completed") : f.about # e.about
        BY <3>2 DEF Heard
      <4>. QED
        BY <2>2, <2>8, <3>2, <4>1 DEF StateOf, Outcome
    <3>. QED
      BY <1>3, <3>1, <3>2
  <2>11. fact = [branch |-> v.branch, employee |-> v.employee, at |-> v.at,
                 minutes |-> v.amount, state |-> StateOf(v)']
    BY <2>10
  <2>. HIDE DEF fact
  <2>12. \A f \in Heard("created")' : appointments'[f.about] =
           [branch |-> f.branch, employee |-> f.employee, at |-> f.at, minutes |-> f.amount,
            state |-> StateOf(f)']
    BY <2>2, <2>6, <2>8, <2>9, <2>11 DEF FactsMatchEvents, VisitsHeard
  <2>13. \A f \in (Heard("completed") \cup Heard("cancelled"))' : appointments'[f.about] # NoFact
    <3>1. \A f \in Heard("completed") \cup Heard("cancelled") : f.about \in Appointment
      BY DEF Heard
    <3>. QED
      BY <1>3, <2>1, <2>4, <2>6, <2>8, <3>1 DEF FactsMatchEvents, VisitsHeard
  <2>14. \A a \in Appointment :
           appointments'[a] # NoFact => \E f \in Heard("created")' : f.about = a
    BY <2>2, <2>6, <2>8 DEF FactsMatchEvents, VisitsHeard
  <2>. QED
    BY <2>7, <2>12, <2>13, <2>14 DEF VisitsHeard
<1>. QED
  BY <1>1, <1>2, <1>3

LEMMA InvoicesKept ==
  ASSUME TypeOK, FactsMatchEvents, NEW e \in Event, e \notin heard, FactKnown(e), Apply(e),
         heard' = heard \cup {e}
  PROVE  InvoicesHeard' /\ invoices' \in [Invoice -> InvoiceFact \cup {NoFact}]
<1>. USE EventTypes, AnnouncedOnce
<1>. heard \subseteq Event
  BY DEF TypeOK
<1>0. /\ \A kind \in {"issued", "paid"} :
           Heard(kind)' = IF e.kind = kind THEN Heard(kind) \cup {e} ELSE Heard(kind)
      /\ \A f \in Heard("issued") \cup Heard("paid") : f.about \in Invoice
  BY DEF Heard
<1>1. CASE e.kind \notin {"issued", "paid"}
  <2>1. invoices' = invoices
    BY <1>1 DEF Apply, RecordAppointmentCreated, ResolveAppointment, RecordConsumables,
       RecordClient, tables
  <2>2. Heard("issued")' = Heard("issued") /\ Heard("paid")' = Heard("paid")
    BY <1>0, <1>1
  <2>3. \A f : Outcome(f, "paid")' <=> Outcome(f, "paid")
    BY <2>2 DEF Outcome
  <2>. QED
    BY <2>1, <2>2, <2>3 DEF FactsMatchEvents, InvoicesHeard, TypeOK
<1>2. CASE e.kind = "issued"
  <2>1. invoices[e.about] = NoFact
    <3>. SUFFICES ASSUME invoices[e.about] # NoFact PROVE FALSE
      OBVIOUS
    <3>1. PICK f \in Heard("issued") : f.about = e.about
      BY <1>2 DEF FactsMatchEvents, InvoicesHeard
    <3>. QED
      BY <1>2, <3>1 DEF Heard
  <2>. DEFINE fact == [branch |-> e.branch, total |-> e.amount, employee |-> Nobody,
                       commission |-> 0, paidAt |-> Never]
  <2>2. invoices' = [invoices EXCEPT ![e.about] = fact]
    BY <1>2, <2>1 DEF Apply, RecordInvoiceIssued
  <2>3. fact \in InvoiceFact /\ fact # NoFact
    BY InvoiceIsFact DEF InvoiceFact
  <2>4. fact.branch = e.branch /\ fact.total = e.amount /\ fact.paidAt = Never
    OBVIOUS
  <2>5. invoices' \in [Invoice -> InvoiceFact \cup {NoFact}]
    BY <2>2, <2>3 DEF TypeOK
  <2>. HIDE DEF fact
  <2>6. \A i \in Invoice : invoices'[i] = IF i = e.about THEN fact ELSE invoices[i]
    BY <2>2 DEF TypeOK
  <2>7. \A f \in Heard("issued") \cup Heard("paid") : f.about # e.about
    BY <1>0, <1>2, <2>1 DEF FactsMatchEvents, InvoicesHeard
  <2>8. /\ Heard("issued")' = Heard("issued") \cup {e} /\ Heard("paid")' = Heard("paid")
        /\ \A f : Outcome(f, "paid")' <=> Outcome(f, "paid")
    BY <1>0, <1>2 DEF Outcome
  <2>. QED
    BY <1>0, <1>2, <2>3, <2>4, <2>5, <2>6, <2>7, <2>8 DEF FactsMatchEvents, InvoicesHeard
<1>3. CASE e.kind = "paid"
  <2>1. invoices[e.about] # NoFact /\ e.about \in Invoice
    BY <1>3 DEF FactKnown
  <2>. DEFINE old == invoices[e.about]
              fact == [old EXCEPT !.employee = e.employee, !.commission = e.amount,
                                  !.paidAt = e.at]
  <2>2. invoices' = [invoices EXCEPT ![e.about] = fact]
    BY <1>3 DEF Apply, RecordInvoicePaid
  <2>3. old \in InvoiceFact
    BY <2>1 DEF TypeOK
  <2>4. /\ fact \in InvoiceFact
        /\ fact.branch = old.branch /\ fact.total = old.total
        /\ fact.employee = e.employee /\ fact.commission = e.amount /\ fact.paidAt = e.at
    BY <2>3 DEF InvoiceFact
  <2>5. fact # NoFact
    BY <2>4, InvoiceIsFact
  <2>6. invoices' \in [Invoice -> InvoiceFact \cup {NoFact}]
    BY <2>2, <2>4 DEF TypeOK
  <2>. HIDE DEF fact
  <2>7. \A i \in Invoice : invoices'[i] = IF i = e.about THEN fact ELSE invoices[i]
    BY <2>2 DEF TypeOK
  <2>8. /\ Heard("paid")' = Heard("paid") \cup {e} /\ Heard("issued")' = Heard("issued")
        /\ \A f : ~ Outcome(f, "paid")' => ~ Outcome(f, "paid") /\ f.about # e.about
    BY <1>0, <1>3 DEF Outcome
  <2>9. \A f \in Heard("paid") : f.about # e.about
    BY <1>3 DEF Heard
  <2>10. \A f \in Heard("issued")' :
           /\ invoices'[f.about] # NoFact
           /\ invoices'[f.about].branch = f.branch /\ invoices'[f.about].total = f.amount
           /\ ~ Outcome(f, "paid")' => invoices'[f.about].paidAt = Never
    BY <1>0, <2>4, <2>5, <2>7, <2>8 DEF FactsMatchEvents, InvoicesHeard
  <2>11. \A f \in Heard("paid")' :
           /\ invoices'[f.about] # NoFact
           /\ invoices'[f.about].employee = f.employee
           /\ invoices'[f.about].commission = f.amount /\ invoices'[f.about].paidAt = f.at
    BY <1>0, <2>1, <2>4, <2>5, <2>7, <2>8, <2>9 DEF FactsMatchEvents, InvoicesHeard
  <2>12. \A i \in Invoice : invoices'[i] # NoFact => \E f \in Heard("issued")' : f.about = i
    BY <2>1, <2>7, <2>8 DEF FactsMatchEvents, InvoicesHeard
  <2>. QED
    BY <2>6, <2>10, <2>11, <2>12 DEF InvoicesHeard
<1>. QED
  BY <1>1, <1>2, <1>3

LEMMA UsesKept ==
  ASSUME TypeOK, FactsMatchEvents, NEW e \in Event, e \notin heard, Apply(e),
         heard' = heard \cup {e}
  PROVE  UsesHeard' /\ consumables' \in [Event -> Nat]
<1>1. CASE e.kind = "written_off"
  <2>1. consumables' = [consumables EXCEPT ![e] = @ + 1]
    BY <1>1 DEF Apply, RecordConsumables
  <2>2. e \notin Heard("written_off") /\ Heard("written_off")' = Heard("written_off") \cup {e}
    BY <1>1 DEF Heard
  <2>. QED
    BY <2>1, <2>2 DEF FactsMatchEvents, UsesHeard, TypeOK
<1>2. CASE e.kind # "written_off"
  <2>1. consumables' = consumables
    BY <1>2 DEF Apply, RecordAppointmentCreated, ResolveAppointment, RecordInvoiceIssued,
       RecordInvoicePaid, RecordClient, tables
  <2>2. Heard("written_off")' = Heard("written_off")
    BY <1>2 DEF Heard
  <2>. QED
    BY <2>1, <2>2 DEF FactsMatchEvents, UsesHeard, TypeOK
<1>. QED
  BY <1>1, <1>2

LEMMA ClientsKept ==
  ASSUME TypeOK, FactsMatchEvents, NEW e \in Event, Apply(e), heard' = heard \cup {e}
  PROVE  ClientsHeard' /\ clients' \subseteq Client
<1>1. CASE e.kind = "registered"
  <2>1. clients' = clients \cup {e.about} /\ e.about \in Client
    BY <1>1, EventTypes DEF Apply, RecordClient
  <2>2. Heard("registered")' = Heard("registered") \cup {e}
    BY <1>1 DEF Heard
  <2>. QED
    BY <2>1, <2>2 DEF FactsMatchEvents, ClientsHeard, TypeOK
<1>2. CASE e.kind # "registered"
  <2>1. clients' = clients
    BY <1>2 DEF Apply, RecordAppointmentCreated, ResolveAppointment, RecordInvoiceIssued,
       RecordInvoicePaid, RecordConsumables, tables
  <2>2. Heard("registered")' = Heard("registered")
    BY <1>2 DEF Heard
  <2>. QED
    BY <2>1, <2>2 DEF FactsMatchEvents, ClientsHeard, TypeOK
<1>. QED
  BY <1>1, <1>2

\* A fact that is there stays there.
LEMMA FactsStay ==
  ASSUME TypeOK, NEW e \in Event, FactKnown(e), Apply(e),
         appointments' \in [Appointment -> AppointmentFact \cup {NoFact}],
         invoices' \in [Invoice -> InvoiceFact \cup {NoFact}]
  PROVE  \A f \in Event : FactKnown(f) => FactKnown(f)'
<1>1. \A a \in Appointment : appointments[a] # NoFact => appointments'[a] # NoFact
  <2>. SUFFICES ASSUME NEW a \in Appointment, appointments[a] # NoFact
                PROVE  appointments'[a] # NoFact
    OBVIOUS
  <2>1. CASE appointments'[a] = appointments[a]
    BY <2>1
  <2>2. CASE appointments' = [appointments EXCEPT ![e.about].state = e.kind]
             /\ e.kind \in {"completed", "cancelled"}
    <3>1. CASE a = e.about
      <4>1. appointments'[a] = [appointments[a] EXCEPT !.state = e.kind]
        BY <2>2, <3>1 DEF TypeOK
      <4>2. "state" \in DOMAIN appointments[a]
        BY DEF TypeOK, AppointmentFact
      <4>3. appointments'[a].state = e.kind
        BY <4>1, <4>2
      <4>. QED
        BY <2>2, <4>3 DEF NoFact
    <3>2. CASE a # e.about
      BY <2>2, <3>2 DEF TypeOK
    <3>. QED
      BY <3>1, <3>2
  <2>. QED
    BY <2>1, <2>2 DEF Apply, RecordAppointmentCreated, ResolveAppointment, RecordInvoiceIssued,
       RecordInvoicePaid, RecordConsumables, RecordClient, tables, TypeOK
<1>2. \A i \in Invoice : invoices[i] # NoFact => invoices'[i] # NoFact
  <2>. SUFFICES ASSUME NEW i \in Invoice, invoices[i] # NoFact
                PROVE  invoices'[i] # NoFact
    OBVIOUS
  <2>1. invoices[i] \in InvoiceFact /\ "branch" \in DOMAIN invoices[i]
    BY DEF TypeOK, InvoiceFact
  <2>2. "branch" \in DOMAIN invoices'[i]
    BY <2>1 DEF Apply, RecordAppointmentCreated, ResolveAppointment, RecordInvoiceIssued,
       RecordInvoicePaid, RecordConsumables, RecordClient, tables, TypeOK
  <2>. QED
    BY <2>2 DEF NoFact
<1>. QED
  BY <1>1, <1>2, EventTypes DEF FactKnown

LEMMA CommitKeeps ==
  ASSUME IInv, NEW h \in Handler, Commit(h)
  PROVE  IInv'
<1>. DEFINE e == task[h].event
<1>1. task[h] # Idle /\ e \in Event /\ task[h].step \in {"effective", "void"}
  BY AtWork DEF Commit, IInv
<1>2. e \notin inbox /\ e \notin heard
  BY <1>1 DEF IInv, HandlersHold, HandledIsHeard
<1>3. \A g \in Handler : task'[g] = IF g = h THEN Idle ELSE task[g]
  BY DEF Commit, IInv, TypeOK
<1>4. inbox' = inbox \cup {e} /\ UNCHANGED <<ready, failures>>
  BY DEF Commit
<1>5. /\ TypeOK' /\ FactsMatchEvents'
      /\ \A f \in Event : FactKnown(f) => FactKnown(f)'
      /\ heard' \subseteq inbox' /\ (e \in ready => e \in heard') /\ heard \subseteq heard'
  <2>1. CASE task[h].step = "effective"
    <3>1. Apply(e) /\ heard' = heard \cup {e} /\ FactKnown(e)
      BY <1>1, <2>1 DEF Commit, IInv, HandlersHold
    <3>2. TypeOK /\ FactsMatchEvents
      BY DEF IInv
    <3>3. /\ VisitsHeard' /\ appointments' \in [Appointment -> AppointmentFact \cup {NoFact}]
          /\ InvoicesHeard' /\ invoices' \in [Invoice -> InvoiceFact \cup {NoFact}]
      BY <1>1, <1>2, <3>1, <3>2, VisitsKept, InvoicesKept
    <3>4. /\ UsesHeard' /\ consumables' \in [Event -> Nat]
          /\ ClientsHeard' /\ clients' \subseteq Client
      BY <1>1, <1>2, <3>1, <3>2, UsesKept, ClientsKept
    <3>5. task' \in [Handler -> Task \cup {Idle}]
      BY <1>3, <3>2 DEF Commit, TypeOK
    <3>6. TypeOK'
      BY <1>1, <1>4, <3>1, <3>2, <3>3, <3>4, <3>5 DEF TypeOK
    <3>7. \A f \in Event : FactKnown(f) => FactKnown(f)'
      BY <1>1, <3>1, <3>2, <3>3, FactsStay
    <3>. QED
      BY <1>4, <3>1, <3>3, <3>4, <3>6, <3>7 DEF FactsMatchEvents, IInv, HandledIsHeard
  <2>2. CASE task[h].step = "void"
    <3>1. UNCHANGED <<tables, heard>> /\ e \notin ready
      BY <1>1, <2>2 DEF Commit, IInv, HandlersHold
    <3>2. TypeOK'
      BY <1>1, <1>3, <1>4, <3>1 DEF Commit, IInv, TypeOK, tables
    <3>3. \A f \in Event : FactKnown(f) => FactKnown(f)'
      BY <3>1 DEF FactKnown, tables
    <3>. QED
      BY <1>4, <3>1, <3>2, <3>3, SameFacts DEF IInv, HandledIsHeard
  <2>. QED
    BY <1>1, <2>1, <2>2
<1>6. HandledIsHeard'
  BY <1>4, <1>5 DEF IInv, HandledIsHeard
<1>7. HandlersHold'
  <2>1. \A g \in Handler : task'[g] # Idle =>
          /\ g # h /\ task'[g] = task[g] /\ task[g] # Idle /\ task[g].event \in Event
          /\ task[g].event # e
    BY <1>1, <1>3, AtWork DEF IInv, HandlersHold
  <2>. QED
    BY <1>4, <1>5, <2>1 DEF IInv, HandlersHold
<1>. QED
  BY <1>5, <1>6, <1>7 DEF IInv

LEMMA InvStep == IInv /\ [Next]_vars => IInv'
<1>. SUFFICES ASSUME IInv, [Next]_vars PROVE IInv'
  OBVIOUS
<1>1. CASE UNCHANGED vars
  <2>1. FactsMatchEvents'
    BY <1>1, SameFacts DEF vars, tables, IInv
  <2>. QED
    BY <1>1, <2>1 DEF vars, IInv, TypeOK, HandledIsHeard, HandlersHold, FactKnown
<1>2. ASSUME NEW h \in Handler, NEW e \in Event, Mark(h, e) PROVE IInv'
  BY <1>2, MarkKeeps
<1>3. ASSUME NEW h \in Handler, Find(h) \/ Commit(h) \/ Rollback(h) PROVE IInv'
  BY <1>3, FindKeeps, CommitKeeps, RollbackKeeps
<1>. QED
  BY <1>1, <1>2, <1>3 DEF Next

-----------------------------------------------------------------------------
(* The theorems.                                                           *)

\* The handlers keep the inductive invariant in every behaviour.
THEOREM Invariance == Spec => []IInv
BY InvInitial, InvStep, PTL DEF Spec

\* Every variable keeps its type.
THEOREM TypeCorrect == Spec => []TypeOK
<1>1. IInv => TypeOK
  BY DEF IInv
<1>. QED
  BY <1>1, Invariance, PTL

\* An event whose fact was there when its handler began takes effect with its mark.
THEOREM HandledEventsHeard == Spec => []HandledIsHeard
<1>1. IInv => HandledIsHeard
  BY DEF IInv
<1>. QED
  BY <1>1, Invariance, PTL

\* In whatever order events come and however often, the fact tables hold exactly what the
\* events that took effect have said.
THEOREM TablesTellEvents == Spec => []FactsMatchEvents
<1>1. IInv => FactsMatchEvents
  BY DEF IInv
<1>. QED
  BY <1>1, Invariance, PTL

-----------------------------------------------------------------------------
(* The reports.                                                            *)

\* However many events there may be, only finitely many have been heard.
FinitelyHeard == IsFiniteSet(heard)

LEMMA HeardIsFinite == Spec => []FinitelyHeard
<1>1. Init => FinitelyHeard
  BY FS_EmptySet DEF Init, FinitelyHeard
<1>2. FinitelyHeard /\ [Next]_vars => FinitelyHeard'
  <2>. SUFFICES ASSUME FinitelyHeard, [Next]_vars PROVE IsFiniteSet(heard')
    BY DEF FinitelyHeard
  <2>1. heard' = heard \/ \E e : heard' = heard \cup {e}
    BY DEF Next, vars, Mark, Find, Commit, Rollback
  <2>. QED
    BY <2>1, FS_AddElement DEF FinitelyHeard
<1>. QED
  BY <1>1, <1>2, PTL DEF Spec

\* The rows of a report are those of certain events, one of each.
RowsOf(E) == { e.about : e \in E }

LEMMA RowsCount ==
  ASSUME IsFiniteSet(heard), NEW E \in SUBSET heard, \A d, e \in E : d.about = e.about => d = e
  PROVE  Cardinality(RowsOf(E)) = Cardinality(E)
<1>. DEFINE b == [e \in E |-> e.about]
<1>1. IsFiniteSet(E)
  BY FS_Subset
<1>2. \A d, e \in E : b[d] = b[e] => d = e
  OBVIOUS
<1>3. RowsOf(E) = { b[e] : e \in E }
  BY DEF RowsOf
<1>. HIDE DEF b
<1>. QED
  BY <1>1, <1>2, <1>3, CountCorresponds

\* A column of these rows adds up to the amounts of the events.
LEMMA RowsAddUp ==
  ASSUME IsFiniteSet(heard), NEW E \in SUBSET heard, \A d, e \in E : d.about = e.about => d = e,
         NEW column, DOMAIN column = RowsOf(E),
         \A e \in E : e.amount \in Nat /\ column[e.about] = e.amount
  PROVE  SumFunction(column) = SumFunction([e \in E |-> e.amount])
<1>. DEFINE b == [e \in E |-> e.about]
            f == [e \in E |-> e.amount]
<1>1. IsFiniteSet(E)
  BY FS_Subset
<1>2. \A e \in E : f[e] \in Nat /\ column[b[e]] = f[e]
  OBVIOUS
<1>3. \A d, e \in E : b[d] = b[e] => d = e
  OBVIOUS
<1>4. RowsOf(E) = { b[e] : e \in E } /\ DOMAIN f = E
  BY DEF RowsOf
<1>. HIDE DEF b, f
<1>5. SumFunctionOnSet(f, E) = SumFunctionOnSet(column, { b[e] : e \in E })
  BY <1>1, <1>2, <1>3, SumCorresponds
<1>. QED
  BY <1>4, <1>5 DEF SumFunction, f

\* Events of one kind that is announced once have rows of their own.
LEMMA RowsApart ==
  ASSUME TypeOK, NEW kind \in Kind \ {"written_off", "other"}, NEW E \in SUBSET Heard(kind)
  PROVE  E \in SUBSET heard /\ \A d, e \in E : d.about = e.about => d = e
BY AnnouncedOnce DEF Heard, TypeOK

\* The invoice of a row was paid in a period exactly if a payment heard says so.
LEMMA PaidTold ==
  ASSUME IInv, NEW w \in Window, NEW i \in Invoice, invoices[i] # NoFact
  PROVE  /\ In(invoices[i].paidAt, w) <=> \E p \in Heard("paid") : p.about = i /\ In(p.at, w)
         /\ \A p \in Heard("paid") : p.about = i =>
              invoices[i].employee = p.employee /\ invoices[i].commission = p.amount
<1>1. PICK e \in Heard("issued") : e.about = i
  BY DEF IInv, FactsMatchEvents, InvoicesHeard
<1>2. ~ Outcome(e, "paid") => invoices[i].paidAt = Never
  BY <1>1 DEF IInv, FactsMatchEvents, InvoicesHeard
<1>3. \A p \in Heard("paid") : p.about = i =>
        /\ invoices[i].paidAt = p.at
        /\ invoices[i].employee = p.employee /\ invoices[i].commission = p.amount
  BY DEF IInv, FactsMatchEvents, InvoicesHeard
<1>. QED
  BY <1>1, <1>2, <1>3 DEF Outcome, In

LEMMA RevenueIsTold ==
  ASSUME IInv, IsFiniteSet(heard), NEW b \in Branch, NEW w \in Window
  PROVE  RevenueTold(b, w)
<1>. DEFINE paid == { i \in Invoice : /\ invoices[i] # NoFact
                                      /\ invoices[i].branch = b /\ In(invoices[i].paidAt, w) }
            bills == Bills(b, w)
            column == [i \in paid |-> invoices[i].total]
<1>0. TypeOK /\ bills \subseteq Heard("issued") /\ Heard("issued") \subseteq Event
  BY DEF IInv, TypeOK, Bills, Heard
<1>1. \A e \in Heard("issued") :
        /\ e.about \in Invoice /\ invoices[e.about] # NoFact /\ e.amount \in Nat
        /\ invoices[e.about].branch = e.branch /\ invoices[e.about].total = e.amount
  BY <1>0, EventTypes DEF IInv, FactsMatchEvents, InvoicesHeard, Heard
<1>2. \A e \in Heard("issued") : e \in bills <=> e.about \in paid
  BY <1>1, PaidTold DEF Bills
<1>3. \A i \in paid : \E e \in Heard("issued") : e.about = i
  BY DEF IInv, FactsMatchEvents, InvoicesHeard
<1>4. paid = RowsOf(bills)
  BY <1>0, <1>2, <1>3 DEF RowsOf
<1>5. bills \in SUBSET heard /\ \A d, e \in bills : d.about = e.about => d = e
  BY <1>0, RowsApart DEF Kind
<1>6. Cardinality(paid) = Cardinality(bills)
  BY <1>4, <1>5, RowsCount
<1>7. \A e \in bills : e.amount \in Nat /\ column[e.about] = e.amount
  BY <1>0, <1>1, <1>2
<1>8. SumFunction(column) = SumFunction([e \in bills |-> e.amount])
  <2>1. DOMAIN column = RowsOf(bills)
    BY <1>4
  <2>. HIDE DEF column, bills
  <2>. QED
    BY <1>5, <1>7, <2>1, RowsAddUp
<1>. QED
  BY <1>6, <1>8 DEF RevenueTold, RevenueReport, BranchRevenue

\* The visits of a specialist or a branch, as rows and as events.
LEMMA VisitsTold ==
  ASSUME IInv, NEW e \in Heard("created")
  PROVE  /\ e \in Event /\ e.about \in Appointment /\ e.amount \in Nat
         /\ appointments[e.about] # NoFact
         /\ appointments[e.about].employee = e.employee /\ appointments[e.about].at = e.at
         /\ appointments[e.about].branch = e.branch
         /\ appointments[e.about].minutes = e.amount
         /\ appointments[e.about].state = "completed" <=> Outcome(e, "completed")
         /\ appointments[e.about].state = "cancelled" <=> Outcome(e, "cancelled")
         /\ appointments[e.about].state \in {"created", "completed", "cancelled"}
<1>1. e \in Event /\ e.kind = "created" /\ heard \subseteq Event
  BY DEF Heard, IInv, TypeOK
<1>. DEFINE fact == [branch |-> e.branch, employee |-> e.employee, at |-> e.at,
                     minutes |-> e.amount, state |-> StateOf(e)]
<1>2. appointments[e.about] = fact
  BY DEF IInv, FactsMatchEvents, VisitsHeard
<1>3. ~ (Outcome(e, "completed") /\ Outcome(e, "cancelled"))
  BY <1>1, AnnouncedOnce DEF Outcome, Heard
<1>4. fact \in AppointmentFact
  BY <1>1, EventTypes DEF AppointmentFact, StateOf
<1>5. fact # NoFact
  BY <1>4, VisitIsFact
<1>. QED
  BY <1>1, <1>2, <1>3, <1>5, EventTypes DEF StateOf

LEMMA EveryVisitHeard ==
  ASSUME IInv, NEW a \in Appointment, appointments[a] # NoFact
  PROVE  \E e \in Heard("created") : e.about = a
BY DEF IInv, FactsMatchEvents, VisitsHeard

\* ensure_owner lets everybody in but strangers.
LEMMA OwnersOnly ==
  ASSUME NEW m \in Employee, NEW caller \in Caller
  PROVE  EnsureOwner(caller, m) <=> ~Stranger(caller, m)
<1>1. caller.roles \subseteq Role /\ caller.known \in BOOLEAN /\ m # Nobody
  BY AnalyticsAssumption DEF CallerType
<1>2. caller.roles \cap Privileged = {} <=> caller.roles \subseteq {"specialist"}
  BY <1>1 DEF Role, Privileged
<1>. QED
  BY <1>1, <1>2 DEF EnsureOwner, Stranger

LEMMA WorkloadIsTold ==
  ASSUME IInv, IsFiniteSet(heard), NEW m \in Employee, NEW w \in Window,
         NEW caller \in Caller, ~Stranger(caller, m)
  PROVE  WorkloadTold(caller, m, w)
<1>. DEFINE mine == { a \in Appointment : /\ appointments[a] # NoFact
                                          /\ appointments[a].employee = m
                                          /\ In(appointments[a].at, w) }
            done == { a \in mine : appointments[a].state = "completed" }
            paid == { i \in Invoice : /\ invoices[i] # NoFact
                                      /\ invoices[i].employee = m /\ In(invoices[i].paidAt, w) }
            visits == { e \in Heard("created") : e.employee = m /\ In(e.at, w) }
            finished == { e \in visits : Outcome(e, "completed") }
            payments == { e \in Heard("paid") : e.employee = m /\ In(e.at, w) }
            minutes == [a \in done |-> appointments[a].minutes]
            commission == [i \in paid |-> invoices[i].commission]
<1>0. TypeOK
  BY DEF IInv
<1>1. mine = RowsOf(visits) /\ done = RowsOf(finished)
  BY VisitsTold, EveryVisitHeard DEF RowsOf
<1>2. /\ visits \in SUBSET heard /\ \A d, e \in visits : d.about = e.about => d = e
      /\ finished \in SUBSET heard /\ \A d, e \in finished : d.about = e.about => d = e
  <2>1. visits \in SUBSET Heard("created") /\ finished \in SUBSET Heard("created")
    OBVIOUS
  <2>. HIDE DEF visits, finished
  <2>. QED
    BY <1>0, <2>1, RowsApart DEF Kind
<1>3. payments \in SUBSET heard /\ \A d, e \in payments : d.about = e.about => d = e
  <2>1. payments \in SUBSET Heard("paid")
    OBVIOUS
  <2>. HIDE DEF payments
  <2>. QED
    BY <1>0, <2>1, RowsApart DEF Kind
<1>4. \A p \in Heard("paid") :
        /\ p \in Event /\ p.about \in Invoice /\ p.amount \in Nat
        /\ invoices[p.about] # NoFact
        /\ invoices[p.about].employee = p.employee /\ invoices[p.about].commission = p.amount
        /\ invoices[p.about].paidAt = p.at
  BY <1>0, EventTypes DEF IInv, TypeOK, FactsMatchEvents, InvoicesHeard, Heard
<1>5. paid = RowsOf(payments)
  <2>1. \A i \in paid : \E p \in payments : p.about = i
    BY <1>4, PaidTold
  <2>2. \A p \in payments : p.about \in paid
    BY <1>4
  <2>. QED
    BY <2>1, <2>2 DEF RowsOf
<1>6. Cardinality(mine) = Cardinality(visits) /\ Cardinality(done) = Cardinality(finished)
  <2>. HIDE DEF visits, finished, mine, done
  <2>. QED
    BY <1>1, <1>2, RowsCount
<1>7. SumFunction(minutes) = SumFunction([e \in finished |-> e.amount])
  <2>1. DOMAIN minutes = RowsOf(finished)
    BY <1>1
  <2>2. \A e \in finished : e.amount \in Nat /\ minutes[e.about] = e.amount
    BY <1>1, VisitsTold DEF RowsOf
  <2>. HIDE DEF minutes, finished
  <2>. QED
    BY <1>2, <2>1, <2>2, RowsAddUp
<1>8. SumFunction(commission) = SumFunction([e \in payments |-> e.amount])
  <2>1. DOMAIN commission = RowsOf(payments)
    BY <1>5
  <2>2. \A e \in payments : e.amount \in Nat /\ commission[e.about] = e.amount
    BY <1>4, <1>5 DEF RowsOf
  <2>. HIDE DEF commission, payments
  <2>. QED
    BY <1>3, <2>1, <2>2, RowsAddUp
<1>9. WorkloadReport(caller, m, w) = EmployeeWorkload(m, w)
  <2>1. EnsureOwner(caller, m)
    BY OwnersOnly
  <2>. QED
    BY <2>1 DEF WorkloadReport
<1>. QED
  BY <1>6, <1>7, <1>8, <1>9 DEF WorkloadTold, EmployeeWorkload

LEMMA FunnelIsTold ==
  ASSUME IInv, IsFiniteSet(heard), NEW b \in Branch, NEW w \in Window
  PROVE  FunnelTold(b, w)
<1>. DEFINE all == { e \in Heard("created") : e.branch = b /\ In(e.at, w) }
            Ending(state) == { e \in all : appointments[e.about].state = state }
            Rows(state) == { a \in Appointment : /\ appointments[a] # NoFact
                                                 /\ appointments[a].branch = b
                                                 /\ In(appointments[a].at, w)
                                                 /\ appointments[a].state = state }
<1>0. TypeOK /\ IsFiniteSet(all)
  BY FS_Subset DEF IInv, Heard
<1>1. ASSUME NEW state \in {"created", "completed", "cancelled"}
      PROVE  Visits(b, w, state) = Cardinality(Ending(state))
  <2>1. Rows(state) = RowsOf(Ending(state))
    BY VisitsTold, EveryVisitHeard DEF RowsOf
  <2>2. Ending(state) \in SUBSET Heard("created")
    OBVIOUS
  <2>. HIDE DEF Ending
  <2>3. Ending(state) \in SUBSET heard
        /\ \A d, e \in Ending(state) : d.about = e.about => d = e
    BY <1>0, <2>2, RowsApart DEF Kind
  <2>4. Cardinality(RowsOf(Ending(state))) = Cardinality(Ending(state))
    BY <2>3, RowsCount
  <2>. QED
    BY <2>1, <2>4 DEF Visits
<1>2. Ending("completed") = Dealt(b, w, "completed") /\ Ending("cancelled") = Dealt(b, w, "cancelled")
  BY VisitsTold DEF Dealt
<1>3. Cardinality(Ending("created")) + Cardinality(Ending("completed"))
        + Cardinality(Ending("cancelled")) = Cardinality(all)
  <2>. DEFINE open == Ending("created")
              held == Ending("completed")
              void == Ending("cancelled")
  <2>1. all = (open \cup held) \cup void /\ open \cap held = {} /\ (open \cup held) \cap void = {}
    BY VisitsTold
  <2>2. IsFiniteSet(open) /\ IsFiniteSet(held) /\ IsFiniteSet(void)
    BY <1>0, FS_Subset
  <2>. HIDE DEF open, held, void, all
  <2>3. Cardinality({}) = 0 /\ Cardinality(open) \in Nat /\ Cardinality(held) \in Nat
        /\ Cardinality(void) \in Nat
    BY <2>2, FS_EmptySet, FS_CardinalityType
  <2>4. IsFiniteSet(open \cup held)
        /\ Cardinality(open \cup held) = Cardinality(open) + Cardinality(held) - Cardinality({})
    BY <2>1, <2>2, FS_Union
  <2>5. Cardinality((open \cup held) \cup void)
          = Cardinality(open \cup held) + Cardinality(void) - Cardinality({})
    BY <2>1, <2>2, <2>4, FS_Union
  <2>6. Cardinality(all) = Cardinality(open) + Cardinality(held) + Cardinality(void)
    BY <2>1, <2>3, <2>4, <2>5
  <2>. QED
    BY <2>6 DEF open, held, void
<1>. QED
  BY <1>1, <1>2, <1>3 DEF FunnelTold, BranchFunnel

LEMMA UsageIsTold ==
  ASSUME IInv, IsFiniteSet(heard), NEW b \in Branch, NEW w \in Window
  PROVE  UsageTold(b, w)
<1>. DEFINE Used(c) == { e \in Heard("written_off") : e.about = c /\ e.branch = b /\ In(e.at, w) }
            Told(c) == [amount |-> SumFunction([e \in Used(c) |-> e.amount]),
                        writeOffs |-> Cardinality(Used(c))]
<1>1. ASSUME NEW c
      PROVE  /\ ConsumablesUsage(b, w, c) = Told(c)
             /\ ConsumablesUsage(b, w, c).writeOffs > 0 <=> Used(c) # {}
  <2>. DEFINE used == { e \in Event : /\ e.kind = "written_off" /\ e.about = c
                                      /\ consumables[e] > 0 /\ e.branch = b /\ In(e.at, w) }
              f == [e \in used |-> consumables[e]]
  <2>1. used = Used(c) /\ IsFiniteSet(Used(c)) /\ \A e \in used : consumables[e] = 1
    BY FS_Subset DEF IInv, TypeOK, FactsMatchEvents, UsesHeard, Heard
  <2>2. [e \in used |-> consumables[e] * e.amount] = [e \in Used(c) |-> e.amount]
    <3>1. \A e \in used : consumables[e] * e.amount = e.amount
      BY <2>1, EventTypes
    <3>. QED
      BY <2>1, <3>1
  <2>3. SumFunction(f) = Cardinality(Used(c))
    <3>1. DOMAIN f = used /\ \A e \in used : f[e] = 1
      BY <2>1
    <3>. HIDE DEF f, used, Used
    <3>2. SumFunctionOnSet(f, used) = Cardinality(used)
      BY <2>1, <3>1, SumCounts
    <3>. QED
      BY <2>1, <3>1, <3>2 DEF SumFunction
  <2>4. Cardinality(Used(c)) > 0 <=> Used(c) # {}
    <3>. HIDE DEF Used
    <3>. QED
      BY <2>1, FS_EmptySet, FS_CardinalityType
  <2>. QED
    BY <2>2, <2>3, <2>4 DEF ConsumablesUsage
<1>. HIDE DEF Used, Told
<1>2. { c \in Consumable : ConsumablesUsage(b, w, c).writeOffs > 0 }
        = { c \in Consumable : Used(c) # {} }
  BY <1>1
<1>3. ConsumablesReport(b, w) =
        { [material |-> c, usage |-> Told(c)] : c \in { d \in Consumable : Used(d) # {} } }
  BY <1>1, <1>2 DEF ConsumablesReport
<1>. QED
  BY <1>3 DEF UsageTold, Used, Told

\* Every figure of every report is what the events that took effect say, counted without
\* the tables; and nobody is told another one's figures.
THEOREM ReportsTellEvents == Spec => []ReportsMatchEvents
<1>1. IInv /\ FinitelyHeard => ReportsMatchEvents
  <2>. SUFFICES ASSUME IInv, IsFiniteSet(heard) PROVE ReportsMatchEvents
    BY DEF FinitelyHeard
  <2>1. \A w \in Window, b \in Branch : RevenueTold(b, w) /\ FunnelTold(b, w) /\ UsageTold(b, w)
    BY RevenueIsTold, FunnelIsTold, UsageIsTold
  <2>2. \A w \in Window, m \in Employee, caller \in Caller :
          ~Stranger(caller, m) => WorkloadTold(caller, m, w)
    BY WorkloadIsTold
  <2>3. \A w \in Window, m \in Employee, caller \in Caller :
          Stranger(caller, m) => WorkloadReport(caller, m, w) = Refused
    BY OwnersOnly DEF WorkloadReport
  <2>. QED
    BY <2>1, <2>2, <2>3 DEF ReportsMatchEvents
<1>. QED
  BY <1>1, Invariance, HeardIsFinite, PTL

=============================================================================
