---------------------------- MODULE BillingProofs ----------------------------
(***************************************************************************)
(* Theorems about billing and the part of client-service it calls, for     *)
(* any visits, deliveries and payments.                                    *)
(***************************************************************************)
EXTENDS Billing, FiniteSetTheorems, WellFoundedInduction, TLAPS

-----------------------------------------------------------------------------
(* Sums over finite sets.  What the sum of a function over a set is has to *)
(* be shown by induction over the set: every lemma looks at a smallest     *)
(* subset for which it would fail.                                         *)

\* A non-empty family of subsets of a finite set has a member without a smaller one.
LEMMA LeastSubset ==
  ASSUME NEW S, IsFiniteSet(S), NEW B, B \subseteq SUBSET S, B # {}
  PROVE  \E T \in B : \A U \in B : U \subseteq T => U = T
<1>1. IsWellFoundedOn(StrictSubsetOrdering(S), SUBSET S)
  BY FS_StrictSubsetOrderingWellFounded, FS_FiniteSubsetsOfFinite
<1>2. PICK T \in B : \A U \in B : <<U, T>> \notin StrictSubsetOrdering(S)
  BY <1>1, WFMin
<1>3. \A U \in B : U \subseteq T => U = T
  BY <1>2 DEF StrictSubsetOrdering
<1>. QED
  BY <1>3

\* The element that a sum over S adds last.
Some(S) == CHOOSE x \in S : TRUE

LEMMA SomeIsIn == \A S : S # {} => Some(S) \in S
  BY DEF Some

\* g gives the sums of f over all subsets of S.
SumsUp(g, f, S) ==
  g = [T \in SUBSET S |-> IF T = {} THEN 0 ELSE f[Some(T)] + g[T \ {Some(T)}]]

LEMMA SumIsChosen ==
  \A f, S : SumFunctionOnSet(f, S) = (CHOOSE g : SumsUp(g, f, S))[S]
  BY DEF SumFunctionOnSet, FoldFunctionOnSet, MapThenFoldSet, SumsUp, Some

LEMMA SumsUpUnique ==
  ASSUME NEW S, IsFiniteSet(S), NEW f, NEW g, NEW h, SumsUp(g, f, S), SumsUp(h, f, S)
  PROVE  g = h
<1>. DEFINE B == { T \in SUBSET S : g[T] # h[T] }
<1>1. B = {}
  <2>. SUFFICES ASSUME B # {} PROVE FALSE
    OBVIOUS
  <2>1. B \subseteq SUBSET S
    OBVIOUS
  <2>2. PICK T \in B : \A U \in B : U \subseteq T => U = T
    <3>. HIDE DEF B
    <3>. QED
      BY <2>1, LeastSubset
  <2>3. CASE T = {}
    BY <2>2, <2>3 DEF SumsUp
  <2>4. CASE T # {}
    <3>1. Some(T) \in T
      BY <2>4, SomeIsIn
    <3>2. T \ {Some(T)} \in SUBSET S /\ T \ {Some(T)} \notin B
      BY <2>2, <3>1
    <3>3. g[T \ {Some(T)}] = h[T \ {Some(T)}]
      BY <3>2
    <3>. QED
      BY <2>2, <2>4, <3>3 DEF SumsUp
  <2>. QED
    BY <2>3, <2>4
<1>. QED
  BY <1>1 DEF SumsUp

\* What gives the sums over the subsets of S does so for the subsets of a part of S.
LEMMA SumsUpBelow ==
  ASSUME NEW S, NEW f, NEW g, SumsUp(g, f, S), NEW T \in SUBSET S
  PROVE  SumsUp([U \in SUBSET T |-> g[U]], f, T)
<1>. DEFINE h == [U \in SUBSET T |-> g[U]]
<1>1. ASSUME NEW U \in SUBSET T
      PROVE  h[U] = IF U = {} THEN 0 ELSE f[Some(U)] + h[U \ {Some(U)}]
  <2>1. U \in SUBSET S /\ U \ {Some(U)} \in SUBSET T
    OBVIOUS
  <2>. QED
    BY <2>1 DEF SumsUp
<1>. QED
  BY <1>1 DEF SumsUp

LEMMA SumsUpExists ==
  ASSUME NEW S, IsFiniteSet(S), NEW f
  PROVE  \E g : SumsUp(g, f, S)
<1>. DEFINE B == { T \in SUBSET S : ~ \E g : SumsUp(g, f, T) }
            G(T) == CHOOSE g : SumsUp(g, f, T)
<1>. SUFFICES ASSUME B # {} PROVE FALSE
  <2>. B = {} => S \notin B
    OBVIOUS
  <2>. QED
    OBVIOUS
<1>0. B \subseteq SUBSET S
  OBVIOUS
<1>1. PICK T \in B : \A U \in B : U \subseteq T => U = T
  <2>. HIDE DEF B
  <2>. QED
    BY <1>0, LeastSubset
<1>2. \A U \in SUBSET T : U # T => SumsUp(G(U), f, U)
  BY <1>1
<1>3. \A U \in SUBSET T : IsFiniteSet(U)
  BY <1>1, FS_Subset
<1>. HIDE DEF G
<1>4. ASSUME NEW U \in SUBSET T, U # T, U # {}
      PROVE  G(U)[U] = f[Some(U)] + G(U \ {Some(U)})[U \ {Some(U)}]
  <2>. DEFINE V == U \ {Some(U)}
              h == [W \in SUBSET V |-> G(U)[W]]
  <2>1. Some(U) \in U /\ V \in SUBSET U /\ V \in SUBSET T /\ V # T
    BY <1>4, SomeIsIn
  <2>2. SumsUp(G(U), f, U) /\ SumsUp(G(V), f, V)
    BY <1>2, <1>4, <2>1
  <2>3. SumsUp(h, f, V)
    BY <2>1, <2>2, SumsUpBelow
  <2>4. h = G(V)
    BY <1>3, <2>1, <2>2, <2>3, SumsUpUnique
  <2>5. h[V] = G(U)[V]
    OBVIOUS
  <2>6. G(U)[U] = f[Some(U)] + G(U)[V]
    BY <1>4, <2>2 DEF SumsUp
  <2>. QED
    BY <2>4, <2>5, <2>6
<1>5. ASSUME NEW U \in SUBSET T, U # T, U = {}
      PROVE  G(U)[U] = 0
  <2>1. SumsUp(G(U), f, U)
    BY <1>2, <1>5
  <2>. QED
    BY <1>5, <2>1 DEF SumsUp
<1>. DEFINE rest == T \ {Some(T)}
            last == IF T = {} THEN 0 ELSE f[Some(T)] + G(rest)[rest]
            g == [U \in SUBSET T |-> IF U # T THEN G(U)[U] ELSE last]
<1>6. ASSUME NEW U \in SUBSET T
      PROVE  g[U] = IF U = {} THEN 0 ELSE f[Some(U)] + g[U \ {Some(U)}]
  <2>1. CASE U = {}
    BY <1>5, <2>1
  <2>2. CASE U # {}
    <3>1. Some(U) \in U
      BY <2>2, SomeIsIn
    <3>2. U \ {Some(U)} \in SUBSET T /\ U \ {Some(U)} # T
      BY <3>1
    <3>3. g[U \ {Some(U)}] = G(U \ {Some(U)})[U \ {Some(U)}]
      BY <3>2
    <3>4. CASE U # T
      BY <1>4, <2>2, <3>3, <3>4
    <3>5. CASE U = T
      BY <2>2, <3>3, <3>5
    <3>. QED
      BY <3>4, <3>5
  <2>. QED
    BY <2>1, <2>2
<1>7. SumsUp(g, f, T)
  BY <1>6 DEF SumsUp
<1>. QED
  BY <1>1, <1>7

\* A sum is that of its last element and of the rest.
LEMMA SumUnfolds ==
  ASSUME NEW S, IsFiniteSet(S), NEW f
  PROVE  SumFunctionOnSet(f, S) =
           IF S = {} THEN 0 ELSE f[Some(S)] + SumFunctionOnSet(f, S \ {Some(S)})
<1>. DEFINE G(T) == CHOOSE g : SumsUp(g, f, T)
            V == S \ {Some(S)}
            h == [W \in SUBSET V |-> G(S)[W]]
<1>1. IsFiniteSet(V) /\ V \in SUBSET S
  BY FS_Subset
<1>2. SumsUp(G(S), f, S) /\ SumsUp(G(V), f, V)
  BY <1>1, SumsUpExists
<1>. HIDE DEF G
<1>3. SumsUp(h, f, V)
  BY <1>1, <1>2, SumsUpBelow
<1>4. h = G(V)
  BY <1>1, <1>2, <1>3, SumsUpUnique
<1>5. h[V] = G(S)[V]
  OBVIOUS
<1>6. G(S)[S] = IF S = {} THEN 0 ELSE f[Some(S)] + G(S)[V]
  BY <1>2 DEF SumsUp
<1>7. SumFunctionOnSet(f, S) = G(S)[S] /\ SumFunctionOnSet(f, V) = G(V)[V]
  BY SumIsChosen DEF G
<1>. QED
  BY <1>4, <1>5, <1>6, <1>7

LEMMA SumOfNone == \A f : SumFunctionOnSet(f, {}) = 0
  BY SumUnfolds, FS_EmptySet

LEMMA SumIsNat ==
  ASSUME NEW S, IsFiniteSet(S), NEW f, \A x \in S : f[x] \in Nat
  PROVE  SumFunctionOnSet(f, S) \in Nat
<1>. DEFINE B == { T \in SUBSET S : SumFunctionOnSet(f, T) \notin Nat }
<1>. SUFFICES ASSUME B # {} PROVE FALSE
  <2>. B = {} => S \notin B
    OBVIOUS
  <2>. QED
    OBVIOUS
<1>1. B \subseteq SUBSET S
  OBVIOUS
<1>2. PICK T \in B : \A U \in B : U \subseteq T => U = T
  <2>. HIDE DEF B
  <2>. QED
    BY <1>1, LeastSubset
<1>3. T # {} /\ IsFiniteSet(T)
  <2>1. SumFunctionOnSet(f, {}) \in Nat
    BY SumOfNone
  <2>. QED
    BY <1>2, <2>1, FS_Subset
<1>4. Some(T) \in T
  BY <1>3, SomeIsIn
<1>5. SumFunctionOnSet(f, T \ {Some(T)}) \in Nat
  BY <1>2, <1>4
<1>6. SumFunctionOnSet(f, T) = f[Some(T)] + SumFunctionOnSet(f, T \ {Some(T)})
  BY <1>3, SumUnfolds
<1>7. f[Some(T)] \in Nat
  BY <1>4
<1>. QED
  BY <1>2, <1>5, <1>6, <1>7

\* Any element may be taken out.
LEMMA SumTakesOut ==
  ASSUME NEW S, IsFiniteSet(S), NEW f, \A x \in S : f[x] \in Nat, NEW x \in S
  PROVE  SumFunctionOnSet(f, S) = f[x] + SumFunctionOnSet(f, S \ {x})
<1>. DEFINE Good(T) == \A y \in T :
                         SumFunctionOnSet(f, T) = f[y] + SumFunctionOnSet(f, T \ {y})
            B == { T \in SUBSET S : ~ Good(T) }
<1>. SUFFICES ASSUME B # {} PROVE FALSE
  <2>. B = {} => S \notin B
    OBVIOUS
  <2>. QED
    OBVIOUS
<1>1. B \subseteq SUBSET S
  OBVIOUS
<1>2. PICK T \in B : \A U \in B : U \subseteq T => U = T
  <2>. HIDE DEF B
  <2>. QED
    BY <1>1, LeastSubset
<1>3. PICK y \in T : SumFunctionOnSet(f, T) # f[y] + SumFunctionOnSet(f, T \ {y})
  BY <1>2
<1>. DEFINE z == Some(T)
<1>4. z \in T /\ IsFiniteSet(T) /\ T \subseteq S
  BY <1>2, SomeIsIn, FS_Subset
<1>5. SumFunctionOnSet(f, T) = f[z] + SumFunctionOnSet(f, T \ {z})
  BY <1>4, SumUnfolds
<1>6. y # z
  BY <1>3, <1>5
<1>7. Good(T \ {z}) /\ Good(T \ {y})
  BY <1>2, <1>3, <1>4
<1>8. SumFunctionOnSet(f, T \ {z}) = f[y] + SumFunctionOnSet(f, (T \ {z}) \ {y})
  BY <1>3, <1>6, <1>7
<1>9. SumFunctionOnSet(f, T \ {y}) = f[z] + SumFunctionOnSet(f, (T \ {y}) \ {z})
  BY <1>4, <1>6, <1>7
<1>10. SumFunctionOnSet(f, (T \ {z}) \ {y}) = SumFunctionOnSet(f, (T \ {y}) \ {z})
  <2>1. (T \ {z}) \ {y} = (T \ {y}) \ {z}
    OBVIOUS
  <2>. QED
    BY <2>1
<1>11. f[y] \in Nat /\ f[z] \in Nat /\ SumFunctionOnSet(f, (T \ {y}) \ {z}) \in Nat
  <2>1. IsFiniteSet((T \ {y}) \ {z}) /\ \A u \in (T \ {y}) \ {z} : f[u] \in Nat
    BY <1>4, FS_Subset
  <2>. QED
    BY <1>3, <1>4, <2>1, SumIsNat
<1>. HIDE DEF z
<1>. QED
  BY <1>3, <1>5, <1>8, <1>9, <1>10, <1>11

\* A sum over a part of a set, where the elements count the same, is no greater.
LEMMA SumOfPart ==
  ASSUME NEW S, IsFiniteSet(S), NEW P \in SUBSET S, NEW f, NEW g,
         \A x \in S : g[x] \in Nat, \A x \in P : f[x] = g[x]
  PROVE  SumFunctionOnSet(f, P) <= SumFunctionOnSet(g, S)
<1>. DEFINE Good(T) == SumFunctionOnSet(f, P \cap T) <= SumFunctionOnSet(g, T)
            B == { T \in SUBSET S : ~ Good(T) }
<1>. SUFFICES ASSUME B # {} PROVE FALSE
  <2>1. B = {} => Good(S)
    OBVIOUS
  <2>2. P \cap S = P
    OBVIOUS
  <2>. QED
    BY <2>1, <2>2
<1>1. B \subseteq SUBSET S
  OBVIOUS
<1>2. PICK T \in B : \A U \in B : U \subseteq T => U = T
  <2>. HIDE DEF B
  <2>. QED
    BY <1>1, LeastSubset
<1>3. IsFiniteSet(T) /\ T \subseteq S /\ ~ Good(T)
  BY <1>2, FS_Subset
<1>4. T # {}
  <2>1. SumFunctionOnSet(f, {}) = 0 /\ SumFunctionOnSet(g, {}) = 0
    BY SumOfNone
  <2>2. P \cap {} = {}
    OBVIOUS
  <2>. QED
    BY <1>3, <2>1, <2>2
<1>5. PICK x : x = Some(T) /\ x \in T
  BY <1>4, SomeIsIn
<1>. DEFINE V == T \ {x}
            Q == P \cap T
<1>6. Good(V)
  BY <1>2, <1>5
<1>7. SumFunctionOnSet(g, T) = g[x] + SumFunctionOnSet(g, V)
  BY <1>3, <1>4, <1>5, SumUnfolds
<1>8. SumFunctionOnSet(g, V) \in Nat /\ g[x] \in Nat
  <2>1. IsFiniteSet(V) /\ \A y \in V : g[y] \in Nat
    BY <1>3, FS_Subset
  <2>. QED
    BY <1>3, <1>5, <2>1, SumIsNat
<1>9. IsFiniteSet(Q) /\ \A y \in Q : f[y] \in Nat
  BY <1>3, FS_Subset
<1>10. SumFunctionOnSet(f, P \cap V) \in Nat
  <2>1. IsFiniteSet(P \cap V) /\ \A y \in P \cap V : f[y] \in Nat
    BY <1>3, FS_Subset
  <2>. QED
    BY <2>1, SumIsNat
<1>11. CASE x \in P
  <2>1. Q \ {x} = P \cap V /\ x \in Q
    BY <1>5, <1>11
  <2>2. SumFunctionOnSet(f, Q) = f[x] + SumFunctionOnSet(f, Q \ {x})
    <3>. HIDE DEF Q
    <3>. QED
      BY <1>9, <2>1, SumTakesOut
  <2>3. f[x] = g[x]
    BY <1>11
  <2>. QED
    BY <1>3, <1>6, <1>7, <1>8, <1>10, <2>1, <2>2, <2>3
<1>12. CASE x \notin P
  <2>1. Q = P \cap V
    BY <1>12
  <2>2. SumFunctionOnSet(f, Q) = SumFunctionOnSet(f, P \cap V)
    BY <2>1
  <2>. HIDE DEF Q, V
  <2>3. SumFunctionOnSet(f, Q) <= SumFunctionOnSet(g, T)
    BY <1>6, <1>7, <1>8, <1>10, <2>2
  <2>. QED
    BY <1>3, <2>3 DEF Q
<1>. QED
  BY <1>11, <1>12

\* Two functions that agree on a finite set have the same sum over it.
LEMMA SumOfEquals ==
  ASSUME NEW S, IsFiniteSet(S), NEW f, NEW g,
         \A x \in S : g[x] \in Nat /\ f[x] = g[x]
  PROVE  SumFunctionOnSet(f, S) = SumFunctionOnSet(g, S)
<1>1. \A x \in S : f[x] \in Nat
  OBVIOUS
<1>2. SumFunctionOnSet(f, S) <= SumFunctionOnSet(g, S)
  BY SumOfPart
<1>3. SumFunctionOnSet(g, S) <= SumFunctionOnSet(f, S)
  BY <1>1, SumOfPart
<1>4. SumFunctionOnSet(f, S) \in Nat /\ SumFunctionOnSet(g, S) \in Nat
  BY <1>1, SumIsNat
<1>. QED
  BY <1>2, <1>3, <1>4


-----------------------------------------------------------------------------
(* The inductive invariant.                                                *)

Stages ==
  /\ \A d \in Delivery : pc[d] \in IssueStage
  /\ \A p \in Payment : pc[p] \in PayStage

\* An invoice is that of its handler's event; the handler makes it and announces it
\* in this order.
IssuerKnows ==
  \A d \in Delivery :
    /\ invoices[d] # NoInvoice => invoices[d].event = EventOf[d]
    /\ pc[d] \in {"received", "quoted"} => invoices[d] = NoInvoice
    /\ pc[d] \in {"received", "quoted", "issued"} => announced[d].issued = 0
    /\ pc[d] = "issued" \/ announced[d].issued > 0 => invoices[d] # NoInvoice
    /\ announced[d].issued <= 1

\* A payment asks for points once it is paid, and goes on once they are recorded.
PayerKnows ==
  \A p \in Payment :
    /\ session[p] # "idle" => invoices[InvoiceOf[p]].status = "paid"
    /\ pc[p] \in {"accrued", "done"} => Clients!Recorded(p)

\* invoice.paid is announced by the payment that won.
AnnouncedByWinner ==
  \A d \in Delivery :
    /\ announced[d].paid <= 1
    /\ announced[d].paid > 0 => \E p \in Payment : InvoiceOf[p] = d /\ pc[p] = "done"

\* What a call knows in client-service.
CallsKnow ==
  /\ Clients!OneEntryPerInvoice
  /\ Clients!AnswersAreTrue
  /\ \A p \in Payment : session[p] \in {"idle", "called", "read", "adding"} => p \notin entries

IInv ==
  /\ TypeOK /\ Stages
  /\ InvoicedOnce /\ PaidOnce
  /\ IssuerKnows /\ PayerKnows
  /\ AnnouncedByWinner /\ CallsKnow

-----------------------------------------------------------------------------
(* Lemmas.                                                                 *)

LEMMA Constants ==
  /\ Price \in [Event -> Nat]
  /\ EventOf \in [Delivery -> Event]
  /\ InvoiceOf \in [Payment -> Delivery]
  /\ Delivery \cap Payment = {}
BY BillingAssumption

\* A call for points names the invoice that its payment names.
LEMMA AsksType ==
  \A p \in Payment : /\ Asks[p].client \in Client /\ Asks[p].invoice = InvoiceOf[p]
                     /\ Asks[p].paid \in Nat
BY BillingAssumption DEF Asks

LEMMA PointsType == \A p \in Payment : Clients!Points(p) \in Nat
<1>. SUFFICES ASSUME NEW p \in Payment PROVE Clients!Points(p) \in Nat
  OBVIOUS
<1>1. Asks[p].paid \in Nat /\ PointValue \in Nat /\ PointValue > 0
  BY AsksType, BillingAssumption
<1>. QED
  BY <1>1 DEF Clients!Points, Clients!PointsFor

LEMMA CommissionType == \A total \in Nat : CommissionFor(total) \in Nat
BY DEF CommissionFor

LEMMA NoInvoiceType == NoInvoice.status = "absent" /\ NoInvoice \notin Invoice
BY DEF NoInvoice, Invoice

-----------------------------------------------------------------------------
(* The steps.                                                              *)

\* A step that moves one handler on and does nothing else.
LEMMA MoveOnKeeps ==
  ASSUME IInv, NEW h \in Delivery \cup Payment, NEW stage, pc' = [pc EXCEPT ![h] = stage],
         UNCHANGED <<invoices, inbox, announced, clientVars>>,
         h \in Delivery => /\ stage \in IssueStage \ {"received", "issued"}
                           /\ stage = "quoted" => pc[h] = "received",
         h \in Payment => /\ stage \in PayStage \ {"done"} /\ pc[h] # "done"
                          /\ stage \in {"paid", "accruing", "accrued"} => Won(h)
                          /\ stage = "accrued" => Clients!Recorded(h)
  PROVE  IInv'
<1>1. \A x \in Delivery \cup Payment : pc'[x] = IF x = h THEN stage ELSE pc[x]
  BY DEF IInv, TypeOK
<1>2. UNCHANGED <<balance, entries, earned, session, seen, overtaken>>
  BY DEF clientVars
<1>3. CallsKnow' /\ Clients!TypeOK'
  BY <1>2 DEF IInv, TypeOK, CallsKnow, Clients!TypeOK, Clients!OneEntryPerInvoice,
     Clients!AnswersAreTrue, Clients!Recorded
<1>4. TypeOK' /\ Stages'
  <2>1. pc' \in [Delivery \cup Payment -> IssueStage \cup PayStage]
    BY DEF IInv, TypeOK
  <2>. QED
    BY <1>1, <1>3, <2>1, Constants DEF IInv, TypeOK, Stages
<1>5. InvoicedOnce'
  BY DEF IInv, InvoicedOnce, Invoiced
<1>6. PaidOnce'
  <2>1. \A p \in Payment : Won(p)' => Won(p)
    BY <1>1 DEF Won
  <2>. QED
    BY <2>1 DEF IInv, PaidOnce
<1>7. IssuerKnows'
  BY <1>1, Constants DEF IInv, IssuerKnows
<1>8. PayerKnows'
  BY <1>1, <1>2, Constants DEF IInv, PayerKnows, Clients!Recorded
<1>9. AnnouncedByWinner'
  BY <1>1, Constants DEF IInv, AnnouncedByWinner
<1>. QED
  BY <1>3, <1>4, <1>5, <1>6, <1>7, <1>8, <1>9 DEF IInv

LEMMA IssueKeeps ==
  ASSUME IInv, NEW d \in Delivery, NEW answered \in BOOLEAN, Issue(d, answered),
         UNCHANGED clientVars
  PROVE  IInv'
<1>. DEFINE e == EventOf[d]
            invoice == [event |-> e, status |-> "issued", total |-> Price[e],
                        commission |-> CommissionFor(Price[e])]
<1>1. /\ pc[d] = "quoted" /\ e \notin inbox /\ ~Invoiced(e) /\ inbox' = inbox \cup {e}
      /\ invoices' = [invoices EXCEPT ![d] = invoice]
      /\ pc' = [pc EXCEPT ![d] = IF answered THEN "issued" ELSE "failed"]
      /\ UNCHANGED <<announced, balance, entries, earned, session, seen, overtaken>>
  BY DEF Issue, Store, clientVars
<1>2. e \in Event /\ invoice \in Invoice /\ invoice # NoInvoice
      /\ invoice.event = e /\ invoice.status = "issued"
  <2>1. e \in Event /\ Price[e] \in Nat /\ CommissionFor(Price[e]) \in Nat
    BY Constants, CommissionType
  <2>. QED
    BY <2>1, NoInvoiceType DEF Invoice
<1>. HIDE DEF invoice
<1>3. /\ \A x \in Delivery : invoices'[x] = IF x = d THEN invoice ELSE invoices[x]
      /\ \A x \in Delivery \cup Payment :
           pc'[x] = IF x = d THEN (IF answered THEN "issued" ELSE "failed") ELSE pc[x]
  BY <1>1 DEF IInv, TypeOK
<1>4. invoices[d] = NoInvoice /\ announced[d].issued = 0
  BY <1>1 DEF IInv, IssuerKnows
<1>5. \A p \in Payment : p # d
  BY Constants
<1>6. CallsKnow' /\ Clients!TypeOK'
  BY <1>1 DEF IInv, TypeOK, CallsKnow, Clients!TypeOK, Clients!OneEntryPerInvoice,
     Clients!AnswersAreTrue, Clients!Recorded
<1>7. TypeOK' /\ Stages'
  <2>1. invoices' \in [Delivery -> Invoice \cup {NoInvoice}]
    BY <1>1, <1>2 DEF IInv, TypeOK
  <2>2. pc' \in [Delivery \cup Payment -> IssueStage \cup PayStage]
    BY <1>1 DEF IInv, TypeOK, IssueStage
  <2>3. inbox' \subseteq Event
    BY <1>1, <1>2 DEF IInv, TypeOK
  <2>4. Stages'
    BY <1>3, <1>5 DEF IInv, Stages, IssueStage
  <2>. QED
    BY <1>1, <1>6, <2>1, <2>2, <2>3, <2>4 DEF IInv, TypeOK
<1>8. InvoicedOnce'
  BY <1>1, <1>2, <1>3, <1>4 DEF IInv, InvoicedOnce, Invoiced
<1>9. \A p \in Payment : invoices[InvoiceOf[p]].status = "paid" =>
        invoices'[InvoiceOf[p]].status = "paid"
  BY <1>3, <1>4, Constants, NoInvoiceType
<1>10. PaidOnce'
  BY <1>3, <1>5, <1>9 DEF IInv, PaidOnce, Won
<1>11. IssuerKnows'
  BY <1>1, <1>2, <1>3, <1>4 DEF IInv, IssuerKnows
<1>12. PayerKnows'
  BY <1>1, <1>3, <1>5, <1>9 DEF IInv, PayerKnows, Clients!Recorded
<1>13. AnnouncedByWinner'
  BY <1>1, <1>3, <1>5 DEF IInv, AnnouncedByWinner
<1>. QED
  BY <1>6, <1>7, <1>8, <1>10, <1>11, <1>12, <1>13 DEF IInv

LEMMA PublishIssuedKeeps ==
  ASSUME IInv, NEW d \in Delivery, PublishIssued(d), UNCHANGED clientVars
  PROVE  IInv'
<1>1. /\ pc[d] = "issued" /\ announced' = [announced EXCEPT ![d].issued = @ + 1]
      /\ pc' = [pc EXCEPT ![d] = "done"]
      /\ UNCHANGED <<invoices, inbox, balance, entries, earned, session, seen, overtaken>>
  BY DEF PublishIssued, clientVars
<1>2. /\ \A x \in Delivery : /\ announced'[x].paid = announced[x].paid
                             /\ announced'[x].issued = announced[x].issued + (IF x = d THEN 1 ELSE 0)
      /\ announced' \in [Delivery -> [issued : Nat, paid : Nat]]
      /\ \A x \in Delivery \cup Payment : pc'[x] = IF x = d THEN "done" ELSE pc[x]
      /\ \A x \in Delivery : announced[x].issued \in Nat
  BY <1>1 DEF IInv, TypeOK
<1>3. invoices[d] # NoInvoice /\ announced[d].issued = 0
  BY <1>1 DEF IInv, IssuerKnows
<1>4. \A p \in Payment : p # d
  BY Constants
<1>5. CallsKnow' /\ Clients!TypeOK'
  BY <1>1 DEF IInv, TypeOK, CallsKnow, Clients!TypeOK, Clients!OneEntryPerInvoice,
     Clients!AnswersAreTrue, Clients!Recorded
<1>6. TypeOK' /\ Stages'
  <2>1. pc' \in [Delivery \cup Payment -> IssueStage \cup PayStage]
    BY <1>1 DEF IInv, TypeOK, IssueStage
  <2>2. Stages'
    BY <1>2, <1>4 DEF IInv, Stages, IssueStage
  <2>. QED
    BY <1>1, <1>2, <1>5, <2>1, <2>2 DEF IInv, TypeOK
<1>7. InvoicedOnce'
  BY <1>1 DEF IInv, InvoicedOnce, Invoiced
<1>8. PaidOnce'
  BY <1>1, <1>2, <1>4 DEF IInv, PaidOnce, Won
<1>9. IssuerKnows'
  BY <1>1, <1>2, <1>3 DEF IInv, IssuerKnows
<1>10. PayerKnows'
  BY <1>1, <1>2, <1>4 DEF IInv, PayerKnows, Clients!Recorded
<1>11. AnnouncedByWinner'
  BY <1>2, <1>4 DEF IInv, AnnouncedByWinner
<1>. QED
  BY <1>5, <1>6, <1>7, <1>8, <1>9, <1>10, <1>11 DEF IInv

LEMMA PayKeeps ==
  ASSUME IInv, NEW p \in Payment, NEW answered \in BOOLEAN, Pay(p, answered),
         UNCHANGED clientVars
  PROVE  IInv'
<1>. DEFINE d == InvoiceOf[p]
            stage == IF answered THEN "paid" ELSE "failed"
<1>1. /\ pc[p] = "received" /\ invoices[d].status = "issued"
      /\ invoices' = [invoices EXCEPT ![d].status = "paid"]
      /\ pc' = [pc EXCEPT ![p] = stage]
      /\ UNCHANGED <<inbox, announced, balance, entries, earned, session, seen, overtaken>>
  BY DEF Pay, MarkPaid, clientVars
<1>2. d \in Delivery /\ invoices[d] \in Invoice
  BY <1>1, Constants, NoInvoiceType DEF IInv, TypeOK
<1>3. /\ invoices' \in [Delivery -> Invoice \cup {NoInvoice}]
      /\ \A x \in Delivery : /\ invoices'[x] = NoInvoice <=> invoices[x] = NoInvoice
                             /\ invoices[x] # NoInvoice => invoices'[x].event = invoices[x].event
                             /\ invoices'[x].status = IF x = d THEN "paid" ELSE invoices[x].status
  <2>1. [invoices[d] EXCEPT !.status = "paid"] \in Invoice
    BY <1>2 DEF Invoice
  <2>2. \A x \in Delivery : invoices'[x] = IF x = d THEN [invoices[d] EXCEPT !.status = "paid"]
                                                    ELSE invoices[x]
    BY <1>1, <1>2 DEF IInv, TypeOK
  <2>3. /\ [invoices[d] EXCEPT !.status = "paid"].event = invoices[d].event
        /\ [invoices[d] EXCEPT !.status = "paid"].status = "paid"
    BY <1>2 DEF Invoice
  <2>4. invoices' \in [Delivery -> Invoice \cup {NoInvoice}]
    BY <1>1, <2>1, <2>2 DEF IInv, TypeOK
  <2>. QED
    BY <1>2, <2>1, <2>2, <2>3, <2>4, NoInvoiceType
<1>4. \A x \in Delivery \cup Payment : pc'[x] = IF x = p THEN stage ELSE pc[x]
  BY <1>1 DEF IInv, TypeOK
<1>5. \A x \in Delivery : x # p
  BY Constants
<1>6. CallsKnow' /\ Clients!TypeOK'
  BY <1>1 DEF IInv, TypeOK, CallsKnow, Clients!TypeOK, Clients!OneEntryPerInvoice,
     Clients!AnswersAreTrue, Clients!Recorded
<1>7. TypeOK' /\ Stages'
  <2>1. stage \in PayStage
    BY DEF PayStage
  <2>2. pc' \in [Delivery \cup Payment -> IssueStage \cup PayStage]
    BY <1>1, <2>1 DEF IInv, TypeOK
  <2>3. Stages'
    BY <1>4, <1>5, <2>1 DEF IInv, Stages
  <2>. QED
    BY <1>1, <1>3, <1>6, <2>2, <2>3 DEF IInv, TypeOK
<1>8. InvoicedOnce'
  <2>1. \A e : Invoiced(e)' <=> Invoiced(e)
    BY <1>3 DEF Invoiced
  <2>. QED
    BY <1>1, <1>3, <2>1 DEF IInv, InvoicedOnce
<1>9. \A q \in Payment : InvoiceOf[q] \in Delivery
  BY Constants
<1>10. PaidOnce'
  <2>1. \A q \in Payment : InvoiceOf[q] = d => ~Won(q)
    BY <1>1 DEF IInv, PaidOnce
  <2>2. \A q \in Payment \ {p} : Won(q)' <=> Won(q)
    BY <1>4 DEF Won
  <2>. QED
    BY <1>3, <1>9, <2>1, <2>2 DEF IInv, PaidOnce
<1>11. IssuerKnows'
  BY <1>1, <1>3, <1>4, <1>5 DEF IInv, IssuerKnows
<1>12. PayerKnows'
  BY <1>1, <1>3, <1>4, <1>9 DEF IInv, PayerKnows, Clients!Recorded
<1>13. AnnouncedByWinner'
  BY <1>1, <1>4 DEF IInv, AnnouncedByWinner
<1>. QED
  BY <1>6, <1>7, <1>8, <1>10, <1>11, <1>12, <1>13 DEF IInv

LEMMA AnnouncePaidKeeps ==
  ASSUME IInv, NEW p \in Payment, AnnouncePaid(p), UNCHANGED clientVars
  PROVE  IInv'
<1>. DEFINE d == InvoiceOf[p]
<1>1. /\ pc[p] = "accrued" /\ announced' = [announced EXCEPT ![d].paid = @ + 1]
      /\ pc' = [pc EXCEPT ![p] = "done"] /\ d \in Delivery
      /\ UNCHANGED <<invoices, inbox, balance, entries, earned, session, seen, overtaken>>
  BY Constants DEF AnnouncePaid, clientVars
<1>2. /\ \A x \in Delivery : /\ announced'[x].issued = announced[x].issued
                             /\ announced'[x].paid = announced[x].paid + (IF x = d THEN 1 ELSE 0)
      /\ announced' \in [Delivery -> [issued : Nat, paid : Nat]]
      /\ \A x \in Delivery \cup Payment : pc'[x] = IF x = p THEN "done" ELSE pc[x]
      /\ \A x \in Delivery : announced[x].paid \in Nat
  BY <1>1 DEF IInv, TypeOK
<1>3. announced[d].paid = 0
  <2>1. ASSUME announced[d].paid > 0 PROVE FALSE
    <3>1. PICK q \in Payment : InvoiceOf[q] = d /\ pc[q] = "done"
      BY <1>1, <2>1 DEF IInv, AnnouncedByWinner
    <3>. QED
      BY <1>1, <3>1 DEF IInv, PaidOnce, Won
  <2>. QED
    BY <1>1, <1>2, <2>1
<1>4. \A x \in Delivery : x # p
  BY Constants
<1>5. CallsKnow' /\ Clients!TypeOK'
  BY <1>1 DEF IInv, TypeOK, CallsKnow, Clients!TypeOK, Clients!OneEntryPerInvoice,
     Clients!AnswersAreTrue, Clients!Recorded
<1>6. TypeOK' /\ Stages'
  <2>1. pc' \in [Delivery \cup Payment -> IssueStage \cup PayStage]
    BY <1>1 DEF IInv, TypeOK, IssueStage
  <2>2. Stages'
    BY <1>2, <1>4 DEF IInv, Stages, PayStage
  <2>. QED
    BY <1>1, <1>2, <1>5, <2>1, <2>2 DEF IInv, TypeOK
<1>7. InvoicedOnce'
  BY <1>1 DEF IInv, InvoicedOnce, Invoiced
<1>8. PaidOnce'
  <2>1. \A q \in Payment : Won(q)' <=> Won(q)
    BY <1>1, <1>2 DEF Won
  <2>. QED
    BY <1>1, <2>1 DEF IInv, PaidOnce
<1>9. IssuerKnows'
  BY <1>1, <1>2, <1>4 DEF IInv, IssuerKnows
<1>10. PayerKnows'
  BY <1>1, <1>2 DEF IInv, PayerKnows, Clients!Recorded
<1>11. AnnouncedByWinner'
  BY <1>1, <1>2, <1>3 DEF IInv, AnnouncedByWinner
<1>. QED
  BY <1>5, <1>6, <1>7, <1>8, <1>9, <1>10, <1>11 DEF IInv

LEMMA AccrueKeeps ==
  ASSUME IInv, NEW p \in Payment, Accrue(p)
  PROVE  IInv'
<1>1. /\ pc[p] = "paid" /\ pc' = [pc EXCEPT ![p] = "accruing"]
      /\ session[p] = "idle" /\ session' = [session EXCEPT ![p] = "called"]
      /\ UNCHANGED <<invoices, inbox, announced, balance, entries, earned, seen, overtaken>>
  BY DEF Accrue, Clients!Receive
<1>2. /\ \A x \in Delivery \cup Payment : pc'[x] = IF x = p THEN "accruing" ELSE pc[x]
      /\ \A q \in Payment : session'[q] = IF q = p THEN "called" ELSE session[q]
  BY <1>1 DEF IInv, TypeOK, Clients!TypeOK
<1>3. invoices[InvoiceOf[p]].status = "paid"
  BY <1>1 DEF IInv, PaidOnce, Won
<1>4. \A x \in Delivery : x # p
  BY Constants
<1>5. TypeOK' /\ Stages'
  <2>1. pc' \in [Delivery \cup Payment -> IssueStage \cup PayStage]
    BY <1>1 DEF IInv, TypeOK, PayStage
  <2>2. Stages'
    BY <1>2, <1>4 DEF IInv, Stages, PayStage
  <2>3. Clients!TypeOK'
    BY <1>1 DEF IInv, TypeOK, Clients!TypeOK, Clients!Session
  <2>. QED
    BY <1>1, <2>1, <2>2, <2>3 DEF IInv, TypeOK
<1>6. CallsKnow'
  BY <1>1, <1>2 DEF IInv, CallsKnow, Clients!OneEntryPerInvoice, Clients!AnswersAreTrue,
     Clients!Recorded
<1>7. InvoicedOnce'
  BY <1>1 DEF IInv, InvoicedOnce, Invoiced
<1>8. PaidOnce'
  <2>1. \A q \in Payment : Won(q)' <=> Won(q)
    BY <1>1, <1>2 DEF Won
  <2>. QED
    BY <1>1, <2>1 DEF IInv, PaidOnce
<1>9. IssuerKnows'
  BY <1>1, <1>2, <1>4 DEF IInv, IssuerKnows
<1>10. PayerKnows'
  BY <1>1, <1>2, <1>3 DEF IInv, PayerKnows, Clients!Recorded
<1>11. AnnouncedByWinner'
  BY <1>1, <1>2 DEF IInv, AnnouncedByWinner
<1>. QED
  BY <1>5, <1>6, <1>7, <1>8, <1>9, <1>10, <1>11 DEF IInv

\* What a call does in client-service, as far as billing can see.
LEMMA CallKeeps ==
  ASSUME IInv, NEW p \in Payment, Clients!AddLoyaltyPoints(p)
  PROVE  /\ Clients!TypeOK' /\ CallsKnow'
         /\ entries \subseteq entries'
         /\ session[p] # "idle"
         /\ \A q \in Payment \ {p} : session'[q] = session[q]
<1>. USE DEF Clients!Ended
<1>0. /\ Clients!TypeOK /\ CallsKnow
      /\ Asks[p].client \in Client /\ Clients!Points(p) \in Nat
  BY AsksType, PointsType DEF IInv, TypeOK
<1>1. CASE \E answered \in BOOLEAN : Clients!AddEntry(p, answered)
  <2>1. PICK answered \in BOOLEAN : Clients!AddEntry(p, answered)
    BY <1>1
  <2>2. /\ session[p] = "adding" /\ ~Clients!Recorded(p) /\ entries' = entries \cup {p}
        /\ session' = [session EXCEPT ![p] = IF answered THEN "added" ELSE "failed"]
        /\ earned' = [earned EXCEPT ![Asks[p].client] = @ + Clients!Points(p)]
        /\ balance' = IF Clients!Points(p) = 0 THEN balance
                      ELSE [balance EXCEPT ![Asks[p].client] = seen[p] + Clients!Points(p)]
        /\ seen' = seen /\ overtaken' \subseteq overtaken \cup Payment
    BY <2>1 DEF Clients!AddEntry, Clients!Store, Clients!Overtakes
  <2>3. Clients!TypeOK'
    BY <1>0, <2>2 DEF Clients!TypeOK, Clients!Session
  <2>4. \A q \in Payment :
          session'[q] = IF q = p THEN (IF answered THEN "added" ELSE "failed") ELSE session[q]
    BY <1>0, <2>2 DEF Clients!TypeOK
  <2>5. p \notin entries
    BY <2>2 DEF Clients!Recorded
  <2>6. Clients!OneEntryPerInvoice'
    BY <1>0, <2>2 DEF CallsKnow, Clients!OneEntryPerInvoice, Clients!Recorded
  <2>7. Clients!AnswersAreTrue'
    BY <1>0, <2>2, <2>4, <2>5 DEF CallsKnow, Clients!AnswersAreTrue, Clients!Recorded
  <2>. QED
    BY <1>0, <2>2, <2>3, <2>4, <2>5, <2>6, <2>7 DEF CallsKnow
<1>2. CASE Clients!ReadClient(p)
  <2>1. /\ session[p] = "called" /\ session' = [session EXCEPT ![p] = "read"]
        /\ seen' = [seen EXCEPT ![p] = balance[Asks[p].client]]
        /\ UNCHANGED <<balance, entries, earned, overtaken>>
    BY <1>2 DEF Clients!ReadClient
  <2>2. \A q \in Payment : session'[q] = IF q = p THEN "read" ELSE session[q]
    BY <1>0, <2>1 DEF Clients!TypeOK
  <2>3. Clients!TypeOK'
    BY <1>0, <2>1 DEF Clients!TypeOK, Clients!Session
  <2>. QED
    BY <1>0, <2>1, <2>2, <2>3 DEF CallsKnow, Clients!OneEntryPerInvoice,
       Clients!AnswersAreTrue, Clients!Recorded
<1>3. CASE Clients!LookForDuplicate(p) \/ Clients!LoseRace(p) \/ Clients!Fail(p)
  <2>1. PICK stage \in {"known", "adding", "failed"} :
          /\ session' = [session EXCEPT ![p] = stage]
          /\ stage = "known" => Clients!Recorded(p)
    BY <1>3 DEF Clients!LookForDuplicate, Clients!LoseRace, Clients!Fail
  <2>2. session[p] \in {"called", "read", "adding"} /\ UNCHANGED <<balance, entries, earned, seen, overtaken>>
    BY <1>3 DEF Clients!LookForDuplicate, Clients!LoseRace, Clients!Fail
  <2>3. \A q \in Payment : session'[q] = IF q = p THEN stage ELSE session[q]
    BY <1>0, <2>1 DEF Clients!TypeOK
  <2>4. Clients!TypeOK'
    BY <1>0, <2>1, <2>2 DEF Clients!TypeOK, Clients!Session
  <2>5. p \notin entries
    BY <1>0, <2>2 DEF CallsKnow
  <2>. QED
    BY <1>0, <2>1, <2>2, <2>3, <2>4, <2>5 DEF CallsKnow, Clients!OneEntryPerInvoice,
       Clients!AnswersAreTrue, Clients!Recorded
<1>. QED
  BY <1>1, <1>2, <1>3 DEF Clients!AddLoyaltyPoints

LEMMA ClientsKeep ==
  ASSUME IInv, NEW p \in Payment, Clients!AddLoyaltyPoints(p), UNCHANGED billingVars
  PROVE  IInv'
<1>1. UNCHANGED <<invoices, inbox, pc, announced>>
  BY DEF billingVars
<1>2. /\ Clients!TypeOK' /\ CallsKnow' /\ entries \subseteq entries' /\ session[p] # "idle"
      /\ \A q \in Payment \ {p} : session'[q] = session[q]
  BY CallKeeps
<1>3. TypeOK' /\ Stages'
  BY <1>1, <1>2 DEF IInv, TypeOK, Stages
<1>4. InvoicedOnce' /\ PaidOnce'
  BY <1>1 DEF IInv, InvoicedOnce, Invoiced, PaidOnce, Won
<1>5. IssuerKnows' /\ AnnouncedByWinner'
  BY <1>1 DEF IInv, IssuerKnows, AnnouncedByWinner
<1>6. PayerKnows'
  BY <1>1, <1>2 DEF IInv, PayerKnows, Clients!Recorded
<1>. QED
  BY <1>2, <1>3, <1>4, <1>5, <1>6 DEF IInv

LEMMA IssuingKeeps ==
  ASSUME IInv, NEW d \in Delivery, IssueInvoice(d), UNCHANGED clientVars
  PROVE  IInv'
<1>0. d \notin Payment
  BY Constants
<1>1. CASE FetchDetails(d) \/ Skip(d)
  <2>1. PICK stage \in {"quoted", "done"} :
          /\ pc' = [pc EXCEPT ![d] = stage]
          /\ stage = "quoted" => pc[d] = "received"
    BY <1>1 DEF FetchDetails, Skip
  <2>2. UNCHANGED <<invoices, inbox, announced>>
    BY <1>1 DEF FetchDetails, Skip
  <2>3. stage \in IssueStage \ {"received", "issued"}
    BY DEF IssueStage
  <2>. QED
    BY <1>0, <2>1, <2>2, <2>3, MoveOnKeeps
<1>2. CASE PublishIssued(d)
  BY <1>2, PublishIssuedKeeps
<1>3. CASE \E answered \in BOOLEAN : Issue(d, answered)
  BY <1>3, IssueKeeps
<1>. QED
  BY <1>1, <1>2, <1>3 DEF IssueInvoice

LEMMA PayingKeeps ==
  ASSUME IInv, NEW p \in Payment, PayInvoice(p), UNCHANGED clientVars
  PROVE  IInv'
<1>0. p \notin Delivery
  BY Constants
<1>1. CASE RefusePay(p)
  <2>1. /\ pc[p] = "received" /\ pc' = [pc EXCEPT ![p] = "refused"]
        /\ UNCHANGED <<invoices, inbox, announced>>
    BY <1>1 DEF RefusePay
  <2>. QED
    BY <1>0, <2>1, MoveOnKeeps DEF PayStage
<1>2. CASE HearOfPoints(p)
  <2>1. /\ pc[p] = "accruing" /\ pc' = [pc EXCEPT ![p] = "accrued"]
        /\ session[p] \in {"added", "known"} /\ UNCHANGED <<invoices, inbox, announced>>
    BY <1>2 DEF HearOfPoints
  <2>2. Clients!Recorded(p)
    BY <2>1 DEF IInv, CallsKnow, Clients!AnswersAreTrue, Clients!Recorded
  <2>. QED
    BY <1>0, <2>1, <2>2, MoveOnKeeps DEF PayStage, Won
<1>3. CASE AnnouncePaid(p)
  BY <1>3, AnnouncePaidKeeps
<1>4. CASE \E answered \in BOOLEAN : Pay(p, answered)
  BY <1>4, PayKeeps
<1>. QED
  BY <1>1, <1>2, <1>3, <1>4 DEF PayInvoice

LEMMA GiveUpKeeps ==
  ASSUME IInv, NEW h \in Delivery \cup Payment, GiveUp(h), UNCHANGED clientVars
  PROVE  IInv'
<1>1. /\ pc' = [pc EXCEPT ![h] = "failed"] /\ UNCHANGED <<invoices, inbox, announced>>
      /\ pc[h] # "done"
  BY DEF GiveUp
<1>2. "failed" \in IssueStage \ {"received", "issued"} /\ "failed" \in PayStage \ {"done"}
  BY DEF IssueStage, PayStage
<1>. QED
  BY <1>1, <1>2, MoveOnKeeps

-----------------------------------------------------------------------------
(* The theorems.                                                           *)

LEMMA InvInitial == Init => IInv
<1>. SUFFICES ASSUME Init PROVE IInv
  OBVIOUS
<1>1. /\ \A d \in Delivery : invoices[d] = NoInvoice /\ announced[d] = [issued |-> 0, paid |-> 0]
      /\ \A h \in Delivery \cup Payment : pc[h] = "received"
      /\ inbox = {} /\ entries = {}
      /\ \A p \in Payment : session[p] = "idle"
  BY DEF Init, Clients!Init
<1>2. TypeOK /\ Stages
  <2>1. pc \in [Delivery \cup Payment -> IssueStage \cup PayStage] /\ Stages
    BY <1>1 DEF Init, Stages, IssueStage, PayStage
  <2>2. Clients!TypeOK
    BY DEF Init, Clients!Init, Clients!TypeOK, Clients!Session
  <2>3. announced \in [Delivery -> [issued : Nat, paid : Nat]]
    BY DEF Init
  <2>4. invoices \in [Delivery -> Invoice \cup {NoInvoice}] /\ inbox \subseteq Event
    BY DEF Init
  <2>. QED
    BY <2>1, <2>2, <2>3, <2>4 DEF TypeOK
<1>3. InvoicedOnce /\ PaidOnce
  BY <1>1 DEF InvoicedOnce, Invoiced, PaidOnce, Won
<1>4. IssuerKnows /\ PayerKnows /\ AnnouncedByWinner
  BY <1>1 DEF IssuerKnows, PayerKnows, AnnouncedByWinner
<1>5. CallsKnow
  BY <1>1 DEF CallsKnow, Clients!OneEntryPerInvoice, Clients!AnswersAreTrue
<1>. QED
  BY <1>2, <1>3, <1>4, <1>5 DEF IInv

LEMMA InvStep == IInv /\ [Next]_vars => IInv'
<1>. SUFFICES ASSUME IInv, [Next]_vars PROVE IInv'
  OBVIOUS
<1>1. CASE \E d \in Delivery : IssueInvoice(d) /\ UNCHANGED clientVars
  BY <1>1, IssuingKeeps
<1>2. CASE \E p \in Payment : PayInvoice(p) /\ UNCHANGED clientVars
  BY <1>2, PayingKeeps
<1>3. CASE \E h \in Delivery \cup Payment : GiveUp(h) /\ UNCHANGED clientVars
  BY <1>3, GiveUpKeeps
<1>4. CASE \E p \in Payment : Accrue(p)
  BY <1>4, AccrueKeeps
<1>5. CASE \E p \in Payment : Clients!AddLoyaltyPoints(p) /\ UNCHANGED billingVars
  BY <1>5, ClientsKeep
<1>6. CASE UNCHANGED vars
  <2>1. UNCHANGED <<invoices, inbox, pc, announced, balance, entries, earned, session, seen, overtaken>>
    BY <1>6 DEF vars
  <2>2. TypeOK' /\ Stages'
    BY <2>1 DEF IInv, TypeOK, Stages, Clients!TypeOK
  <2>3. InvoicedOnce' /\ PaidOnce'
    BY <2>1 DEF IInv, InvoicedOnce, Invoiced, PaidOnce, Won
  <2>4. IssuerKnows' /\ PayerKnows' /\ AnnouncedByWinner'
    BY <2>1 DEF IInv, IssuerKnows, PayerKnows, AnnouncedByWinner, Clients!Recorded
  <2>5. CallsKnow'
    BY <2>1 DEF IInv, CallsKnow, Clients!OneEntryPerInvoice, Clients!AnswersAreTrue,
       Clients!Recorded
  <2>. QED
    BY <2>2, <2>3, <2>4, <2>5 DEF IInv
<1>. QED
  BY <1>1, <1>2, <1>3, <1>4, <1>5, <1>6 DEF Next

\* What each handler, payment and call for points knows is true in every state.
THEOREM Invariance == Spec => []IInv
BY InvInitial, InvStep, PTL DEF Spec

\* Billing and its calls to client-service keep every variable within its type.
THEOREM TypeCorrect == Spec => []TypeOK
<1>1. IInv => TypeOK
  BY DEF IInv
<1>. QED
  BY <1>1, Invariance, PTL

\* Redelivered or not, a completed visit is marked exactly if it has an invoice, and
\* it has one at most.
THEOREM OneInvoiceForVisit == Spec => []InvoicedOnce
<1>1. IInv => InvoicedOnce
  BY DEF IInv
<1>. QED
  BY <1>1, Invariance, PTL

\* Of all requests to pay one invoice, one is let through.
THEOREM OnePayment == Spec => []PaidOnce
<1>1. IInv => PaidOnce
  BY DEF IInv
<1>. QED
  BY <1>1, Invariance, PTL

\* Points come with paid invoices only, and once with each of them.
THEOREM PointsFollowPayment == Spec => []PointsOnlyForPaid
<1>1. IInv => PointsOnlyForPaid
  BY DEF IInv, PayerKnows, CallsKnow, TypeOK, Clients!TypeOK, PointsOnlyForPaid
<1>. QED
  BY <1>1, Invariance, PTL

-----------------------------------------------------------------------------
(* What is announced.                                                      *)

\* The commission of an invoice is that of the price its visit was booked at.
CommissionsFixed ==
  \A d \in Delivery : invoices[d] # NoInvoice =>
    invoices[d].commission = CommissionFor(Price[EventOf[d]])

\* However many deliveries there may be, only finitely many have made an invoice.
Made == { d \in Delivery : invoices[d] # NoInvoice }

FinitelyMade == IsFiniteSet(Made)

\* Invoices come one at a time, and all that changes in one later is its status.
LEMMA InvoiceSteps ==
  ASSUME IInv, [Next]_vars
  PROVE  \/ UNCHANGED invoices
         \/ \E d \in Delivery :
              /\ \A x \in Delivery \ {d} : invoices'[x] = invoices[x]
              /\ \/ invoices'[d].commission = CommissionFor(Price[EventOf[d]])
                 \/ /\ invoices[d] # NoInvoice
                    /\ invoices'[d].commission = invoices[d].commission
<1>1. CASE \E d \in Delivery, answered \in BOOLEAN : Issue(d, answered)
  <2>1. PICK d \in Delivery, answered \in BOOLEAN : Issue(d, answered)
    BY <1>1
  <2>2. invoices' = [invoices EXCEPT ![d] =
                      [event |-> EventOf[d], status |-> "issued",
                       total |-> Price[EventOf[d]],
                       commission |-> CommissionFor(Price[EventOf[d]])]]
    BY <2>1 DEF Issue, Store
  <2>. QED
    BY <2>2 DEF IInv, TypeOK
<1>2. CASE \E p \in Payment, answered \in BOOLEAN : Pay(p, answered)
  <2>1. PICK p \in Payment, answered \in BOOLEAN : Pay(p, answered)
    BY <1>2
  <2>2. PICK d \in Delivery : d = InvoiceOf[p]
    BY Constants
  <2>3. invoices[d].status = "issued" /\ invoices' = [invoices EXCEPT ![d].status = "paid"]
    BY <2>1, <2>2 DEF Pay, MarkPaid
  <2>4. invoices[d] # NoInvoice /\ invoices[d] \in Invoice
    BY <2>3, NoInvoiceType DEF IInv, TypeOK
  <2>5. invoices'[d] = [invoices[d] EXCEPT !.status = "paid"]
    BY <2>3 DEF IInv, TypeOK
  <2>6. invoices'[d].commission = invoices[d].commission
    BY <2>4, <2>5 DEF Invoice
  <2>7. \A x \in Delivery \ {d} : invoices'[x] = invoices[x]
    BY <2>3 DEF IInv, TypeOK
  <2>. QED
    BY <2>4, <2>6, <2>7
<1>3. CASE UNCHANGED invoices
  BY <1>3
<1>. QED
  BY <1>1, <1>2, <1>3 DEF Next, vars, IssueInvoice, PayInvoice, FetchDetails, Skip,
     PublishIssued, RefusePay, HearOfPoints, AnnouncePaid, GiveUp, Accrue, billingVars

LEMMA CommissionsStayFixed == Spec => []CommissionsFixed
<1>1. Init => CommissionsFixed
  BY DEF Init, CommissionsFixed
<1>2. IInv /\ CommissionsFixed /\ [Next]_vars => CommissionsFixed'
  BY InvoiceSteps DEF CommissionsFixed
<1>. QED
  BY <1>1, <1>2, Invariance, PTL DEF Spec

LEMMA MadeIsFinite == Spec => []FinitelyMade
<1>1. Init => FinitelyMade
  <2>. SUFFICES ASSUME Init PROVE IsFiniteSet(Made)
    BY DEF FinitelyMade
  <2>1. Made = {}
    BY DEF Init, Made
  <2>. QED
    BY <2>1, FS_EmptySet
<1>2. IInv /\ FinitelyMade /\ [Next]_vars => FinitelyMade'
  <2>. SUFFICES ASSUME IInv, FinitelyMade, [Next]_vars PROVE IsFiniteSet(Made')
    BY DEF FinitelyMade
  <2>1. UNCHANGED invoices
        \/ \E d \in Delivery : \A x \in Delivery \ {d} : invoices'[x] = invoices[x]
    BY InvoiceSteps
  <2>2. \E d : Made' \subseteq Made \cup {d}
    BY <2>1 DEF Made
  <2>. QED
    BY <2>2, FS_AddElement, FS_Subset DEF FinitelyMade
<1>. QED
  BY <1>1, <1>2, Invariance, PTL DEF Spec

\* Whatever is announced as paid is paid, once, at the commission billing stores.
LEMMA AnnouncedIsPaid ==
  ASSUME IInv, CommissionsFixed, NEW d \in Delivery
  PROVE  /\ announced[d].paid > 0 => announced[d].paid = 1 /\ invoices[d].status = "paid"
         /\ invoices[d].status = "paid" =>
              /\ d \in Made /\ invoices[d].event = EventOf[d]
              /\ invoices[d].commission = CommissionFor(Price[EventOf[d]])
         /\ CommissionFor(Price[EventOf[d]]) \in Nat
<1>1. ASSUME announced[d].paid > 0
      PROVE  announced[d].paid = 1 /\ invoices[d].status = "paid"
  <2>1. PICK p \in Payment : InvoiceOf[p] = d /\ pc[p] = "done"
    BY <1>1 DEF IInv, AnnouncedByWinner
  <2>2. invoices[d].status = "paid"
    BY <2>1 DEF IInv, PaidOnce, Won
  <2>3. announced[d].paid <= 1 /\ announced[d].paid \in Nat
    BY DEF IInv, TypeOK, AnnouncedByWinner
  <2>. QED
    BY <1>1, <2>2, <2>3
<1>2. ASSUME invoices[d].status = "paid"
      PROVE  /\ d \in Made /\ invoices[d].event = EventOf[d]
             /\ invoices[d].commission = CommissionFor(Price[EventOf[d]])
  <2>1. invoices[d] # NoInvoice
    BY <1>2, NoInvoiceType
  <2>. QED
    BY <2>1 DEF IInv, IssuerKnows, CommissionsFixed, Made
<1>3. CommissionFor(Price[EventOf[d]]) \in Nat
  BY Constants, CommissionType
<1>. QED
  BY <1>1, <1>2, <1>3

\* What analytics is told of a specialist is part of what billing reports, and all
\* of it once every payment is announced.
LEMMA TellsOfReport ==
  ASSUME IInv, CommissionsFixed, FinitelyMade, NEW m \in Employee
  PROVE  ReportsAgree(m)
<1>. DEFINE told == { d \in Delivery : announced[d].paid > 0 /\ EmployeeOf[EventOf[d]] = m }
            paid == { d \in Delivery : /\ invoices[d].status = "paid"
                                       /\ EmployeeOf[invoices[d].event] = m }
            f == [d \in told |-> announced[d].paid * CommissionFor(Price[EventOf[d]])]
            g == [d \in paid |-> invoices[d].commission]
<1>1. IsFiniteSet(paid)
  <2>1. paid \subseteq Made
    BY AnnouncedIsPaid
  <2>. QED
    BY <2>1, FS_Subset DEF FinitelyMade
<1>2. told \in SUBSET paid
  BY AnnouncedIsPaid
<1>3. \A d \in paid : g[d] \in Nat
  BY AnnouncedIsPaid
<1>4. \A d \in told : f[d] = g[d]
  <2>. SUFFICES ASSUME NEW d \in told PROVE f[d] = g[d]
    OBVIOUS
  <2>1. d \in Delivery /\ d \in paid /\ invoices[d].status = "paid" /\ announced[d].paid = 1
    BY <1>2, AnnouncedIsPaid
  <2>2. g[d] = CommissionFor(Price[EventOf[d]]) /\ CommissionFor(Price[EventOf[d]]) \in Nat
    BY <2>1, AnnouncedIsPaid
  <2>3. f[d] = 1 * CommissionFor(Price[EventOf[d]])
    BY <2>1
  <2>. QED
    BY <2>2, <2>3
<1>5. (\A d \in Delivery : invoices[d].status = "paid" => announced[d].paid = 1) => told = paid
  <2>. SUFFICES ASSUME \A d \in Delivery : invoices[d].status = "paid" => announced[d].paid = 1,
                       NEW d \in paid
                PROVE  d \in told
    BY <1>2
  <2>. QED
    BY AnnouncedIsPaid
<1>6. CommissionTold(m) = SumFunctionOnSet(f, told)
  BY DEF CommissionTold, SumFunction
<1>7. EmployeeCommission(m).total = SumFunctionOnSet(g, paid)
  BY DEF EmployeeCommission, SumFunction
<1>. HIDE DEF told, paid, f, g
<1>8. SumFunctionOnSet(f, told) <= SumFunctionOnSet(g, paid)
  BY <1>1, <1>2, <1>3, <1>4, SumOfPart
<1>9. told = paid => SumFunctionOnSet(f, told) = SumFunctionOnSet(g, paid)
  BY <1>1, <1>3, <1>4, SumOfEquals
<1>. QED
  BY <1>5, <1>6, <1>7, <1>8, <1>9 DEF ReportsAgree

\* An invoice is announced at most once as issued and once as paid, the latter not
\* before its points are recorded; and what is announced of a specialist's commission
\* adds up to what billing reports, or to less while a payment is still unannounced.
THEOREM AnnouncedTruthfully == Spec => []AnnouncementsAreTrue
<1>1. IInv /\ CommissionsFixed /\ FinitelyMade => AnnouncementsAreTrue
  <2>. SUFFICES ASSUME IInv, CommissionsFixed, FinitelyMade PROVE AnnouncementsAreTrue
    OBVIOUS
  <2>1. ASSUME NEW d \in Delivery
        PROVE  /\ announced[d].issued <= 1 /\ announced[d].paid <= 1
               /\ announced[d].issued = 1 => invoices[d] # NoInvoice
               /\ announced[d].paid = 1 => \E p \in entries : InvoiceOf[p] = d
    <3>1. ASSUME announced[d].paid = 1 PROVE \E p \in entries : InvoiceOf[p] = d
      <4>1. PICK p \in Payment : InvoiceOf[p] = d /\ pc[p] = "done"
        BY <3>1 DEF IInv, AnnouncedByWinner
      <4>2. PICK q \in entries : Asks[q].invoice = Asks[p].invoice
        BY <4>1 DEF IInv, PayerKnows, Clients!Recorded
      <4>3. q \in Payment
        BY <4>2 DEF IInv, TypeOK, Clients!TypeOK
      <4>. QED
        BY <4>1, <4>2, <4>3, AsksType
    <3>. QED
      BY <3>1 DEF IInv, IssuerKnows, AnnouncedByWinner
  <2>2. \A m \in Employee : ReportsAgree(m)
    BY TellsOfReport
  <2>. QED
    BY <2>1, <2>2 DEF AnnouncementsAreTrue
<1>. QED
  BY <1>1, Invariance, CommissionsStayFixed, MadeIsFinite, PTL

=============================================================================
