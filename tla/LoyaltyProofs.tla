--------------------------- MODULE LoyaltyProofs ---------------------------
(***************************************************************************)
(* Theorems about client-service's loyalty points, for all clients,        *)
(* invoices and calls.  Whatever the calls do, an invoice is credited once *)
(* and nobody gets more points than the history grants.  A balance is      *)
(* short of the history exactly if a call was overtaken by the credit of   *)
(* another invoice of its client, and every step is one that the account   *)
(* of PointsAccount may take.                                              *)
(***************************************************************************)
EXTENDS Loyalty, TLAPS

-----------------------------------------------------------------------------
(* Lemmas.                                                                 *)

LEMMA PointsType == \A c \in Call : Points(c) \in Nat
<1>. SUFFICES ASSUME NEW c \in Call PROVE Points(c) \in Nat
  OBVIOUS
<1>1. Asks[c].paid \in Nat /\ PointValue \in Nat /\ PointValue > 0
  BY LoyaltyAssumption
<1>. QED
  BY <1>1 DEF Points, PointsFor

LEMMA AskType ==
  \A c \in Call : Asks[c].client \in Client /\ Asks[c].invoice \in Invoice
BY LoyaltyAssumption

LEMMA TypeStep == TypeOK /\ [Next]_loyaltyVars => TypeOK'
<1>. SUFFICES ASSUME TypeOK, [Next]_loyaltyVars PROVE TypeOK'
  OBVIOUS
<1>1. CASE UNCHANGED loyaltyVars
  BY <1>1 DEF loyaltyVars, TypeOK
<1>2. ASSUME NEW c \in Call, Receive(c) PROVE TypeOK'
  BY <1>2 DEF Receive, TypeOK, Session
<1>3. ASSUME NEW c \in Call, ReadClient(c) PROVE TypeOK'
  BY <1>3, AskType DEF ReadClient, TypeOK, Session
<1>4. ASSUME NEW c \in Call, LookForDuplicate(c) PROVE TypeOK'
  BY <1>4 DEF LookForDuplicate, TypeOK, Session, Ended
<1>5. ASSUME NEW c \in Call, NEW answered \in BOOLEAN, AddEntry(c, answered) PROVE TypeOK'
  <2>1. Overtakes(c) \subseteq Call
    BY DEF Overtakes
  <2>. QED
    BY <1>5, <2>1, AskType, PointsType DEF AddEntry, Store, TypeOK, Session, Ended
<1>6. ASSUME NEW c \in Call, LoseRace(c) PROVE TypeOK'
  BY <1>6 DEF LoseRace, TypeOK, Session, Ended
<1>7. ASSUME NEW c \in Call, Fail(c) PROVE TypeOK'
  BY <1>7 DEF Fail, TypeOK, Session, Ended
<1>. QED
  BY <1>1, <1>2, <1>3, <1>4, <1>5, <1>6, <1>7 DEF Next, AddLoyaltyPoints

LEMMA InvInitial == Init => IInv
BY DEF Init, IInv, TypeOK, Session, Ended, OneEntryPerInvoice, AnswersAreTrue,
       NeverOverpaid, SessionsLag, ReadersKnow, ShortIffOvertaken, Short

-----------------------------------------------------------------------------
(* The inductive invariant.  Only AddEntry writes the table; every other   *)
(* step changes the session of one call.                                   *)

\* A step that leaves the tables alone, and in which no call gets a balance it had
\* not read, keeps what is said of balances.
LEMMA TablesRest ==
  ASSUME IInv, TypeOK',
         UNCHANGED <<balance, entries, earned, overtaken>>,
         \A d \in Call : session'[d] \in {"read", "adding"} =>
           \/ session[d] \in {"read", "adding"} /\ seen'[d] = seen[d]
           \/ /\ session[d] = "called" /\ d \notin overtaken
              /\ seen'[d] = balance[Asks[d].client]
  PROVE  NeverOverpaid' /\ ReadersKnow' /\ ShortIffOvertaken'
<1>1. NeverOverpaid'
  BY DEF IInv, NeverOverpaid
<1>2. ReadersKnow'
  BY DEF IInv, ReadersKnow, Recorded
<1>3. ShortIffOvertaken'
  BY DEF IInv, ShortIffOvertaken, Short, Points
<1>. QED
  BY <1>1, <1>2, <1>3

LEMMA AddEntryStep ==
  ASSUME IInv, TypeOK', NEW c \in Call, NEW answered \in BOOLEAN, AddEntry(c, answered)
  PROVE  IInv'
<1>. DEFINE k == Asks[c].client
<1>0. TypeOK /\ k \in Client /\ Points(c) \in Nat
  BY AskType, PointsType DEF IInv
<1>1. OneEntryPerInvoice'
  BY <1>0 DEF AddEntry, Store, IInv, OneEntryPerInvoice, Recorded
<1>2. AnswersAreTrue'
  BY <1>0 DEF AddEntry, Store, IInv, TypeOK, AnswersAreTrue, Recorded
<1>3. /\ earned'[k] = earned[k] + Points(c)
      /\ \A j \in Client \ {k} : earned'[j] = earned[j] /\ balance'[j] = balance[j]
      /\ balance'[k] = IF Points(c) = 0 THEN balance[k] ELSE seen[c] + Points(c)
      /\ entries' = entries \cup {c} /\ seen' = seen /\ c \notin entries
  BY <1>0 DEF AddEntry, Store, TypeOK, IInv, SessionsLag
<1>4. \A d \in Call \ {c} : session'[d] = session[d]
  BY <1>0 DEF AddEntry, Store, TypeOK
<1>5. session'[c] \in {"added", "failed"} /\ session[c] = "adding" /\ ~ Recorded(c)
  BY <1>0 DEF AddEntry, Store, TypeOK
<1>6. IF c \in overtaken THEN seen[c] < earned[k] ELSE seen[c] = balance[k]
  BY <1>5 DEF IInv, ReadersKnow
<1>7. seen[c] \in Nat /\ \A j \in Client : balance[j] \in Nat /\ earned[j] \in Nat
  BY <1>0 DEF TypeOK
<1>8. NeverOverpaid'
  BY <1>0, <1>3, <1>6, <1>7 DEF IInv, NeverOverpaid
<1>9. overtaken' = IF Points(c) = 0 THEN overtaken ELSE overtaken \cup Overtakes(c)
  BY DEF AddEntry, Store
<1>10. SessionsLag'
  <2>. SUFFICES ASSUME NEW d \in Call
                PROVE  /\ session'[d] \in {"idle", "called"} => d \notin overtaken'
                       /\ session'[d] \in {"idle", "called", "read", "adding"} => d \notin entries'
                       /\ session'[d] \in {"read", "adding"} =>
                            seen'[d] <= earned'[Asks[d].client]
    BY DEF SessionsLag
  <2>1. CASE d = c
    BY <1>5, <2>1
  <2>2. CASE d # c
    <3>1. session'[d] = session[d] /\ seen'[d] = seen[d] /\ (d \in entries' <=> d \in entries)
      BY <1>3, <1>4, <2>2
    <3>2. session[d] \in {"idle", "called"} => d \notin Overtakes(c)
      BY DEF Overtakes
    <3>3. earned[Asks[d].client] <= earned'[Asks[d].client]
      BY <1>0, <1>3, <1>7, AskType
    <3>4. earned[Asks[d].client] \in Nat /\ earned'[Asks[d].client] \in Nat /\ seen[d] \in Nat
      BY <1>0, AskType DEF TypeOK
    <3>5. /\ session[d] \in {"idle", "called"} => d \notin overtaken
          /\ session[d] \in {"idle", "called", "read", "adding"} => d \notin entries
          /\ session[d] \in {"read", "adding"} => seen[d] <= earned[Asks[d].client]
      BY DEF IInv, SessionsLag
    <3>. QED
      BY <1>9, <3>1, <3>2, <3>3, <3>4, <3>5
  <2>. QED
    BY <2>1, <2>2
<1>11. c \notin Overtakes(c) /\ entries \cap Overtakes(c) = {}
  BY DEF Overtakes, IInv, SessionsLag
<1>12. ReadersKnow'
  <2>. SUFFICES ASSUME NEW d \in Call, session'[d] \in {"read", "adding"}
                PROVE  IF d \in overtaken' THEN seen'[d] < earned'[Asks[d].client]
                       ELSE Recorded(d)' \/ seen'[d] = balance'[Asks[d].client]
    BY DEF ReadersKnow
  <2>1. d # c /\ session[d] \in {"read", "adding"}
    BY <1>4, <1>5
  <2>2. Asks[d].client \in Client /\ seen[d] \in Nat /\ seen'[d] = seen[d]
        /\ seen[d] <= earned[Asks[d].client]
    BY <1>0, <1>3, <2>1, AskType DEF TypeOK, IInv, SessionsLag
  <2>3. IF d \in overtaken THEN seen[d] < earned[Asks[d].client]
        ELSE Recorded(d) \/ seen[d] = balance[Asks[d].client]
    BY <2>1 DEF IInv, ReadersKnow
  <2>4. Recorded(d) => Recorded(d)'
    BY <1>3 DEF Recorded
  <2>5. CASE Asks[d].client # k
    <3>1. d \notin Overtakes(c)
      BY <2>5 DEF Overtakes
    <3>. QED
      BY <1>3, <1>9, <2>2, <2>3, <2>4, <2>5, <3>1
  <2>6. CASE Asks[d].client = k /\ Points(c) = 0
    BY <1>0, <1>3, <1>7, <1>9, <2>2, <2>3, <2>4, <2>6
  <2>7. CASE Asks[d].client = k /\ Points(c) # 0 /\ Asks[d].invoice = Asks[c].invoice
    <3>1. Recorded(d)' /\ d \notin Overtakes(c)
      BY <1>3, <2>7 DEF Recorded, Overtakes
    <3>. QED
      BY <1>0, <1>3, <1>7, <1>9, <2>2, <2>3, <2>7, <3>1
  <2>8. CASE Asks[d].client = k /\ Points(c) # 0 /\ Asks[d].invoice # Asks[c].invoice
    <3>1. d \in Overtakes(c)
      BY <2>1, <2>8 DEF Overtakes
    <3>. QED
      BY <1>0, <1>3, <1>7, <1>9, <2>2, <2>8, <3>1
  <2>. QED
    BY <2>5, <2>6, <2>7, <2>8
<1>13. ShortIffOvertaken'
  <2>. SUFFICES ASSUME NEW j \in Client
                PROVE  IF Short(j)' THEN balance'[j] < earned'[j] ELSE balance'[j] = earned'[j]
    BY DEF ShortIffOvertaken
  <2>1. IF Short(j) THEN balance[j] < earned[j] ELSE balance[j] = earned[j]
    BY DEF IInv, ShortIffOvertaken
  <2>2. Short(j)' <=> Short(j) \/ (c \in overtaken /\ k = j /\ Points(c) > 0)
    BY <1>3, <1>9, <1>11 DEF Short, Points
  <2>3. balance[j] <= earned[j]
    BY DEF IInv, NeverOverpaid
  <2>. QED
    BY <1>0, <1>3, <1>6, <1>7, <2>1, <2>2, <2>3
<1>. QED
  BY <1>1, <1>2, <1>8, <1>10, <1>12, <1>13 DEF IInv

LEMMA InvStep == IInv /\ [Next]_loyaltyVars => IInv'
<1>. SUFFICES ASSUME IInv, [Next]_loyaltyVars PROVE IInv'
  OBVIOUS
<1>0. TypeOK /\ TypeOK'
  BY TypeStep DEF IInv
<1>1. CASE UNCHANGED loyaltyVars
  <2>1. NeverOverpaid' /\ ReadersKnow' /\ ShortIffOvertaken'
    BY <1>0, <1>1, TablesRest DEF loyaltyVars
  <2>. QED
    BY <1>0, <1>1, <2>1 DEF loyaltyVars, IInv, OneEntryPerInvoice, AnswersAreTrue,
                            SessionsLag, Recorded
<1>2. ASSUME NEW c \in Call, Receive(c) PROVE IInv'
  <2>1. NeverOverpaid' /\ ReadersKnow' /\ ShortIffOvertaken'
    BY <1>0, <1>2, TablesRest DEF Receive, TypeOK
  <2>. QED
    BY <1>0, <1>2, <2>1 DEF Receive, IInv, TypeOK, OneEntryPerInvoice, AnswersAreTrue,
                            SessionsLag, Recorded
<1>3. ASSUME NEW c \in Call, ReadClient(c) PROVE IInv'
  <2>1. c \notin overtaken
    BY <1>3 DEF ReadClient, IInv, SessionsLag
  <2>2. NeverOverpaid' /\ ReadersKnow' /\ ShortIffOvertaken'
    BY <1>0, <1>3, <2>1, TablesRest DEF ReadClient, TypeOK
  <2>. QED
    BY <1>0, <1>3, <2>2, AskType DEF ReadClient, IInv, TypeOK, OneEntryPerInvoice,
         AnswersAreTrue, NeverOverpaid, SessionsLag, Recorded
<1>4. ASSUME NEW c \in Call, LookForDuplicate(c) PROVE IInv'
  <2>1. NeverOverpaid' /\ ReadersKnow' /\ ShortIffOvertaken'
    BY <1>0, <1>4, TablesRest DEF LookForDuplicate, TypeOK
  <2>. QED
    BY <1>0, <1>4, <2>1 DEF LookForDuplicate, IInv, TypeOK, OneEntryPerInvoice,
         AnswersAreTrue, SessionsLag, Recorded
<1>5. ASSUME NEW c \in Call, NEW answered \in BOOLEAN, AddEntry(c, answered) PROVE IInv'
  BY <1>0, <1>5, AddEntryStep
<1>6. ASSUME NEW c \in Call, LoseRace(c) PROVE IInv'
  <2>1. NeverOverpaid' /\ ReadersKnow' /\ ShortIffOvertaken'
    BY <1>0, <1>6, TablesRest DEF LoseRace, TypeOK
  <2>. QED
    BY <1>0, <1>6, <2>1 DEF LoseRace, IInv, TypeOK, OneEntryPerInvoice, AnswersAreTrue,
                            SessionsLag, Recorded
<1>7. ASSUME NEW c \in Call, Fail(c) PROVE IInv'
  <2>1. NeverOverpaid' /\ ReadersKnow' /\ ShortIffOvertaken'
    BY <1>0, <1>7, TablesRest DEF Fail, TypeOK
  <2>. QED
    BY <1>0, <1>7, <2>1 DEF Fail, IInv, TypeOK, OneEntryPerInvoice, AnswersAreTrue,
                            SessionsLag, Recorded
<1>. QED
  BY <1>1, <1>2, <1>3, <1>4, <1>5, <1>6, <1>7 DEF Next, AddLoyaltyPoints

\* The calls keep the inductive invariant in every behaviour.
THEOREM Invariance == Spec => []IInv
BY InvInitial, InvStep, PTL DEF Spec

\* AddLoyaltyPoints keeps every variable within its type.
THEOREM TypeCorrect == Spec => []TypeOK
<1>1. IInv => TypeOK
  BY DEF IInv
<1>. QED
  BY <1>1, Invariance, PTL

\* However many calls repeat an invoice, its points are recorded once.
THEOREM CreditedOnce == Spec => []OneEntryPerInvoice
<1>1. IInv => OneEntryPerInvoice
  BY DEF IInv
<1>. QED
  BY <1>1, Invariance, PTL

\* A call's answer, points added or nothing added, agrees with the table.
THEOREM AnsweredTruthfully == Spec => []AnswersAreTrue
<1>1. IInv => AnswersAreTrue
  BY DEF IInv
<1>. QED
  BY <1>1, Invariance, PTL

\* Concurrent accruals may lose points, but never make up any.
THEOREM NoPointsFromNowhere == Spec => []NeverOverpaid
<1>1. IInv => NeverOverpaid
  BY DEF IInv
<1>. QED
  BY <1>1, Invariance, PTL

\* A balance is short of what the history grants exactly if a call for the client was
\* overtaken; whoever's invoices are credited one after the other has an exact balance,
\* with however many repetitions, failures and lost answers.
THEOREM BalanceShortIffOvertaken == Spec => []ShortIffOvertaken
<1>1. IInv => ShortIffOvertaken
  BY DEF IInv
<1>. QED
  BY <1>1, Invariance, PTL

-----------------------------------------------------------------------------
(* The refinement.                                                         *)

LEMMA CreditOfCall ==
  \A c \in Call : /\ Asks[c].invoice \in DOMAIN CreditOf
                  /\ CreditOf[Asks[c].invoice]
                       = [client |-> Asks[c].client, points |-> Points(c)]
<1>. SUFFICES ASSUME NEW c \in Call
              PROVE  /\ Asks[c].invoice \in DOMAIN CreditOf
                     /\ CreditOf[Asks[c].invoice]
                          = [client |-> Asks[c].client, points |-> Points(c)]
  OBVIOUS
<1>. DEFINE d == CHOOSE x \in Call : Asks[x].invoice = Asks[c].invoice
<1>1. d \in Call /\ Asks[d].invoice = Asks[c].invoice
  OBVIOUS
<1>2. Asks[d] = Asks[c]
  BY <1>1, LoyaltyAssumption
<1>3. Points(d) = Points(c)
  BY <1>2 DEF Points
<1>. QED
  BY <1>2, <1>3 DEF CreditOf

\* Overlapping or not, AddLoyaltyPoints is a single credit of its invoice, whatever its
\* sessions do on the way, and an exact one unless it was overtaken.
THEOREM LoyaltyIsAccount == Spec => ImplementsAccount
<1>1. Init => Account!Init
  BY DEF Init, Account!Init
<1>2. IInv /\ [Next]_loyaltyVars => [Account!Next]_Account!vars
  <2>. SUFFICES ASSUME IInv, [Next]_loyaltyVars PROVE [Account!Next]_Account!vars
    OBVIOUS
  <2>1. ASSUME NEW c \in Call, NEW answered \in BOOLEAN, AddEntry(c, answered)
        PROVE  Account!Next
    <3>. DEFINE i == Asks[c].invoice
    <3>0. /\ CreditOf[i].client = Asks[c].client /\ CreditOf[i].points = Points(c)
          /\ i \in DOMAIN CreditOf
      <4>1. CreditOf[i] = [client |-> Asks[c].client, points |-> Points(c)]
            /\ i \in DOMAIN CreditOf
        BY CreditOfCall
      <4>. HIDE DEF i
      <4>. QED
        BY <4>1
    <3>1. i \in DOMAIN CreditOf \ { Asks[d].invoice : d \in entries }
      BY <2>1, <3>0 DEF AddEntry, Recorded
    <3>2. { Asks[d].invoice : d \in entries }' = { Asks[d].invoice : d \in entries } \cup {i}
      BY <2>1 DEF AddEntry, Store
    <3>3. earned' = [earned EXCEPT ![CreditOf[i].client] = @ + CreditOf[i].points]
      BY <2>1, <3>0 DEF AddEntry, Store
    <3>4. \/ Account!Add(i, balance[CreditOf[i].client])
          \/ /\ i \in { Asks[d].invoice : d \in overtaken }
             /\ \E old \in 0 .. earned[CreditOf[i].client] - 1 : Account!Add(i, old)
      <4>1. /\ balance \in [Client -> Nat] /\ Asks[c].client \in Client
            /\ earned[Asks[c].client] \in Nat /\ seen[c] \in Nat /\ Points(c) \in Nat
        BY AskType, PointsType DEF IInv, TypeOK
      <4>2. IF c \in overtaken THEN seen[c] < earned[Asks[c].client]
            ELSE seen[c] = balance[Asks[c].client]
        BY <2>1 DEF AddEntry, Store, IInv, ReadersKnow
      <4>3. balance' = IF Points(c) = 0 THEN balance
                       ELSE [balance EXCEPT ![Asks[c].client] = seen[c] + Points(c)]
        BY <2>1 DEF AddEntry, Store
      <4>4. Account!Add(i, balance[CreditOf[i].client])
              <=> balance' = [balance EXCEPT ![Asks[c].client] = balance[Asks[c].client] + Points(c)]
        BY <3>0 DEF Account!Add
      <4>5. CASE Points(c) = 0
        BY <4>1, <4>3, <4>4, <4>5
      <4>6. CASE Points(c) # 0 /\ c \notin overtaken
        BY <4>2, <4>3, <4>4, <4>6
      <4>7. CASE Points(c) # 0 /\ c \in overtaken
        <5>1. seen[c] \in 0 .. earned[CreditOf[i].client] - 1
          BY <3>0, <4>1, <4>2, <4>7
        <5>2. Account!Add(i, seen[c])
          BY <3>0, <4>3, <4>7 DEF Account!Add
        <5>. QED
          BY <4>7, <5>1, <5>2
      <4>. QED
        BY <4>5, <4>6, <4>7
    <3>5. /\ { Asks[d].invoice : d \in overtaken } \subseteq { Asks[d].invoice : d \in overtaken }'
          /\ { Asks[d].invoice : d \in overtaken }' \ { Asks[d].invoice : d \in overtaken }
               \subseteq Account!Rivals(i)
      <4>1. overtaken \subseteq overtaken' /\ overtaken' \ overtaken \subseteq Overtakes(c)
        BY <2>1 DEF AddEntry, Store
      <4>2. \A d \in Overtakes(c) : Asks[d].invoice \in Account!Rivals(i)
        <5>. SUFFICES ASSUME NEW d \in Overtakes(c) PROVE Asks[d].invoice \in Account!Rivals(i)
          OBVIOUS
        <5>1. d \in Call /\ Asks[d].client = Asks[c].client /\ Asks[d].invoice # i
          BY DEF Overtakes
        <5>2. CreditOf[Asks[d].invoice] = [client |-> Asks[d].client, points |-> Points(d)]
              /\ Asks[d].invoice \in DOMAIN CreditOf
          BY <5>1, CreditOfCall
        <5>3. CreditOf[Asks[d].invoice].client = Asks[c].client
          BY <5>1, <5>2
        <5>. QED
          BY <3>0, <5>1, <5>2, <5>3 DEF Account!Rivals
      <4>. QED
        BY <4>1, <4>2
    <3>. HIDE DEF i
    <3>6. Account!CreditInvoice(i)
      BY <3>1, <3>2, <3>3, <3>4, <3>5 DEF Account!CreditInvoice
    <3>. QED
      BY <3>1, <3>6 DEF Account!Next
  <2>2. ASSUME NEW c \in Call,
               Receive(c) \/ ReadClient(c) \/ LookForDuplicate(c) \/ LoseRace(c) \/ Fail(c)
        PROVE  UNCHANGED Account!vars
    BY <2>2 DEF Receive, ReadClient, LookForDuplicate, LoseRace, Fail, Account!vars
  <2>3. CASE UNCHANGED loyaltyVars
    BY <2>3 DEF loyaltyVars, Account!vars
  <2>. QED
    BY <2>1, <2>2, <2>3 DEF Next, AddLoyaltyPoints
<1>. QED
  BY <1>1, <1>2, Invariance, PTL DEF Spec, ImplementsAccount, Account!Spec

=============================================================================
