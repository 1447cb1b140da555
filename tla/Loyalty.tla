------------------------------ MODULE Loyalty ------------------------------
(***************************************************************************)
(* client-service: AddLoyaltyPoints calls, each in a database session of   *)
(* its own.  The session reads the client, looks for an entry of the same  *)
(* invoice, and commits a new entry together with the balance it has       *)
(* computed from what it read.  A unique index admits one entry for each   *)
(* invoice; nothing guards the balance.                                    *)
(*                                                                         *)
(* The entries of a client are kept by the call that made them, and summed *)
(* up in "earned"; "overtaken" keeps the calls that work with a balance    *)
(* another one has changed since.  These two are history: no step depends  *)
(* on them.  Other fields of a client's card do not matter here.           *)
(***************************************************************************)
EXTENDS Integers

CONSTANTS
  Client,
  Invoice,
  Call,        \* AddLoyaltyPoints calls that billing may make
  Asks,        \* what each of them says: whom to credit for which invoice
  PointValue   \* kopecks paid for one point: 100 / POINTS_RATE

\* Each invoice has one client and one sum, whoever asks for it.
ASSUME LoyaltyAssumption ==
  /\ PointValue \in Nat \ {0}
  /\ Asks \in [Call -> [client : Client, invoice : Invoice, paid : Nat]]
  /\ \A c, d \in Call : Asks[c].invoice = Asks[d].invoice => Asks[c] = Asks[d]

VARIABLES
  balance,     \* clients.points_balance
  entries,     \* the calls whose rows of loyalty_entries are committed
  earned,      \* sum of the points in the committed entries of each client
  session,     \* how far each call has come
  seen,        \* the balance its session has read
  overtaken    \* calls that missed a credit of their client made since they read (history)

loyaltyVars == <<balance, entries, earned, session, seen, overtaken>>

Ended == {"added", "known", "failed"}
Session == {"idle", "called", "read", "adding"} \cup Ended

\* Five per cent of the sum, rounded down to a whole point.
PointsFor(paid) == paid \div PointValue

Points(c) == PointsFor(Asks[c].paid)

\* Some committed entry has the invoice of call c.
Recorded(c) == \E d \in entries : Asks[d].invoice = Asks[c].invoice

-----------------------------------------------------------------------------
Receive(c) ==
  /\ session[c] = "idle"
  /\ session' = [session EXCEPT ![c] = "called"]
  /\ UNCHANGED <<balance, entries, earned, seen, overtaken>>

\* get_client: from here on the session works with the row it has read.
ReadClient(c) ==
  /\ session[c] = "called"
  /\ seen' = [seen EXCEPT ![c] = balance[Asks[c].client]]
  /\ session' = [session EXCEPT ![c] = "read"]
  /\ UNCHANGED <<balance, entries, earned, overtaken>>

\* An entry of the same invoice ends the call: nothing is added.
LookForDuplicate(c) ==
  /\ session[c] = "read"
  /\ session' = [session EXCEPT ![c] = IF Recorded(c) THEN "known" ELSE "adding"]
  /\ UNCHANGED <<balance, entries, earned, seen, overtaken>>

\* The calls for other invoices of the client that have read his balance, and now
\* work with an old one.
Overtakes(c) ==
  { d \in Call : /\ session[d] \in {"read", "adding"}
                 /\ Asks[d].client = Asks[c].client /\ Asks[d].invoice # Asks[c].invoice }

\* The commit inserts an entry and updates the balance to what the session has
\* computed (no UPDATE is sent for a balance that has not changed).  If the
\* answer is lost, the call ends with an error all the same.
Store(c, answered, newBalance) ==
  /\ session[c] = "adding"
  /\ entries' = entries \cup {c}
  /\ earned' = [earned EXCEPT ![Asks[c].client] = @ + Points(c)]
  /\ balance' = IF Points(c) = 0 THEN balance
                ELSE [balance EXCEPT ![Asks[c].client] = newBalance]
  /\ overtaken' = IF Points(c) = 0 THEN overtaken ELSE overtaken \cup Overtakes(c)
  /\ session' = [session EXCEPT ![c] = IF answered THEN "added" ELSE "failed"]
  /\ UNCHANGED seen

\* The unique index admits one entry for each invoice.
AddEntry(c, answered) == ~ Recorded(c) /\ Store(c, answered, seen[c] + Points(c))

\* Mutants: a lost race is answered as a success; the balance was raised by a
\* statement of its own, which the rollback does not take back.
LoseUnnoticed(c) ==
  /\ session[c] = "adding"
  /\ Recorded(c)
  /\ session' = [session EXCEPT ![c] = "added"]
  /\ UNCHANGED <<balance, entries, earned, seen, overtaken>>

LoseKeepingPoints(c) ==
  /\ session[c] = "adding"
  /\ Recorded(c)
  /\ session' = [session EXCEPT ![c] = "known"]
  /\ balance' = [balance EXCEPT ![Asks[c].client] = @ + Points(c)]
  /\ UNCHANGED <<entries, earned, seen, overtaken>>

\* The unique index decides a race of two calls for one invoice: rollback.
LoseRace(c) ==
  /\ session[c] = "adding"
  /\ Recorded(c)
  /\ session' = [session EXCEPT ![c] = "known"]
  /\ UNCHANGED <<balance, entries, earned, seen, overtaken>>

\* Mutant: the balance is committed before the entry, and the second commit fails.
FailHalfway(c) ==
  /\ session[c] \in {"called", "read", "adding"}
  /\ session' = [session EXCEPT ![c] = "failed"]
  /\ balance' = IF session[c] = "adding"
                  THEN [balance EXCEPT ![Asks[c].client] = seen[c] + Points(c)] ELSE balance
  /\ UNCHANGED <<entries, earned, seen, overtaken>>

\* No such client, no database, or the process dies.
Fail(c) ==
  /\ session[c] \in {"called", "read", "adding"}
  /\ session' = [session EXCEPT ![c] = "failed"]
  /\ UNCHANGED <<balance, entries, earned, seen, overtaken>>

-----------------------------------------------------------------------------
Init ==
  /\ balance = [k \in Client |-> 0]
  /\ entries = {}
  /\ earned = [k \in Client |-> 0]
  /\ session = [c \in Call |-> "idle"]
  /\ seen = [c \in Call |-> 0]
  /\ overtaken = {}

\* What a call does once it has been received.
AddLoyaltyPoints(c) ==
  \/ ReadClient(c) \/ LookForDuplicate(c) \/ LoseRace(c) \/ Fail(c)
  \/ \E answered \in BOOLEAN : AddEntry(c, answered)

Next == \E c \in Call : Receive(c) \/ AddLoyaltyPoints(c)

Spec == Init /\ [][Next]_loyaltyVars

-----------------------------------------------------------------------------
(* Properties.                                                             *)

\* Every variable keeps its type.
TypeOK ==
  /\ balance \in [Client -> Nat]
  /\ entries \subseteq Call
  /\ earned \in [Client -> Nat]
  /\ session \in [Call -> Session]
  /\ seen \in [Call -> Nat]
  /\ overtaken \subseteq Call

\* The points of an invoice are recorded once, however many calls ask for it and
\* however they interleave.
OneEntryPerInvoice ==
  \A c, d \in entries : Asks[c].invoice = Asks[d].invoice => c = d

\* A call that answers "nothing added" does so because the points are recorded,
\* and one that answers "added" has recorded them itself.
AnswersAreTrue ==
  \A c \in Call :
    /\ session[c] = "known" => Recorded(c) /\ c \notin entries
    /\ session[c] = "added" => c \in entries

\* The balance is what the history of accruals adds up to: what a client is told, and
\* what fails when calls for two invoices of one client overlap.
BalanceIsEarned == \A k \in Client : balance[k] = earned[k]

\* An overtaken call has given its client points all the same.
Short(k) ==
  \E c \in entries \cap overtaken : Asks[c].client = k /\ Points(c) > 0

\* What holds instead, however many invoices a client has: his balance is never more
\* than the history grants, and it is less exactly if some call was overtaken, by a
\* credit of another invoice of his between its read and its commit.  Neither calls
\* that are repeated, nor failures and lost answers, nor credits one after the other
\* make it wrong.
ShortIffOvertaken ==
  \A k \in Client : IF Short(k) THEN balance[k] < earned[k] ELSE balance[k] = earned[k]

\* No client ever has more points than the history grants.
NeverOverpaid == \A k \in Client : balance[k] <= earned[k]

\* What makes these inductive: a call that is still at work has no entry, it has
\* read a balance that the history covers, and before that none overtakes it.
SessionsLag ==
  \A c \in Call :
    /\ session[c] \in {"idle", "called"} => c \notin overtaken
    /\ session[c] \in {"idle", "called", "read", "adding"} => c \notin entries
    /\ session[c] \in {"read", "adding"} => seen[c] <= earned[Asks[c].client]

\* A call that has read a balance and can still add to it has the current one, or
\* has been overtaken and has too small a one.
ReadersKnow ==
  \A c \in Call :
    session[c] \in {"read", "adding"} =>
      IF c \in overtaken THEN seen[c] < earned[Asks[c].client]
      ELSE Recorded(c) \/ seen[c] = balance[Asks[c].client]

\* The inductive invariant.
IInv ==
  /\ TypeOK
  /\ OneEntryPerInvoice
  /\ AnswersAreTrue
  /\ NeverOverpaid
  /\ SessionsLag
  /\ ReadersKnow
  /\ ShortIffOvertaken

\* The cards seen as accounts that invoices are credited to.
CreditOf ==
  [i \in { Asks[c].invoice : c \in Call } |->
     LET c == CHOOSE d \in Call : Asks[d].invoice = i
     IN  [client |-> Asks[c].client, points |-> Points(c)]]

Account == INSTANCE PointsAccount WITH
  Invoice <- DOMAIN CreditOf,
  Credit <- CreditOf,
  granted <- earned,
  credited <- { Asks[c].invoice : c \in entries },
  overtaken <- { Asks[c].invoice : c \in overtaken }

\* However calls overlap, each invoice is credited once, in a single step, and by its
\* points exactly unless another invoice of the client was credited meanwhile.
ImplementsAccount == Account!Spec

=============================================================================
