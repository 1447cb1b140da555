--------------------------- MODULE PointsAccount ---------------------------
(***************************************************************************)
(* What client-service promises about loyalty points, and what it does     *)
(* not.  The points of an invoice are credited to its client in one step,  *)
(* at most once, and a balance is changed by nothing else.  A credit adds  *)
(* its points exactly, unless another invoice of the same client was       *)
(* credited while it was in hand: then it may start from an older balance, *)
(* and what was granted since is missing from the card.                    *)
(***************************************************************************)
EXTENDS Integers

CONSTANTS
  Client,
  Invoice,
  Credit      \* Credit[i]: which client invoice i credits, and with how many points

VARIABLES
  balance,    \* points on the card of each client
  granted,    \* points of the invoices credited to each client
  credited,   \* the invoices credited so far
  overtaken   \* invoices in hand when another one of their client was credited

vars == <<balance, granted, credited, overtaken>>

Init ==
  /\ balance = [k \in Client |-> 0]
  /\ granted = [k \in Client |-> 0]
  /\ credited = {}
  /\ overtaken = {}

Add(i, old) ==
  balance' = [balance EXCEPT ![Credit[i].client] = old + Credit[i].points]

Rivals(i) == { j \in Invoice \ {i} : Credit[j].client = Credit[i].client }

CreditInvoice(i) ==
  /\ i \in Invoice \ credited
  /\ credited' = credited \cup {i}
  /\ granted' = [granted EXCEPT ![Credit[i].client] = @ + Credit[i].points]
  /\ \/ Add(i, balance[Credit[i].client])
     \/ i \in overtaken /\ \E old \in 0 .. granted[Credit[i].client] - 1 : Add(i, old)
  /\ overtaken \subseteq overtaken' /\ overtaken' \ overtaken \subseteq Rivals(i)

Next == \E i \in Invoice : CreditInvoice(i)

Spec == Init /\ [][Next]_vars

=============================================================================
