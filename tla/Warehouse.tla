------------------------------ MODULE Warehouse ------------------------------
(***************************************************************************)
(* What inventory-service promises about a branch's stock, whatever runs   *)
(* concurrently and fails on the way: each job, the write-off for one      *)
(* completed appointment or one replenishment, happens as a whole in one   *)
(* step, at most once, and never takes what is not there.                  *)
(***************************************************************************)
EXTENDS Integers

CONSTANTS
  Item,      \* materials
  Job,       \* write-offs and replenishments
  Taking,    \* the jobs that are write-offs
  Change,    \* Change[j][c]: by how much job j changes the quantity of c
  Touched    \* Touched[j]: the materials j is about

VARIABLES
  onHand,    \* quantity of each material, -1 while the branch does not keep it
  doneJobs   \* the jobs carried out so far

vars == <<onHand, doneJobs>>

Init ==
  /\ onHand \in [Item -> Nat \cup {-1}]
  /\ doneJobs = {}

\* A write-off finds all of its materials in sufficient quantity.
Feasible(j) == j \in Taking => \A c \in Touched[j] : onHand[c] >= 0 /\ onHand[c] + Change[j][c] >= 0

Do(j) ==
  /\ j \in Job \ doneJobs
  /\ Feasible(j)
  /\ onHand' = [c \in Item |->
                  IF c \notin Touched[j] THEN onHand[c]
                  ELSE (IF onHand[c] = -1 THEN 0 ELSE onHand[c]) + Change[j][c]]
  /\ doneJobs' = doneJobs \cup {j}

Next == \E j \in Job : Do(j)

Spec == Init /\ [][Next]_vars

=============================================================================
