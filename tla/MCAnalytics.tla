---------------------------- MODULE MCAnalytics ----------------------------
(***************************************************************************)
(* Two visits, one of which takes place and the other is cancelled, with   *)
(* the invoice, the payment and the write-off of the first; a new client,  *)
(* and an event without a table.  Two handlers work at the same time.      *)
(***************************************************************************)
EXTENDS Analytics, TLC

CONSTANTS
  haircut, brush, bill, ann, dye, arbat, tverskaya, zoe, max, one, two, nobody, never,
  refused

MCAppointment == {haircut, brush}
MCInvoice == {bill}
MCClient == {ann}
MCConsumable == {dye}
MCBranch == {arbat, tverskaya}
MCEmployee == {zoe, max}

Say(kind, about, branch, employee, at, amount) ==
  [kind |-> kind, about |-> about, branch |-> branch, employee |-> employee,
   at |-> at, amount |-> amount]

MCEvent ==
  { Say("created", haircut, arbat, zoe, 1, 60),
    Say("completed", haircut, arbat, zoe, 2, 0),
    Say("created", brush, arbat, zoe, 2, 30),
    Say("cancelled", brush, arbat, zoe, 1, 0),
    Say("issued", bill, arbat, max, 2, 1999),
    Say("paid", bill, arbat, zoe, 3, 799),
    Say("written_off", dye, arbat, zoe, 2, 40),
    Say("registered", ann, tverskaya, max, 0, 0),
    Say("other", ann, tverskaya, max, 0, 0) }

\* Nobody's name, a manager without a binding, both specialists, and one without.
Known(role, employee) == [known |-> TRUE, roles |-> {role}, employee |-> employee]
MCCaller ==
  { [known |-> FALSE, roles |-> {}, employee |-> nobody], Known("manager", nobody),
    Known("specialist", zoe), Known("specialist", max), Known("specialist", nobody) }

MCHandler == {one, two}
MCWindow == { [since |-> 0, until |-> 2], [since |-> 2, until |-> 4] }

Symmetry == Permutations(MCHandler)

=============================================================================
