----------------------------- MODULE MCLoyalty -----------------------------
(***************************************************************************)
(* Three invoices of one client, one of which two calls repeat, and one of *)
(* another client that is too small to earn a point.                       *)
(***************************************************************************)
EXTENDS Loyalty, TLC

CONSTANTS ann, bea, haircut, colour, dye, brush, once, again, second, third, other

Clients == {ann, bea}
Invoices == {haircut, colour, dye, brush}
Calls == {once, again, second, third, other}

Ask(client, invoice, paid) == [client |-> client, invoice |-> invoice, paid |-> paid]

MCAsks ==
  once :> Ask(ann, haircut, 5999) @@ again :> Ask(ann, haircut, 5999)
    @@ second :> Ask(ann, colour, 4000) @@ third :> Ask(ann, dye, 9999)
    @@ other :> Ask(bea, brush, 1999)

=============================================================================
