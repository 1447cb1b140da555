----------------------------- MODULE MCBilling -----------------------------
(***************************************************************************)
(* Two visits of one client.  The event of the first is delivered to two   *)
(* handlers; two requests pay the invoice one of them makes, and a third   *)
(* one pays that of the other visit.                                       *)
(***************************************************************************)
EXTENDS Billing, TLC

CONSTANTS ann, zoe, max, haircut, brush, first, second, other, pay, payToo, payOther

MCEvent == {haircut, brush}
MCClient == {ann}
MCClientOf == haircut :> ann @@ brush :> ann
MCEmployee == {zoe, max}
MCEmployeeOf == haircut :> zoe @@ brush :> zoe
MCPrice == haircut :> 5999 @@ brush :> 1999
MCDelivery == {first, second, other}
MCEventOf == first :> haircut @@ second :> haircut @@ other :> brush
MCPayment == {pay, payToo, payOther}
MCInvoiceOf == pay :> first @@ payToo :> first @@ payOther :> other

Symmetry == Permutations({pay, payToo})

=============================================================================
