----------------------------- MODULE MCDelivery -----------------------------
(***************************************************************************)
(* Two messages for one consumer, which deals with both at once or one by  *)
(* one; two attempts, two returns, and a third that is one too many.       *)
(***************************************************************************)
EXTENDS Delivery, TLC

CONSTANTS early, late

MCMessage == {early, late}
MCMix == { early :> "routed" @@ late :> "routed",
           early :> "unparsable" @@ late :> "unrouted" }

=============================================================================
