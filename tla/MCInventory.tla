----------------------------- MODULE MCInventory -----------------------------
(***************************************************************************)
(* A branch with dye and gel on its shelves, and no wax yet.  Two handlers *)
(* get the event of a visit that takes all of the gel, a third one that of *)
(* a touch-up, which needs gel too and the wax.  One request replenishes   *)
(* the dye and the gel in the order opposite to the write-off's, and       *)
(* brings the first wax; another one asks for nothing.                     *)
(***************************************************************************)
EXTENDS Inventory, TLC

CONSTANTS dye, gel, wax, visit, touchup, first, second, third, supply, empty

MCItem == {dye, gel, wax}
MCEvent == {visit, touchup}
MCNorms == (visit :> <<[item |-> dye, amount |-> 2], [item |-> gel, amount |-> 2]>>)
        @@ (touchup :> <<[item |-> gel, amount |-> 1], [item |-> wax, amount |-> 1]>>)
MCDelivery == {first, second, third}
MCEventOf == (first :> visit) @@ (second :> visit) @@ (third :> touchup)
MCRequest == {supply, empty}
MCAsked == (supply :> <<[item |-> gel, amount |-> 2], [item |-> dye, amount |-> 1],
                        [item |-> wax, amount |-> 1]>>)
        @@ (empty :> <<[item |-> gel, amount |-> 0]>>)
MCThreshold == {2}
MCOpening == (dye :> [kept |-> TRUE, quantity |-> 3, threshold |-> 2])
          @@ (gel :> [kept |-> TRUE, quantity |-> 2, threshold |-> 2])
          @@ (wax :> NoRow)

=============================================================================
