----------------------------- MODULE MCDelivery -----------------------------
(* A message and a reaction over a few ticks; the overlap is one tick or    *)
(* two, and the clamp on the cursor is five times that, as in the code.     *)
EXTENDS Delivery

CONSTANTS e1, e2, x1

TwoEvents == {e1, e2}
KindTwo == [e \in TwoEvents |-> IF e = e2 THEN "bdi-reactions" ELSE "bdi-msgs"]

OneResync == {x1}
=============================================================================
