---------------------------- MODULE MCRetrieval -----------------------------
(* Three assets of one room, one of them with two descriptions, and one of *)
(* another; questions of up to three words, one of them specific.          *)
EXTENDS Retrieval, TLC

CONSTANTS r1, r2, r3, r4, r5, d1, d2, d3, d4, here, there, x, y, long

Five == {r1, r2, r3, r4, r5}
Four == {d1, d2, d3, d4}
AssetOfFive == (r1 :> d1) @@ (r2 :> d1) @@ (r3 :> d2) @@ (r4 :> d3) @@ (r5 :> d4)
HereOrThere == {here, there}
RoomOfFour == [a \in Four |-> IF a = d4 THEN there ELSE here]

Vocabulary == {x, y, long}
WordsOfFive == (r1 :> {x, y}) @@ (r2 :> {y, long}) @@ (r3 :> {x, y, long}) @@ (r4 :> {long}) @@ (r5 :> {x, y})
Long == {long}
=============================================================================
