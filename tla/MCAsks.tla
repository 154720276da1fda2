------------------------------- MODULE MCAsks -------------------------------
(* Two questions of one author, bindings files that map the channel of the  *)
(* second one, or do not yet, and configurations that listen to the handle *)
(* the first one mentions, or do not.                                      *)
EXTENDS Asks

CONSTANTS q1, q2, a1

TwoQuestions == {q1, q2}
OneAuthor == {a1}
Pair == [q \in TwoQuestions |-> a1]

FirstOrBoth == {{q1}, {q1, q2}}
SecondOrBoth == {{q2}, {q1, q2}}
=============================================================================
