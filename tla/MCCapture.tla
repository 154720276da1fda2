----------------------------- MODULE MCCapture ------------------------------
(* Two captures of a thread of two messages, or of one message, with an     *)
(* executor at the queue and one resync beside it.                          *)
EXTENDS Capture

CONSTANTS t1, t2, e1, e2, main, s1

TwoTriggers == {t1, t2}
Thread == {e1, e2}

\* The second capture includes a message the first does not; it may arrive after
\* both triggers, backdated.
BeforeTwo == [t \in TwoTriggers |-> IF t = t1 THEN {e1} ELSE Thread]

\* Two captures of the same single message, hence of one asset.
Message == {e1}
BeforeShared == [t \in TwoTriggers |-> Message]

OneResync == {s1}
SourceTwoAndTrigger == {e2, t1}
FirstTrigger == {t1}
=============================================================================
