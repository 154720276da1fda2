----------------------------- MODULE Receipting -----------------------------
(***************************************************************************)
(* What the capture path promises, without queue, resyncs, crashes or      *)
(* faults: a trigger is claimed once, for one asset; an asset is shared    *)
(* only for a claim that is open; a receipt is posted only for an asset    *)
(* that is shared; a claim is closed only once its receipt is out, and     *)
(* given up only while it is not.  Module Capture implements it as long as *)
(* resyncs do not overlap.                                                 *)
(***************************************************************************)

CONSTANTS Triggers, Assets, NoAsset

VARIABLES
    claim,     \* of a trigger: none, open, or how it ended
    named,     \* the asset it was claimed for
    shared,    \* assets the workspace has been given
    announced  \* triggers with a receipt in the room, or on its way there

vars == <<claim, named, shared, announced>>

Init ==
    /\ claim = [t \in Triggers |-> "none"] /\ named = [t \in Triggers |-> NoAsset]
    /\ shared = {} /\ announced = {}

\* The insert into ops: once per trigger, with a name that is never changed.
Claim(t, a) ==
    /\ claim[t] = "none" /\ claim' = [claim EXCEPT ![t] = "open"]
    /\ a # NoAsset /\ named' = [named EXCEPT ![t] = a]
    /\ UNCHANGED <<shared, announced>>

Share(t) ==
    /\ claim[t] = "open" /\ shared' = shared \cup {named[t]}
    /\ UNCHANGED <<claim, named, announced>>

\* A receipt names an asset the workspace has.
Announce(t) ==
    /\ claim[t] = "open" /\ named[t] \in shared
    /\ announced' = announced \cup {t}
    /\ UNCHANGED <<claim, named, shared>>

Close(t) ==
    /\ claim[t] = "open" /\ t \in announced
    /\ claim' = [claim EXCEPT ![t] = "closed"]
    /\ UNCHANGED <<named, shared, announced>>

GiveUp(t) ==
    /\ claim[t] = "open" /\ t \notin announced
    /\ claim' = [claim EXCEPT ![t] = "failed"]
    /\ UNCHANGED <<named, shared, announced>>

Next ==
    \E t \in Triggers :
        \/ \E a \in Assets : Claim(t, a)
        \/ Share(t) \/ Announce(t) \/ Close(t) \/ GiveUp(t)

Spec == Init /\ [][Next]_vars
=============================================================================
