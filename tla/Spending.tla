------------------------------ MODULE Spending ------------------------------
(***************************************************************************)
(* What the money path promises, without queue, handlers, crashes or       *)
(* faults: an approval is spent at most once and on the operation it was   *)
(* given for; an operation is charged at most once; what was charged ends  *)
(* settled or unresolved; an asset is confirmed at most once; and only a   *)
(* settled operation is announced.  Module Publication implements it.      *)
(***************************************************************************)
EXTENDS FiniteSets

CONSTANTS Ops, Reactions, KAs, KaOf, TargetOf

VARIABLES
    ledger,    \* of an operation: nothing, an open charge, or how it ended
    token,     \* of an approval: unused, claimed for a charge, spent on it
    chain,     \* operations whose publication the node confirmed
    room       \* operations whose UAL is announced

vars == <<ledger, token, chain, room>>

Init ==
    /\ ledger = [o \in Ops |-> "none"]
    /\ token = [r \in Reactions |-> "unused"]
    /\ chain = {} /\ room = {}

\* The insert into approvals: a reaction can be claimed once in its life.
Claim(r) ==
    /\ token[r] = "unused" /\ token' = [token EXCEPT ![r] = "claimed"]
    /\ UNCHANGED <<ledger, chain, room>>

\* The reservation: one charge per operation, against one approval of it.
Charge(o, r) ==
    /\ ledger[o] = "none" /\ ledger' = [ledger EXCEPT ![o] = "open"]
    /\ token[r] = "claimed" /\ TargetOf[r] = o
    /\ token' = [token EXCEPT ![r] = "spent"]
    /\ UNCHANGED <<chain, room>>

\* The node confirms an open charge, and no asset twice.
Confirm(o) ==
    /\ ledger[o] = "open" /\ \A p \in chain : KaOf[p] # KaOf[o]
    /\ chain' = chain \cup {o}
    /\ UNCHANGED <<ledger, token, room>>

Settle(o) ==
    /\ ledger[o] = "open" /\ o \in chain
    /\ ledger' = [ledger EXCEPT ![o] = "settled"]
    /\ UNCHANGED <<token, chain, room>>

\* An open charge may be given up although the node confirmed it (the answer
\* was lost with the process); it stays on the ledger.
GiveUp(o) ==
    /\ ledger[o] = "open" /\ ledger' = [ledger EXCEPT ![o] = "unresolved"]
    /\ UNCHANGED <<token, chain, room>>

Announce(o) ==
    /\ ledger[o] = "settled" /\ room' = room \cup {o}
    /\ UNCHANGED <<ledger, token, chain>>

Next ==
    \/ \E r \in Reactions : Claim(r)
    \/ \E o \in Ops : \/ \E r \in Reactions : Charge(o, r)
                      \/ Confirm(o) \/ Settle(o) \/ GiveUp(o) \/ Announce(o)

Spec == Init /\ [][Next]_vars
=============================================================================
