--------------------------- MODULE SpendingProofs ---------------------------
(***************************************************************************)
(* Publication implements Spending.  Every step is mapped: the insert into *)
(* approvals to Claim, the reservation to Charge, the node's confirmed     *)
(* answer to Confirm, the row's outcome to Settle or GiveUp, a posted      *)
(* receipt to Announce; all others leave the four mapped variables alone.  *)
(* The one step that would not be mapped is a second resync's failing of a *)
(* charged row; without it (~ResyncsOverlap) no row past capture is failed.*)
(***************************************************************************)
EXTENDS PublicationProofs

\* The mapped variables, named.
Chain == {o \in Ops : confirmed[o]}
Room == {o \in Ops : vmPosts[o] > 0 \/ o \in latePosts}

\* The charge one state of a row stands for.
Charged(s) == CASE s = "publishing" -> "open"
                [] s \in {"published", "vm_receipted"} -> "settled"
                [] s = "publish_unconfirmed" -> "unresolved"
                [] OTHER -> "none"

LEMMA LedgerAt ==
  /\ Ledger = [o \in Ops |-> Charged(opState[o])]
  /\ Ledger' = [o \in Ops |-> Charged(opState'[o])]
  BY DEF Ledger, Charged

\* What the tables say of a reaction, for any contents of the tables.
TokenOf(a, c) == [r \in Reactions |-> IF a[r] # "consumed" THEN "unused"
                                     ELSE IF \E o \in Ops : c[o] = r THEN "spent"
                                     ELSE "claimed"]

LEMMA TokenAt == Token = TokenOf(approvals, consumedBy) /\ Token' = TokenOf(approvals', consumedBy')
  BY DEF Token, TokenOf

\* A reaction that is refused stays unused; one consumed stays what it is.
LEMMA RefusalKeepsToken ==
  ASSUME TypeOK, NEW r \in Reactions, RecordApproval(r, "rejected"), consumedBy' = consumedBy
  PROVE  Token' = Token
<1>1. \A s \in Reactions : approvals'[s] = "consumed" <=> approvals[s] = "consumed"
  BY DEF RecordApproval, TypeOK
<1> QED
  BY <1>1, TokenAt DEF TokenOf

\* A row's change of state that keeps its charge changes nothing.
LEMMA SameCharge ==
  ASSUME TypeOK, NEW o \in Ops, NEW to, Transition(o, to), Charged(to) = Charged(opState[o])
  PROVE  Ledger' = Ledger
<1>1. \A p \in Ops : Charged(opState'[p]) = Charged(opState[p])
  BY DEF Transition, TypeOK
<1> QED
  BY <1>1, LedgerAt

\* One that changes it changes it for that row.
LEMMA NewCharge ==
  ASSUME TypeOK, NEW o \in Ops, NEW to, Transition(o, to)
  PROVE  Ledger' = [Ledger EXCEPT ![o] = Charged(to)]
<1>1. \A p \in Ops : Charged(opState'[p]) = IF p = o THEN Charged(to) ELSE Charged(opState[p])
  BY DEF Transition, TypeOK
<1> QED
  BY <1>1, LedgerAt

LEMMA StepImplements ==
  ASSUME ~ResyncsOverlap, IInv, [Next]_vars
  PROVE  [Money!Next]_(Money!vars)
<1> USE ConstantsAssumption
<1> USE DEF dbVars, procVars, nodeVars, relayVars, histVars
<1>a. TypeOK /\ HandlerInv /\ LedgerInv /\ ConfirmationInv /\ AssetInv
  BY DEF IInv
<1>n. stale = {} /\ \A o \in Ops : opState[o] # "failed"
  BY DEF IInv, OverlapInv
<1>b. ASSUME UNCHANGED <<Ledger, Token, Chain, Room>> PROVE [Money!Next]_(Money!vars)
  BY <1>b DEF Money!vars, Chain, Room
<1>c. ASSUME UNCHANGED <<opState, approvals, consumedBy, confirmed, vmPosts, latePosts>>
      PROVE  [Money!Next]_(Money!vars)
  <2>1. UNCHANGED <<Ledger, Token, Chain, Room>>
    BY <1>c, LedgerAt, TokenAt DEF Chain, Room
  <2> QED
    BY <1>b, <2>1
<1>1. ASSUME NEW c \in Configs, Boot(c) PROVE [Money!Next]_(Money!vars)
  BY <1>c, <1>1 DEF Boot
\* Recovery gives an open charge up.
<1>2. ASSUME NEW o \in Ops, Ledger[o] = "open", Transition(o, "publish_unconfirmed"),
             UNCHANGED <<approvals, consumedBy, confirmed, vmPosts, latePosts>>
      PROVE  Money!Next
  <2>1. Ledger' = [Ledger EXCEPT ![o] = "unresolved"]
    BY <1>a, <1>2, NewCharge DEF Charged
  <2>2. UNCHANGED <<Token, Chain, Room>>
    BY <1>2, TokenAt DEF Chain, Room
  <2>3. Money!GiveUp(o)
    BY <1>2, <2>1, <2>2 DEF Money!GiveUp, Chain, Room
  <2> QED
    BY <2>3 DEF Money!Next
<1>3. ASSUME NEW o \in Ops, ResumeReserved(o) PROVE [Money!Next]_(Money!vars)
  <2>1. Ledger[o] = "open"
    BY <1>3, LedgerAt DEF ResumeReserved, Charged
  <2> QED
    BY <1>2, <1>3, <2>1 DEF ResumeReserved
<1>4. ASSUME NEW o \in Ops, ResumePublished(o) PROVE [Money!Next]_(Money!vars)
  BY <1>c, <1>4 DEF ResumePublished
<1>5. ASSUME NEW o \in Ops, CaptureReceipted(o) PROVE [Money!Next]_(Money!vars)
  <2>1. Ledger' = Ledger
    BY <1>a, <1>5, SameCharge DEF CaptureReceipted, Charged
  <2>2. UNCHANGED <<Token, Chain, Room>>
    BY <1>5, TokenAt DEF CaptureReceipted, Chain, Room
  <2> QED
    BY <1>b, <2>1, <2>2
<1>6. CASE Serve
  BY <1>c, <1>6 DEF Serve
\* A receipt that will be stored later counts as announced.
<1>7. ASSUME NEW o \in Ops, opState[o] = "published", o \in Room' \ Room, Room' = Room \cup {o},
             UNCHANGED <<opState, approvals, consumedBy, confirmed>>
      PROVE  Money!Next
  <2>1. Ledger[o] = "settled" /\ UNCHANGED <<Ledger, Token, Chain>>
    BY <1>7, LedgerAt, TokenAt DEF Charged, Chain
  <2>2. Money!Announce(o)
    BY <1>7, <2>1 DEF Money!Announce, Chain, Room
  <2> QED
    BY <2>2 DEF Money!Next
<1>8. ASSUME w.op \in Ops, opState[w.op] = "published", Room' \in {Room, Room \cup {w.op}},
             UNCHANGED <<opState, approvals, consumedBy, confirmed>>
      PROVE  [Money!Next]_(Money!vars)
  <2>1. CASE Room' = Room
    <3>1. UNCHANGED <<Ledger, Token, Chain>>
      BY <1>8, LedgerAt, TokenAt DEF Chain
    <3> QED
      BY <1>b, <2>1, <3>1
  <2>2. CASE Room' # Room
    <3>1. w.op \in Room' \ Room /\ Room' = Room \cup {w.op}
      BY <1>8, <2>2
    <3> QED
      BY <1>7, <1>8, <3>1
  <2> QED
    BY <2>1, <2>2
<1>9. CASE Crash
  <2>1. CASE w.pc = "post"
    <3>1. w.op \in Ops /\ opState[w.op] = "published"
      BY <1>a, <1>n, <2>1 DEF TypeOK, HandlerInv, ReceiptPcs
    <3>2. Room' \in {Room, Room \cup {w.op}}
      BY <1>9, <2>1, <3>1 DEF Crash, PostLater, Room
    <3> QED
      BY <1>8, <1>9, <3>1, <3>2 DEF Crash
  <2>2. CASE w.pc # "post"
    BY <1>c, <1>9, <2>2 DEF Crash
  <2> QED
    BY <2>1, <2>2
<1>10. ASSUME NEW r \in Reactions, Reject(r), UNCHANGED <<opState, consumedBy, confirmed, vmPosts, latePosts>>
       PROVE  [Money!Next]_(Money!vars)
  <2>1. Token' = Token
    BY <1>a, <1>10, RefusalKeepsToken DEF Reject
  <2>2. UNCHANGED <<Ledger, Chain, Room>>
    BY <1>10, LedgerAt DEF Chain, Room
  <2> QED
    BY <1>b, <2>1, <2>2
<1>11. ASSUME NEW r \in Reactions, HandleApproval(r) PROVE [Money!Next]_(Money!vars)
  BY <1>c, <1>10, <1>11 DEF HandleApproval
<1>12. ASSUME NEW pc \in GatePcs, NEW next, NEW passes, NEW refuses,
              GateRead(pc, next, passes, refuses)
       PROVE  [Money!Next]_(Money!vars)
  <2>1. w.by \in Reactions
    BY <1>a, <1>12 DEF GateRead, HandlerInv
  <2> QED
    BY <1>c, <1>10, <1>12, <2>1 DEF GateRead
<1>13. CASE ReadReceipt \/ ReadDescriptor \/ ReadDigest
  BY <1>12, <1>13 DEF ReadReceipt, ReadDescriptor, ReadDigest, GatePcs
\* Consuming claims the reaction, if it had no outcome yet.
<1>14. CASE Decide
  <2>1. w.by \in Reactions /\ w.op \in Ops /\ TargetOf[w.by] = w.op
    BY <1>a, <1>14 DEF Decide, HandlerInv, GatePcs, TypeOK
  <2>2. CASE ~GateOpen
    BY <1>10, <1>14, <2>1, <2>2 DEF Decide
  <2>3. CASE GateOpen /\ approvals[w.by] # "none"
    <3>1. approvals' = approvals
      BY <1>a, <1>14, <2>1, <2>3 DEF Decide, Consume, RecordApproval, TypeOK
    <3> QED
      BY <1>c, <1>14, <3>1 DEF Decide
  <2>4. CASE GateOpen /\ approvals[w.by] = "none"
    <3>1. approvals' = [approvals EXCEPT ![w.by] = "consumed"]
      BY <1>14, <2>4 DEF Decide, Consume, RecordApproval
    <3>2. \A o \in Ops : consumedBy[o] # w.by
      <4> SUFFICES ASSUME NEW o \in Ops, consumedBy[o] = w.by PROVE FALSE
        OBVIOUS
      <4>1. consumedBy[o] # NoReaction
        BY <2>1
      <4>2. approvals[consumedBy[o]] = "consumed"
        BY <1>a, <4>1 DEF LedgerInv
      <4> QED
        BY <2>4, <4>2
    <3>3. Token[w.by] = "unused" /\ Token' = [Token EXCEPT ![w.by] = "claimed"]
      BY <1>a, <1>14, <2>1, <2>4, <3>1, <3>2, TokenAt DEF TokenOf, Decide, TypeOK
    <3>4. UNCHANGED <<Ledger, Chain, Room>>
      BY <1>14, LedgerAt DEF Decide, Chain, Room
    <3>5. Money!Claim(w.by)
      BY <3>3, <3>4 DEF Money!Claim, Chain, Room
    <3> QED
      BY <2>1, <3>5 DEF Money!Next
  <2> QED
    BY <2>2, <2>3, <2>4
\* The reservation charges the operation against the approval in hand.
<1>15. ASSUME Reserve, ~Refused(w.op, "publishing") PROVE Money!Next
  <2>1. /\ w.op \in Ops /\ w.by \in Reactions /\ TargetOf[w.by] = w.op
        /\ approvals[w.by] = "consumed" /\ opState[w.op] = "receipted"
    BY <1>a, <1>n, <1>15 DEF Reserve, HandlerInv, GatePcs, TypeOK
  <2>2. consumedBy[w.op] = NoReaction
    BY <1>a, <2>1 DEF LedgerInv, SpentStates
  <2>3. \A o \in Ops : consumedBy[o] # w.by
    <3> SUFFICES ASSUME NEW o \in Ops, consumedBy[o] = w.by PROVE FALSE
      OBVIOUS
    <3>1. TargetOf[consumedBy[o]] = o
      BY <1>a, <2>1 DEF LedgerInv
    <3> QED
      BY <2>1, <2>2, <3>1
  <2>4. consumedBy' = [consumedBy EXCEPT ![w.op] = w.by] /\ approvals' = approvals
    BY <1>15 DEF Reserve
  <2>5. \A r \in Reactions : (\E o \in Ops : consumedBy'[o] = r) <=>
                             r = w.by \/ \E o \in Ops : consumedBy[o] = r
    BY <1>a, <2>1, <2>2, <2>4 DEF TypeOK
  <2>6. Token[w.by] = "claimed" /\ Token' = [Token EXCEPT ![w.by] = "spent"]
    BY <2>1, <2>3, <2>4, <2>5, TokenAt DEF TokenOf
  <2>7. Ledger[w.op] = "none" /\ Ledger' = [Ledger EXCEPT ![w.op] = "open"]
    BY <1>a, <1>15, <2>1, LedgerAt, NewCharge DEF Reserve, Charged
  <2>8. UNCHANGED <<Chain, Room>>
    BY <1>15 DEF Reserve, Chain, Room
  <2>9. Money!Charge(w.op, w.by)
    BY <2>1, <2>6, <2>7, <2>8 DEF Money!Charge, Chain, Room
  <2> QED
    BY <2>1, <2>9 DEF Money!Next
\* A refused transition of the handler changes nothing.
<1>0. ASSUME NEW to, Refused(w.op, to), UNCHANGED <<approvals, consumedBy, confirmed, vmPosts, latePosts>>
      PROVE  [Money!Next]_(Money!vars)
  BY <1>c, <1>0 DEF Refused
<1>27. CASE Reserve
  <2>1. CASE Refused(w.op, "publishing")
    <3>1. ~Transition(w.op, "publishing")
      BY <2>1 DEF Refused, Transition
    <3> QED
      BY <1>0, <1>27, <2>1, <3>1 DEF Reserve
  <2>2. CASE ~Refused(w.op, "publishing")
    BY <1>15, <1>27, <2>2
  <2> QED
    BY <2>1, <2>2
\* A confirmed answer is the first for its asset; the others say nothing.
<1>16. CASE NodePublishes
  <2>1. w.op \in Ops /\ w.pc = "publish" /\ opState[w.op] = "publishing"
    BY <1>a, <1>n, <1>16 DEF NodePublishes, HandlerInv, PublishPcs, TypeOK
  <2>2. \A p \in Ops : confirmed[p] => KaOf[p] # KaOf[w.op]
    BY <1>a, <2>1 DEF AssetInv
  <2>3. PICK answer \in {"confirmed", "tentative", "error"} :
          confirmed' = [confirmed EXCEPT ![w.op] = answer = "confirmed"]
    BY <1>16 DEF NodePublishes
  <2>4. UNCHANGED <<Ledger, Token, Room>>
    BY <1>16, LedgerAt, TokenAt DEF NodePublishes, Room
  <2>5. CASE answer = "confirmed"
    <3>0. \A o \in Ops : confirmed'[o] <=> confirmed[o] \/ o = w.op
      BY <1>a, <2>1, <2>3, <2>5 DEF TypeOK
    <3>1. Chain' = Chain \cup {w.op}
      BY <2>1, <3>0 DEF Chain
    <3>2. Ledger[w.op] = "open"
      BY <2>1, LedgerAt DEF Charged
    <3>3. \E o \in Ops : Money!Confirm(o)
      BY <2>1, <2>2, <2>4, <3>1, <3>2 DEF Money!Confirm, Chain, Room
    <3> QED
      BY <3>3 DEF Money!Next
  <2>6. CASE answer # "confirmed"
    <3>1. ~confirmed[w.op]
      BY <2>1, <2>2
    <3>2. Chain' = Chain
      BY <1>a, <2>1, <2>3, <2>6, <3>1 DEF Chain, TypeOK
    <3> QED
      BY <1>b, <2>4, <3>2
  <2> QED
    BY <2>5, <2>6
<1>17. CASE MarkUnconfirmed
  <2>1. w.op \in Ops /\ Ledger[w.op] = "open"
    BY <1>a, <1>n, <1>17, LedgerAt DEF MarkUnconfirmed, HandlerInv, PublishPcs, Charged, TypeOK
  <2> QED
    BY <1>2, <1>17, <2>1 DEF MarkUnconfirmed
<1>18. ASSUME PersistUal, Transition(w.op, "published") PROVE Money!Next
  <2>1. w.op \in Ops /\ opState[w.op] = "publishing" /\ w.op \in Chain
    BY <1>a, <1>n, <1>18 DEF PersistUal, HandlerInv, PublishPcs, ConfirmationInv, Chain, TypeOK
  <2>2. Ledger[w.op] = "open" /\ Ledger' = [Ledger EXCEPT ![w.op] = "settled"]
    BY <1>a, <1>18, <2>1, LedgerAt, NewCharge DEF PersistUal, Charged
  <2>3. UNCHANGED <<Token, Chain, Room>>
    BY <1>18, TokenAt DEF PersistUal, Chain, Room
  <2>4. Money!Settle(w.op)
    BY <2>1, <2>2, <2>3 DEF Money!Settle, Chain, Room
  <2> QED
    BY <2>1, <2>4 DEF Money!Next
<1>28. CASE PersistUal
  BY <1>0, <1>18, <1>28 DEF PersistUal
<1>19. CASE ReadBack
  BY <1>c, <1>19 DEF ReadBack
<1>20. CASE PostReceipt
  <2>1. w.op \in Ops /\ opState[w.op] = "published"
    BY <1>a, <1>n, <1>20 DEF PostReceipt, HandlerInv, ReceiptPcs, TypeOK
  <2>2. CASE vmPosts' = [vmPosts EXCEPT ![w.op] = OneMore(@)] /\ latePosts' = latePosts
    <3>1. \A o \in Ops : vmPosts'[o] > 0 <=> vmPosts[o] > 0 \/ o = w.op
      BY <1>a, <2>1, <2>2 DEF OneMore, TypeOK
    <3>2. Room' = Room \cup {w.op}
      BY <2>1, <2>2, <3>1 DEF Room
    <3> QED
      BY <1>8, <1>20, <2>1, <3>2 DEF PostReceipt
  <2>3. CASE vmPosts' = vmPosts
    <3>1. Room' \in {Room, Room \cup {w.op}}
      BY <1>20, <2>1, <2>3 DEF PostReceipt, PostLater, Room
    <3> QED
      BY <1>8, <1>20, <2>1, <3>1 DEF PostReceipt
  <2> QED
    BY <1>20, <2>2, <2>3 DEF PostReceipt
<1>21. ASSUME RecordReceipt, Transition(w.op, "vm_receipted") PROVE [Money!Next]_(Money!vars)
  <2>1. w.op \in Ops /\ opState[w.op] = "published"
    BY <1>a, <1>n, <1>21 DEF RecordReceipt, HandlerInv, ReceiptPcs, TypeOK
  <2>2. Ledger' = Ledger
    BY <1>a, <1>21, <2>1, SameCharge DEF RecordReceipt, Charged
  <2>3. UNCHANGED <<Token, Chain, Room>>
    BY <1>21, TokenAt DEF RecordReceipt, Chain, Room
  <2> QED
    BY <1>b, <2>2, <2>3
<1>29. CASE RecordReceipt
  BY <1>0, <1>21, <1>29 DEF RecordReceipt
<1>22. ASSUME NEW k \in KAs, LatePublish(k) PROVE [Money!Next]_(Money!vars)
  BY <1>c, <1>22 DEF LatePublish
\* A late receipt was announced when it was sent.
<1>23. ASSUME NEW o \in Ops, LatePost(o) PROVE [Money!Next]_(Money!vars)
  <2>1. \A p \in Ops : vmPosts'[p] > 0 \/ p \in latePosts' <=> vmPosts[p] > 0 \/ p \in latePosts
    BY <1>a, <1>23 DEF LatePost, OneMore, TypeOK
  <2>2. UNCHANGED <<Ledger, Token, Chain, Room>>
    BY <1>23, <2>1, LedgerAt, TokenAt DEF LatePost, Chain, Room
  <2> QED
    BY <1>b, <2>2
<1>24. ASSUME NEW c \in Chains, NodeMoves(c) PROVE [Money!Next]_(Money!vars)
  BY <1>c, <1>24 DEF NodeMoves
<1>25. CASE Tick
  BY <1>c, <1>25 DEF Tick
<1>26. CASE UNCHANGED vars
  BY <1>c, <1>26 DEF vars
<1>30. ASSUME NEW o \in Ops, ListsParked(o) \/ StaleFails(o) \/ StaleEnds(o)
       PROVE  [Money!Next]_(Money!vars)
  BY <1>c, <1>n, <1>30 DEF ListsParked, StaleFails, StaleEnds
<1> QED
  BY <1>1, <1>3, <1>4, <1>5, <1>6, <1>9, <1>11, <1>13, <1>14, <1>16, <1>17, <1>19, <1>20,
     <1>27, <1>28, <1>29, <1>30, <1>22, <1>23, <1>24, <1>25, <1>26
  DEF Next, Gate, Publishing, Announcing

\* Where no two resyncs run at once, the daemon's money path keeps the promises of
\* Spending, for all constants and under all other faults of the module.
THEOREM Implementation ==
  ASSUME ~ResyncsOverlap
  PROVE  Spec => ImplementsSpending
<1>1. Init => Money!Init
  <2> SUFFICES ASSUME Init PROVE Money!Init
    OBVIOUS
  <2>1. Ledger = [o \in Ops |-> "none"]
    BY LedgerAt DEF Init, Charged
  <2>2. Token = [r \in Reactions |-> "unused"]
    BY TokenAt DEF Init, TokenOf
  <2> QED
    BY <2>1, <2>2 DEF Init, Money!Init
<1>2. IInv /\ [Next]_vars => [Money!Next]_(Money!vars)
  BY StepImplements
<1> QED
  BY <1>1, <1>2, Inductive, PTL DEF Spec, ImplementsSpending, Money!Spec
=============================================================================
