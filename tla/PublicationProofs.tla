------------------------- MODULE PublicationProofs --------------------------
(***************************************************************************)
(* Proofs about Publication, for every set of operations, reactions and    *)
(* configurations, every budget and window, and with every relay fault.    *)
(*                                                                         *)
(* The inductive invariant relates the handler's position to the row it    *)
(* works on: while the handler waits, the row stays as it was read, or a   *)
(* second resync fails it, and then the handler's next transition is       *)
(* refused.  What the accounts promise beyond that holds as long as        *)
(* resyncs do not overlap, and is proved under that premise.               *)
(***************************************************************************)
EXTENDS Publication, FiniteSetTheorems, TLAPS

\* The handler and the row in its hands.
HandlerInv ==
    /\ w.pc \in GatePcs =>
         /\ phase = "serving"
         /\ w.by \in Reactions /\ TargetOf[w.by] = w.op /\ Admitted(w.by, w.op)
         /\ opState[w.op] \in {w.seen, "failed"} /\ w.seen \notin CaptureStates
    /\ w.pc = "consumed" => /\ w.seen = "receipted" /\ approvals[w.by] = "consumed"
                             /\ cfg.mode # "disabled"
    /\ w.pc \in PublishPcs => phase = "serving" /\ opState[w.op] \in {"publishing", "failed"}
    /\ w.pc \in ReceiptPcs => opState[w.op] \in {"published", "failed"}

\* Past its capture, a row is failed only by a resync beside another.
OverlapInv ==
    /\ stale # {} => ResyncsOverlap
    /\ \A o \in Ops : opState[o] = "failed" => ResyncsOverlap

\* What the accounts say about a call that was made.
LedgerInv ==
    \A o \in Ops :
        /\ calls[o] <= 1
        /\ calls[o] > 0 => /\ opState[o] \in SpentStates \cup {"failed"}
                           /\ consumedBy[o] \in Reactions
                           /\ TargetOf[consumedBy[o]] = o
                           /\ approvals[consumedBy[o]] = "consumed"
        /\ consumedBy[o] # NoReaction => calls[o] > 0
        /\ calledOn[o] = "mainnet" => calls[o] > 0
        /\ calls[o] > 0 => calledAt[o] <= updatedAt[o]
        /\ updatedAt[o] <= now

\* Only a confirmed answer leads to an announcement.
ConfirmationInv ==
    /\ w.pc \in {"confirmed"} \cup ReceiptPcs => confirmed[w.op]
    /\ w.pc \in PublishPcs => vmPosts[w.op] = 0 /\ w.op \notin latePosts
    /\ \A o \in Ops :
         /\ opState[o] \in {"published", "vm_receipted"} => confirmed[o]
         /\ vmPosts[o] > 0 \/ o \in latePosts =>
              confirmed[o] /\ opState[o] \in {"published", "vm_receipted", "failed"}

\* A reserved operation is in somebody's hands, or on recovery's list.
ReservationInv ==
    \A o \in Ops : opState[o] = "publishing" =>
        /\ phase = "recovering" => o \in todo
        /\ phase = "serving" => w.op = o /\ w.pc \in PublishPcs

\* Between the budget check and the reservation the budget stays open; rows
\* bound the calls where none of them is failed.
BudgetInv ==
    /\ w.pc = "consumed" /\ cfg.mode = "mainnet" => BudgetLeft
    /\ ResyncsOverlap \/ WithinBudget

\* The asset's receipt is in the room, or one that cannot be told from it.
Receipted(o) == \E p \in Ops : <<KaOf[o], KaOf[p]>> \in UalWithin /\ vmPosts[p] > 0

\* The room, as far as it was read without doubt.
RoomInv ==
    /\ \A o \in Ops : vmPosts[o] > 1 \/ o \in latePosts => o \in doubted
    /\ w.pc = "post" => vmPosts[w.op] = 0 \/ w.op \in doubted
    /\ w.pc = "adopt" => Receipted(w.op)
    /\ \A o \in Ops : opState[o] = "vm_receipted" => Receipted(o)

\* From the descriptor on, the asset in hand has no confirmed publication.
AssetInv ==
    /\ \A o \in Ops : confirmed[o] => layer[KaOf[o]] = "VM"
    /\ w.pc \in {"digest", "decide", "consumed", "publish"} =>
         \A p \in Ops : confirmed[p] => KaOf[p] # KaOf[w.op]
    /\ AssetConfirmedOnce

-----------------------------------------------------------------------------

\* Moving the handler on keeps its operation, reaction and reading.
LEMMA GotoKeeps ==
  ASSUME w \in Handler, NEW pc \in GatePcs \cup PublishPcs \cup ReceiptPcs, Goto(pc)
  PROVE  /\ w' \in Handler
         /\ w'.pc = pc /\ w'.op = w.op /\ w'.by = w.by /\ w'.seen = w.seen
  BY DEF Handler, Goto, At

\* Starting and ending a piece of work.
LEMMA IdleType == Idle \in Handler /\ Idle.pc = "idle"
  BY DEF Handler, Idle, At

\* Every variable keeps its type (the tables, the process, the node, the room).
THEOREM TypeCorrect == Spec => []TypeOK
<1> USE ConstantsAssumption
<1>1. Init => TypeOK
  BY IdleType DEF Init, TypeOK, OpState, Track
<1>2. TypeOK /\ [Next]_vars => TypeOK'
  <2> SUFFICES ASSUME TypeOK, [Next]_vars PROVE TypeOK'
    OBVIOUS
  <2> USE DEF TypeOK, dbVars, procVars, nodeVars, relayVars, histVars, GatePcs, PublishPcs, ReceiptPcs
  <2>1. ASSUME NEW c \in Configs, Boot(c) PROVE TypeOK'
    BY <2>1 DEF Boot
  <2>2. ASSUME NEW o \in Ops, ResumeReserved(o) PROVE TypeOK'
    BY <2>2 DEF ResumeReserved, Transition, OpState, OffTrack
  <2>3. ASSUME NEW o \in Ops, ResumePublished(o) PROVE TypeOK'
    BY <2>3 DEF ResumePublished, Handler, At, OpState, Track
  <2>4. ASSUME NEW o \in Ops, CaptureReceipted(o) PROVE TypeOK'
    BY <2>4 DEF CaptureReceipted, Transition, OpState, Track
  <2>5. CASE Serve
    BY <2>5 DEF Serve
  <2>6. CASE Crash
    BY <2>6, IdleType DEF Crash, PostLater
  <2>7. ASSUME NEW r \in Reactions, HandleApproval(r) PROVE TypeOK'
    BY <2>7 DEF HandleApproval, Reject, RecordApproval, Handler, At
  <2>8. ASSUME NEW pc \in GatePcs, NEW next \in GatePcs, NEW passes, NEW refuses,
               GateRead(pc, next, passes, refuses)
        PROVE  TypeOK'
    BY <2>8, GotoKeeps, IdleType DEF GateRead, Reject, RecordApproval
  <2>9. CASE ReadReceipt \/ ReadDescriptor \/ ReadDigest
    BY <2>8, <2>9 DEF ReadReceipt, ReadDescriptor, ReadDigest
  <2>10. CASE Decide
    BY <2>10, GotoKeeps, IdleType DEF Decide, Consume, Reject, RecordApproval
  <2>11. CASE Reserve
    <3>1. /\ w' \in Handler /\ ((w'.pc = "publish" /\ w'.op = w.op) \/ w'.pc = "idle")
          /\ w.op \in Ops /\ phase # "down"
      BY <2>11, GotoKeeps, IdleType DEF Reserve, Refused
    <3>2. cfg.mode \in {"disabled", "devnet", "mainnet"}
      BY <3>1
    <3>3. w.by \in Reactions \cup {NoReaction}
      BY DEF Handler
    <3> QED
      BY <2>11, <3>1, <3>2, <3>3 DEF Reserve, Refused, Transition, OpState, Track
  <2>12. CASE NodePublishes
    BY <2>12, GotoKeeps DEF NodePublishes, Verdict
  <2>13. CASE MarkUnconfirmed
    BY <2>13, IdleType DEF MarkUnconfirmed, Transition, OpState, OffTrack
  <2>14. CASE PersistUal
    BY <2>14, GotoKeeps, IdleType DEF PersistUal, Refused, Transition, OpState, Track
  <2>15. CASE ReadBack
    BY <2>15, GotoKeeps DEF ReadBack
  <2>16. CASE PostReceipt
    BY <2>16, GotoKeeps, IdleType DEF PostReceipt, PostLater, OneMore
  <2>17. CASE RecordReceipt
    BY <2>17, IdleType DEF RecordReceipt, Refused, Transition, OpState, Track
  <2>18. ASSUME NEW k \in KAs, LatePublish(k) PROVE TypeOK'
    BY <2>18 DEF LatePublish
  <2>19. ASSUME NEW o \in Ops, LatePost(o) PROVE TypeOK'
    BY <2>19 DEF LatePost, OneMore
  <2>20. ASSUME NEW c \in Chains, NodeMoves(c) PROVE TypeOK'
    BY <2>20 DEF NodeMoves
  <2>21. CASE Tick
    BY <2>21 DEF Tick
  <2>22. CASE UNCHANGED vars
    BY <2>22 DEF vars
  <2>23. ASSUME NEW o \in Ops, ListsParked(o) \/ StaleFails(o) \/ StaleEnds(o) PROVE TypeOK'
    BY <2>23 DEF ListsParked, StaleFails, StaleEnds, Transition, OpState, OffTrack
  <2> QED
    BY <2>23, <2>1, <2>2, <2>3, <2>4, <2>5, <2>6, <2>7, <2>9, <2>10, <2>11, <2>12, <2>13, <2>14,
       <2>15, <2>16, <2>17, <2>18, <2>19, <2>20, <2>21, <2>22
    DEF Next, Gate, Publishing, Announcing
<1>3. QED
  BY <1>1, <1>2, PTL DEF Spec

-----------------------------------------------------------------------------
(* The handler and its row.                                                *)

\* A step of the relay, the node or the clock moves neither handler nor tables.
\* A failed row takes no step along the track.
LEMMA Unfailed ==
  ASSUME NEW o \in Ops, NEW to \in Track, Transition(o, to)
  PROVE  opState[o] # "failed"
  BY DEF Transition, CanTransition, Track, OffTrack

\* What a resync with an old record does to the row, and that it does no more.
LEMMA StaleRow ==
  ASSUME TypeOK, NEW o \in Ops, StaleFails(o)
  PROVE  /\ opState' = [opState EXCEPT ![o] = "failed"]
         /\ updatedAt' = [updatedAt EXCEPT ![o] = now]
         /\ UNCHANGED <<w, phase, cfg, approvals, consumedBy, todo, calls, calledAt, calledOn, confirmed,
                        doubted, vmPosts, latePosts, layer, now>>
  BY DEF StaleFails, Transition, dbVars, procVars, nodeVars, relayVars, histVars

LEMMA HandlerStep ==
  ASSUME TypeOK, TypeOK', HandlerInv, [Next]_vars
  PROVE  HandlerInv'
<1> USE ConstantsAssumption DEF HandlerInv, Admitted, GatePcs, PublishPcs, ReceiptPcs
<1> USE DEF dbVars, procVars, nodeVars, relayVars, histVars
<1>1. ASSUME NEW c \in Configs, Boot(c) PROVE HandlerInv'
  BY <1>1 DEF Boot, TypeOK
<1>2. ASSUME NEW o \in Ops, ResumeReserved(o) PROVE HandlerInv'
  BY <1>2 DEF ResumeReserved
<1>3. ASSUME NEW o \in Ops, ResumePublished(o) PROVE HandlerInv'
  BY <1>3 DEF ResumePublished, At
<1>4. ASSUME NEW o \in Ops, CaptureReceipted(o) PROVE HandlerInv'
  <2>1. w.pc # "idle" => w.op \in Ops /\ w.op # o
    BY <1>4 DEF CaptureReceipted, CaptureStates, TypeOK, Handler
  <2> QED
    BY <1>4, <2>1 DEF CaptureReceipted, Transition, TypeOK
<1>5. CASE Serve
  BY <1>5 DEF Serve
<1>6. CASE Crash
  BY <1>6, IdleType DEF Crash
<1>7. ASSUME NEW r \in Reactions, HandleApproval(r) PROVE HandlerInv'
  BY <1>7 DEF HandleApproval, Reject, RecordApproval, At
<1>8. ASSUME NEW pc \in GatePcs, NEW next \in GatePcs \ {"consumed"}, NEW passes, NEW refuses,
             GateRead(pc, next, passes, refuses)
      PROVE  HandlerInv'
  BY <1>8, GotoKeeps, IdleType DEF GateRead, Reject, RecordApproval, TypeOK
<1>9. CASE ReadReceipt \/ ReadDescriptor \/ ReadDigest
  BY <1>8, <1>9 DEF ReadReceipt, ReadDescriptor, ReadDigest
<1>10. CASE Decide
  <2>1. CASE GateOpen /\ approvals[w.by] = "none"
    BY <1>10, <2>1, GotoKeeps DEF Decide, GateOpen, Consume, RecordApproval, TypeOK
  <2>2. CASE ~(GateOpen /\ approvals[w.by] = "none")
    BY <1>10, <2>2, IdleType DEF Decide, Consume
  <2> QED
    BY <2>1, <2>2
<1>11. CASE Reserve
  BY <1>11, GotoKeeps, IdleType DEF Reserve, Refused, Transition, TypeOK
<1>12. CASE NodePublishes
  BY <1>12, GotoKeeps DEF NodePublishes, Verdict, TypeOK
<1>13. CASE MarkUnconfirmed
  BY <1>13, IdleType DEF MarkUnconfirmed
<1>14. CASE PersistUal
  BY <1>14, GotoKeeps, IdleType DEF PersistUal, Refused, Transition, TypeOK
<1>15. CASE ReadBack
  BY <1>15, GotoKeeps DEF ReadBack, TypeOK
<1>16. CASE PostReceipt
  BY <1>16, GotoKeeps, IdleType DEF PostReceipt, TypeOK
<1>17. CASE RecordReceipt
  BY <1>17, IdleType DEF RecordReceipt, Refused
<1>18. ASSUME NEW k \in KAs, LatePublish(k) PROVE HandlerInv'
  BY <1>18 DEF LatePublish
<1>19. ASSUME NEW o \in Ops, LatePost(o) PROVE HandlerInv'
  BY <1>19 DEF LatePost
<1>20. ASSUME NEW c \in Chains, NodeMoves(c) PROVE HandlerInv'
  BY <1>20 DEF NodeMoves
<1>21. CASE Tick
  BY <1>21 DEF Tick
<1>22. CASE UNCHANGED vars
  BY <1>22 DEF vars
<1>23. ASSUME NEW o \in Ops, ListsParked(o) \/ StaleEnds(o) PROVE HandlerInv'
  BY <1>23 DEF ListsParked, StaleEnds
<1>24. ASSUME NEW o \in Ops, StaleFails(o) PROVE HandlerInv'
  BY <1>24, StaleRow DEF TypeOK
<1> QED
  BY <1>23, <1>24, <1>1, <1>2, <1>3, <1>4, <1>5, <1>6, <1>7, <1>9, <1>10, <1>11, <1>12, <1>13, <1>14,
     <1>15, <1>16, <1>17, <1>18, <1>19, <1>20, <1>21, <1>22
  DEF Next, Gate, Publishing, Announcing

-----------------------------------------------------------------------------
(* The accounts.                                                           *)

\* Recording an outcome never changes one that is there.
LEMMA OutcomesKept ==
  ASSUME TypeOK, NEW r \in Reactions, NEW outcome, RecordApproval(r, outcome),
         NEW s \in Reactions, approvals[s] # "none"
  PROVE  approvals'[s] = approvals[s]
  BY DEF RecordApproval, TypeOK

\* A step that makes no call, moves only operations along the spent states, or to
\* failed (or ones never called), and keeps recorded outcomes leaves the accounts in order.
LEMMA LedgerKept ==
  ASSUME TypeOK, LedgerInv, now' = now,
         UNCHANGED <<consumedBy, calls, calledAt, calledOn>>,
         \A r \in Reactions : approvals[r] = "consumed" => approvals'[r] = "consumed",
         NEW o \in Ops, NEW to \in OpState, Transition(o, to),
         calls[o] > 0 => to \in SpentStates \cup {"failed"}
  PROVE  LedgerInv'
  BY DEF LedgerInv, Transition, TypeOK

LEMMA LedgerStep ==
  ASSUME TypeOK, HandlerInv, LedgerInv, [Next]_vars
  PROVE  LedgerInv'
<1> USE ConstantsAssumption
<1> USE DEF dbVars, procVars, nodeVars, relayVars, histVars
<1>1. ASSUME NEW c \in Configs, Boot(c) PROVE LedgerInv'
  BY <1>1 DEF Boot, LedgerInv
<1>2. ASSUME NEW o \in Ops, ResumeReserved(o) PROVE LedgerInv'
  BY <1>2, LedgerKept DEF ResumeReserved, SpentStates, OpState, OffTrack
<1>3. ASSUME NEW o \in Ops, ResumePublished(o) PROVE LedgerInv'
  BY <1>3 DEF ResumePublished, LedgerInv
<1>4. ASSUME NEW o \in Ops, CaptureReceipted(o) PROVE LedgerInv'
  <2>1. ~(calls[o] > 0)
    BY <1>4 DEF CaptureReceipted, LedgerInv, SpentStates
  <2> QED
    BY <1>4, <2>1, LedgerKept DEF CaptureReceipted, OpState, Track
<1>5. CASE Serve \/ Crash
  BY <1>5 DEF Serve, Crash, LedgerInv
<1>6. ASSUME NEW r \in Reactions, HandleApproval(r) PROVE LedgerInv'
  BY <1>6, OutcomesKept DEF HandleApproval, Reject, LedgerInv
<1>7. ASSUME NEW pc \in GatePcs, NEW next, NEW passes, NEW refuses,
             GateRead(pc, next, passes, refuses)
      PROVE  LedgerInv'
  BY <1>7, OutcomesKept DEF GateRead, Reject, LedgerInv, HandlerInv
<1>8. CASE ReadReceipt \/ ReadDescriptor \/ ReadDigest
  BY <1>7, <1>8 DEF ReadReceipt, ReadDescriptor, ReadDigest, GatePcs
<1>9. CASE Decide
  BY <1>9, OutcomesKept DEF Decide, Consume, Reject, LedgerInv, HandlerInv, GatePcs
<1>10. CASE Reserve
  <2>1. CASE Refused(w.op, "publishing")
    BY <1>10, <2>1 DEF Reserve, Refused, Transition, LedgerInv
  <2>2. CASE Transition(w.op, "publishing")
    <3>1. /\ w.op \in Ops /\ w.by \in Reactions /\ TargetOf[w.by] = w.op
          /\ approvals[w.by] = "consumed" /\ opState[w.op] = "receipted"
      BY <1>10, <2>2, Unfailed DEF Reserve, HandlerInv, GatePcs, TypeOK, Track
    <3>2. calls[w.op] = 0
      BY <3>1 DEF LedgerInv, SpentStates, TypeOK
    <3> QED
      BY <1>10, <2>2, <3>1, <3>2 DEF Reserve, Refused, Transition, LedgerInv, SpentStates, TypeOK
  <2> QED
    BY <1>10, <2>1, <2>2 DEF Reserve
<1>11. CASE NodePublishes
  BY <1>11 DEF NodePublishes, LedgerInv
<1>12. CASE MarkUnconfirmed
  BY <1>12, LedgerKept DEF MarkUnconfirmed, TypeOK, SpentStates, OpState, OffTrack
<1>13. CASE PersistUal
  <2>1. CASE Transition(w.op, "published")
    BY <1>13, <2>1, LedgerKept DEF PersistUal, TypeOK, SpentStates, OpState, Track
  <2>2. CASE Refused(w.op, "published")
    BY <1>13, <2>2 DEF PersistUal, Refused, LedgerInv
  <2> QED
    BY <1>13, <2>1, <2>2 DEF PersistUal
<1>14. CASE ReadBack \/ PostReceipt
  BY <1>14 DEF ReadBack, PostReceipt, LedgerInv
<1>15. CASE RecordReceipt
  <2>1. CASE Transition(w.op, "vm_receipted")
    BY <1>15, <2>1, LedgerKept DEF RecordReceipt, TypeOK, SpentStates, OpState, Track
  <2>2. CASE Refused(w.op, "vm_receipted")
    BY <1>15, <2>2 DEF RecordReceipt, Refused, LedgerInv
  <2> QED
    BY <1>15, <2>1, <2>2 DEF RecordReceipt
<1>16. ASSUME NEW k \in KAs, LatePublish(k) PROVE LedgerInv'
  BY <1>16 DEF LatePublish, LedgerInv
<1>17. ASSUME NEW o \in Ops, LatePost(o) PROVE LedgerInv'
  BY <1>17 DEF LatePost, LedgerInv
<1>18. ASSUME NEW c \in Chains, NodeMoves(c) PROVE LedgerInv'
  BY <1>18 DEF NodeMoves, LedgerInv
<1>19. CASE Tick
  BY <1>19 DEF Tick, LedgerInv, TypeOK
<1>20. CASE UNCHANGED vars
  BY <1>20 DEF vars, LedgerInv
<1>21. ASSUME NEW o \in Ops, ListsParked(o) \/ StaleEnds(o) PROVE LedgerInv'
  BY <1>21 DEF ListsParked, StaleEnds, LedgerInv
<1>22. ASSUME NEW o \in Ops, StaleFails(o) PROVE LedgerInv'
  BY <1>22, LedgerKept DEF StaleFails, SpentStates, OpState, OffTrack
<1> QED
  BY <1>21, <1>22, <1>1, <1>2, <1>3, <1>4, <1>5, <1>6, <1>8, <1>9, <1>10, <1>11, <1>12, <1>13, <1>14,
     <1>15, <1>16, <1>17, <1>18, <1>19, <1>20
  DEF Next, Gate, Publishing, Announcing

-----------------------------------------------------------------------------
(* Confirmations and reservations.                                         *)

LEMMA ConfirmationStep ==
  ASSUME TypeOK, HandlerInv, ConfirmationInv, [Next]_vars
  PROVE  ConfirmationInv'
<1> USE ConstantsAssumption DEF ConfirmationInv
<1> USE DEF dbVars, procVars, nodeVars, relayVars, histVars
<1>1. ASSUME NEW c \in Configs, Boot(c) PROVE ConfirmationInv'
  BY <1>1 DEF Boot
<1>2. ASSUME NEW o \in Ops, ResumeReserved(o) PROVE ConfirmationInv'
  BY <1>2 DEF ResumeReserved, Transition, TypeOK
<1>3. ASSUME NEW o \in Ops, ResumePublished(o) PROVE ConfirmationInv'
  BY <1>3 DEF ResumePublished, At, PublishPcs, ReceiptPcs
<1>4. ASSUME NEW o \in Ops, CaptureReceipted(o) PROVE ConfirmationInv'
  BY <1>4 DEF CaptureReceipted, Transition, TypeOK
<1>5. CASE Serve
  BY <1>5 DEF Serve
<1>6. CASE Crash
  BY <1>6, IdleType DEF Crash, PostLater, HandlerInv, PublishPcs, ReceiptPcs
<1>7. ASSUME NEW r \in Reactions, HandleApproval(r) PROVE ConfirmationInv'
  BY <1>7 DEF HandleApproval, At, PublishPcs, ReceiptPcs
<1>8. ASSUME NEW pc \in GatePcs, NEW next \in GatePcs, NEW passes, NEW refuses,
             GateRead(pc, next, passes, refuses)
      PROVE  ConfirmationInv'
  BY <1>8, GotoKeeps, IdleType DEF GateRead, TypeOK, GatePcs, PublishPcs, ReceiptPcs
<1>9. CASE ReadReceipt \/ ReadDescriptor \/ ReadDigest
  BY <1>8, <1>9 DEF ReadReceipt, ReadDescriptor, ReadDigest, GatePcs
<1>10. CASE Decide
  BY <1>10, GotoKeeps, IdleType DEF Decide, Consume, TypeOK, GatePcs, PublishPcs, ReceiptPcs
<1>11. CASE Reserve
  <2>1. CASE Refused(w.op, "publishing")
    BY <1>11, <2>1, IdleType DEF Reserve, Refused, Transition, PublishPcs, ReceiptPcs
  <2>2. CASE Transition(w.op, "publishing") /\ Goto("publish")
    <3>1. w.op \in Ops /\ opState[w.op] = "receipted"
      BY <1>11, <2>2, Unfailed DEF Reserve, HandlerInv, GatePcs, TypeOK, Track
    <3>2. vmPosts[w.op] = 0 /\ w.op \notin latePosts
      BY <3>1 DEF TypeOK
    <3> QED
      BY <1>11, <2>2, <3>1, <3>2, GotoKeeps DEF Reserve, Refused, Transition, TypeOK, PublishPcs, ReceiptPcs
  <2> QED
    BY <1>11, <2>1, <2>2 DEF Reserve
<1>12. CASE NodePublishes
  <2>1. /\ w.op \in Ops /\ opState[w.op] \in {"publishing", "failed"}
        /\ vmPosts[w.op] = 0 /\ w.op \notin latePosts
    BY <1>12 DEF NodePublishes, HandlerInv, PublishPcs, TypeOK
  <2>2. PICK answer \in {"confirmed", "tentative", "error"} :
          /\ Goto(Verdict(answer))
          /\ confirmed' = [confirmed EXCEPT ![w.op] = answer = "confirmed"]
    BY <1>12 DEF NodePublishes
  <2>3. w'.pc \in PublishPcs \ {"publish"} /\ (w'.pc = "confirmed" => answer = "confirmed")
    BY <2>2, GotoKeeps DEF Verdict, PublishPcs, TypeOK
  <2>4. w'.op = w.op
    BY <2>2, GotoKeeps DEF Verdict, PublishPcs, TypeOK
  <2>5. w'.pc \notin ReceiptPcs /\ (w'.pc = "confirmed" => confirmed'[w'.op])
    BY <2>1, <2>2, <2>3, <2>4 DEF TypeOK, PublishPcs, ReceiptPcs
  <2>6. \A o \in Ops : o # w.op => confirmed'[o] = confirmed[o]
    BY <2>2 DEF TypeOK
  <2> QED
    BY <1>12, <2>1, <2>4, <2>5, <2>6 DEF NodePublishes, TypeOK
<1>13. CASE MarkUnconfirmed
  BY <1>13, IdleType DEF MarkUnconfirmed, Transition, HandlerInv, PublishPcs, ReceiptPcs, TypeOK
<1>14. CASE PersistUal
  BY <1>14, GotoKeeps, IdleType DEF PersistUal, Refused, Transition, TypeOK, PublishPcs, ReceiptPcs
<1>15. CASE ReadBack
  BY <1>15, GotoKeeps DEF ReadBack, TypeOK, PublishPcs, ReceiptPcs
<1>16. CASE PostReceipt
  <2>1. w.op \in Ops /\ opState[w.op] \in {"published", "failed"} /\ confirmed[w.op]
    BY <1>16 DEF PostReceipt, HandlerInv, ReceiptPcs, TypeOK
  <2> QED
    BY <1>16, <2>1, GotoKeeps, IdleType DEF PostReceipt, PostLater, TypeOK, PublishPcs, ReceiptPcs
<1>17. CASE RecordReceipt
  BY <1>17, IdleType DEF RecordReceipt, Refused, Transition, HandlerInv, PublishPcs, ReceiptPcs, TypeOK
<1>18. ASSUME NEW k \in KAs, LatePublish(k) PROVE ConfirmationInv'
  BY <1>18 DEF LatePublish
<1>19. ASSUME NEW o \in Ops, LatePost(o) PROVE ConfirmationInv'
  BY <1>19 DEF LatePost, TypeOK, PublishPcs
<1>20. ASSUME NEW c \in Chains, NodeMoves(c) PROVE ConfirmationInv'
  BY <1>20 DEF NodeMoves
<1>21. CASE Tick
  BY <1>21 DEF Tick
<1>22. CASE UNCHANGED vars
  BY <1>22 DEF vars
<1>23. ASSUME NEW o \in Ops, ListsParked(o) \/ StaleEnds(o) PROVE ConfirmationInv'
  BY <1>23 DEF ListsParked, StaleEnds
<1>24. ASSUME NEW o \in Ops, StaleFails(o) PROVE ConfirmationInv'
  BY <1>24, StaleRow DEF TypeOK
<1> QED
  BY <1>23, <1>24, <1>1, <1>2, <1>3, <1>4, <1>5, <1>6, <1>7, <1>9, <1>10, <1>11, <1>12, <1>13, <1>14,
     <1>15, <1>16, <1>17, <1>18, <1>19, <1>20, <1>21, <1>22
  DEF Next, Gate, Publishing, Announcing

\* Recovery lists every reserved operation; serving, only the handler reserves.
LEMMA ReservationStep ==
  ASSUME TypeOK, HandlerInv, ReservationInv, [Next]_vars
  PROVE  ReservationInv'
<1> USE ConstantsAssumption DEF ReservationInv
<1> USE DEF dbVars, procVars, nodeVars, relayVars, histVars
<1>1. ASSUME NEW c \in Configs, Boot(c) PROVE ReservationInv'
  BY <1>1 DEF Boot, PendingStates, CaptureStates, OpState, Track
<1>2. ASSUME NEW o \in Ops, ResumeReserved(o) PROVE ReservationInv'
  BY <1>2 DEF ResumeReserved, Transition, TypeOK
<1>3. ASSUME NEW o \in Ops, ResumePublished(o) PROVE ReservationInv'
  BY <1>3 DEF ResumePublished
<1>4. ASSUME NEW o \in Ops, CaptureReceipted(o) PROVE ReservationInv'
  BY <1>4 DEF CaptureReceipted, Transition, TypeOK
<1>5. CASE Serve
  BY <1>5 DEF Serve
<1>6. CASE Crash
  BY <1>6 DEF Crash
<1>7. ASSUME NEW r \in Reactions, HandleApproval(r) PROVE ReservationInv'
  BY <1>7 DEF HandleApproval, PublishPcs
<1>8. ASSUME NEW pc \in GatePcs, NEW next, NEW passes, NEW refuses,
             GateRead(pc, next, passes, refuses)
      PROVE  ReservationInv'
  BY <1>8 DEF GateRead, GatePcs, PublishPcs, HandlerInv
<1>9. CASE ReadReceipt \/ ReadDescriptor \/ ReadDigest
  BY <1>8, <1>9 DEF ReadReceipt, ReadDescriptor, ReadDigest, GatePcs
<1>10. CASE Decide
  BY <1>10 DEF Decide, GatePcs, PublishPcs, HandlerInv
<1>11. CASE Reserve
  BY <1>11, GotoKeeps DEF Reserve, Refused, Transition, GatePcs, PublishPcs, HandlerInv, TypeOK
<1>12. CASE NodePublishes
  BY <1>12, GotoKeeps DEF NodePublishes, Verdict, PublishPcs, TypeOK
<1>13. CASE MarkUnconfirmed
  BY <1>13 DEF MarkUnconfirmed, Transition, HandlerInv, PublishPcs, TypeOK
<1>14. CASE PersistUal
  <2>1. CASE Transition(w.op, "published")
    BY <1>14, <2>1 DEF PersistUal, Transition, HandlerInv, PublishPcs, TypeOK
  <2>2. CASE Refused(w.op, "published")
    <3>1. opState[w.op] # "publishing"
      BY <2>2 DEF Refused, CanTransition, Track, Rank
    <3> QED
      BY <1>14, <2>2, <3>1 DEF PersistUal, Refused
  <2> QED
    BY <1>14, <2>1, <2>2 DEF PersistUal
<1>15. CASE ReadBack \/ PostReceipt
  BY <1>15 DEF ReadBack, PostReceipt, PublishPcs
<1>16. CASE RecordReceipt
  BY <1>16 DEF RecordReceipt, Refused, Transition, PublishPcs, TypeOK
<1>17. ASSUME NEW k \in KAs, LatePublish(k) PROVE ReservationInv'
  BY <1>17 DEF LatePublish
<1>18. ASSUME NEW o \in Ops, LatePost(o) PROVE ReservationInv'
  BY <1>18 DEF LatePost
<1>19. ASSUME NEW c \in Chains, NodeMoves(c) PROVE ReservationInv'
  BY <1>19 DEF NodeMoves
<1>20. CASE Tick
  BY <1>20 DEF Tick
<1>21. CASE UNCHANGED vars
  BY <1>21 DEF vars
<1>22. ASSUME NEW o \in Ops, ListsParked(o) \/ StaleEnds(o) PROVE ReservationInv'
  BY <1>22 DEF ListsParked, StaleEnds
<1>23. ASSUME NEW o \in Ops, StaleFails(o) PROVE ReservationInv'
  BY <1>23, StaleRow DEF TypeOK
<1> QED
  BY <1>22, <1>23, <1>1, <1>2, <1>3, <1>4, <1>5, <1>6, <1>7, <1>9, <1>10, <1>11, <1>12, <1>13, <1>14,
     <1>15, <1>16, <1>17, <1>18, <1>19, <1>20, <1>21
  DEF Next, Gate, Publishing, Announcing

\* Only a resync that overlaps another lists an old record, or fails a row.
LEMMA OverlapStep ==
  ASSUME TypeOK, OverlapInv, [Next]_vars
  PROVE  OverlapInv'
<1> SUFFICES ASSUME ~ResyncsOverlap PROVE stale' = {} /\ \A o \in Ops : opState'[o] # "failed"
  BY DEF OverlapInv
<1>1. stale = {} /\ \A o \in Ops : opState[o] # "failed"
  BY DEF OverlapInv
<1> USE DEF dbVars, procVars, nodeVars, relayVars, histVars, TypeOK, Transition, Refused
<1>2. CASE \E o \in Ops : ListsParked(o) \/ StaleFails(o) \/ StaleEnds(o)
  BY <1>1, <1>2 DEF ListsParked, StaleFails, StaleEnds
<1>3. CASE \/ \E c \in Configs : Boot(c)
           \/ \E o \in Ops : ResumeReserved(o) \/ ResumePublished(o) \/ CaptureReceipted(o)
           \/ Serve \/ Crash
           \/ \E r \in Reactions : HandleApproval(r)
  BY <1>1, <1>3 DEF Boot, ResumeReserved, ResumePublished, CaptureReceipted, Serve, Crash, HandleApproval
<1>4. CASE Gate \/ Publishing \/ Announcing
  BY <1>1, <1>4 DEF Gate, Publishing, Announcing, ReadReceipt, ReadDescriptor, ReadDigest, GateRead,
                    Decide, Reserve, NodePublishes, MarkUnconfirmed, PersistUal, ReadBack,
                    PostReceipt, RecordReceipt
<1>5. CASE \/ \E k \in KAs : LatePublish(k)
           \/ \E o \in Ops : LatePost(o)
           \/ \E c \in Chains : NodeMoves(c)
           \/ Tick \/ UNCHANGED vars
  BY <1>1, <1>5 DEF LatePublish, LatePost, NodeMoves, Tick, vars
<1> QED
  BY <1>2, <1>3, <1>4, <1>5 DEF Next

-----------------------------------------------------------------------------
(* The budget.                                                             *)

\* Fewer operations, no larger count.
LEMMA FewerCount ==
  ASSUME NEW S \in SUBSET Ops, NEW T \in SUBSET S
  PROVE  Cardinality(T) \in Nat /\ Cardinality(S) \in Nat /\ Cardinality(T) <= Cardinality(S)
<1>1. IsFiniteSet(S)
  BY ConstantsAssumption, FS_Subset
<1> QED
  BY <1>1, FS_Subset, FS_CardinalityType

\* Every call made in the window is counted, unless its row was failed: the row
\* was stamped when the call was made, or later.
LEMMA CallsAreCounted ==
  ASSUME TypeOK, LedgerInv, OverlapInv, ~ResyncsOverlap
  PROVE  SpentLately \subseteq RecentPublishes(opState, updatedAt, now, Window)
  BY ConstantsAssumption DEF SpentLately, RecentPublishes, LedgerInv, OverlapInv, TypeOK

LEMMA BudgetStep ==
  ASSUME TypeOK, TypeOK', HandlerInv, LedgerInv, OverlapInv, BudgetInv, [Next]_vars
  PROVE  BudgetInv'
<1> USE ConstantsAssumption
<1> USE DEF dbVars, procVars, nodeVars, relayVars, histVars
<1> DEFINE Recent == RecentPublishes(opState, updatedAt, now, Window)
<1>1. /\ Recent \in SUBSET Ops /\ SpentLately \in SUBSET Ops
      /\ Cardinality(Recent) \in Nat /\ Cardinality(SpentLately) \in Nat
  <2>1. Recent \in SUBSET Ops /\ SpentLately \in SUBSET Ops
    BY DEF RecentPublishes, SpentLately, TypeOK
  <2> QED
    BY <2>1, FewerCount
\* Nothing the two counts depend on changes.
<1>2. ASSUME UNCHANGED <<opState, updatedAt, now, calledAt, calledOn>>,
             w'.pc = "consumed" => w.pc = "consumed" /\ cfg' = cfg
      PROVE  BudgetInv'
  BY <1>2 DEF BudgetInv, BudgetLeft, WithinBudget, SpentLately, RecentPublishes
\* The calls stay as they were and the handler is not about to spend.
<1>3. ASSUME UNCHANGED <<now, calledAt, calledOn>>, w'.pc # "consumed"
      PROVE  BudgetInv'
  BY <1>3 DEF BudgetInv, WithinBudget, SpentLately
<1>4. ASSUME NEW c \in Configs, Boot(c) PROVE BudgetInv'
  BY <1>2, <1>4 DEF Boot, TypeOK
<1>5. ASSUME NEW o \in Ops, ResumeReserved(o) PROVE BudgetInv'
  BY <1>3, <1>5 DEF ResumeReserved
<1>6. ASSUME NEW o \in Ops, ResumePublished(o) PROVE BudgetInv'
  BY <1>3, <1>6 DEF ResumePublished, At
\* A receipted capture is not counted, so the budget stays open.
<1>7. ASSUME NEW o \in Ops, CaptureReceipted(o) PROVE BudgetInv'
  <2>1. Recent' \in SUBSET Recent
    BY <1>7 DEF CaptureReceipted, Transition, RecentPublishes, SpentStates, TypeOK
  <2>2. BudgetLeft => BudgetLeft'
    BY <1>1, <1>7, <2>1, FewerCount DEF BudgetLeft, CaptureReceipted
  <2> QED
    BY <1>7, <2>2 DEF CaptureReceipted, BudgetInv, WithinBudget, SpentLately
<1>8. CASE Serve \/ Crash
  BY <1>2, <1>8, IdleType DEF Serve, Crash
<1>9. ASSUME NEW r \in Reactions, HandleApproval(r) PROVE BudgetInv'
  BY <1>2, <1>9 DEF HandleApproval, At
<1>10. ASSUME NEW pc \in GatePcs, NEW next \in GatePcs \ {"consumed"}, NEW passes, NEW refuses,
              GateRead(pc, next, passes, refuses)
       PROVE  BudgetInv'
  BY <1>2, <1>10, GotoKeeps, IdleType DEF GateRead, TypeOK
<1>11. CASE ReadReceipt \/ ReadDescriptor \/ ReadDigest
  BY <1>10, <1>11 DEF ReadReceipt, ReadDescriptor, ReadDigest, GatePcs
\* The check itself.
<1>12. CASE Decide
  <2>1. w'.pc = "consumed" /\ cfg.mode = "mainnet" => BudgetLeft
    BY <1>12, IdleType DEF Decide, GateOpen
  <2> QED
    BY <1>12, <2>1 DEF Decide, BudgetInv, BudgetLeft, WithinBudget, SpentLately, RecentPublishes
\* The call: one more operation in the window, and the window had room.
<1>13. CASE Reserve
  <2>1. w'.pc # "consumed" /\ w.pc = "consumed" /\ w.op \in Ops
    BY <1>13, GotoKeeps, IdleType DEF Reserve, Refused, TypeOK, PublishPcs
  <2>4. CASE ResyncsOverlap
    BY <2>1, <2>4 DEF BudgetInv
  <2>5. CASE Refused(w.op, "publishing")
    BY <1>3, <1>13, <2>1, <2>5 DEF Reserve, Refused, Transition
  <2>2. CASE ~ResyncsOverlap /\ Transition(w.op, "publishing") /\ cfg.mode # "mainnet"
    <3>1. SpentLately' \in SUBSET SpentLately
      BY <1>13, <2>1, <2>2 DEF Reserve, Refused, SpentLately, TypeOK
    <3>2. Cardinality(SpentLately') <= Cardinality(SpentLately) /\ Cardinality(SpentLately') \in Nat
      BY <1>1, <3>1, FewerCount
    <3> QED
      BY <1>1, <2>1, <3>2 DEF BudgetInv, WithinBudget
  <2>3. CASE ~ResyncsOverlap /\ Transition(w.op, "publishing") /\ cfg.mode = "mainnet"
    <3>1. SpentLately' \in SUBSET (SpentLately \cup {w.op})
      BY <1>13, <2>1 DEF Reserve, Refused, SpentLately, TypeOK
    <3>2. Cardinality(SpentLately) < MaxPublishesPerDay
      BY <1>1, <2>1, <2>3, FewerCount, CallsAreCounted DEF BudgetInv, BudgetLeft
    <3>3. IsFiniteSet(SpentLately)
      BY <1>1, FS_Subset
    <3>4. Cardinality(SpentLately \cup {w.op}) <= Cardinality(SpentLately) + 1
      <4>1. Cardinality(SpentLately \cup {w.op}) =
              IF w.op \in SpentLately THEN Cardinality(SpentLately) ELSE Cardinality(SpentLately) + 1
        BY ONLY <3>3, FS_AddElement
      <4> QED
        BY <1>1, <4>1
    <3>5. (SpentLately \cup {w.op}) \in SUBSET Ops
      BY <1>1, <2>1
    <3>6. /\ Cardinality(SpentLately') <= Cardinality(SpentLately \cup {w.op})
          /\ Cardinality(SpentLately') \in Nat /\ Cardinality(SpentLately \cup {w.op}) \in Nat
      BY <3>1, <3>5, FewerCount
    <3> QED
      BY <1>1, <2>1, <3>2, <3>4, <3>6 DEF BudgetInv, WithinBudget
  <2> QED
    BY <1>13, <2>2, <2>3, <2>4, <2>5 DEF Reserve
<1>14. CASE NodePublishes
  BY <1>3, <1>14, GotoKeeps DEF NodePublishes, Verdict, TypeOK, PublishPcs
<1>15. CASE MarkUnconfirmed
  BY <1>3, <1>15, IdleType DEF MarkUnconfirmed
<1>16. CASE PersistUal
  BY <1>3, <1>16, GotoKeeps, IdleType DEF PersistUal, Refused, TypeOK, ReceiptPcs
<1>17. CASE ReadBack
  BY <1>3, <1>17, GotoKeeps DEF ReadBack, TypeOK, ReceiptPcs
<1>18. CASE PostReceipt
  BY <1>3, <1>18, GotoKeeps, IdleType DEF PostReceipt, TypeOK, ReceiptPcs
<1>19. CASE RecordReceipt
  BY <1>3, <1>19, IdleType DEF RecordReceipt, Refused
<1>20. ASSUME NEW k \in KAs, LatePublish(k) PROVE BudgetInv'
  BY <1>2, <1>20 DEF LatePublish
<1>21. ASSUME NEW o \in Ops, LatePost(o) PROVE BudgetInv'
  BY <1>2, <1>21 DEF LatePost
<1>22. ASSUME NEW c \in Chains, NodeMoves(c) PROVE BudgetInv'
  BY <1>2, <1>22 DEF NodeMoves
\* Time only takes operations out of the window.
<1>23. CASE Tick
  <2>1. Recent' \in SUBSET Recent /\ SpentLately' \in SUBSET SpentLately
    BY <1>23 DEF Tick, RecentPublishes, SpentLately, TypeOK
  <2>2. /\ Cardinality(Recent') <= Cardinality(Recent) /\ Cardinality(Recent') \in Nat
        /\ Cardinality(SpentLately') <= Cardinality(SpentLately) /\ Cardinality(SpentLately') \in Nat
    BY <1>1, <2>1, FewerCount
  <2> QED
    BY <1>1, <1>23, <2>2 DEF Tick, BudgetInv, BudgetLeft, WithinBudget
<1>24. CASE UNCHANGED vars
  BY <1>2, <1>24 DEF vars
<1>25. ASSUME NEW o \in Ops, ListsParked(o) \/ StaleEnds(o) PROVE BudgetInv'
  BY <1>2, <1>25 DEF ListsParked, StaleEnds
<1>26. ASSUME NEW o \in Ops, StaleFails(o) PROVE BudgetInv'
  BY <1>3, <1>26, StaleRow DEF StaleFails
<1> QED
  BY <1>25, <1>26, <1>4, <1>5, <1>6, <1>7, <1>8, <1>9, <1>11, <1>12, <1>13, <1>14, <1>15, <1>16, <1>17,
     <1>18, <1>19, <1>20, <1>21, <1>22, <1>23, <1>24
  DEF Next, Gate, Publishing, Announcing

-----------------------------------------------------------------------------
(* The room and the asset.                                                 *)

\* Receipts only come, so an own receipt stays one.
LEMMA RoomKept ==
  ASSUME TypeOK, RoomInv, \A o \in Ops : vmPosts[o] > 0 => vmPosts'[o] > 0,
         \A o \in Ops : vmPosts'[o] > 1 \/ o \in latePosts' => o \in doubted',
         w'.pc = "post" => vmPosts'[w'.op] = 0 \/ w'.op \in doubted',
         w'.pc = "adopt" =>
           \E p \in Ops : <<KaOf[w'.op], KaOf[p]>> \in UalWithin /\ vmPosts'[p] > 0,
         \A o \in Ops : opState'[o] = "vm_receipted" /\ opState[o] # "vm_receipted"
                                       => Receipted(o)
  PROVE  RoomInv'
  BY DEF RoomInv, Receipted

LEMMA RoomStep ==
  ASSUME TypeOK, TypeOK', HandlerInv, RoomInv, [Next]_vars
  PROVE  RoomInv'
<1> USE ConstantsAssumption
<1> USE DEF dbVars, procVars, nodeVars, relayVars, histVars
\* The room is left alone, and the handler neither posts nor adopts next.
<1>1. ASSUME UNCHANGED <<vmPosts, latePosts, doubted>>, w'.pc \notin {"post", "adopt"},
             \A o \in Ops : opState'[o] = "vm_receipted" => opState[o] = "vm_receipted"
      PROVE  RoomInv'
  BY <1>1 DEF RoomInv, Receipted
\* A step of others: neither room, handler nor rows.
<1>2. ASSUME UNCHANGED <<vmPosts, latePosts, doubted, w>>,
             \A o \in Ops : opState'[o] = "vm_receipted" => opState[o] = "vm_receipted"
      PROVE  RoomInv'
  BY <1>2 DEF RoomInv, Receipted
<1>3. ASSUME NEW c \in Configs, Boot(c) PROVE RoomInv'
  BY <1>2, <1>3 DEF Boot
<1>4. ASSUME NEW o \in Ops, ResumeReserved(o) PROVE RoomInv'
  BY <1>2, <1>4 DEF ResumeReserved, Transition, TypeOK
<1>5. ASSUME NEW o \in Ops, ResumePublished(o) PROVE RoomInv'
  BY <1>1, <1>5 DEF ResumePublished, At
<1>6. ASSUME NEW o \in Ops, CaptureReceipted(o) PROVE RoomInv'
  BY <1>2, <1>6 DEF CaptureReceipted, Transition, TypeOK
<1>7. CASE Serve
  BY <1>2, <1>7 DEF Serve
<1>8. CASE Crash
  <2>1. w'.pc = "idle" /\ UNCHANGED <<opState, vmPosts>>
    BY <1>8, IdleType DEF Crash
  <2>2. \A o \in Ops : o \in latePosts' \/ o \in doubted =>
           o \in latePosts \/ o \in doubted'
    BY <1>8 DEF Crash, PostLater
  <2>3. \A o \in Ops : o \in latePosts => o \in doubted'
    BY <1>8 DEF Crash, PostLater, RoomInv
  <2> QED
    BY <2>1, <2>2, <2>3, RoomKept DEF RoomInv
<1>9. ASSUME NEW r \in Reactions, HandleApproval(r) PROVE RoomInv'
  BY <1>1, <1>2, <1>9 DEF HandleApproval, At
<1>10. ASSUME NEW pc \in GatePcs, NEW next \in GatePcs, NEW passes, NEW refuses,
              GateRead(pc, next, passes, refuses)
       PROVE  RoomInv'
  BY <1>1, <1>10, GotoKeeps, IdleType DEF GateRead, TypeOK, GatePcs
<1>11. CASE ReadReceipt \/ ReadDescriptor \/ ReadDigest
  BY <1>10, <1>11 DEF ReadReceipt, ReadDescriptor, ReadDigest, GatePcs
<1>12. CASE Decide
  BY <1>1, <1>12, GotoKeeps, IdleType DEF Decide, Consume, TypeOK, GatePcs
<1>13. CASE Reserve
  BY <1>1, <1>13, GotoKeeps, IdleType DEF Reserve, Refused, Transition, TypeOK, PublishPcs
<1>14. CASE NodePublishes
  BY <1>1, <1>14, GotoKeeps DEF NodePublishes, Verdict, TypeOK, PublishPcs
<1>15. CASE MarkUnconfirmed
  BY <1>1, <1>15, IdleType DEF MarkUnconfirmed, Transition, TypeOK
<1>16. CASE PersistUal
  BY <1>1, <1>16, GotoKeeps, IdleType DEF PersistUal, Refused, Transition, TypeOK, ReceiptPcs
\* Not found means none of its own; found means one whose UAL contains it.
<1>17. CASE ReadBack
  <2>1. w.op \in Ops /\ KaOf[w.op] \in KAs /\ UNCHANGED <<opState, vmPosts, latePosts>>
    BY <1>17 DEF ReadBack, TypeOK
  <2>2. CASE Goto(IF UalInRoom(w.op) THEN "adopt" ELSE "post") /\ UNCHANGED doubted
    <3>1. CASE UalInRoom(w.op)
      <4>1. w'.pc = "adopt" /\ w'.op = w.op
        BY <2>2, <3>1, GotoKeeps DEF TypeOK, ReceiptPcs
      <4> QED
        BY <2>1, <2>2, <3>1, <4>1, RoomKept DEF RoomInv, UalInRoom
    <3>2. CASE ~UalInRoom(w.op)
      <4>1. vmPosts[w.op] = 0
        BY <2>1, <3>2 DEF UalInRoom, TypeOK
      <4>2. w'.pc = "post" /\ w'.op = w.op
        BY <2>2, <3>2, GotoKeeps DEF TypeOK, ReceiptPcs
      <4> QED
        BY <2>1, <2>2, <4>1, <4>2, RoomKept DEF RoomInv
    <3> QED
      BY <3>1, <3>2
  <2>3. CASE Goto("post") /\ doubted' = doubted \cup {w.op}
    <3>1. w'.pc = "post" /\ w'.op = w.op
      BY <2>3, GotoKeeps DEF TypeOK, ReceiptPcs
    <3> QED
      BY <2>1, <2>3, <3>1, RoomKept DEF RoomInv
  <2> QED
    BY <1>17, <2>2, <2>3 DEF ReadBack
<1>18. CASE PostReceipt
  <2>1. w.pc = "post" /\ w.op \in Ops /\ UNCHANGED opState
    BY <1>18 DEF PostReceipt, TypeOK
  <2>2. CASE /\ vmPosts' = [vmPosts EXCEPT ![w.op] = OneMore(@)]
             /\ Goto("adopt") \/ w' = Idle
             /\ UNCHANGED <<latePosts, doubted>>
    <3>1. vmPosts'[w.op] > 0 /\ (vmPosts[w.op] = 0 => ~(vmPosts'[w.op] > 1))
      BY <2>1, <2>2 DEF OneMore, TypeOK
    <3>2. \A o \in Ops : o # w.op => vmPosts'[o] = vmPosts[o]
      BY <2>1, <2>2 DEF TypeOK
    <3>3. w'.pc # "post" /\ (w'.pc = "adopt" => w'.op = w.op)
      BY <2>2, GotoKeeps, IdleType DEF TypeOK, ReceiptPcs
    <3>4. <<KaOf[w.op], KaOf[w.op]>> \in UalWithin
      BY <2>1
    <3>5. \A o \in Ops : vmPosts[o] > 0 => vmPosts'[o] > 0
      BY <3>1, <3>2
    <3>6. \A o \in Ops : vmPosts'[o] > 1 \/ o \in latePosts' => o \in doubted'
      BY <2>1, <2>2, <3>1, <3>2 DEF RoomInv
    <3> QED
      BY <2>1, <3>1, <3>3, <3>4, <3>5, <3>6, RoomKept DEF RoomInv
  <2>3. CASE /\ w' = Idle /\ UNCHANGED vmPosts
             /\ PostLater(w.op) \/ UNCHANGED <<latePosts, doubted>>
    BY <2>1, <2>3, IdleType DEF RoomInv, Receipted, PostLater
  <2> QED
    BY <1>18, <2>2, <2>3 DEF PostReceipt
<1>19. CASE RecordReceipt
  <2>1. w.op \in Ops /\ w.pc = "adopt" /\ w'.pc = "idle" /\ UNCHANGED <<vmPosts, latePosts, doubted>>
    BY <1>19, IdleType DEF RecordReceipt, Refused, TypeOK
  <2>2. \A o \in Ops : opState'[o] = "vm_receipted" /\ opState[o] # "vm_receipted" => o = w.op
    BY <1>19, <2>1 DEF RecordReceipt, Refused, Transition, TypeOK
  <2> QED
    BY <2>1, <2>2, RoomKept DEF RoomInv
<1>20. ASSUME NEW k \in KAs, LatePublish(k) PROVE RoomInv'
  BY <1>2, <1>20 DEF LatePublish
<1>21. ASSUME NEW o \in Ops, LatePost(o) PROVE RoomInv'
  <2>1. o \in doubted /\ UNCHANGED <<opState, w, doubted>>
    BY <1>21 DEF LatePost, RoomInv
  <2>2. \A p \in Ops : /\ vmPosts[p] > 0 => vmPosts'[p] > 0
                       /\ p # o => vmPosts'[p] = vmPosts[p] /\ (p \in latePosts' <=> p \in latePosts)
    BY <1>21 DEF LatePost, OneMore, TypeOK
  <2>3. \A p \in Ops : vmPosts'[p] > 1 \/ p \in latePosts' => p \in doubted'
    BY <2>1, <2>2 DEF RoomInv
  <2>4. w'.pc = "post" => vmPosts'[w'.op] = 0 \/ w'.op \in doubted'
    <3>1. w.pc = "post" => w.op \in Ops
      BY DEF HandlerInv, TypeOK
    <3> QED
      BY <2>1, <2>2, <3>1 DEF RoomInv
  <2>5. w'.pc = "adopt" => \E p \in Ops : <<KaOf[w'.op], KaOf[p]>> \in UalWithin /\ vmPosts'[p] > 0
    BY <2>1, <2>2 DEF RoomInv, Receipted
  <2> QED
    BY <2>1, <2>2, <2>3, <2>4, <2>5, RoomKept
<1>22. ASSUME NEW c \in Chains, NodeMoves(c) PROVE RoomInv'
  BY <1>2, <1>22 DEF NodeMoves
<1>23. CASE Tick
  BY <1>2, <1>23 DEF Tick
<1>24. CASE UNCHANGED vars
  BY <1>2, <1>24 DEF vars
<1>25. ASSUME NEW o \in Ops, ListsParked(o) \/ StaleEnds(o) PROVE RoomInv'
  BY <1>2, <1>25 DEF ListsParked, StaleEnds
<1>26. ASSUME NEW o \in Ops, StaleFails(o) PROVE RoomInv'
  BY <1>2, <1>26, StaleRow DEF TypeOK
<1> QED
  BY <1>25, <1>26, <1>3, <1>4, <1>5, <1>6, <1>7, <1>8, <1>9, <1>11, <1>12, <1>13, <1>14, <1>15, <1>16,
     <1>17, <1>18, <1>19, <1>20, <1>21, <1>22, <1>23, <1>24
  DEF Next, Gate, Publishing, Announcing

LEMMA AssetStep ==
  ASSUME TypeOK, TypeOK', AssetInv, [Next]_vars
  PROVE  AssetInv'
<1> USE ConstantsAssumption
<1> USE DEF dbVars, procVars, nodeVars, relayVars, histVars
<1> DEFINE Bound == {"digest", "decide", "consumed", "publish"}
\* No confirmation, no asset back in shared memory, no new asset in hand.
<1>1. ASSUME confirmed' = confirmed,
             \A k \in KAs : layer[k] = "VM" => layer'[k] = "VM",
             w'.pc \in Bound => w.pc \in Bound /\ w'.op = w.op
      PROVE  AssetInv'
  BY <1>1 DEF AssetInv, AssetConfirmedOnce, TypeOK
<1>2. ASSUME NEW c \in Configs, Boot(c) PROVE AssetInv'
  BY <1>1, <1>2 DEF Boot
<1>3. ASSUME NEW o \in Ops, ResumeReserved(o) PROVE AssetInv'
  BY <1>1, <1>3 DEF ResumeReserved
<1>4. ASSUME NEW o \in Ops, ResumePublished(o) PROVE AssetInv'
  BY <1>1, <1>4 DEF ResumePublished, At
<1>5. ASSUME NEW o \in Ops, CaptureReceipted(o) PROVE AssetInv'
  BY <1>1, <1>5 DEF CaptureReceipted
<1>6. CASE Serve \/ Crash
  BY <1>1, <1>6, IdleType DEF Serve, Crash
<1>7. ASSUME NEW r \in Reactions, HandleApproval(r) PROVE AssetInv'
  BY <1>1, <1>7 DEF HandleApproval, At
<1>8. CASE ReadReceipt
  BY <1>1, <1>8, GotoKeeps, IdleType DEF ReadReceipt, GateRead, TypeOK, GatePcs
\* The descriptor passes an asset in shared memory only, and no confirmed one is.
<1>9. CASE ReadDescriptor
  <2>1. w.op \in Ops /\ UNCHANGED <<layer, confirmed>>
    BY <1>9 DEF ReadDescriptor, GateRead, TypeOK
  <2>2. CASE w' = Idle
    BY <1>1, <2>1, <2>2, IdleType
  <2>3. CASE w' # Idle
    <3>1. InSwm(w.op) /\ w'.op = w.op
      BY <1>9, <2>3, GotoKeeps DEF ReadDescriptor, GateRead, TypeOK, GatePcs
    <3> QED
      BY <2>1, <3>1 DEF AssetInv, AssetConfirmedOnce, InSwm
  <2> QED
    BY <2>2, <2>3
<1>10. CASE ReadDigest
  BY <1>1, <1>10, GotoKeeps, IdleType DEF ReadDigest, GateRead, TypeOK, GatePcs
<1>11. CASE Decide
  BY <1>1, <1>11, GotoKeeps, IdleType DEF Decide, Consume, TypeOK, GatePcs
<1>12. CASE Reserve
  BY <1>1, <1>12, GotoKeeps, IdleType DEF Reserve, Refused, TypeOK, PublishPcs
\* The confirmed answer is the first for its asset.
<1>13. CASE NodePublishes
  <2>1. w.op \in Ops /\ w.pc = "publish"
    BY <1>13 DEF NodePublishes, TypeOK
  <2>2. PICK answer \in {"confirmed", "tentative", "error"} :
          /\ Goto(Verdict(answer))
          /\ confirmed' = [confirmed EXCEPT ![w.op] = answer = "confirmed"]
          /\ \/ layer' = [layer EXCEPT ![KaOf[w.op]] = "VM"] /\ UNCHANGED late
             \/ /\ answer = "error" /\ UNCHANGED layer
                /\ late' \in {late, late \cup {KaOf[w.op]}}
    BY <1>13 DEF NodePublishes
  <2>3. w'.pc \notin Bound
    BY <2>2, GotoKeeps DEF Verdict, PublishPcs, TypeOK
  <2>4. \A o \in Ops : confirmed'[o] => confirmed[o] \/ (o = w.op /\ answer = "confirmed")
    BY <2>1, <2>2 DEF TypeOK
  <2>5. \A o \in Ops : confirmed'[o] => layer'[KaOf[o]] = "VM"
    BY <2>1, <2>2, <2>4 DEF AssetInv, TypeOK
  <2>6. AssetConfirmedOnce'
    BY <2>1, <2>4 DEF AssetInv, AssetConfirmedOnce
  <2> QED
    BY <2>3, <2>5, <2>6 DEF AssetInv
<1>14. CASE MarkUnconfirmed
  BY <1>1, <1>14, IdleType DEF MarkUnconfirmed
<1>15. CASE PersistUal
  BY <1>1, <1>15, GotoKeeps, IdleType DEF PersistUal, Refused, TypeOK, ReceiptPcs
<1>16. CASE ReadBack
  BY <1>1, <1>16, GotoKeeps DEF ReadBack, TypeOK, ReceiptPcs
<1>17. CASE PostReceipt
  BY <1>1, <1>17, GotoKeeps, IdleType DEF PostReceipt, TypeOK, ReceiptPcs
<1>18. CASE RecordReceipt
  BY <1>1, <1>18, IdleType DEF RecordReceipt, Refused
<1>19. ASSUME NEW k \in KAs, LatePublish(k) PROVE AssetInv'
  BY <1>1, <1>19 DEF LatePublish, TypeOK
<1>20. ASSUME NEW o \in Ops, LatePost(o) PROVE AssetInv'
  BY <1>1, <1>20 DEF LatePost
<1>21. ASSUME NEW c \in Chains, NodeMoves(c) PROVE AssetInv'
  BY <1>1, <1>21 DEF NodeMoves
<1>22. CASE Tick
  BY <1>1, <1>22 DEF Tick
<1>23. CASE UNCHANGED vars
  BY <1>1, <1>23 DEF vars
<1>24. ASSUME NEW o \in Ops, ListsParked(o) \/ StaleEnds(o) PROVE AssetInv'
  BY <1>1, <1>24 DEF ListsParked, StaleEnds
<1>25. ASSUME NEW o \in Ops, StaleFails(o) PROVE AssetInv'
  BY <1>1, <1>25, StaleRow
<1> QED
  BY <1>24, <1>25, <1>2, <1>3, <1>4, <1>5, <1>6, <1>7, <1>8, <1>9, <1>10, <1>11, <1>12, <1>13, <1>14, <1>15,
     <1>16, <1>17, <1>18, <1>19, <1>20, <1>21, <1>22, <1>23
  DEF Next, Gate, Publishing, Announcing

-----------------------------------------------------------------------------
(* The invariant, and what follows from it.                                *)

IInv == /\ TypeOK /\ HandlerInv /\ OverlapInv /\ LedgerInv /\ ConfirmationInv
        /\ ReservationInv /\ BudgetInv /\ RoomInv /\ AssetInv

\* The inductive invariant of the money path.
THEOREM Inductive == Spec => []IInv
<1>1. Init /\ TypeOK => IInv
  <2> SUFFICES ASSUME Init, TypeOK PROVE IInv
    OBVIOUS
  <2>1. HandlerInv /\ OverlapInv /\ LedgerInv /\ ConfirmationInv /\ ReservationInv
    BY IdleType DEF Init, HandlerInv, OverlapInv, LedgerInv, ConfirmationInv, ReservationInv,
                    GatePcs, PublishPcs, ReceiptPcs
  <2>4. RoomInv /\ AssetInv
    BY IdleType DEF Init, RoomInv, AssetInv, AssetConfirmedOnce
  <2>2. SpentLately = {}
    BY DEF Init, SpentLately
  <2>3. BudgetInv
    BY <2>2, ConstantsAssumption, FS_EmptySet, IdleType DEF Init, BudgetInv, WithinBudget
  <2> QED
    BY <2>1, <2>3, <2>4 DEF IInv
<1>2. IInv /\ TypeOK' /\ [Next]_vars => IInv'
  BY HandlerStep, OverlapStep, LedgerStep, ConfirmationStep, ReservationStep, BudgetStep, RoomStep, AssetStep
  DEF IInv
<1>3. QED
  BY <1>1, <1>2, TypeCorrect, PTL DEF Spec

\* vm/publish is called at most once for an operation, whatever is redelivered,
\* lost or restarted.
THEOREM OneSpend == Spec => []OneSpendPerOp
<1>1. IInv => OneSpendPerOp
  BY DEF IInv, LedgerInv, OneSpendPerOp
<1> QED
  BY <1>1, Inductive, PTL

\* Every call that may have been made is in the accounts, or its row was failed
\* by a resync that ran beside another: there is no other way out of them.
CountedOrFailed == \A o \in Ops : calls[o] > 0 => opState[o] \in SpentStates \cup {"failed"}
THEOREM OnlyFailedEscape == Spec => []CountedOrFailed
<1>1. IInv => CountedOrFailed
  BY DEF IInv, LedgerInv, CountedOrFailed
<1> QED
  BY <1>1, Inductive, PTL

\* Where no two resyncs run at once, every call that may have been made is in the
\* accounts.
THEOREM SpendsAreAccounted ==
  ASSUME ~ResyncsOverlap
  PROVE  Spec => []SpendAccounted
<1>1. IInv => SpendAccounted
  BY DEF IInv, LedgerInv, OverlapInv, SpendAccounted
<1> QED
  BY <1>1, Inductive, PTL

\* Every call rests on an approval of its own receipt, consumed for it.
THEOREM SpendsAreApproved == Spec => []SpendApproved
<1>1. IInv => SpendApproved
  BY DEF IInv, LedgerInv, SpendApproved
<1> QED
  BY <1>1, Inductive, PTL

\* A second VM receipt appears only where the room was misread or answered late.
THEOREM ReceiptsAreSingle == Spec => []OneVmReceipt
<1>1. IInv => OneVmReceipt
  BY DEF IInv, RoomInv, OneVmReceipt
<1> QED
  BY <1>1, Inductive, PTL

\* An operation closed as announced has its asset's receipt in the room, or one
\* whose UAL contains its own.
THEOREM ClosedIsAnnounced == Spec => []AnnouncedWhenDone
<1>1. IInv => AnnouncedWhenDone
  BY DEF IInv, RoomInv, Receipted, AnnouncedWhenDone
<1> QED
  BY <1>1, Inductive, PTL

\* No asset has two confirmed publications, late effects included.
THEOREM ConfirmedOnce == Spec => []AssetConfirmedOnce
<1>1. IInv => AssetConfirmedOnce
  BY DEF IInv, AssetInv
<1> QED
  BY <1>1, Inductive, PTL

\* Where no two resyncs run at once, the calls made on mainnet in any window stay
\* within the budget.
THEOREM BudgetHolds ==
  ASSUME ~ResyncsOverlap
  PROVE  Spec => []WithinBudget
<1>1. IInv => WithinBudget
  BY DEF IInv, BudgetInv
<1> QED
  BY <1>1, Inductive, PTL

\* No UAL is announced that the node's own answer did not confirm.
THEOREM AnnouncedIsConfirmed == Spec => []UalOnlyIfConfirmed
<1>1. IInv => UalOnlyIfConfirmed
  BY DEF IInv, ConfirmationInv, UalOnlyIfConfirmed
<1> QED
  BY <1>1, Inductive, PTL

\* Once recovery is over no operation is reserved without the handler on it.
THEOREM NoneStranded == Spec => []NoStrandedSpend
<1>1. IInv => NoStrandedSpend
  BY DEF IInv, ReservationInv, NoStrandedSpend
<1> QED
  BY <1>1, Inductive, PTL

\* Money is spent by the gate only, for a promoter, on a mapped channel, in a
\* mode that allows it: recovery and redelivery never get there.
THEOREM GateOnly == Spec => OnlyTheGateSpends
<1>1. IInv /\ [Next]_vars => [GatedSpends]_vars
  <2> SUFFICES ASSUME IInv, Next PROVE GatedSpends
    BY DEF GatedSpends
  <2>1. CASE Reserve
    BY <2>1 DEF Reserve, GatedSpends, IInv, TypeOK, HandlerInv, GatePcs, Admitted
  <2>2. CASE ~Reserve
    <3>1. calls' = calls
      BY <2>2 DEF Next, Gate, Publishing, Announcing, Boot, ResumeReserved, ResumePublished,
                  CaptureReceipted, ListsParked, StaleFails, StaleEnds, Serve, Crash, HandleApproval, GateRead, ReadReceipt,
                  ReadDescriptor, ReadDigest, Decide, NodePublishes, MarkUnconfirmed, PersistUal,
                  ReadBack, PostReceipt, RecordReceipt, LatePublish, LatePost, NodeMoves, Tick,
                  histVars
    <3> QED
      BY <3>1 DEF GatedSpends
  <2> QED
    BY <2>1, <2>2
<1> QED
  BY <1>1, Inductive, PTL DEF OnlyTheGateSpends, Spec
=============================================================================
