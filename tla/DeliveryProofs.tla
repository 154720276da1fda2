--------------------------- MODULE DeliveryProofs ---------------------------
(***************************************************************************)
(* Proofs about Delivery, for every set of events, overlap, skew and number *)
(* of resyncs.                                                             *)
(*                                                                         *)
(* TypeCorrect and SubscriptionsCatchUp need no premise.  That the cursor  *)
(* leaves no event behind needs Prompt, which the code does not see to, and *)
(* the two bounds of Premise.  The order in which replays come in is in no *)
(* premise: the two subscriptions are answered in any order, beside live   *)
(* events and catch-ups.                                                   *)
(***************************************************************************)
EXTENDS Delivery, FiniteSetTheorems, SequenceTheorems, TLAPS

\* The catch-up reaches back over the time within which an event is heard, and
\* over the time by which events may arrive late, each with the lead that a date
\* may have on the clock.  The clamp of the cursor is not needed: an event dated
\* ahead that waits until the clock has caught up is not clamped.
Premise == Gap + Ahead <= Overlap /\ Lag + Ahead <= Overlap

\* Types, with the queue as a sequence, and what its life makes true: it holds
\* stored events, and so does what is on its way to it.
QueueInv ==
    /\ TypeOK
    /\ queue \in Seq(Events)
    /\ \A i \in 1 .. Len(queue) : queue[i] \in Stored
    /\ coming \subseteq Stored
    /\ \A r \in Resyncs : resync[r].stage = "answer" => resync[r].events \subseteq Stored

\* Only a process that serves is connected and has resyncs; one that is down
\* has nothing in its queue, and a connection that is down answers nothing.
PhaseInv ==
    /\ phase = "down" => queue = <<>> /\ w = NoEvent
    /\ phase # "serving" => ~linked /\ \A r \in Resyncs : resync[r].stage = "none"
    /\ ~linked => live = {} /\ coming = {}

\* What a subscription that is answered has to bring, and the daemon has not
\* heard of, is on its way.
SubInv == \A e \in Missed : KindOf[e] \in live /\ stamp[e] >= since => e \in coming

\* The cursor and the dates are no further ahead of the clock than an event may
\* be dated, and subscriptions begin no later than the next catch-up would.
DateInv ==
    /\ cursor <= now + Ahead
    /\ \A e \in Stored : stamp[e] <= now + Ahead
    /\ since <= Since

\* An event that waits will move the cursor to its date; nothing behind it in
\* the queue, and nothing that is missed, is then out of reach.
OrderInv ==
    /\ \A i, j \in 1 .. Len(queue) :
          i < j /\ queue[j] \in Open => stamp[queue[j]] >= stamp[queue[i]] - Overlap
    /\ \A i \in 1 .. Len(queue) : \A e \in Missed :
          stamp[e] >= stamp[queue[i]] - Overlap

LinkInv == QueueInv /\ PhaseInv /\ SubInv
IInv == LinkInv /\ DateInv /\ OrderInv /\ WithinReach

-----------------------------------------------------------------------------
(* Sequences and dates.                                                    *)

\* A batch is a sequence of exactly the events that were to be queued, in order
\* of date.
LEMMA BatchProperties ==
  ASSUME NEW S, S \subseteq Stored, NEW q \in Batches(S)
  PROVE  /\ q \in Seq(Events)
         /\ Len(q) \in Nat
         /\ \A i \in 1 .. Len(q) : q[i] \in S
         /\ \A e \in S : \E i \in 1 .. Len(q) : q[i] = e
         /\ \A i, j \in 1 .. Len(q) : i < j => stamp[q[i]] <= stamp[q[j]]
<1> DEFINE n == Cardinality(S)
<1>1. S \subseteq Events
  BY DEF Stored
<1>2. IsFiniteSet(S) /\ n \in Nat
  BY <1>1, FS_Subset, FS_CardinalityType, ConstantsAssumption
<1>3. q \in [1 .. n -> S] /\ \A i, j \in 1 .. n : i # j => q[i] # q[j]
  BY DEF Batches, SetToSeqs
<1>4. q \in Seq(S) /\ Len(q) = n
  BY <1>2, <1>3
<1>5. q \in Seq(Events)
  BY <1>4, <1>1, SeqMonotonic
<1>6. q \in Injection(1 .. n, S)
  BY <1>3, Zenon DEF Injection, IsInjective
<1>7. Cardinality(1 .. n) = n
  BY <1>2, FS_Interval
<1>8. q \in Surjection(1 .. n, S)
  BY <1>2, <1>6, <1>7, FS_Injection
<1>9. \A e \in S : \E i \in 1 .. n : q[i] = e
  BY <1>8 DEF Surjection
<1>10. \A i \in 1 .. n : q[i] \in S
  BY <1>3
<1>11. \A i, j \in 1 .. n : i < j => stamp[q[i]] <= stamp[q[j]]
  BY <1>3 DEF Batches, InOrder
<1> HIDE DEF n
<1>12. QED
  BY <1>2, <1>4, <1>5, <1>9, <1>10, <1>11

\* What is replayed is stored.
LEMMA ReplayIsStored == \A s : Replay(s) \subseteq Stored
  BY DEF Replay

\* Where a replay begins is a date, no later than any reach of the cursor.
LEMMA SinceType ==
  ASSUME cursor \in Nat
  PROVE  /\ Since \in Nat
         /\ Since = IF cursor - Overlap > 0 THEN cursor - Overlap ELSE 0
  BY ConstantsAssumption DEF Since, Larger

\* A later cursor does not reach further back.
LEMMA ReachMonotone ==
  \A c, d \in Nat : c <= d =>
      /\ Larger(0, d - Overlap) \in Nat
      /\ Larger(0, c - Overlap) <= Larger(0, d - Overlap)
  BY ConstantsAssumption DEF Larger

\* The cursor after an event is a date, at least the old one, and at most the
\* larger of the old one and the event's.
LEMMA CursorAfterType ==
  ASSUME cursor \in Nat, now \in Nat, NEW e, stamp[e] \in Nat
  PROVE  /\ CursorAfter(e) \in Nat
         /\ CursorAfter(e) >= cursor
         /\ CursorAfter(e) <= cursor \/ CursorAfter(e) <= stamp[e]
  BY ConstantsAssumption DEF CursorAfter, Larger, Smaller

\* Stored events have a date.
LEMMA StampType ==
  ASSUME TypeOK, NEW e \in Stored
  PROVE  e \in Events /\ stamp[e] \in Nat
  BY DEF TypeOK, Stored

\* The elements of a sequence are its values at its positions.
LEMMA ToSetOfSeq ==
  ASSUME NEW q \in Seq(Events)
  PROVE  ToSet(q) = {q[i] : i \in 1 .. Len(q)} /\ ToSet(q) \subseteq Events
  BY DEF ToSet

LEMMA EmptyQueue ==
  /\ <<>> \in Seq(Events) /\ Len(<<>>) = 0
  /\ ToSet(<<>>) = {} /\ 1 .. 0 = {}
<1>1. <<>> \in Seq(Events) /\ Len(<<>>) = 0
  BY EmptySeq
<1>2. 1 .. 0 = {}
  BY SMT
<1>3. QED
  BY <1>1, <1>2, ToSetOfSeq

\* The first event of a queue, and what is left.
LEMMA HeadIsFirst ==
  ASSUME queue \in Seq(Events), queue # <<>>
  PROVE  /\ Head(queue) = queue[1] /\ 1 \in 1 .. Len(queue)
         /\ Tail(queue) \in Seq(Events)
         /\ Len(Tail(queue)) = Len(queue) - 1 /\ Len(queue) \in Nat
         /\ \A i \in 1 .. Len(Tail(queue)) :
               Tail(queue)[i] = queue[i + 1] /\ i + 1 \in 1 .. Len(queue)
         /\ ToSet(queue) = ToSet(Tail(queue)) \cup {Head(queue)}
<1>1. /\ Tail(queue) \in Seq(Events)
      /\ Len(Tail(queue)) = Len(queue) - 1 /\ Len(queue) \in Nat \ {0}
      /\ \A i \in 1 .. Len(Tail(queue)) : Tail(queue)[i] = queue[i + 1]
  BY HeadTailProperties, EmptySeq
<1>2. Head(queue) = queue[1] /\ 1 \in 1 .. Len(queue)
  BY <1>1
<1>3. \A i \in 1 .. Len(queue) : i # 1 => i - 1 \in 1 .. Len(Tail(queue))
                                          /\ Tail(queue)[i - 1] = queue[i]
  BY <1>1
<1>4. \A i \in 1 .. Len(Tail(queue)) : i + 1 \in 1 .. Len(queue)
  BY <1>1
<1>5. ToSet(queue) = ToSet(Tail(queue)) \cup {Head(queue)}
  <2>1. ToSet(queue) = {queue[i] : i \in 1 .. Len(queue)}
    BY ToSetOfSeq
  <2>2. ToSet(Tail(queue)) = {Tail(queue)[i] : i \in 1 .. Len(Tail(queue))}
    BY <1>1, ToSetOfSeq
  <2>3. ToSet(queue) \subseteq ToSet(Tail(queue)) \cup {Head(queue)}
    BY <1>2, <1>3, <2>1, <2>2
  <2>4. ToSet(Tail(queue)) \cup {Head(queue)} \subseteq ToSet(queue)
    BY <1>1, <1>2, <1>4, <2>1, <2>2
  <2>5. QED
    BY <2>3, <2>4
<1>6. QED
  BY <1>1, <1>2, <1>4, <1>5

\* What is queued behind the events that wait.
LEMMA Enqueued ==
  ASSUME QueueInv, NEW q \in Seq(Events), \A i \in 1 .. Len(q) : q[i] \in Stored,
         queue' = queue \o q
  PROVE  /\ queue' \in Seq(Events)
         /\ \A i \in 1 .. Len(queue') : queue'[i] \in Stored
         /\ Len(queue) \in Nat /\ Len(q) \in Nat /\ Len(queue') = Len(queue) + Len(q)
         /\ \A i \in 1 .. Len(queue') :
               \/ i \in 1 .. Len(queue) /\ queue'[i] = queue[i]
               \/ /\ i > Len(queue)
                  /\ \E j \in 1 .. Len(q) : queue'[i] = q[j]
         /\ ToSet(queue') = ToSet(queue) \cup ToSet(q)
<1>1. queue \in Seq(Events) /\ \A i \in 1 .. Len(queue) : queue[i] \in Stored
  BY DEF QueueInv
<1>2. Len(queue) \in Nat /\ Len(q) \in Nat
  BY <1>1, LenProperties
<1>3. /\ queue' \in Seq(Events) /\ Len(queue') = Len(queue) + Len(q)
      /\ \A i \in 1 .. Len(queue) : i \in 1 .. Len(queue') /\ queue'[i] = queue[i]
      /\ \A j \in 1 .. Len(q) : j + Len(queue) \in 1 .. Len(queue')
                                /\ queue'[j + Len(queue)] = q[j]
  BY <1>1, <1>2, ConcatProperties
<1>4. \A i \in 1 .. Len(queue') :
         \/ i \in 1 .. Len(queue) /\ queue'[i] = queue[i]
         \/ i > Len(queue) /\ \E j \in 1 .. Len(q) : queue'[i] = q[j]
  <2>1. TAKE i \in 1 .. Len(queue')
  <2>2. CASE i <= Len(queue)
    BY <1>2, <1>3, <2>2
  <2>3. CASE i > Len(queue)
    <3>1. i - Len(queue) \in 1 .. Len(q) /\ i = (i - Len(queue)) + Len(queue)
      BY <1>2, <1>3, <2>3
    <3>2. queue'[i] = q[i - Len(queue)]
      BY <1>3, <3>1
    <3>3. QED
      BY <2>3, <3>1, <3>2
  <2>4. QED
    BY <1>2, <2>2, <2>3
<1>5. ToSet(queue') = ToSet(queue) \cup ToSet(q)
  <2>1. /\ ToSet(queue') = {queue'[i] : i \in 1 .. Len(queue')}
        /\ ToSet(queue) = {queue[i] : i \in 1 .. Len(queue)}
        /\ ToSet(q) = {q[i] : i \in 1 .. Len(q)}
    BY <1>1, <1>3, ToSetOfSeq
  <2>2. ToSet(queue') \subseteq ToSet(queue) \cup ToSet(q)
    BY <1>4, <2>1
  <2>3. ToSet(queue) \cup ToSet(q) \subseteq ToSet(queue')
    BY <1>3, <2>1
  <2>4. QED
    BY <2>2, <2>3
<1>6. QED
  BY <1>1, <1>2, <1>3, <1>4, <1>5

-----------------------------------------------------------------------------
(* The queue, the phases and the subscriptions, without a premise.         *)

\* A start, a resync and an event sent on the connection queue stored events
\* that are not done and do not wait, behind what waits.
LEMMA Queues ==
  ASSUME QueueInv, PhaseInv,
         Start \/ (\E r \in Resyncs : Resync(r)) \/ (\E e \in Events : Send(e))
  PROVE  \E q \in Seq(Events) :
            /\ queue' = queue \o q
            /\ \A i \in 1 .. Len(q) : q[i] \in Stored \ (done \cup Waiting)
<1>1. queue \in Seq(Events)
  BY DEF QueueInv
<1>2. CASE UNCHANGED queue
  BY <1>1, <1>2, ConcatEmptySeq, EmptyQueue
<1>3. ASSUME Start, queue' \in Batches(Replay(Since))
      PROVE  \E q \in Seq(Events) :
                /\ queue' = queue \o q
                /\ \A i \in 1 .. Len(q) : q[i] \in Stored \ (done \cup Waiting)
  <2>1. /\ queue' \in Seq(Events)
        /\ \A i \in 1 .. Len(queue') : queue'[i] \in Replay(Since)
    BY <1>3, BatchProperties, ReplayIsStored
  <2>2. queue = <<>> /\ queue' = queue \o queue'
    BY <1>3, <2>1, ConcatEmptySeq DEF Start, PhaseInv
  <2>3. QED
    BY <2>1, <2>2 DEF Replay
<1>4. ASSUME NEW r \in Resyncs, Answered(r)
      PROVE  \E q \in Seq(Events) :
                /\ queue' = queue \o q
                /\ \A i \in 1 .. Len(q) : q[i] \in Stored \ (done \cup Waiting)
  <2>1. PICK q \in Batches(resync[r].events \ (done \cup Waiting)) : queue' = queue \o q
    BY <1>4 DEF Answered
  <2>2. resync[r].events \ (done \cup Waiting) \subseteq Stored
    BY <1>4 DEF Answered, QueueInv
  <2>3. /\ q \in Seq(Events)
        /\ \A i \in 1 .. Len(q) : q[i] \in resync[r].events \ (done \cup Waiting)
    BY <2>2, BatchProperties
  <2>4. QED
    BY <2>1, <2>2, <2>3
<1>5. ASSUME NEW e \in Events, Send(e), e \notin done \cup Waiting
      PROVE  \E q \in Seq(Events) :
                /\ queue' = queue \o q
                /\ \A i \in 1 .. Len(q) : q[i] \in Stored \ (done \cup Waiting)
  <2>1. queue' = queue \o <<e>> /\ <<e>> \in Seq(Events) /\ e \in Stored
    BY <1>1, <1>5 DEF Send, QueueInv
  <2>2. \A i \in 1 .. Len(<<e>>) : <<e>>[i] = e
    OBVIOUS
  <2>3. QED
    BY <1>5, <2>1, <2>2
<1>6. QED
  BY <1>2, <1>3, <1>4, <1>5 DEF Start, Resync, Drained, Asked, Send

\* What waits consists of events.
LEMMA WaitingType ==
  ASSUME TypeOK
  PROVE  Waiting \subseteq Events
  BY DEF TypeOK, Waiting

\* A process that is started has no resync.
LEMMA NoResyncType ==
  /\ NoResync \in [Resyncs -> [stage : {"none", "drain", "query", "answer"},
                               events : SUBSET Events]]
  /\ \A r \in Resyncs : NoResync[r].stage = "none"
<1>1. NoResync = [r \in Resyncs |-> [stage |-> "none", events |-> {}]]
  BY DEF NoResync, At
<1>2. [stage |-> "none", events |-> {}] \in
         [stage : {"none", "drain", "query", "answer"}, events : SUBSET Events]
  OBVIOUS
<1>3. QED
  BY <1>1, <1>2

LEMMA LinkInit == Init => LinkInv
<1> SUFFICES ASSUME Init PROVE LinkInv
  OBVIOUS
<1>1. queue = <<>> /\ queue \in Seq(Events) /\ Len(queue) = 0 /\ ToSet(queue) = {}
  BY EmptyQueue DEF Init
<1>2. resync = NoResync /\ \A r \in Resyncs : resync[r] = [stage |-> "none", events |-> {}]
  BY DEF Init, NoResync, At
<1>3. TypeOK
  BY <1>1, <1>2, NoResyncType DEF Init, TypeOK
<1>4. Missed = {}
  BY DEF Init, Missed, Open, Stored
<1>5. QED
  BY <1>1, <1>2, <1>3, <1>4 DEF Init, LinkInv, QueueInv, PhaseInv, SubInv

\* Every step of a resync leaves its record a record of its type.
LEMMA ResyncType ==
  ASSUME QueueInv, NEW r \in Resyncs, Resync(r)
  PROVE  /\ resync' \in [Resyncs -> [stage : {"none", "drain", "query", "answer"},
                                     events : SUBSET Events]]
         /\ \A x \in Resyncs : resync'[x].stage = "answer" => resync'[x].events \subseteq Stored
<1>1. Replay(Since) \subseteq Stored /\ Stored \subseteq Events
  BY ReplayIsStored DEF Stored
<1>2. \E a \in [stage : {"none", "drain", "query", "answer"}, events : SUBSET Events] :
         /\ a.stage = "answer" => a.events \subseteq Stored
         /\ resync' = [resync EXCEPT ![r] = a]
  <2>1. CASE Drained(r)
    BY <2>1 DEF Drained, At
  <2>2. CASE Asked(r)
    BY <1>1, <2>2 DEF Asked, At
  <2>3. CASE Answered(r)
    BY <2>3 DEF Answered, At
  <2>4. QED
    BY <2>1, <2>2, <2>3 DEF Resync
<1>3. QED
  BY <1>2 DEF QueueInv, TypeOK

\* Every step keeps the types, and the queue a sequence of stored events.
LEMMA QueueStep ==
  ASSUME QueueInv, PhaseInv, [Next]_vars
  PROVE  QueueInv'
<1> USE DEF dbVars, procVars, linkVars, relayVars
<1>1. ASSUME Start \/ (\E r \in Resyncs : Resync(r)) \/ (\E e \in Events : Send(e))
      PROVE  /\ queue' \in Seq(Events) /\ ToSet(queue') \subseteq Events
             /\ \A i \in 1 .. Len(queue') : queue'[i] \in Stored
  <2>1. PICK q \in Seq(Events) :
            /\ queue' = queue \o q
            /\ \A i \in 1 .. Len(q) : q[i] \in Stored \ (done \cup Waiting)
    BY <1>1, Queues
  <2>2. QED
    BY <2>1, Enqueued, ToSetOfSeq
<1>2. CASE Start
  BY <1>1, <1>2 DEF Start, QueueInv, TypeOK, Stored
<1>3. CASE Subscribe
  BY <1>3, SinceType DEF Subscribe, QueueInv, TypeOK, Stored
<1>4. ASSUME NEW r \in Resyncs, Resync(r)
      PROVE  QueueInv'
  BY <1>1, <1>4, ResyncType DEF Resync, QueueInv, TypeOK, Stored
<1>5. CASE Crash
  <2>1. resync' = NoResync /\ queue' = <<>> /\ coming' = {} /\ w' = NoEvent
    BY <1>5 DEF Crash
  <2>2. TypeOK'
    BY <1>5, <2>1, NoResyncType, EmptyQueue DEF Crash, QueueInv, TypeOK
  <2>3. QED
    BY <1>5, <2>1, <2>2, NoResyncType, EmptyQueue DEF QueueInv
<1>6. CASE Link
  <2>1. UNCHANGED resync \/ \E r \in Resyncs :
            resync' = [resync EXCEPT ![r] = [stage |-> "drain", events |-> Waiting]]
    BY <1>6 DEF Link, At
  <2>2. /\ resync' \in [Resyncs -> [stage : {"none", "drain", "query", "answer"},
                                   events : SUBSET Events]]
        /\ \A x \in Resyncs : resync'[x].stage = "answer" => resync'[x].events \subseteq Stored
    BY <2>1, WaitingType DEF QueueInv, TypeOK
  <2>3. QED
    BY <1>6, <2>2 DEF Link, QueueInv, TypeOK, Stored
<1>7. CASE Unlink
  BY <1>7 DEF Unlink, QueueInv, TypeOK, Stored
<1>8. ASSUME NEW k \in Subs, Req(k)
      PROVE  QueueInv'
  BY <1>8, ReplayIsStored DEF Req, QueueInv, TypeOK, Stored
<1>9. ASSUME NEW e \in Events, Send(e)
      PROVE  QueueInv'
  BY <1>1, <1>9 DEF Send, QueueInv, TypeOK, Stored
<1>10. CASE Handle
  <2>1. /\ Tail(queue) \in Seq(Events)
        /\ \A i \in 1 .. Len(Tail(queue)) : Tail(queue)[i] \in Stored
        /\ Head(queue) \in Stored
    BY <1>10, HeadIsFirst DEF Handle, QueueInv
  <2>2. w' \in Events /\ stamp[w'] \in Nat
    BY <1>10, <2>1, StampType DEF Handle, QueueInv
  <2>3. cursor' \in Nat
    BY <1>10, <2>2, CursorAfterType DEF Handle, QueueInv, TypeOK
  <2>4. QED
    BY <1>10, <2>1, <2>2, <2>3, ToSetOfSeq DEF Handle, QueueInv, TypeOK, Stored
<1>11. CASE Finish
  BY <1>11 DEF Finish, QueueInv, TypeOK, Stored
<1>12. CASE Fail
  BY <1>12 DEF Fail, QueueInv, TypeOK, Stored
<1>13. ASSUME NEW e \in Events, Arrive(e)
       PROVE  QueueInv'
  <2>1. PICK d \in Larger(0, now - Lag) .. now + Ahead :
             /\ stamp' = [stamp EXCEPT ![e] = d]
             /\ coming' = IF KindOf[e] \in live /\ d >= since THEN coming \cup {e} ELSE coming
    BY <1>13 DEF Arrive
  <2>2. d \in Nat /\ d # Unsent
    BY <2>1, ConstantsAssumption DEF Larger, QueueInv, TypeOK
  <2>3. stamp' \in [Events -> Nat \cup {Unsent}]
    BY <2>1, <2>2 DEF QueueInv, TypeOK
  <2>4. Stored \subseteq Stored' /\ e \in Stored'
    BY <2>1, <2>2, <1>13 DEF Stored, Arrive, QueueInv, TypeOK
  <2>5. coming' \subseteq coming \cup {e}
    BY <2>1
  <2>6. QED
    BY <1>13, <2>3, <2>4, <2>5 DEF Arrive, QueueInv, TypeOK
<1>14. CASE Tick
  BY <1>14 DEF Tick, QueueInv, TypeOK, Stored
<1>15. CASE UNCHANGED vars
  BY <1>15 DEF vars, QueueInv, TypeOK, Stored
<1>16. QED
  BY <1>2, <1>3, <1>4, <1>5, <1>6, <1>7, <1>8, <1>9, <1>10, <1>11, <1>12, <1>13,
     <1>14, <1>15 DEF Next

\* Every step keeps what belongs to its phase.
LEMMA PhaseStep ==
  ASSUME QueueInv, PhaseInv, [Next]_vars
  PROVE  PhaseInv'
<1> USE DEF dbVars, procVars, linkVars, relayVars
<1>1. resync \in [Resyncs -> [stage : {"none", "drain", "query", "answer"},
                              events : SUBSET Events]]
  BY DEF QueueInv, TypeOK
<1>2. CASE Start \/ Subscribe \/ Unlink
  BY <1>2 DEF Start, Subscribe, Unlink, PhaseInv
<1>3. ASSUME NEW r \in Resyncs, Resync(r)
      PROVE  PhaseInv'
  <2>1. resync[r].stage # "none"
    BY <1>3 DEF Resync, Drained, Asked, Answered
  <2>2. phase = "serving"
    BY <2>1, <1>3 DEF PhaseInv, QueueInv, TypeOK
  <2>3. QED
    BY <1>3, <2>2 DEF Resync, PhaseInv
<1>4. CASE Crash
  BY <1>4 DEF Crash, PhaseInv, NoResync, At
<1>5. CASE Link
  BY <1>5 DEF Link, PhaseInv
<1>6. ASSUME NEW k \in Subs, Req(k)
      PROVE  PhaseInv'
  BY <1>6 DEF Req, PhaseInv
<1>7. ASSUME NEW e \in Events, Send(e)
      PROVE  PhaseInv'
  <2>1. linked /\ phase = "serving"
    BY <1>7 DEF Send, PhaseInv, QueueInv, TypeOK
  <2>2. QED
    BY <1>7, <2>1 DEF Send, PhaseInv
<1>8. CASE Handle \/ Finish \/ Fail
  <2>1. phase # "down"
    BY <1>8 DEF Handle, Finish, Fail, PhaseInv
  <2>2. QED
    BY <1>8, <2>1 DEF Handle, Finish, Fail, PhaseInv
<1>9. ASSUME NEW e \in Events, Arrive(e)
      PROVE  PhaseInv'
  <2>1. live = {} => coming' = coming
    BY <1>9 DEF Arrive
  <2>2. QED
    BY <1>9, <2>1 DEF Arrive, PhaseInv
<1>10. CASE Tick \/ UNCHANGED vars
  BY <1>10 DEF Tick, vars, PhaseInv
<1>11. QED
  BY <1>2, <1>3, <1>4, <1>5, <1>6, <1>7, <1>8, <1>9, <1>10 DEF Next

\* What is queued waits, behind what waits.
LEMMA WaitingGrows ==
  ASSUME QueueInv, NEW q \in Seq(Events), \A i \in 1 .. Len(q) : q[i] \in Stored,
         queue' = queue \o q, w' = w
  PROVE  Waiting' = Waiting \cup ToSet(q)
  BY Enqueued DEF Waiting

\* What a step that handles an event does to what waits.
LEMMA WaitingKept ==
  ASSUME QueueInv, Handle \/ Finish \/ Fail
  PROVE  /\ Waiting \subseteq Waiting' \cup done' \cup failed'
         /\ done \cup failed \subseteq done' \cup failed'
<1>1. CASE Handle
  <2>1. w = NoEvent /\ w' = Head(queue) /\ queue' = Tail(queue)
        /\ ToSet(queue) = ToSet(Tail(queue)) \cup {Head(queue)}
        /\ Head(queue) \in Stored
    BY <1>1, HeadIsFirst DEF Handle, QueueInv
  <2>2. Head(queue) # NoEvent
    BY <2>1, ConstantsAssumption DEF Stored
  <2>3. QED
    BY <1>1, <2>1, <2>2 DEF Handle, Waiting
<1>2. CASE Finish \/ Fail
  BY <1>2 DEF Finish, Fail, Waiting, dbVars
<1>3. QED
  BY <1>1, <1>2

\* A step that hides nothing of what the subscriptions owe keeps that on its way.
LEMMA SubQuiet ==
  ASSUME SubInv, UNCHANGED <<stamp, since, live>>,
         done \cup failed \subseteq done' \cup failed',
         Waiting \subseteq Waiting' \cup done' \cup failed',
         coming \subseteq coming' \cup Waiting' \cup done' \cup failed'
  PROVE  SubInv'
<1>1. Missed' \subseteq Missed
  BY DEF Missed, Open, Stored
<1>2. QED
  BY <1>1 DEF SubInv, Missed, Open

\* Every step keeps what the subscriptions owe on its way.
LEMMA SubStep ==
  ASSUME LinkInv, [Next]_vars
  PROVE  SubInv'
<1> USE DEF dbVars, procVars, linkVars, relayVars
<1>1. QueueInv /\ PhaseInv /\ SubInv
  BY DEF LinkInv
<1>2. ASSUME NEW q \in Seq(Events), \A i \in 1 .. Len(q) : q[i] \in Stored,
             queue' = queue \o q, UNCHANGED <<stamp, since, live, done, failed, w>>,
             coming \subseteq coming' \cup ToSet(q) \cup done \cup Waiting
      PROVE  SubInv'
  <2>1. Waiting' = Waiting \cup ToSet(q)
    BY <1>1, <1>2, WaitingGrows
  <2>2. QED
    BY <1>1, <1>2, <2>1, SubQuiet
<1>3. CASE Start \/ \E r \in Resyncs : Resync(r)
  <2>1. PICK q \in Seq(Events) :
            /\ queue' = queue \o q
            /\ \A i \in 1 .. Len(q) : q[i] \in Stored \ (done \cup Waiting)
    BY <1>1, <1>3, Queues
  <2>2. QED
    BY <1>2, <1>3, <2>1 DEF Start, Resync
<1>4. ASSUME NEW e \in Events, Send(e)
      PROVE  SubInv'
  <2>1. <<e>> \in Seq(Events) /\ Len(<<e>>) = 1 /\ <<e>>[1] = e /\ e \in Stored
    BY <1>1, <1>4 DEF Send, QueueInv
  <2>2. e \in ToSet(<<e>>) /\ \A i \in 1 .. Len(<<e>>) : <<e>>[i] \in Stored
    <3>1. 1 .. Len(<<e>>) = {1}
      BY <2>1
    <3>2. ToSet(<<e>>) = {<<e>>[i] : i \in {1}}
      BY <2>1, <3>1, ToSetOfSeq, Zenon
    <3>3. QED
      BY <2>1, <3>1, <3>2, Zenon
  <2>3. CASE e \in done \cup Waiting
    BY <1>1, <1>4, <2>3, SubQuiet DEF Send, Waiting
  <2>4. CASE e \notin done \cup Waiting
    <3>1. queue' = queue \o <<e>>
      BY <1>1, <1>4, <2>4 DEF Send, QueueInv
    <3>2. QED
      BY <1>2, <1>4, <2>1, <2>2, <3>1 DEF Send
  <2>5. QED
    BY <2>3, <2>4
<1>5. CASE Subscribe \/ Unlink \/ Crash
  <2>1. live' = {}
    BY <1>1, <1>5 DEF Subscribe, Unlink, Crash, PhaseInv
  <2>2. QED
    BY <2>1 DEF SubInv
<1>6. CASE Link \/ Tick \/ UNCHANGED vars
  BY <1>1, <1>6, SubQuiet DEF Link, Tick, vars, Waiting
<1>7. CASE Handle \/ Finish \/ Fail
  BY <1>1, <1>7, WaitingKept, SubQuiet DEF Handle, Finish, Fail
<1>8. ASSUME NEW k \in Subs, Req(k)
      PROVE  SubInv'
  <2>1. Missed' = Missed /\ UNCHANGED <<stamp, since>>
    BY <1>8 DEF Req, Missed, Open, Stored, Waiting
  <2>2. ASSUME NEW e \in Missed, KindOf[e] \in live \cup {k}, stamp[e] >= since
        PROVE  e \in coming'
    <3>1. e \in Replay(since)
      BY <2>2 DEF Replay, Missed, Open
    <3>2. QED
      BY <1>1, <1>8, <2>2, <3>1 DEF Req, SubInv
  <2>3. QED
    BY <1>8, <2>1, <2>2 DEF SubInv, Req
<1>9. ASSUME NEW e \in Events, Arrive(e)
      PROVE  SubInv'
  <2>1. PICK d \in Larger(0, now - Lag) .. now + Ahead :
             /\ stamp' = [stamp EXCEPT ![e] = d]
             /\ coming' = IF KindOf[e] \in live /\ d >= since THEN coming \cup {e} ELSE coming
    BY <1>9 DEF Arrive
  <2>2. stamp'[e] = d /\ \A x \in Events : x # e => stamp'[x] = stamp[x]
    BY <1>1, <2>1 DEF QueueInv, TypeOK
  <2>3. UNCHANGED <<since, live, done, failed, Waiting>>
    BY <1>9 DEF Arrive, Waiting
  <2>4. Missed' \subseteq Missed \cup {e} /\ Missed' \subseteq Events
    BY <2>2, <2>3 DEF Missed, Open, Stored
  <2>5. ASSUME NEW x \in Missed', KindOf[x] \in live', stamp'[x] >= since'
        PROVE  x \in coming'
    <3>1. CASE x = e
      BY <2>1, <2>2, <2>3, <2>5, <3>1
    <3>2. CASE x # e
      BY <1>1, <2>1, <2>2, <2>3, <2>4, <2>5, <3>2 DEF SubInv
    <3>3. QED
      BY <3>1, <3>2
  <2>6. QED
    BY <2>5 DEF SubInv
<1>10. QED
  BY <1>3, <1>4, <1>5, <1>6, <1>7, <1>8, <1>9 DEF Next

\* The part of the invariant that needs no premise.
LEMMA LinkInvariant == Spec => []LinkInv
<1>1. LinkInv /\ [Next]_vars => LinkInv'
  BY QueueStep, PhaseStep, SubStep DEF LinkInv
<1>2. QED
  BY <1>1, LinkInit, PTL DEF Spec

\* Types: every variable of Delivery keeps its type.
THEOREM TypeCorrect == Spec => []TypeOK
<1>1. LinkInv => TypeOK
  BY DEF LinkInv, QueueInv
<1>2. QED
  BY <1>1, LinkInvariant, PTL

\* Both subscriptions are answered, the relay has sent what it had, and the
\* daemon has handled what it was sent.
Quiet == live = Subs /\ coming = {} /\ queue = <<>> /\ w = NoEvent

\* A daemon at rest has handled every stored event from the date on that it
\* subscribed from, whatever the order in which replays, live events and
\* catch-ups came in, and however often the connection dropped before.
SubscriptionDone == Quiet => \A e \in Stored : stamp[e] >= since => e \in done \cup failed

THEOREM SubscriptionsCatchUp == Spec => []SubscriptionDone
<1>1. LinkInv => SubscriptionDone
  <2> SUFFICES ASSUME LinkInv, Quiet, NEW e \in Stored, stamp[e] >= since,
                      e \notin done \cup failed
               PROVE  FALSE
    BY DEF SubscriptionDone
  <2>1. Waiting = {}
    BY EmptyQueue DEF Quiet, Waiting
  <2>2. e \in Missed /\ KindOf[e] \in live
    BY <2>1, ConstantsAssumption DEF Missed, Open, Stored, Quiet
  <2>3. QED
    BY <2>2 DEF LinkInv, SubInv, Quiet
<1>2. QED
  BY <1>1, LinkInvariant, PTL

-----------------------------------------------------------------------------
(* The dates.                                                              *)

LEMMA DateInit == Init => DateInv
<1> SUFFICES ASSUME Init PROVE DateInv
  OBVIOUS
<1>1. Stored = {}
  BY DEF Init, Stored
<1>2. since = 0 /\ cursor = 0 /\ now = 0
  BY DEF Init
<1>3. QED
  BY <1>1, <1>2, SinceType, ConstantsAssumption DEF DateInv

\* The cursor follows dates, and dates run no further ahead than they may.
LEMMA DateStep ==
  ASSUME QueueInv, DateInv, [Next]_vars
  PROVE  DateInv'
<1> USE DEF dbVars, procVars, linkVars, relayVars
<1> DEFINE Same == UNCHANGED <<cursor, now, stamp>> /\ since' \in {since, 0, Since}
<1>1. ASSUME Same
      PROVE  DateInv'
  BY <1>1, SinceType, ConstantsAssumption DEF DateInv, QueueInv, TypeOK, Stored, Since, Larger
<1>2. CASE Start \/ Subscribe \/ Link \/ Unlink \/ Crash \/ Finish \/ Fail \/ UNCHANGED vars
  BY <1>1, <1>2 DEF Start, Subscribe, Link, Unlink, Crash, Finish, Fail, vars
<1>3. CASE (\E r \in Resyncs : Resync(r)) \/ (\E k \in Subs : Req(k)) \/ (\E e \in Events : Send(e))
  BY <1>1, <1>3 DEF Resync, Req, Send
<1>4. CASE Handle
  <2>1. w' = Head(queue) /\ cursor' = CursorAfter(w') /\ UNCHANGED <<since, now, stamp>>
    BY <1>4 DEF Handle
  <2>2. w' \in Stored /\ stamp[w'] \in Nat /\ stamp[w'] <= now + Ahead
    BY <1>4, HeadIsFirst, StampType DEF Handle, QueueInv, DateInv
  <2>3. cursor' \in Nat /\ cursor' >= cursor /\ cursor' <= now + Ahead
    BY <2>1, <2>2, CursorAfterType, ConstantsAssumption DEF QueueInv, TypeOK, DateInv
  <2>4. Since' \in Nat /\ Since <= Since'
    <3>1. Since = Larger(0, cursor - Overlap) /\ Since' = Larger(0, cursor' - Overlap)
      BY DEF Since
    <3>2. cursor \in Nat
      BY DEF QueueInv, TypeOK
    <3>3. QED
      BY <2>3, <3>1, <3>2, ReachMonotone
  <2>5. Stored' = Stored
    BY <2>1 DEF Stored
  <2>6. QED
    <3>1. since \in Nat /\ since <= Since /\ Since \in Nat
      BY SinceType DEF DateInv, QueueInv, TypeOK
    <3>2. since' <= Since'
      BY <2>1, <2>4, <3>1
    <3>3. QED
      BY <2>1, <2>3, <2>5, <3>2 DEF DateInv
<1>5. CASE Tick
  <2>1. now' = now + 1 /\ UNCHANGED <<cursor, since, stamp>> /\ now \in Nat /\ cursor \in Nat
    BY <1>5 DEF Tick, QueueInv, TypeOK
  <2>2. \A e \in Stored : stamp[e] \in Nat
    BY StampType DEF QueueInv
  <2>3. Stored' = Stored /\ Since' = Since
    BY <2>1 DEF Stored, Since
  <2>4. cursor' <= now' + Ahead
    BY <2>1, ConstantsAssumption DEF DateInv
  <2>5. \A e \in Stored' : stamp'[e] <= now' + Ahead
    BY <2>1, <2>2, <2>3, ConstantsAssumption DEF DateInv
  <2>6. since' <= Since'
    BY <2>1, <2>3 DEF DateInv
  <2>7. QED
    BY <2>4, <2>5, <2>6 DEF DateInv
<1>6. ASSUME NEW e \in Events, Arrive(e)
      PROVE  DateInv'
  <2>1. PICK d \in Larger(0, now - Lag) .. now + Ahead :
             stamp' = [stamp EXCEPT ![e] = d]
    BY <1>6 DEF Arrive
  <2>2. d \in Nat /\ d <= now + Ahead /\ d # Unsent
    BY <2>1, ConstantsAssumption DEF Larger, QueueInv, TypeOK
  <2>3. \A x \in Stored' : IF x = e THEN stamp'[x] = d ELSE x \in Stored /\ stamp'[x] = stamp[x]
    BY <2>1, <1>6 DEF Stored, QueueInv, TypeOK
  <2>4. UNCHANGED <<cursor, now, since>> /\ Since' = Since
    BY <1>6 DEF Arrive, Since
  <2>5. QED
    BY <2>2, <2>3, <2>4 DEF DateInv
<1>7. QED
  BY <1>2, <1>3, <1>4, <1>5, <1>6 DEF Next

-----------------------------------------------------------------------------
(* The order of the queue and the reach of the cursor.                     *)

LEMMA OrderInit == Init => OrderInv /\ WithinReach
<1> SUFFICES ASSUME Init PROVE OrderInv /\ WithinReach
  OBVIOUS
<1>1. 1 .. Len(queue) = {} /\ Stored = {}
  BY EmptyQueue DEF Init, Stored
<1>2. QED
  BY <1>1 DEF OrderInv, WithinReach, Open

\* What the daemon has not heard of is never far behind any stored event, while
\* events are heard promptly.
LEMMA MissedIsRecent ==
  ASSUME Premise, QueueInv, DateInv, Prompt, phase = "serving",
         NEW e \in Missed, NEW x \in Stored
  PROVE  stamp[e] >= stamp[x] - Overlap
<1>1. stamp[e] >= now - Gap
  BY DEF Prompt
<1>2. stamp[x] <= now + Ahead
  BY DEF DateInv
<1>3. stamp[e] \in Nat /\ stamp[x] \in Nat /\ now \in Nat
  BY StampType DEF QueueInv, TypeOK, Missed, Open
<1>4. QED
  BY <1>1, <1>2, <1>3, ConstantsAssumption DEF Premise

\* A catch-up brings up every open event in order of date: nothing is missed.
LEMMA CatchUpOrder ==
  ASSUME QueueInv, WithinReach, queue = <<>>, w = NoEvent,
         queue' \in Batches(Replay(Since)),
         UNCHANGED <<cursor, done, failed, stamp, w>>
  PROVE  OrderInv' /\ WithinReach'
<1>1. Open' = Open /\ Stored' = Stored
  BY DEF Open, Stored
<1>2. \A e \in Open : e \in Replay(Since)
  <2>1. TAKE e \in Open
  <2>2. e \in Stored /\ e \in Events /\ stamp[e] \in Nat /\ stamp[e] >= cursor - Overlap
    BY StampType DEF Open, QueueInv, WithinReach
  <2>3. stamp[e] >= Since
    BY <2>2, SinceType, ConstantsAssumption DEF QueueInv, TypeOK
  <2>4. Waiting = {}
    BY EmptyQueue DEF Waiting
  <2>5. QED
    BY <2>2, <2>3, <2>4 DEF Replay, Open
<1>3. /\ Len(queue') \in Nat /\ queue' \in Seq(Events)
      /\ \A i \in 1 .. Len(queue') : queue'[i] \in Stored
      /\ \A e \in Replay(Since) : \E i \in 1 .. Len(queue') : queue'[i] = e
      /\ \A i, j \in 1 .. Len(queue') : i < j => stamp[queue'[i]] <= stamp[queue'[j]]
  BY BatchProperties, ReplayIsStored
<1>4. \A i \in 1 .. Len(queue') : stamp[queue'[i]] \in Nat
  BY <1>3, StampType DEF QueueInv
<1>5. Missed' = {}
  <2>1. ToSet(queue') = {queue'[i] : i \in 1 .. Len(queue')}
    BY <1>3, ToSetOfSeq
  <2>2. Open \subseteq ToSet(queue')
    BY <1>2, <1>3, <2>1
  <2>3. QED
    BY <1>1, <2>2 DEF Missed, Waiting
<1>6. \A i, j \in 1 .. Len(queue') : i < j => stamp[queue'[j]] >= stamp[queue'[i]] - Overlap
  BY <1>3, <1>4, ConstantsAssumption
<1>7. QED
  BY <1>1, <1>5, <1>6 DEF OrderInv, WithinReach, Open

\* A step that adds nothing to the queue and leaves nothing else open keeps both.
LEMMA QuietOrder ==
  ASSUME OrderInv, WithinReach, UNCHANGED <<cursor, stamp, queue>>,
         done \cup failed \subseteq done' \cup failed',
         Waiting \subseteq Waiting' \cup done' \cup failed'
  PROVE  OrderInv' /\ WithinReach'
<1>1. Stored' = Stored /\ Open' \subseteq Open
  BY DEF Stored, Open
<1>2. Missed' \subseteq Missed
  BY <1>1 DEF Missed, Open
<1>3. QED
  BY <1>1, <1>2 DEF OrderInv, WithinReach, Open

\* Whatever is queued while events are heard promptly, in whatever order, is in
\* reach of all that waits before it.
LEMMA EnqueueOrder ==
  ASSUME Premise, IInv, Prompt, phase = "serving",
         NEW q \in Seq(Events),
         \A i \in 1 .. Len(q) : q[i] \in Stored \ (done \cup Waiting),
         queue' = queue \o q, UNCHANGED <<cursor, done, failed, stamp, w>>
  PROVE  OrderInv' /\ WithinReach'
<1>1. Open' = Open /\ Stored' = Stored
  BY DEF Open, Stored
<1>2. QueueInv /\ DateInv /\ OrderInv /\ WithinReach
  BY DEF IInv, LinkInv
<1>3. /\ Len(queue) \in Nat
      /\ \A i \in 1 .. Len(queue') : queue'[i] \in Stored
      /\ \A i \in 1 .. Len(queue') :
            \/ i \in 1 .. Len(queue) /\ queue'[i] = queue[i]
            \/ /\ i > Len(queue)
               /\ \E j \in 1 .. Len(q) : queue'[i] = q[j]
  <2>1. \A i \in 1 .. Len(q) : q[i] \in Stored
    OBVIOUS
  <2>2. QED
    BY <1>2, <2>1, Enqueued
<1>4. Missed' \subseteq Missed
  BY <1>1, <1>2, WaitingGrows DEF Missed
<1>5. ASSUME NEW i \in 1 .. Len(queue'), NEW j \in 1 .. Len(queue'), i < j,
             queue'[j] \in Open
      PROVE  stamp[queue'[j]] >= stamp[queue'[i]] - Overlap
  <2>1. CASE j \in 1 .. Len(queue) /\ queue'[j] = queue[j]
    <3>1. i \in 1 .. Len(queue) /\ queue'[i] = queue[i]
      BY <1>3, <1>5, <2>1
    <3>2. QED
      BY <1>2, <1>5, <2>1, <3>1 DEF OrderInv
  <2>2. CASE \E k \in 1 .. Len(q) : queue'[j] = q[k]
    <3>1. queue'[j] \in Missed
      BY <1>5, <2>2 DEF Missed
    <3>2. QED
      BY <1>2, <1>3, <3>1, MissedIsRecent
  <2>3. QED
    BY <1>3, <2>1, <2>2
<1>6. \A i \in 1 .. Len(queue') : \A e \in Missed' : stamp[e] >= stamp[queue'[i]] - Overlap
  BY <1>2, <1>3, <1>4, MissedIsRecent
<1>7. QED
  BY <1>1, <1>2, <1>5, <1>6 DEF OrderInv, WithinReach, Open

\* The cursor moves to the date of the event in hand: what waits behind it is in
\* reach by the order of the queue, what is missed by its date.
LEMMA HandleOrder ==
  ASSUME IInv, Handle
  PROVE  OrderInv' /\ WithinReach'
<1> DEFINE x == Head(queue)
<1>1. /\ w = NoEvent /\ w' = x /\ queue' = Tail(queue) /\ cursor' = CursorAfter(x)
      /\ UNCHANGED <<done, failed, stamp>> /\ queue # <<>>
  BY DEF Handle, relayVars
<1>2. Open' = Open /\ Stored' = Stored
  BY <1>1 DEF Open, Stored
<1>3. /\ x = queue[1] /\ 1 \in 1 .. Len(queue) /\ Len(queue) \in Nat
      /\ Len(queue') = Len(queue) - 1
      /\ \A i \in 1 .. Len(queue') : queue'[i] = queue[i + 1] /\ i + 1 \in 1 .. Len(queue)
  BY <1>1, HeadIsFirst DEF IInv, LinkInv, QueueInv
<1>4. x \in Stored /\ stamp[x] \in Nat
  BY <1>3, StampType DEF IInv, LinkInv, QueueInv
<1>5. \A e \in Open : stamp[e] >= stamp[x] - Overlap
  <2>1. TAKE e \in Open
  <2>2. e \in Stored /\ e \in Events /\ stamp[e] \in Nat
    BY StampType DEF Open, IInv, LinkInv, QueueInv
  <2>3. CASE e = x
    BY <2>2, <2>3, ConstantsAssumption
  <2>4. CASE \E i \in 2 .. Len(queue) : queue[i] = e
    BY <1>3, <2>4 DEF IInv, OrderInv
  <2>5. CASE e # x /\ ~ \E i \in 2 .. Len(queue) : queue[i] = e
    <3>1. ToSet(queue) = {queue[i] : i \in 1 .. Len(queue)}
      BY ToSetOfSeq DEF IInv, LinkInv, QueueInv
    <3>2. \A i \in 1 .. Len(queue) : i = 1 \/ i \in 2 .. Len(queue)
      BY <1>3
    <3>3. e \notin ToSet(queue)
      BY <1>3, <2>5, <3>1, <3>2
    <3>4. e \in Missed
      BY <1>1, <3>3 DEF Missed, Waiting
    <3>5. QED
      BY <1>3, <3>4 DEF IInv, OrderInv
  <2>6. QED
    BY <2>3, <2>4, <2>5
<1>6. \A e \in Open : stamp[e] >= cursor' - Overlap
  <2>1. TAKE e \in Open
  <2>2. stamp[e] \in Nat /\ stamp[e] >= cursor - Overlap /\ stamp[e] >= stamp[x] - Overlap
    BY <1>5, StampType DEF Open, IInv, LinkInv, QueueInv, WithinReach
  <2>3. /\ cursor \in Nat /\ cursor' \in Nat /\ Overlap \in Nat
        /\ cursor' <= cursor \/ cursor' <= stamp[x]
    BY <1>1, <1>4, CursorAfterType, ConstantsAssumption DEF IInv, LinkInv, QueueInv, TypeOK
  <2>4. QED
    BY <1>4, <2>2, <2>3
<1>7. Missed' \subseteq Missed
  BY <1>1, <1>2, WaitingKept DEF Missed, Open, IInv, LinkInv
<1>8. \A i, j \in 1 .. Len(queue') : i < j => i + 1 < j + 1
  BY <1>3
<1>9. OrderInv'
  BY <1>1, <1>2, <1>3, <1>7, <1>8 DEF OrderInv, IInv, Handle
<1>10. QED
  BY <1>1, <1>2, <1>6, <1>9 DEF WithinReach, Open

\* What arrives is dated close enough to the clock, and so is all there was.
LEMMA ArriveOrder ==
  ASSUME Premise, IInv, NEW e \in Events, Arrive(e)
  PROVE  OrderInv' /\ WithinReach'
<1>1. PICK d \in Larger(0, now - Lag) .. now + Ahead : stamp' = [stamp EXCEPT ![e] = d]
  BY DEF Arrive
<1>2. UNCHANGED <<cursor, done, failed, queue, Waiting>> /\ e \notin Stored
  BY DEF Arrive, dbVars, procVars, Waiting
<1>3. d \in Nat /\ d # Unsent /\ d >= now + Ahead - Overlap /\ now \in Nat
  BY <1>1, ConstantsAssumption DEF Premise, Larger, IInv, LinkInv, QueueInv, TypeOK
<1>4. /\ Stored' = Stored \cup {e} /\ stamp'[e] = d
      /\ \A x \in Stored : x # e /\ stamp'[x] = stamp[x]
  BY <1>1, <1>2, <1>3 DEF Stored, IInv, LinkInv, QueueInv, TypeOK
<1>5. Open' \subseteq Open \cup {e} /\ Missed' \subseteq Missed \cup {e}
  BY <1>2, <1>4 DEF Open, Missed
<1>6. /\ Len(queue) \in Nat
      /\ \A i \in 1 .. Len(queue) : queue[i] \in Stored /\ stamp[queue[i]] \in Nat
                                     /\ stamp[queue[i]] <= now + Ahead
  BY LenProperties, StampType DEF IInv, LinkInv, QueueInv, DateInv
<1>7. \A i \in 1 .. Len(queue) : /\ stamp'[queue[i]] = stamp[queue[i]]
                                 /\ queue[i] # e
                                 /\ d >= stamp'[queue[i]] - Overlap
  BY <1>3, <1>4, <1>6, ConstantsAssumption
<1>8. \A i, j \in 1 .. Len(queue) :
         i < j /\ queue[j] \in Open' => stamp'[queue[j]] >= stamp'[queue[i]] - Overlap
  BY <1>5, <1>7 DEF IInv, OrderInv
<1>9. \A i \in 1 .. Len(queue) : \A x \in Missed' : stamp'[x] >= stamp'[queue[i]] - Overlap
  <2>1. \A x \in Missed : stamp'[x] = stamp[x]
    BY <1>4 DEF Missed, Open
  <2>2. QED
    BY <1>4, <1>5, <1>7, <2>1 DEF IInv, OrderInv
<1>10. \A x \in Open' : stamp'[x] >= cursor' - Overlap
  <2>1. cursor \in Nat /\ cursor <= now + Ahead
    BY DEF IInv, LinkInv, DateInv, QueueInv, TypeOK
  <2>2. stamp'[e] >= cursor - Overlap
    BY <1>3, <1>4, <2>1, ConstantsAssumption
  <2>3. \A x \in Open : stamp'[x] >= cursor - Overlap
    BY <1>4 DEF Open, IInv, WithinReach
  <2>4. QED
    BY <1>2, <1>5, <2>2, <2>3
<1>11. QED
  BY <1>2, <1>8, <1>9, <1>10 DEF OrderInv, WithinReach

\* While events are heard promptly, every step keeps the order and the reach.
LEMMA OrderStep ==
  ASSUME Premise, IInv, Prompt, [Next]_vars
  PROVE  OrderInv' /\ WithinReach'
<1> USE DEF dbVars, procVars, linkVars, relayVars
<1>1. OrderInv /\ WithinReach /\ QueueInv /\ PhaseInv
  BY DEF IInv, LinkInv
<1>2. CASE Start
  <2>1. queue = <<>> /\ w = NoEvent
    BY <1>1, <1>2 DEF Start, PhaseInv
  <2>2. CASE UNCHANGED queue
    BY <1>1, <1>2, <2>2, QuietOrder DEF Start, Waiting
  <2>3. QED
    BY <1>1, <1>2, <2>1, <2>2, CatchUpOrder DEF Start
<1>3. ASSUME phase = "serving", (\E r \in Resyncs : Resync(r)) \/ (\E e \in Events : Send(e))
      PROVE  OrderInv' /\ WithinReach'
  <2>1. PICK q \in Seq(Events) :
            /\ queue' = queue \o q
            /\ \A i \in 1 .. Len(q) : q[i] \in Stored \ (done \cup Waiting)
    BY <1>1, <1>3, Queues
  <2>2. UNCHANGED <<cursor, done, failed, stamp, w>>
    BY <1>3 DEF Resync, Send
  <2>3. QED
    BY <1>3, <2>1, <2>2, EnqueueOrder
<1>4. ASSUME NEW r \in Resyncs, Resync(r)
      PROVE  OrderInv' /\ WithinReach'
  <2>1. phase = "serving"
    BY <1>1, <1>4 DEF Resync, Drained, Asked, Answered, PhaseInv, QueueInv, TypeOK
  <2>2. QED
    BY <1>3, <1>4, <2>1
<1>5. ASSUME NEW e \in Events, Send(e)
      PROVE  OrderInv' /\ WithinReach'
  <2>1. phase = "serving"
    BY <1>1, <1>5 DEF Send, PhaseInv, QueueInv, TypeOK
  <2>2. QED
    BY <1>3, <1>5, <2>1
<1>6. CASE Subscribe \/ Link \/ Unlink \/ Tick \/ UNCHANGED vars
  BY <1>1, <1>6, QuietOrder DEF Subscribe, Link, Unlink, Tick, vars, Waiting
<1>7. ASSUME NEW k \in Subs, Req(k)
      PROVE  OrderInv' /\ WithinReach'
  BY <1>1, <1>7, QuietOrder DEF Req, Waiting
<1>8. CASE Crash
  <2>1. UNCHANGED <<cursor, done, stamp, failed>> /\ Len(queue') = 0
    BY <1>8, EmptyQueue DEF Crash
  <2>2. Stored' = Stored /\ 1 .. Len(queue') = {}
    BY <2>1, EmptyQueue DEF Stored
  <2>3. QED
    BY <1>1, <2>1, <2>2 DEF OrderInv, WithinReach, Open
<1>9. CASE Handle
  BY <1>9, HandleOrder
<1>10. CASE Finish \/ Fail
  BY <1>1, <1>10, WaitingKept, QuietOrder DEF Finish, Fail
<1>11. ASSUME NEW e \in Events, Arrive(e)
       PROVE  OrderInv' /\ WithinReach'
  BY <1>11, ArriveOrder
<1>12. QED
  BY <1>2, <1>4, <1>5, <1>6, <1>7, <1>8, <1>9, <1>10, <1>11 DEF Next

-----------------------------------------------------------------------------

\* The inductive invariant holds in every state of a behaviour in which events
\* are heard promptly, under the premise.
THEOREM Inductive ==
  ASSUME Premise
  PROVE  Spec /\ []Prompt => []IInv
<1>1. Init => IInv
  BY LinkInit, DateInit, OrderInit DEF IInv
<1>2. IInv /\ Prompt /\ [Next]_vars => IInv'
  <2> SUFFICES ASSUME IInv, Prompt, [Next]_vars
               PROVE  IInv'
    OBVIOUS
  <2>1. LinkInv'
    BY QueueStep, PhaseStep, SubStep DEF IInv, LinkInv
  <2>2. DateInv'
    BY DateStep DEF IInv, LinkInv
  <2>3. OrderInv' /\ WithinReach'
    BY OrderStep
  <2>4. QED
    BY <2>1, <2>2, <2>3 DEF IInv
<1>3. QED
  BY <1>1, <1>2, PTL DEF Spec

\* As long as events are heard promptly, the cursor never leaves a stored event
\* behind that is still to be handled: whenever the process dies, the next
\* catch-up brings it up.
THEOREM NothingLeftBehind ==
  ASSUME Premise
  PROVE  Spec => ReachKept
<1>1. IInv => WithinReach
  BY DEF IInv
<1>2. QED
  BY <1>1, Inductive, PTL DEF ReachKept

\* A daemon at rest has then handled every stored event, those included that
\* came in while it was down (the state that Heard says it comes to).
CaughtUp == Quiet => Stored \subseteq done \cup failed

THEOREM RestIsCaughtUp ==
  ASSUME Premise
  PROVE  Spec => ([]Prompt => []CaughtUp)
<1>1. IInv /\ SubscriptionDone => CaughtUp
  <2> SUFFICES ASSUME IInv, SubscriptionDone, Quiet, NEW e \in Stored,
                      e \notin done \cup failed
               PROVE  FALSE
    BY DEF CaughtUp
  <2>1. stamp[e] \in Nat /\ stamp[e] >= cursor - Overlap
    BY StampType DEF IInv, LinkInv, QueueInv, WithinReach, Open
  <2>2. Since \in Nat /\ stamp[e] >= Since /\ since <= Since /\ since \in Nat
    BY <2>1, SinceType, ConstantsAssumption DEF IInv, LinkInv, DateInv, QueueInv, TypeOK
  <2>3. stamp[e] >= since
    BY <2>1, <2>2
  <2>4. QED
    BY <2>3 DEF SubscriptionDone
<1>2. QED
  BY <1>1, Inductive, SubscriptionsCatchUp, PTL
=============================================================================
