----------------------------- MODULE AsksProofs ------------------------------
(***************************************************************************)
(* Proofs about Asks, for every set of questions and authors, every limit  *)
(* and window, and every sequence of bindings files.                       *)
(*                                                                         *)
(* The claim is what everything rests on: a question without a row has     *)
(* never been replied to, and while one is worked on its row is pending    *)
(* and nobody else's.                                                      *)
(***************************************************************************)
EXTENDS Asks, FiniteSetTheorems, TLAPS

\* What is in hand is pending and no longer on recovery's list, which is empty
\* unless recovery runs.
WorkInv ==
    /\ WorkIsPending
    /\ w.pc # "idle" => w.ask \notin todo
    /\ phase # "recovering" => todo = {}

\* A question without a row was never touched; one that is about to be replied
\* to for the first time was not replied to before.
ReplyInv ==
    /\ w.pc = "sent" => replies[w.ask] > 0
    /\ \A q \in Questions : outcome[q] = "none" =>
          replies[q] = 0 /\ q \notin latePosts /\ q \notin recovered
    /\ w.pc \in {"search", "send"} /\ w.ask \notin recovered =>
          replies[w.ask] = 0 /\ w.ask \notin latePosts
    /\ OneReplyPerLife
    /\ AnsweredIsPosted

\* Searches belong to claimed questions, and claims are not in the future.
LimitInv ==
    /\ \A q \in searched : outcome[q] # "none"
    /\ \A q \in Questions : claimedAt[q] <= now
    /\ FloodBounded

-----------------------------------------------------------------------------

\* The idle handler is a handler.
LEMMA IdleType ==
  /\ Idle \in [pc : {"idle", "search", "send", "sent", "failed"},
               ask : Questions \cup {NoQuestion}, says : Says]
  /\ Idle.pc = "idle"
  BY DEF Idle, Says

\* What the handler holds after it has looked up the graph of a question.
LEMMA ConsiderType ==
  ASSUME NEW q \in Questions, Consider(q)
  PROVE  /\ w' \in [pc : {"idle", "search", "send", "sent", "failed"},
                    ask : Questions \cup {NoQuestion}, says : Says]
         /\ w'.pc \in {"search", "send"} /\ w'.ask = q
  BY DEF Consider, Says

\* Moving on keeps the question and what is to be said.
LEMMA GotoKeeps ==
  ASSUME TypeOK, NEW pc \in {"search", "send", "sent", "failed"}, Goto(pc)
  PROVE  /\ w' \in [pc : {"idle", "search", "send", "sent", "failed"},
                    ask : Questions \cup {NoQuestion}, says : Says]
         /\ w'.pc = pc /\ w'.ask = w.ask
  BY DEF TypeOK, Goto

\* What a claim leaves in the handler's hands, over the limit or not.
LEMMA ClaimType ==
  ASSUME NEW q \in Questions, HandleAsk(q)
  PROVE  /\ w' \in [pc : {"idle", "search", "send", "sent", "failed"},
                    ask : Questions \cup {NoQuestion}, says : Says]
         /\ w'.pc \in {"search", "send"} /\ w'.ask = q
         /\ searched' = searched \/ (~OverLimit(q) /\ searched' = searched \cup {q})
  <1>1. CASE OverLimit(q)
    BY <1>1 DEF HandleAsk, Says
  <1>2. CASE ~OverLimit(q)
    BY <1>2, ConsiderType DEF HandleAsk
  <1> QED
    BY <1>1, <1>2

\* One more reply is at least one.
LEMMA OneMoreIsSome ==
  ASSUME NEW n \in Nat
  PROVE  OneMore(n) \in Nat /\ OneMore(n) > 0 /\ OneMore(n) <= n + 1
  BY ConstantsAssumption DEF OneMore

-----------------------------------------------------------------------------

\* Every variable keeps its type.
THEOREM TypeCorrect == Spec => []TypeOK
<1> USE ConstantsAssumption
<1>1. Init => TypeOK
  BY IdleType DEF Init, TypeOK
<1>2. TypeOK /\ [Next]_vars => TypeOK'
  <2> SUFFICES ASSUME TypeOK, [Next]_vars PROVE TypeOK'
    OBVIOUS
  <2> USE DEF TypeOK, askVars, dbVars, procVars, relayVars
  <2>1. CASE Boot
    BY <2>1 DEF Boot, LoadConfig, LoadBindings
  <2>2. CASE RefetchFails
    BY <2>2, IdleType DEF RefetchFails
  <2>3. CASE Serve
    BY <2>3, IdleType DEF Serve
  <2>4. CASE Crash
    BY <2>4, IdleType DEF Crash
  <2>5. CASE Search
    <3>1. CASE Goto("failed")
      BY <2>5, <3>1, GotoKeeps DEF Search
    <3>2. ASSUME NEW says \in {"refusal", "answer"},
                 w' = [w EXCEPT !.pc = "send", !.says = says]
          PROVE  TypeOK'
      BY <2>5, <3>2 DEF Search, Says
    <3> QED
      BY <2>5, <3>1, <3>2 DEF Search
  <2>6. CASE Send
    <3>1. replies' \in [Questions -> Nat]
      BY <2>6, OneMoreIsSome DEF Send
    <3>2. PICK pc \in {"sent", "failed"} : Goto(pc)
      BY <2>6 DEF Send
    <3> QED
      BY <2>6, <3>1, <3>2, GotoKeeps DEF Send
  <2>7. CASE Resolve
    BY <2>7, IdleType DEF Resolve, ResolveAs
  <2>8. CASE GiveUp
    BY <2>8, IdleType DEF GiveUp, ResolveAs
  <2>9. CASE Tick
    BY <2>9 DEF Tick
  <2>10. ASSUME NEW q \in Questions, Refetch(q) PROVE TypeOK'
    BY <2>10, ConsiderType DEF Refetch
  <2>11. ASSUME NEW q \in Questions, HandleAsk(q) PROVE TypeOK'
    BY <2>11, ClaimType DEF HandleAsk
  <2>12. ASSUME NEW q \in Questions, Delete(q) PROVE TypeOK'
    BY <2>12 DEF Delete
  <2>13. ASSUME NEW q \in Questions, LatePost(q) PROVE TypeOK'
    BY <2>13, OneMoreIsSome DEF LatePost
  <2>14. CASE UNCHANGED vars
    BY <2>14 DEF vars
  <2> QED
    BY <2>1, <2>2, <2>3, <2>4, <2>5, <2>6, <2>7, <2>8, <2>9, <2>10, <2>11, <2>12,
       <2>13, <2>14 DEF Next, Execute
<1> QED
  BY <1>1, <1>2, PTL DEF Spec

-----------------------------------------------------------------------------
(* One lemma per part of the inductive invariant.                          *)

\* Only the handler resolves, and it resolves what it holds.
LEMMA WorkStep ==
  ASSUME TypeOK, WorkInv, [Next]_vars
  PROVE  WorkInv'
<1> USE DEF TypeOK, WorkInv, WorkIsPending, askVars, dbVars, procVars, relayVars
<1>1. CASE Boot
  BY <1>1 DEF Boot
<1>2. CASE RefetchFails
  BY <1>2, IdleType DEF RefetchFails
<1>3. CASE Serve
  BY <1>3, IdleType DEF Serve
<1>4. CASE Crash
  BY <1>4, IdleType DEF Crash
<1>5. CASE Search
  BY <1>5 DEF Search, Goto
<1>6. CASE Send
  BY <1>6 DEF Send, Goto
<1>7. CASE Resolve
  BY <1>7, IdleType DEF Resolve, ResolveAs
<1>8. CASE GiveUp
  BY <1>8, IdleType DEF GiveUp, ResolveAs
<1>9. CASE Tick
  BY <1>9 DEF Tick
<1>10. ASSUME NEW q \in Questions, Refetch(q) PROVE WorkInv'
  BY <1>10, ConsiderType, IdleType DEF Refetch
<1>11. ASSUME NEW q \in Questions, HandleAsk(q) PROVE WorkInv'
  <2>1. w'.ask = q
    BY <1>11, ClaimType
  <2>2. /\ phase' = "serving" /\ phase = "serving" /\ todo' = todo
        /\ outcome' = [outcome EXCEPT ![q] = "pending"]
    BY <1>11 DEF HandleAsk
  <2> QED
    BY <2>1, <2>2
<1>12. ASSUME NEW q \in Questions, Delete(q) PROVE WorkInv'
  BY <1>12 DEF Delete
<1>13. ASSUME NEW q \in Questions, LatePost(q) PROVE WorkInv'
  BY <1>13 DEF LatePost
<1>14. CASE UNCHANGED vars
  BY <1>14 DEF vars
<1> QED
  BY <1>1, <1>2, <1>3, <1>4, <1>5, <1>6, <1>7, <1>8, <1>9, <1>10, <1>11, <1>12,
     <1>13, <1>14 DEF Next, Execute

\* A reply needs a claim, and a second one a crash in between.
LEMMA ReplyStep ==
  ASSUME TypeOK, WorkInv, ReplyInv, [Next]_vars
  PROVE  ReplyInv'
<1> USE DEF TypeOK, ReplyInv, OneReplyPerLife, AnsweredIsPosted,
            askVars, dbVars, procVars, relayVars
<1>1. CASE Boot
  BY <1>1 DEF Boot
<1>2. CASE RefetchFails
  BY <1>2, IdleType DEF RefetchFails
<1>3. CASE Serve
  BY <1>3, IdleType DEF Serve
<1>4. CASE Crash
  <2>1. w'.pc = "idle"
    BY <1>4, IdleType DEF Crash
  <2>2. latePosts' = latePosts \/ (w.pc = "send" /\ latePosts' = latePosts \cup {w.ask})
    BY <1>4 DEF Crash
  <2> QED
    BY <1>4, <2>1, <2>2 DEF Crash, WorkInv, WorkIsPending
<1>5. CASE Search
  BY <1>5 DEF Search, Goto
<1>6. CASE Send
  <2>1. w.pc = "send" /\ w.ask \in Questions /\ outcome[w.ask] = "pending"
    BY <1>6 DEF Send, WorkInv, WorkIsPending
  <2>2. w'.ask = w.ask /\ w'.pc \in {"sent", "failed"}
    BY <1>6 DEF Send, Goto
  <2>3. CASE replies' = [replies EXCEPT ![w.ask] = OneMore(@)] /\ UNCHANGED latePosts
    BY <1>6, <2>1, <2>2, <2>3, OneMoreIsSome DEF Send
  <2>4. CASE /\ UNCHANGED replies /\ w'.pc = "failed"
             /\ latePosts' = latePosts \/ latePosts' = latePosts \cup {w.ask}
    BY <1>6, <2>1, <2>2, <2>4 DEF Send
  <2> QED
    BY <1>6, <2>3, <2>4 DEF Send, Goto
<1>7. CASE Resolve
  BY <1>7, IdleType DEF Resolve, ResolveAs, WorkInv, WorkIsPending
<1>8. CASE GiveUp
  BY <1>8, IdleType DEF GiveUp, ResolveAs, WorkInv, WorkIsPending
<1>9. CASE Tick
  BY <1>9 DEF Tick
<1>10. ASSUME NEW q \in Questions, Refetch(q) PROVE ReplyInv'
  BY <1>10, ConsiderType DEF Refetch, WorkInv, WorkIsPending
<1>11. ASSUME NEW q \in Questions, HandleAsk(q) PROVE ReplyInv'
  <2>1. w'.pc \in {"search", "send"} /\ w'.ask = q
    BY <1>11, ClaimType
  <2>2. /\ outcome[q] = "none"
        /\ outcome' = [outcome EXCEPT ![q] = "pending"]
        /\ UNCHANGED <<replies, latePosts, recovered>>
    BY <1>11 DEF HandleAsk
  <2> QED
    BY <2>1, <2>2
<1>12. ASSUME NEW q \in Questions, Delete(q) PROVE ReplyInv'
  BY <1>12 DEF Delete
<1>13. ASSUME NEW q \in Questions, LatePost(q) PROVE ReplyInv'
  BY <1>13, OneMoreIsSome DEF LatePost
<1>14. CASE UNCHANGED vars
  BY <1>14 DEF vars
<1> QED
  BY <1>1, <1>2, <1>3, <1>4, <1>5, <1>6, <1>7, <1>8, <1>9, <1>10, <1>11, <1>12,
     <1>13, <1>14 DEF Next, Execute

\* What is searched was claimed; a claim never changes its date.
LEMMA LimitKept ==
  ASSUME LimitInv, UNCHANGED <<claimedAt, searched>>, now' >= now, TypeOK, now' \in Nat,
         \A q \in Questions : outcome[q] # "none" => outcome'[q] # "none"
  PROVE  LimitInv'
  BY DEF LimitInv, FloodBounded, TypeOK

\* Claiming one more question: its author's claims in the window are at most
\* RateLimit, and it is younger than any it is counted with.
LEMMA ClaimKeepsLimit ==
  ASSUME TypeOK, LimitInv, NEW q \in Questions, HandleAsk(q)
  PROVE  LimitInv'
<1> DEFINE Counted(p) == {s \in searched : /\ AuthorOf[s] = AuthorOf[p]
                                           /\ claimedAt[s] <= claimedAt[p]
                                           /\ claimedAt[s] + Window > claimedAt[p]}
           Claims == RecentAsks(AuthorOf[q]) \cup {q}
<1> USE ConstantsAssumption
<1>1. /\ outcome[q] = "none" /\ outcome' = [outcome EXCEPT ![q] = "pending"]
      /\ claimedAt' = [claimedAt EXCEPT ![q] = now] /\ now' = now
  BY DEF HandleAsk
<1>2. /\ q \notin searched
      /\ \A p \in Questions \ {q} : claimedAt'[p] = claimedAt[p]
      /\ claimedAt'[q] = now
  BY <1>1 DEF LimitInv, TypeOK
<1>3. searched' = searched \/ (~OverLimit(q) /\ searched' = searched \cup {q})
  BY ClaimType
<1>4. /\ \A p \in searched' : outcome'[p] # "none"
      /\ \A p \in Questions : claimedAt'[p] <= now'
  BY <1>1, <1>2, <1>3 DEF LimitInv, TypeOK
<1>5. ASSUME NEW p \in searched'
      PROVE  Cardinality(Counted(p)') <= RateLimit
  <2>1. CASE p # q /\ (searched' = searched \/ claimedAt[p] # now)
    <3>1. p \in searched /\ p \in Questions
      BY <1>3, <2>1 DEF TypeOK
    <3>2. Counted(p)' = Counted(p)
      <4>1. ASSUME NEW s \in searched PROVE claimedAt'[s] = claimedAt[s]
        BY <1>2 DEF TypeOK
      <4>2. claimedAt'[p] = claimedAt[p] /\ claimedAt[p] <= now /\ claimedAt[p] \in Nat /\ now \in Nat
        BY <1>2, <3>1, <2>1 DEF LimitInv, TypeOK
      <4> QED
        BY <1>2, <1>3, <2>1, <4>1, <4>2
    <3> QED
      BY <3>1, <3>2 DEF LimitInv, FloodBounded
  <2>2. CASE ~(p # q /\ (searched' = searched \/ claimedAt[p] # now))
    <3>1. ~OverLimit(q) /\ searched' = searched \cup {q} /\ claimedAt'[p] = now
      BY <1>2, <1>3, <2>2 DEF TypeOK
    <3>2. CASE AuthorOf[p] = AuthorOf[q]
      <4>1. Counted(p)' \subseteq Claims
        BY <1>1, <1>2, <3>1, <3>2 DEF RecentAsks, LimitInv, TypeOK
      <4>2. IsFiniteSet(Claims) /\ Cardinality(Claims) <= RateLimit
        <5>1. Claims \subseteq Questions
          BY DEF RecentAsks
        <5>2. IsFiniteSet(Claims)
          BY <5>1, FS_Subset
        <5> QED
          BY <5>2, <3>1, FS_CardinalityType DEF OverLimit
      <4> QED
        BY <4>1, <4>2, FS_Subset, FS_CardinalityType
    <3>3. CASE AuthorOf[p] # AuthorOf[q]
      <4>1. p \in searched /\ p \in Questions /\ p # q
        BY <1>3, <3>3 DEF TypeOK
      <4>2. Counted(p)' = Counted(p)
        <5>1. ASSUME NEW s \in searched PROVE claimedAt'[s] = claimedAt[s]
          BY <1>2 DEF TypeOK
        <5> QED
          BY <1>2, <3>1, <3>3, <4>1, <5>1
      <4> QED
        BY <4>1, <4>2 DEF LimitInv, FloodBounded
    <3> QED
      BY <3>2, <3>3
  <2> QED
    BY <2>1, <2>2
<1> QED
  BY <1>4, <1>5 DEF LimitInv, FloodBounded

\* No other step searches first-hand or takes a claim back.
LEMMA LimitStep ==
  ASSUME TypeOK, TypeOK', LimitInv, WorkInv, [Next]_vars
  PROVE  LimitInv'
<1> USE LimitKept DEF askVars, dbVars, procVars, relayVars
<1>0. now \in Nat /\ now' \in Nat
  BY DEF TypeOK
<1>1. CASE Boot
  BY <1>0, <1>1 DEF Boot
<1>2. CASE RefetchFails
  BY <1>0, <1>2 DEF RefetchFails
<1>3. CASE Serve
  BY <1>0, <1>3 DEF Serve
<1>4. CASE Crash
  BY <1>0, <1>4 DEF Crash
<1>5. CASE Search
  BY <1>0, <1>5 DEF Search
<1>6. CASE Send
  BY <1>0, <1>6 DEF Send
<1>7. CASE Resolve
  BY <1>0, <1>7 DEF Resolve, ResolveAs, TypeOK
<1>8. CASE GiveUp
  BY <1>0, <1>8 DEF GiveUp, ResolveAs, TypeOK
<1>9. CASE Tick
  BY <1>0, <1>9 DEF Tick
<1>10. ASSUME NEW q \in Questions, Refetch(q) PROVE LimitInv'
  BY <1>0, <1>10 DEF Refetch
<1>11. ASSUME NEW q \in Questions, HandleAsk(q) PROVE LimitInv'
  BY <1>11, ClaimKeepsLimit
<1>12. ASSUME NEW q \in Questions, Delete(q) PROVE LimitInv'
  BY <1>0, <1>12 DEF Delete
<1>13. ASSUME NEW q \in Questions, LatePost(q) PROVE LimitInv'
  BY <1>0, <1>13 DEF LatePost
<1>14. CASE UNCHANGED vars
  BY <1>0, <1>14 DEF vars
<1> QED
  BY <1>1, <1>2, <1>3, <1>4, <1>5, <1>6, <1>7, <1>8, <1>9, <1>10, <1>11, <1>12,
     <1>13, <1>14 DEF Next, Execute

-----------------------------------------------------------------------------
(* The theorems.                                                           *)

IInv == TypeOK /\ WorkInv /\ ReplyInv /\ LimitInv

\* The inductive invariant of the question path.
THEOREM Inductive == Spec => []IInv
<1>1. Init => IInv
  <2> SUFFICES ASSUME Init PROVE WorkInv /\ ReplyInv /\ LimitInv /\ TypeOK
    BY DEF IInv
  <2>1. TypeOK
    BY ConstantsAssumption, IdleType DEF Init, TypeOK
  <2>2. WorkInv
    BY IdleType DEF Init, WorkInv, WorkIsPending
  <2>3. ReplyInv
    BY IdleType DEF Init, ReplyInv, OneReplyPerLife, AnsweredIsPosted
  <2>4. LimitInv
    BY DEF Init, LimitInv, FloodBounded
  <2> QED
    BY <2>1, <2>2, <2>3, <2>4
<1>2. IInv /\ TypeOK' /\ [Next]_vars => IInv'
  BY WorkStep, ReplyStep, LimitStep DEF IInv
<1> QED
  BY <1>1, <1>2, TypeCorrect, PTL DEF Spec

\* Nobody resolves a question under the handler that still works on it.
THEOREM WorkStaysPending == Spec => []WorkIsPending
<1>1. IInv => WorkIsPending
  BY DEF IInv, WorkInv
<1> QED
  BY <1>1, Inductive, PTL

\* Only a crash between a reply and its resolution repeats the reply.
THEOREM RepliesAreSingle == Spec => []OneReplyPerLife
<1>1. IInv => OneReplyPerLife
  BY DEF IInv, ReplyInv
<1> QED
  BY <1>1, Inductive, PTL

\* An answer on record is an answer in the room.
THEOREM AnswersArePosted == Spec => []AnsweredIsPosted
<1>1. IInv => AnsweredIsPosted
  BY DEF IInv, ReplyInv
<1> QED
  BY <1>1, Inductive, PTL

\* No author causes more searches than the limit in any window, for every limit
\* and window.
THEOREM LimitHolds == Spec => []FloodBounded
<1>1. IInv => FloodBounded
  BY DEF IInv, LimitInv
<1> QED
  BY <1>1, Inductive, PTL

\* A resolved question stays resolved and is not replied to again; a reply under
\* way when its sender gave up may still land.
THEOREM ResolutionIsFinal == Spec => ResolvedIsFinal
<1> DEFINE Final(q) == outcome[q] \in {"answered", "refused"} =>
                         /\ outcome'[q] = outcome[q]
                         /\ replies'[q] = replies[q] \/ q \in latePosts
<1>1. ASSUME IInv, [Next]_vars PROVE \A q \in Questions : Final(q)
  <2> SUFFICES ASSUME NEW q \in Questions, outcome[q] \in {"answered", "refused"}
               PROVE  /\ outcome'[q] = outcome[q]
                      /\ replies'[q] = replies[q] \/ q \in latePosts
    OBVIOUS
  <2> USE <1>1 DEF IInv, TypeOK, askVars, dbVars, procVars, relayVars
  <2>1. CASE Boot \/ RefetchFails \/ Serve \/ Crash \/ Search \/ Tick
    BY <2>1 DEF Boot, RefetchFails, Serve, Crash, Search, Tick
  <2>2. CASE Send \/ Resolve \/ GiveUp
    <3>1. w.pc # "idle" /\ w.ask # q
      BY <2>2 DEF Send, Resolve, GiveUp, WorkInv, WorkIsPending
    <3> QED
      BY <2>2, <3>1 DEF Send, Resolve, GiveUp, ResolveAs
  <2>3. ASSUME NEW p \in Questions, Refetch(p) \/ HandleAsk(p) \/ Delete(p)
        PROVE  outcome'[q] = outcome[q] /\ replies'[q] = replies[q]
    BY <2>3 DEF Refetch, HandleAsk, Delete
  <2>4. ASSUME NEW p \in Questions, LatePost(p)
        PROVE  outcome'[q] = outcome[q] /\ (replies'[q] = replies[q] \/ q \in latePosts)
    BY <2>4 DEF LatePost
  <2>5. CASE UNCHANGED vars
    BY <2>5 DEF vars
  <2> QED
    BY <2>1, <2>2, <2>3, <2>4, <2>5 DEF Next, Execute
<1>2. IInv /\ [Next]_vars => [\A q \in Questions : Final(q)]_vars
  BY <1>1
<1> QED
  BY <1>2, Inductive, PTL DEF Spec, ResolvedIsFinal
-----------------------------------------------------------------------------
(* Nothing is left behind.                                                 *)

Held(q) == w.pc # "idle" /\ w.ask = q
PassedOver(q) == q \in deleted \/ q \notin addressed

\* What recovery has not come to yet is on its list; once it is done, what is
\* pending is in hand or was passed over.
PendingInv ==
    \A q \in Questions : outcome[q] = "pending" =>
        /\ phase = "serving" => Held(q) \/ PassedOver(q)
        /\ phase = "recovering" => Held(q) \/ q \in todo \/ PassedOver(q)

LEMMA PendingStep ==
  ASSUME TypeOK, PendingInv, [Next]_vars
  PROVE  PendingInv'
<1> USE DEF TypeOK, PendingInv, Held, PassedOver, askVars, dbVars, procVars, relayVars
<1>1. CASE Boot
  BY <1>1 DEF Boot
<1>2. CASE RefetchFails
  BY <1>2 DEF RefetchFails
<1>3. CASE Serve
  BY <1>3, IdleType DEF Serve
<1>4. CASE Crash
  BY <1>4 DEF Crash
<1>5. CASE Search
  BY <1>5 DEF Search, Goto
<1>6. CASE Send
  BY <1>6 DEF Send, Goto
<1>7. CASE Resolve
  BY <1>7 DEF Resolve, ResolveAs
<1>8. CASE GiveUp
  BY <1>8 DEF GiveUp, ResolveAs
<1>9. CASE Tick
  BY <1>9 DEF Tick
<1>10. ASSUME NEW q \in Questions, Refetch(q) PROVE PendingInv'
  BY <1>10, ConsiderType, IdleType DEF Refetch
<1>11. ASSUME NEW q \in Questions, HandleAsk(q) PROVE PendingInv'
  <2>1. w'.ask = q /\ w'.pc # "idle"
    BY <1>11, ClaimType
  <2>2. /\ phase' = "serving" /\ phase = "serving" /\ w.pc = "idle" /\ deleted' = deleted
        /\ addressed' = addressed /\ outcome' = [outcome EXCEPT ![q] = "pending"]
    BY <1>11, IdleType DEF HandleAsk
  <2> QED
    BY <2>1, <2>2
<1>12. ASSUME NEW q \in Questions, Delete(q) PROVE PendingInv'
  BY <1>12 DEF Delete
<1>13. ASSUME NEW q \in Questions, LatePost(q) PROVE PendingInv'
  BY <1>13 DEF LatePost
<1>14. CASE UNCHANGED vars
  BY <1>14 DEF vars
<1> QED
  BY <1>1, <1>2, <1>3, <1>4, <1>5, <1>6, <1>7, <1>8, <1>9, <1>10, <1>11, <1>12,
     <1>13, <1>14 DEF Next, Execute

\* While the daemon serves, no question is pending but the one in hand, whatever
\* became of earlier lives; only one that was deleted, or mentions a handle that
\* the daemon no longer listens to, stays behind (recover passes it over, and
\* nothing resolves it).
NoneForgotten ==
    phase = "serving" =>
        \A q \in Questions : outcome[q] = "pending" => Held(q) \/ PassedOver(q)

THEOREM NoneIsForgotten == Spec => []NoneForgotten
<1>1. Init => PendingInv
  BY DEF Init, PendingInv
<1>2. TypeOK /\ PendingInv /\ [Next]_vars => PendingInv'
  BY PendingStep
<1>3. PendingInv => NoneForgotten
  BY DEF PendingInv, NoneForgotten
<1> QED
  BY <1>1, <1>2, <1>3, TypeCorrect, PTL DEF Spec
=============================================================================
