-------------------------------- MODULE Asks --------------------------------
(***************************************************************************)
(* Grounded questions: a question is claimed before any work, answered (or *)
(* refused) once with whatever the node's memory supports, and resolved on *)
(* every path, so that it is not asked again at every boot.                *)
(*                                                                         *)
(* The queue runs one executeAsk at a time; so does boot recovery, before  *)
(* the queue opens.  Each await is a step of its own.                      *)
(***************************************************************************)
EXTENDS Naturals, FiniteSets

CONSTANTS
    Questions,           \* questions a relay may deliver, any number of times
    Authors, AuthorOf,   \* who asked
    Bindings,            \* sets of questions whose channel a bindings file maps
    Handles,             \* sets of questions that mention what a configuration listens to
    RateLimit, Window,   \* questions per author and window
    SlowPosts,           \* BOOLEAN: may a timed-out message be posted later?
    MaxTime, MaxReplies, \* bounds: the clock, and the replies told apart
    NoQuestion

ASSUME ConstantsAssumption ==
    /\ IsFiniteSet(Questions)
    /\ AuthorOf \in [Questions -> Authors] /\ Bindings \subseteq SUBSET Questions
    /\ Handles \subseteq SUBSET Questions
    /\ RateLimit \in Nat /\ Window \in Nat /\ MaxTime \in Nat /\ MaxReplies \in Nat \ {0}
    /\ SlowPosts \in BOOLEAN /\ NoQuestion \notin Questions

VARIABLES
    outcome, claimedAt,  \* asks table
    mapped,              \* channels table: questions whose channel has a context graph
    phase, addressed, todo, w,     \* the process: in memory only
    replies, latePosts, deleted,   \* the relay: replies per question, delayed ones, deletions
    now,
    searched, recovered  \* history: first-hand searches, questions taken up at boot

askVars == <<outcome, claimedAt>>
dbVars == <<askVars, mapped>>
procVars == <<phase, addressed, todo, w>>
relayVars == <<replies, latePosts, deleted>>
vars == <<dbVars, procVars, relayVars, now, searched, recovered>>

\* What the reply in hand says: wait (rate limit), no graph, a refusal, an answer.
Says == {"wait", "nograph", "refusal", "answer"}
Idle == [pc |-> "idle", ask |-> NoQuestion, says |-> "refusal"]
Goto(pc) == w' = [w EXCEPT !.pc = pc]

Init ==
    /\ outcome = [q \in Questions |-> "none"]
    /\ claimedAt = [q \in Questions |-> 0] /\ mapped = {}
    /\ phase = "down" /\ addressed = {} /\ todo = {} /\ w = Idle
    /\ replies = [q \in Questions |-> 0] /\ latePosts = {} /\ deleted = {}
    /\ now = 0 /\ searched = {} /\ recovered = {}

-----------------------------------------------------------------------------
(* Boot and recovery.                                                      *)

\* Registry.loadBindings: a bindings file adds to the channels table, which
\* forgets none.
LoadBindings == \E b \in Bindings : mapped' = mapped \cup b

\* The mention handle is the configuration's: what is a question to one process
\* need not be one to the next.
LoadConfig == addressed' \in Handles /\ LoadBindings

\* (mutant: resolved questions are recovered too)
BootOverAll ==
    /\ phase \in {"down", "aborted"} /\ phase' = "recovering"
    /\ todo' = {q \in Questions : outcome[q] # "none"}
    /\ LoadConfig
    /\ UNCHANGED <<askVars, w, relayVars, now, searched, recovered>>

\* The daemon is constructed (bindings) and started: the pending questions are
\* read, all at once.
Boot ==
    /\ phase \in {"down", "aborted"} /\ phase' = "recovering"
    /\ todo' = {q \in Questions : outcome[q] = "pending"}
    /\ LoadConfig
    /\ UNCHANGED <<askVars, w, relayVars, now, searched, recovered>>

\* executeAsk, past the claim and the rate limit: search, or say there is no graph.
Consider(q) ==
    w' = IF q \in mapped THEN [pc |-> "search", ask |-> q, says |-> "refusal"]
                         ELSE [pc |-> "send", ask |-> q, says |-> "nograph"]

\* recover: a pending question is fetched from the relay.  One that is gone, or
\* that is no question to this configuration, is passed over; one that is found
\* is answered, without the rate limit.
Refetch(q) ==
    /\ phase = "recovering" /\ w = Idle /\ q \in todo
    /\ todo' = todo \ {q}
    /\ IF q \in deleted \/ q \notin addressed
       THEN UNCHANGED <<w, recovered>>
       ELSE Consider(q) /\ recovered' = recovered \cup {q}
    /\ UNCHANGED <<dbVars, phase, addressed, relayVars, now, searched>>

\* (mutant: recovery does not wait for the answer it started)
RefetchFailsBeside ==
    /\ phase = "recovering" /\ todo # {}
    /\ phase' = "aborted" /\ todo' = {}
    /\ UNCHANGED <<dbVars, addressed, w, relayVars, now, searched, recovered>>

\* That fetch is not guarded: when it fails, start fails, and the process exits.
RefetchFails ==
    /\ phase = "recovering" /\ w = Idle /\ todo # {}
    /\ phase' = "aborted" /\ todo' = {}
    /\ UNCHANGED <<dbVars, addressed, w, relayVars, now, searched, recovered>>

Serve ==
    /\ phase = "recovering" /\ w = Idle /\ todo = {}
    /\ phase' = "serving"
    /\ UNCHANGED <<dbVars, addressed, todo, w, relayVars, now, searched, recovered>>

Crash ==
    /\ phase \in {"recovering", "serving"}
    /\ phase' = "down" /\ todo' = {} /\ w' = Idle
    /\ \/ UNCHANGED latePosts
       \/ w.pc = "send" /\ SlowPosts /\ latePosts' = latePosts \cup {w.ask}
    /\ UNCHANGED <<dbVars, addressed, replies, deleted, now, searched, recovered>>

-----------------------------------------------------------------------------
(* executeAsk.                                                             *)

\* Registry.recentAskCountByPubkey, before the claim in hand is added.
RecentAsks(author) ==
    {q \in Questions : /\ AuthorOf[q] = author
                       /\ outcome[q] # "none" /\ claimedAt[q] + Window > now}

\* (mutant: the claim in hand is not counted)
OverLimitByOne(q) == Cardinality(RecentAsks(AuthorOf[q]) \cup {q}) > RateLimit + 1
\* The claim in hand counts, so the comparison is strict.
OverLimit(q) == Cardinality(RecentAsks(AuthorOf[q]) \cup {q}) > RateLimit

\* (mutant: no claim, every delivery is handled)
HandleUnclaimed(q) ==
    /\ phase = "serving" /\ w = Idle /\ q \in addressed
    /\ outcome' = [outcome EXCEPT ![q] = "pending"]
    /\ claimedAt' = [claimedAt EXCEPT ![q] = now]
    /\ IF OverLimit(q)
       THEN w' = [pc |-> "send", ask |-> q, says |-> "wait"] /\ UNCHANGED searched
       ELSE Consider(q) /\ searched' = IF q \in mapped THEN searched \cup {q} ELSE searched
    /\ UNCHANGED <<mapped, phase, addressed, todo, relayVars, now, recovered>>

\* A question comes off the queue and is claimed, unless it was already.
HandleAsk(q) ==
    /\ phase = "serving" /\ w = Idle /\ q \in addressed
    /\ outcome[q] = "none"
    /\ outcome' = [outcome EXCEPT ![q] = "pending"]
    /\ claimedAt' = [claimedAt EXCEPT ![q] = now]
    /\ IF OverLimit(q)
       THEN w' = [pc |-> "send", ask |-> q, says |-> "wait"] /\ UNCHANGED searched
       ELSE Consider(q) /\ searched' = IF q \in mapped THEN searched \cup {q} ELSE searched
    /\ UNCHANGED <<mapped, phase, addressed, todo, relayVars, now, recovered>>

\* answerGrounded: it throws, or finds too little, or answers with citations.
Search ==
    /\ w.pc = "search"
    /\ \/ Goto("failed")
       \/ \E says \in {"refusal", "answer"} :
             w' = [w EXCEPT !.pc = "send", !.says = says]
    /\ UNCHANGED <<dbVars, phase, addressed, todo, relayVars, now, searched, recovered>>

\* MaxReplies replies stand for that many or more.
OneMore(n) == IF n < MaxReplies THEN n + 1 ELSE n

\* sendMessage: posted; or an error, with the message posted nevertheless, not
\* posted, or (a timed-out request) posted later.
Send ==
    /\ w.pc = "send"
    /\ \/ /\ replies' = [replies EXCEPT ![w.ask] = OneMore(@)] /\ UNCHANGED latePosts
          /\ Goto("sent") \/ Goto("failed")
       \/ /\ Goto("failed") /\ UNCHANGED replies
          /\ \/ UNCHANGED latePosts
             \/ SlowPosts /\ latePosts' = latePosts \cup {w.ask}
    /\ UNCHANGED <<dbVars, phase, addressed, todo, deleted, now, searched, recovered>>

\* resolveAsk after the reply was accepted.
ResolveAs(says) == outcome' = [outcome EXCEPT ![w.ask] = IF says = "answer" THEN "answered"
                                                                           ELSE "refused"]
Resolve ==
    /\ w.pc = "sent" /\ ResolveAs(w.says) /\ w' = Idle
    /\ UNCHANGED <<claimedAt, mapped, phase, addressed, todo, relayVars, now, searched, recovered>>

\* (mutant: the error escapes and the row stays pending)
Rethrow ==
    /\ w.pc = "failed" /\ w' = Idle
    /\ UNCHANGED <<dbVars, phase, addressed, todo, relayVars, now, searched, recovered>>

\* (mutant: the outcome is the one that was to be posted)
GiveUpAnswered ==
    /\ w.pc = "failed" /\ ResolveAs(w.says) /\ w' = Idle
    /\ UNCHANGED <<claimedAt, mapped, phase, addressed, todo, relayVars, now, searched, recovered>>
\* Any error resolves the question as refused, so that it never replays.
GiveUp ==
    /\ w.pc = "failed" /\ ResolveAs("refusal") /\ w' = Idle
    /\ UNCHANGED <<claimedAt, mapped, phase, addressed, todo, relayVars, now, searched, recovered>>

-----------------------------------------------------------------------------
(* The room, the relay and the clock.                                      *)

Delete(q) ==
    /\ q \notin deleted /\ deleted' = deleted \cup {q}
    /\ UNCHANGED <<dbVars, procVars, replies, latePosts, now, searched, recovered>>

LatePost(q) ==
    /\ q \in latePosts /\ latePosts' = latePosts \ {q}
    /\ replies' = [replies EXCEPT ![q] = OneMore(@)]
    /\ UNCHANGED <<dbVars, procVars, deleted, now, searched, recovered>>

Tick ==
    /\ now < MaxTime /\ now' = now + 1
    /\ UNCHANGED <<dbVars, procVars, relayVars, searched, recovered>>

Execute == Search \/ Send \/ Resolve \/ GiveUp

Next ==
    \/ Boot \/ RefetchFails \/ Serve \/ Crash \/ Execute \/ Tick
    \/ \E q \in Questions : Refetch(q) \/ HandleAsk(q) \/ Delete(q) \/ LatePost(q)

Spec == Init /\ [][Next]_vars

\* Every awaited call ends (it has a timeout) and its continuation runs;
\* recovery goes through its list.
Fairness ==
    /\ WF_vars(Boot) /\ WF_vars(Serve) /\ WF_vars(Execute)
    /\ WF_vars(RefetchFails \/ \E q \in Questions : Refetch(q))

FairSpec == Spec /\ Fairness

-----------------------------------------------------------------------------
(* Properties.                                                             *)

\* Types of all variables; what the handler and recovery work on is pending.
TypeOK ==
    /\ outcome \in [Questions -> {"none", "pending", "answered", "refused"}]
    /\ claimedAt \in [Questions -> Nat] /\ mapped \subseteq Questions
    /\ phase \in {"down", "aborted", "recovering", "serving"}
    /\ addressed \subseteq Questions /\ todo \subseteq Questions
    /\ w \in [pc : {"idle", "search", "send", "sent", "failed"},
              ask : Questions \cup {NoQuestion}, says : Says]
    /\ replies \in [Questions -> Nat]
    /\ latePosts \subseteq Questions /\ deleted \subseteq Questions
    /\ now \in Nat /\ searched \subseteq Questions /\ recovered \subseteq Questions
    /\ w.pc # "idle" => w.ask \in Questions /\ phase \in {"recovering", "serving"}

\* What is being worked on, or waits for recovery, is pending: nobody resolves a
\* question under the handler that still answers it.
WorkIsPending ==
    /\ w.pc # "idle" => outcome[w.ask] = "pending"
    /\ \A q \in todo : outcome[q] = "pending"

\* No question is replied to twice in the life of one process: only a crash
\* between the reply and its resolution repeats it (claimAsk, recover).
OneReplyPerLife ==
    \A q \in Questions \ recovered :
        replies[q] + (IF q \in latePosts THEN 1 ELSE 0) <= 1

\* An answer on record is an answer in the room.
AnsweredIsPosted == \A q \in Questions : outcome[q] = "answered" => replies[q] > 0

\* However its questions are spread, one author causes at most RateLimit
\* searches in a window, questions taken up again at boot aside.
FloodBounded ==
    \A q \in searched :
        Cardinality({p \in searched : /\ AuthorOf[p] = AuthorOf[q]
                                      /\ claimedAt[p] <= claimedAt[q]
                                      /\ claimedAt[p] + Window > claimedAt[q]}) <= RateLimit

\* A resolved question stays resolved and is not replied to again, whatever is
\* redelivered or restarted; only a reply already under way may still land.
ResolvedIsFinal ==
    [][\A q \in Questions : outcome[q] \in {"answered", "refused"} =>
          /\ outcome'[q] = outcome[q]
          /\ replies'[q] = replies[q] \/ q \in latePosts]_vars

\* Every claimed question is resolved once the daemon stays up, whatever fails
\* on the way - unless it was deleted, or the daemon listens to another handle
\* now: recovery passes it over, and its row stays pending.
AsksResolve ==
    <>[](phase \in {"recovering", "serving"}) =>
        \A q \in Questions : outcome[q] = "pending" ~>
            outcome[q] # "pending" \/ q \in deleted \/ q \notin addressed
=============================================================================
