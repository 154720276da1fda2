------------------------------ MODULE Delivery ------------------------------
(***************************************************************************)
(* How events of the room reach the daemon: a durable cursor, the catch-up  *)
(* on stored events at boot and after a reconnect, two subscriptions that  *)
(* the relay answers each on its own, and one queue that handles events in *)
(* the order they came in.                                                 *)
(*                                                                         *)
(* An event is done when its handler has come to the end of its own accord: *)
(* from there on the dedup tables know it.  Redelivery of a done event     *)
(* changes nothing, so it is not enqueued again here.                      *)
(***************************************************************************)
EXTENDS Integers, FiniteSets, SequencesExt

CONSTANTS
    Events, KindOf,      \* events, and the subscription each one matches
    Overlap, Skew,       \* CATCHUP_OVERLAP_S, CURSOR_SKEW_S
    Lag, Ahead,          \* how far behind or ahead of arrival an event may be dated
    Gap,                 \* see Prompt
    Resyncs,             \* resyncs that may be under way at once
    Outages,             \* BOOLEAN: may the connection drop, or a catch-up fail?
    HandlersFail,        \* BOOLEAN: may a handler throw before its event is claimed?
    MaxTime, NoEvent, Unsent

Subs == {"bdi-msgs", "bdi-reactions"}

ASSUME ConstantsAssumption ==
    /\ IsFiniteSet(Events) /\ NoEvent \notin Events /\ KindOf \in [Events -> Subs]
    /\ Overlap \in Nat /\ Skew \in Nat /\ Lag \in Nat /\ Ahead \in Nat /\ Gap \in Nat
    /\ MaxTime \in Nat /\ Outages \in BOOLEAN /\ HandlersFail \in BOOLEAN
    /\ Unsent \notin Int

VARIABLES
    cursor, done,        \* the database: cursor table, events the other tables know
    phase, since,        \* the process; the date its subscriptions begin at
    resync,              \* its resyncs: where each is, and the events it waits for or brings
    queue, w,            \* events waiting, and the one being handled
    linked,              \* the connection is up ...
    live, coming,        \* ... subscriptions answered on it, events still to be sent on it
    stamp, now,          \* the relay: date of each stored event; the clock
    failed               \* history: events a handler gave up on

dbVars == <<cursor, done>>
procVars == <<phase, since, resync, queue, w>>
linkVars == <<linked, live, coming>>
relayVars == <<stamp, now>>
vars == <<dbVars, procVars, linkVars, relayVars, failed>>

Stored == {e \in Events : stamp[e] # Unsent}
Larger(a, b) == IF a < b THEN b ELSE a
Smaller(a, b) == IF a < b THEN a ELSE b

\* (mutants: no overlap; no lower end)
SinceCursor == cursor
SinceAnything == cursor - Overlap
\* Where a catch-up begins, and a subscription: a little before the cursor.
Since == Larger(0, cursor - Overlap)

\* Events in the queue or in hand.
Waiting == ToSet(queue) \cup ({w} \ {NoEvent})

\* What a query or a subscription from s on brings up that is not done or waiting.
Replay(s) == {e \in Stored : stamp[e] >= s} \ (done \cup Waiting)

\* The events of a catch-up, sorted by date.
InOrder(q) == \A i, j \in DOMAIN q : i < j => stamp[q[i]] <= stamp[q[j]]
Batches(S) == {q \in SetToSeqs(S) : InOrder(q)}

At(stage, events) == [stage |-> stage, events |-> events]
NoResync == [r \in Resyncs |-> At("none", {})]

Init ==
    /\ cursor = 0 /\ done = {}
    /\ phase = "down" /\ since = 0 /\ resync = NoResync
    /\ queue = <<>> /\ w = NoEvent
    /\ linked = FALSE /\ live = {} /\ coming = {}
    /\ stamp = [e \in Events |-> Unsent] /\ now = 0 /\ failed = {}

-----------------------------------------------------------------------------
(* The process: boot, subscription, resync, crash.                         *)

\* start: catch up on stored events, sorted by date; a failed query is survived.
Start ==
    /\ phase = "down" /\ phase' = "starting"
    /\ \/ queue' \in Batches(Replay(Since))
       \/ Outages /\ UNCHANGED queue
    /\ UNCHANGED <<dbVars, since, resync, w, linkVars, relayVars, failed>>

\* The backlog is drained; subscribe from the cursor as it is then.
Subscribe ==
    /\ phase = "starting" /\ Waiting = {}
    /\ phase' = "serving" /\ since' = Since
    /\ UNCHANGED <<dbVars, resync, queue, w, linkVars, relayVars, failed>>

\* A resync waits for what was queued when it began, and executes the parked
\* captures (module Capture) ...
Drained(r) ==
    /\ resync[r].stage = "drain" /\ resync[r].events \cap Waiting = {}
    /\ resync' = [resync EXCEPT ![r] = At("query", {})]
    /\ UNCHANGED queue

\* ... then asks for what is stored from a little before the cursor on ...
Asked(r) ==
    /\ resync[r].stage = "query"
    /\ \/ resync' = [resync EXCEPT ![r] = At("answer", Replay(Since))]
       \/ Outages /\ resync' = [resync EXCEPT ![r] = At("none", {})]
    /\ UNCHANGED queue

\* ... and has it queued in order of date, behind what has come in meanwhile.
Answered(r) ==
    /\ resync[r].stage = "answer"
    /\ \E q \in Batches(resync[r].events \ (done \cup Waiting)) : queue' = queue \o q
    /\ resync' = [resync EXCEPT ![r] = At("none", {})]

Resync(r) ==
    /\ Drained(r) \/ Asked(r) \/ Answered(r)
    /\ UNCHANGED <<dbVars, phase, since, w, linkVars, relayVars, failed>>

Crash ==
    /\ phase # "down" /\ phase' = "down"
    /\ since' = 0 /\ resync' = NoResync /\ queue' = <<>> /\ w' = NoEvent
    /\ linked' = FALSE /\ live' = {} /\ coming' = {}
    /\ UNCHANGED <<dbVars, relayVars, failed>>

-----------------------------------------------------------------------------
(* The connection.  The relay answers each subscription for itself, in any  *)
(* order and beside what arrives live; what it has not sent when the        *)
(* connection drops is sent on the next one.                                *)

\* connect: the subscriptions are sent (again) and a resync is set off.
Link ==
    /\ phase = "serving" /\ ~linked /\ linked' = TRUE
    /\ LET idle == {r \in Resyncs : resync[r].stage = "none"} IN
       \/ \E r \in idle : resync' = [resync EXCEPT ![r] = At("drain", Waiting)]
       \/ idle = {} /\ UNCHANGED resync
    /\ UNCHANGED <<dbVars, phase, since, queue, w, live, coming, relayVars, failed>>

Unlink ==
    /\ Outages /\ linked /\ linked' = FALSE /\ live' = {} /\ coming' = {}
    /\ UNCHANGED <<dbVars, procVars, relayVars, failed>>

\* The relay takes up one of the two requests: it will send the stored events
\* that match, from the date the subscription was made with, and from now on
\* those that arrive.
Req(k) ==
    /\ linked /\ k \in Subs \ live /\ live' = live \cup {k}
    /\ coming' = coming \cup {e \in Replay(since) : KindOf[e] = k}
    /\ UNCHANGED <<dbVars, procVars, linked, relayVars, failed>>

\* One of them comes in and is queued.
Send(e) ==
    /\ e \in coming /\ coming' = coming \ {e}
    /\ queue' = IF e \in done \cup Waiting THEN queue ELSE Append(queue, e)
    /\ UNCHANGED <<dbVars, phase, since, resync, w, linked, live, relayVars, failed>>

-----------------------------------------------------------------------------
(* handleEvent.                                                            *)

\* (mutant: the clamp is taken for a lower bound)
CursorClampedBelow(e) == Larger(cursor, Larger(stamp[e], now + Skew))
\* advanceCursor, with the date clamped to a little after the clock.
CursorAfter(e) == Larger(cursor, Smaller(stamp[e], now + Skew))

\* The next event of the queue: the cursor moves before anything is awaited.
Handle ==
    /\ w = NoEvent /\ queue # <<>>
    /\ w' = Head(queue) /\ queue' = Tail(queue)
    /\ cursor' = CursorAfter(w')
    /\ UNCHANGED <<done, phase, since, resync, linkVars, relayVars, failed>>

Finish ==
    /\ w # NoEvent /\ done' = done \cup {w} /\ w' = NoEvent
    /\ UNCHANGED <<cursor, phase, since, resync, queue, linkVars, relayVars, failed>>

\* A handler that throws is logged, and its event is gone from the queue.
Fail ==
    /\ HandlersFail /\ w # NoEvent /\ w' = NoEvent /\ failed' = failed \cup {w}
    /\ UNCHANGED <<dbVars, phase, since, resync, queue, linkVars, relayVars>>

-----------------------------------------------------------------------------
(* The room: an event is stored, and goes to a subscription it matches.    *)

Arrive(e) ==
    /\ e \notin Stored
    /\ \E d \in Larger(0, now - Lag) .. now + Ahead :
          /\ stamp' = [stamp EXCEPT ![e] = d]
          /\ coming' = IF KindOf[e] \in live /\ d >= since THEN coming \cup {e} ELSE coming
    /\ UNCHANGED <<dbVars, procVars, linked, live, now, failed>>

Tick ==
    /\ now < MaxTime /\ now' = now + 1
    /\ UNCHANGED <<dbVars, procVars, linkVars, stamp, failed>>

Next ==
    \/ Start \/ Subscribe \/ Crash
    \/ \E r \in Resyncs : Resync(r)
    \/ Link \/ Unlink
    \/ \E k \in Subs : Req(k)
    \/ \E e \in Events : Send(e) \/ Arrive(e)
    \/ Handle \/ Finish \/ Fail \/ Tick

Spec == Init /\ [][Next]_vars

\* Handlers end (every await has a timeout) and do not fail every time, the
\* daemon is started again, it tries to connect until it is connected, and not
\* every connection drops before the relay has answered on it.
Fairness ==
    /\ WF_vars(Start) /\ WF_vars(Subscribe) /\ WF_vars(Link)
    /\ \A r \in Resyncs : WF_vars(Resync(r))
    /\ \A k \in Subs : SF_vars(Req(k))
    /\ \A e \in Events : SF_vars(Send(e))
    /\ WF_vars(Handle) /\ WF_vars(Finish \/ Fail) /\ SF_vars(Finish)

FairSpec == Spec /\ Fairness

-----------------------------------------------------------------------------
(* Properties.                                                             *)

\* Types of all variables.
TypeOK ==
    /\ cursor \in Nat /\ done \subseteq Events
    /\ phase \in {"down", "starting", "serving"} /\ since \in Nat
    /\ resync \in [Resyncs -> [stage : {"none", "drain", "query", "answer"},
                               events : SUBSET Events]]
    /\ ToSet(queue) \subseteq Events /\ w \in Events \cup {NoEvent}
    /\ linked \in BOOLEAN /\ live \subseteq Subs /\ coming \subseteq Events
    /\ stamp \in [Events -> Nat \cup {Unsent}] /\ now \in Nat /\ failed \subseteq Events

\* Stored events still to be handled, and those of them the daemon has not heard of.
Open == Stored \ (done \cup failed)
Missed == Open \ Waiting

\* While the daemon serves, a stored event is in its queue before it is Gap old:
\* outages, the relay's answers and the backlog of a start are over within that
\* time.  Nothing in the code sees to it; what depends on it says so.
Prompt == phase = "serving" => \A e \in Missed : stamp[e] >= now - Gap

\* Whenever the process dies, the next one's catch-up brings up every stored
\* event that is not done (and that no handler gave up on): the cursor has not
\* left one behind for good.
WithinReach == \A e \in Open : stamp[e] >= cursor - Overlap

\* As long as events are heard promptly, the cursor leaves none behind, however
\* replays, live events and catch-ups come in, and whatever dies or fails.
ReachKept == []Prompt => []WithinReach

\* Every stored event is handled once the daemon stays up, through outages of
\* the connection and crashes before ("Replays stored events missed while
\* offline", the doc of catchUp).
Replayed ==
    <>[](phase # "down") =>
        \A e \in Events : stamp[e] # Unsent ~> e \in done \cup failed

\* That is so as long as events are heard promptly.
Heard == []Prompt => Replayed
===========================================================================
