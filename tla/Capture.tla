------------------------------ MODULE Capture -------------------------------
(***************************************************************************)
(* The capture path of the daemon: a trigger claims an operation, and      *)
(* executeOp takes it from the source snapshot through the node's working  *)
(* and shared memory to a receipt in the thread.  An operation that a      *)
(* failed call leaves half way is parked in its row, and taken up again by *)
(* a resync (on reconnect, beside the event queue) or by the recovery of   *)
(* the next boot - always with a record read when its list was made.       *)
(*                                                                         *)
(* Workers are the places executeOp runs in: Main is the event queue, and  *)
(* boot recovery before it serves; every other worker is one resync.       *)
(* Each await is a step: a read with the continuation that uses it, or an  *)
(* effect on node or relay, with its continuation as a step of its own, so *)
(* that a crash or another worker can come between.                        *)
(***************************************************************************)
EXTENDS Registry, FiniteSets

CONSTANTS
    Triggers,            \* pins and distill commands in bound channels
    Sources,             \* messages of the thread they point at
    Before,              \* Before[t]: those dated at or before the trigger
    Main, Resyncs,       \* workers: the queue, and the resyncs that may overlap
    Deletable,           \* events that may be deleted from the relay
    Approvals,           \* BOOLEAN: does publication go on beside capture?
    SlowPosts,           \* BOOLEAN: may a timed-out message be posted later?
    MaxLate,             \* bound: timed-out calls of the node still to be carried out
    MaxPosts,            \* bound: receipts told apart
    NoTrigger

ASSUME ConstantsAssumption ==
    /\ Before \in [Triggers -> SUBSET Sources]
    /\ Main \notin Resyncs /\ NoTrigger \notin Triggers
    /\ Deletable \subseteq Sources \cup Triggers
    /\ Approvals \in BOOLEAN /\ SlowPosts \in BOOLEAN /\ MaxLate \in Nat
    /\ MaxPosts \in Nat \ {0}

Workers == {Main} \cup Resyncs
Digest == SUBSET Sources        \* a digest stands for the source set it is taken over

VARIABLES
    opState, digest,            \* ops table
    phase, job, list,           \* the process: what each worker does and has still to do
    fate,                       \* relay: the events of the thread
    receipts, latePosts,        \* relay: SWM receipts per trigger, delayed ones
    ka, content, late           \* node: state of the asset of a digest, sources written to
                                \* it, calls still to be carried out

dbVars == <<opState, digest>>
procVars == <<phase, job, list>>
relayVars == <<fate, receipts, latePosts>>
nodeVars == <<ka, content, late>>
vars == <<dbVars, procVars, relayVars, nodeVars>>

Idle == [pc |-> "idle", op |-> NoTrigger, seen |-> "none", src |-> {}]
Busy == {"thread", "source", "write", "written", "describe", "finalize", "sealed",
         "share", "promoted", "verify", "find", "post", "posted"}

Visible == {e \in Sources \cup Triggers : fate[e] = "visible"}

\* snapshotSourceSet over the thread as the relay shows it now.
Snapshot(t) == Visible \cap Before[t]

\* (mutants: a finalized operation is not taken up; it goes straight to its
\* receipt)
EntryUnsealed(t, s) == [pc |-> CASE s = "distilled" -> "source"
                                 [] s = "wm_written" -> "describe"
                                 [] s = "finalized" -> "idle"
                                 [] s = "shared" -> "verify",
                        op |-> t, seen |-> s, src |-> {}]
EntryTrusting(t, s) == [pc |-> CASE s = "distilled" -> "source"
                                 [] s = "wm_written" -> "describe"
                                 [] s \in {"finalized", "shared"} -> "find",
                        op |-> t, seen |-> s, src |-> {}]

\* executeOp's dispatch on the state in the record it was handed; with no
\* snapshot in hand the source set is fetched again first.
Entry(t, s) == [pc |-> CASE s = "distilled" -> "source"
                         [] s \in {"wm_written", "finalized"} -> "describe"
                         [] s = "shared" -> "verify",
                op |-> t, seen |-> s, src |-> {}]

\* Worker x is done with its operation, finished or parked.
Done(x) == job' = [job EXCEPT ![x] = Idle]
Goto(x, pc) == job' = [job EXCEPT ![x].pc = pc]

\* Registry.transition by worker x, which goes on at pc; a refused transition
\* throws, which parks the operation as far as this worker is concerned.
Move(x, to, pc) ==
    LET t == job[x].op IN
    IF CanTransition(opState[t], to)
    THEN /\ opState' = [opState EXCEPT ![t] = to]
         /\ IF pc = "idle" THEN Done(x)
            ELSE job' = [job EXCEPT ![x].pc = pc, ![x].seen = to]
    ELSE Done(x) /\ UNCHANGED opState

Init ==
    /\ opState = [t \in Triggers |-> "none"]
    /\ digest = [t \in Triggers |-> {}]
    /\ phase = "down" /\ job = [x \in Workers |-> Idle] /\ list = [x \in Workers |-> {}]
    /\ fate \in [Sources \cup Triggers -> {"visible", "unsent"}]
    /\ \A t \in Triggers : fate[t] = "visible"
    /\ receipts = [t \in Triggers |-> 0] /\ latePosts = {}
    /\ ka = [d \in Digest |-> "none"] /\ content = [d \in Digest |-> {}]
    /\ late = {}

-----------------------------------------------------------------------------
(* Boot, crash, and the two ways a parked operation is taken up again.     *)

\* (mutant: receipted operations are pending, too)
PendingUnfinished == {[op |-> t, seen |-> opState[t]] :
                         t \in {u \in Triggers : opState[u] \notin {"none", "failed"}}}

\* The records pendingOps returns, as far as the capture path executes them.
Pending == {[op |-> t, seen |-> opState[t]] :
                t \in {u \in Triggers : opState[u] \in PendingStates \cap CaptureStates}}

Boot ==
    /\ phase = "down" /\ phase' = "recovering"
    /\ list' = [list EXCEPT ![Main] = Pending]
    /\ UNCHANGED <<dbVars, job, relayVars, nodeVars>>

Serve ==
    /\ phase = "recovering" /\ job[Main] = Idle /\ list[Main] = {}
    /\ phase' = "serving"
    /\ UNCHANGED <<dbVars, job, list, relayVars, nodeVars>>

Crash ==
    /\ phase # "down" /\ phase' = "down"
    /\ job' = [x \in Workers |-> Idle] /\ list' = [x \in Workers |-> {}]
    /\ UNCHANGED <<dbVars, relayVars, nodeVars>>

\* (mutant: the queue is not drained first)
ResyncUndrained(x) ==
    /\ phase = "serving"
    /\ x \in Resyncs /\ job[x] = Idle /\ list[x] = {}
    /\ Pending # {} /\ list' = [list EXCEPT ![x] = Pending]
    /\ UNCHANGED <<dbVars, phase, job, relayVars, nodeVars>>

\* resync: once the queue has drained, the pending records are read, all at once.
Resync(x) ==
    /\ phase = "serving" /\ job[Main] = Idle
    /\ x \in Resyncs /\ job[x] = Idle /\ list[x] = {}
    /\ Pending # {} /\ list' = [list EXCEPT ![x] = Pending]
    /\ UNCHANGED <<dbVars, phase, job, relayVars, nodeVars>>

\* The next record of the list, as it was when the list was made.
Take(x) ==
    /\ job[x] = Idle
    /\ \E rec \in list[x] :
          /\ job' = [job EXCEPT ![x] = Entry(rec.op, rec.seen)]
          /\ list' = [list EXCEPT ![x] = @ \ {rec}]
    /\ UNCHANGED <<dbVars, phase, relayVars, nodeVars>>

-----------------------------------------------------------------------------
(* handleCapture: from the trigger to the claim.                           *)

\* A trigger comes off the queue (redelivery is normal); one with an operation
\* is ignored.  The thread is fetched.
HandleCapture(t) ==
    /\ phase = "serving" /\ job[Main] = Idle
    /\ opState[t] = "none"
    /\ job' = [job EXCEPT ![Main] = [Idle EXCEPT !.pc = "thread", !.op = t]]
    /\ UNCHANGED <<dbVars, phase, list, relayVars, nodeVars>>

\* The thread arrives (or does not): an empty snapshot is ignored, any other is
\* distilled and claimed, and executed with the snapshot in hand.
Claim ==
    LET t == job[Main].op  src == Snapshot(t) IN
    /\ job[Main].pc = "thread"
    /\ \/ Done(Main) /\ UNCHANGED <<opState, digest>>
       \/ /\ src # {} /\ opState[t] = "none"
          /\ opState' = [opState EXCEPT ![t] = "distilled"]
          /\ digest' = [digest EXCEPT ![t] = src]
          /\ job' = [job EXCEPT ![Main].pc = "write", ![Main].seen = "distilled",
                                ![Main].src = src]
    /\ UNCHANGED <<phase, list, relayVars, nodeVars>>

-----------------------------------------------------------------------------
(* executeOp, one worker at a time.  Every call may fail and park.         *)

\* (mutant: the digest is not compared)
AnySource(t, src) == TRUE
\* ensureSnapshot, then the digest check: a changed source set fails the
\* operation for good, rather than distil what nobody asked for.
SameSource(t, src) == src = digest[t]

ReadSource(x) ==
    LET t == job[x].op  src == Snapshot(t) IN
    /\ job[x].pc = "source"
    /\ \/ Done(x) /\ UNCHANGED opState
       \/ /\ fate[t] = "visible"
          /\ IF src = {} THEN Done(x) /\ UNCHANGED opState   \* distill throws
             ELSE IF SameSource(t, src)
             THEN /\ job' = [job EXCEPT ![x].pc = "write", ![x].src = src]
                  /\ UNCHANGED opState
             ELSE Move(x, "failed", "idle")
    /\ UNCHANGED <<digest, phase, list, relayVars, nodeVars>>

\* What a call does on the node to the asset of operation t: wm/write creates it
\* when absent, and the same quads again change nothing.
Effect(call, t, src) ==
    LET d == digest[t] IN
    \/ /\ call = "write"
       /\ ka' = [ka EXCEPT ![d] = IF @ = "none" THEN "draft" ELSE @]
       /\ content' = [content EXCEPT ![d] = @ \cup src]
    \/ /\ call = "finalize" /\ ka[d] \in {"draft", "sealed"}
       /\ ka' = [ka EXCEPT ![d] = "sealed"] /\ UNCHANGED content
    \/ /\ call = "share" /\ ka[d] \in {"sealed", "promoted"}
       /\ ka' = [ka EXCEPT ![d] = "promoted"] /\ UNCHANGED content

\* A call that changes the node: it fails, or is timed out and carried out later;
\* or it takes effect and is answered, or takes effect with the answer lost.
Call(x, call, next) ==
    /\ job[x].pc = call
    /\ \/ /\ Done(x) /\ UNCHANGED <<ka, content>>
          /\ \/ UNCHANGED late
             \/ /\ Cardinality(late) < MaxLate
                /\ late' = late \cup {[call |-> call, op |-> job[x].op, src |-> job[x].src]}
       \/ /\ Effect(call, job[x].op, job[x].src) /\ UNCHANGED late
          /\ Goto(x, next) \/ Done(x)
    /\ UNCHANGED <<dbVars, phase, list, relayVars>>

Write(x) == Call(x, "write", "written")
Finalize(x) == Call(x, "finalize", "sealed")
Share(x) == Call(x, "share", "promoted")

Written(x) ==
    /\ job[x].pc = "written" /\ Move(x, "wm_written", "describe")
    /\ UNCHANGED <<digest, phase, list, relayVars, nodeVars>>

\* The descriptor decides: already promoted means an earlier run got this far;
\* unreadable or anything else means finalize, unless done, and share.
Describe(x) ==
    LET t == job[x].op IN
    /\ job[x].pc = "describe"
    /\ \/ /\ ka[digest[t]] = "promoted" /\ Move(x, "shared", "verify")
       \/ /\ Goto(x, IF job[x].seen = "wm_written" THEN "finalize" ELSE "share")
          /\ UNCHANGED opState
    /\ UNCHANGED <<digest, phase, list, relayVars, nodeVars>>

Sealed(x) ==
    LET t == job[x].op IN
    /\ job[x].pc = "sealed" /\ Move(x, "finalized", "share")
    /\ UNCHANGED <<digest, phase, list, relayVars, nodeVars>>

Promoted(x) ==
    /\ job[x].pc = "promoted" /\ Move(x, "shared", "verify")
    /\ UNCHANGED <<digest, phase, list, relayVars, nodeVars>>

\* The scoped read-back: only the shared graph carries the digest, a published
\* asset has left it.  (Up to four attempts count as one.)
ConfirmedInSwm(d) == ka[d] = "promoted"
Verify(x) ==
    /\ job[x].pc = "verify"
    /\ \/ Done(x)
       \/ ConfirmedInSwm(digest[job[x].op]) /\ Goto(x, "find")
    /\ UNCHANGED <<dbVars, phase, list, relayVars, nodeVars>>

\* (mutant: no read-back)
FindNothing(x) ==
    /\ job[x].pc = "find" /\ Goto(x, "post")
    /\ UNCHANGED <<dbVars, phase, list, relayVars, nodeVars>>

\* findExistingReceipt: a receipt of this trigger in the thread is adopted.
Find(x) ==
    LET t == job[x].op IN
    /\ job[x].pc = "find"
    /\ \/ Done(x) /\ UNCHANGED opState
       \/ receipts[t] > 0 /\ Move(x, "receipted", "idle")
       \/ receipts[t] = 0 /\ Goto(x, "post") /\ UNCHANGED opState
    /\ UNCHANGED <<digest, phase, list, relayVars, nodeVars>>

\* MaxPosts receipts stand for that many or more.
OneMore(n) == IF n < MaxPosts THEN n + 1 ELSE n

\* (mutant: an error of the relay is taken for a success)
PostAssumed(x) ==
    LET t == job[x].op IN
    /\ job[x].pc = "post" /\ Goto(x, "posted")
    /\ receipts' \in {receipts, [receipts EXCEPT ![t] = OneMore(@)]}
    /\ UNCHANGED <<dbVars, phase, list, fate, latePosts, nodeVars>>

\* The receipt is posted and answered; posted with the answer lost; not posted;
\* or (a timed-out request) posted later.
Post(x) ==
    LET t == job[x].op IN
    /\ job[x].pc = "post"
    /\ \/ /\ receipts' = [receipts EXCEPT ![t] = OneMore(@)] /\ UNCHANGED latePosts
          /\ Goto(x, "posted") \/ Done(x)
       \/ /\ Done(x) /\ UNCHANGED receipts
          /\ \/ UNCHANGED latePosts
             \/ SlowPosts /\ latePosts' = latePosts \cup {t}
    /\ UNCHANGED <<dbVars, phase, list, fate, nodeVars>>

Posted(x) ==
    /\ job[x].pc = "posted" /\ Move(x, "receipted", "idle")
    /\ UNCHANGED <<digest, phase, list, relayVars, nodeVars>>

-----------------------------------------------------------------------------
(* The room, the relay, and publication seen from here.                    *)

Appear(e) ==
    /\ fate[e] = "unsent" /\ fate' = [fate EXCEPT ![e] = "visible"]
    /\ UNCHANGED <<dbVars, procVars, receipts, latePosts, nodeVars>>

Delete(e) ==
    /\ e \in Deletable /\ fate[e] = "visible" /\ fate' = [fate EXCEPT ![e] = "deleted"]
    /\ UNCHANGED <<dbVars, procVars, receipts, latePosts, nodeVars>>

LatePost(t) ==
    /\ t \in latePosts /\ latePosts' = latePosts \ {t}
    /\ receipts' = [receipts EXCEPT ![t] = OneMore(@)]
    /\ UNCHANGED <<dbVars, procVars, fate, nodeVars>>

\* A call that timed out here reaches its end on the node, or is refused there.
LateCall(c) ==
    /\ c \in late /\ late' = late \ {c}
    /\ Effect(c.call, c.op, c.src) \/ UNCHANGED <<ka, content>>
    /\ UNCHANGED <<dbVars, procVars, relayVars>>

\* An approval runs to its end in one step (module Publication has the steps).
Publish(t) ==
    /\ Approvals /\ phase = "serving" /\ job[Main] = Idle
    /\ opState[t] = "receipted" /\ ka[digest[t]] = "promoted"
    /\ opState' = [opState EXCEPT ![t] = "vm_receipted"]
    /\ ka' = [ka EXCEPT ![digest[t]] = "published"]
    /\ UNCHANGED <<digest, procVars, relayVars, content, late>>

Execute(x) ==
    \/ ReadSource(x) \/ Write(x) \/ Written(x) \/ Describe(x) \/ Finalize(x) \/ Sealed(x)
    \/ Share(x) \/ Promoted(x) \/ Verify(x) \/ Find(x) \/ Post(x) \/ Posted(x)

Next ==
    \/ Boot \/ Serve \/ Crash \/ Claim
    \/ \E t \in Triggers : HandleCapture(t) \/ LatePost(t) \/ Publish(t)
    \/ \E x \in Workers : Resync(x) \/ Take(x) \/ Execute(x)
    \/ \E e \in Sources \cup Triggers : Appear(e) \/ Delete(e)
    \/ \E c \in late : LateCall(c)

Spec == Init /\ [][Next]_vars

-----------------------------------------------------------------------------
(* Fairness: awaited calls end, the daemon is started again, the connection *)
(* keeps being renewed, and a call that is made again and again succeeds    *)
(* at some point.                                                          *)

Calls == {"source", "write", "finalize", "share", "verify", "find", "post"}

Succeeds(pc) ==
    \E x \in Workers : /\ job[x].pc = pc /\ Execute(x)
                       /\ job'[x] # Idle \/ opState' # opState

\* The descriptor of a promoted asset is readable at some point, too.
SeenPromoted == \E x \in Workers : Describe(x) /\ opState' # opState

Fairness ==
    /\ WF_vars(Boot) /\ WF_vars(Serve) /\ WF_vars(Claim)
    /\ WF_vars(\E x \in Workers : Execute(x))
    /\ WF_vars(\E x \in Workers : Take(x))
    /\ SF_vars(\E x \in Workers : Resync(x))
    /\ \A pc \in Calls : SF_vars(Succeeds(pc))
    /\ SF_vars(SeenPromoted)

FairSpec == Spec /\ Fairness

-----------------------------------------------------------------------------
(* Properties.                                                             *)

\* Types of all variables.
TypeOK ==
    /\ opState \in [Triggers -> OpState \cup {"none"}]
    /\ digest \in [Triggers -> Digest]
    /\ phase \in {"down", "recovering", "serving"}
    /\ job \in [Workers -> [pc : Busy \cup {"idle"}, op : Triggers \cup {NoTrigger},
                            seen : OpState \cup {"none"}, src : Digest]]
    /\ list \in [Workers -> SUBSET [op : Triggers, seen : CaptureStates]]
    /\ fate \in [Sources \cup Triggers -> {"unsent", "visible", "deleted"}]
    /\ receipts \in [Triggers -> Nat] /\ latePosts \subseteq Triggers
    /\ ka \in [Digest -> {"none", "draft", "sealed", "promoted", "published"}]
    /\ content \in [Digest -> Digest]
    /\ late \subseteq [call : {"write", "finalize", "share"}, op : Triggers, src : Digest]

\* One trigger, one receipt, through crashes, lost answers and retries
\* (the executor's doc: receipts are searched for before re-posting).
OneReceipt == \A t \in Triggers : receipts[t] <= 1

\* A receipt in the thread stands for an asset that is shared, under the
\* digest the receipt names (SPEC section 4, item 6: after a verified share).
ReceiptIsBacked ==
    \A t \in Triggers : receipts[t] > 0 => ka[digest[t]] \in {"promoted", "published"}

\* An asset holds the source set its name is the digest of, and nothing else:
\* a thread that changed since the trigger is not distilled under the old name.
ContentMatchesDigest ==
    \A d \in Digest : ka[d] # "none" => content[d] = d

\* A receipted (or published) operation is never moved back into failure:
\* "forward-only" (types.ts, DESIGN.md) and terminal states stay.
ForwardOnly ==
    [][\A t \in Triggers : opState[t] \in {"receipted", "vm_receipted", "failed"} =>
          opState'[t] \in {opState[t], "vm_receipted"}]_vars

\* A claimed capture ends in a receipt or in failure without another restart,
\* as long as the connection is renewed from time to time - unless its trigger
\* or its whole source set was deleted, or its asset was published under
\* another operation: those three park it for good.
Settles ==
    <>[](phase # "down") =>
        \A t \in Triggers :
            opState[t] \in CaptureStates ~>
                \/ opState[t] \notin CaptureStates
                \/ fate[t] = "deleted" \/ Snapshot(t) = {} \/ ka[digest[t]] = "published"

-----------------------------------------------------------------------------
(* What the capture path promises, as module Receipting states it.         *)

\* The claim an operation's row stands for; publication is beyond its end.
Claimed == [t \in Triggers |-> CASE opState[t] = "none" -> "none"
                                  [] opState[t] \in CaptureStates -> "open"
                                  [] opState[t] = "failed" -> "failed"
                                  [] OTHER -> "closed"]

Promise == INSTANCE Receipting WITH
    Assets <- Digest, NoAsset <- {}, claim <- Claimed, named <- digest,
    shared <- {d \in Digest : ka[d] \in {"promoted", "published"}},
    announced <- {t \in Triggers : receipts[t] > 0 \/ t \in latePosts}

\* Capture implements Receipting as long as resyncs do not overlap: every step of
\* queue, recovery, resync, crash, node or relay is one of its steps, or none.
ImplementsReceipting == Promise!Spec
=============================================================================
