---------------------------- MODULE Publication -----------------------------
(***************************************************************************)
(* The money path of the daemon: a promoter's reaction on a capture        *)
(* receipt, the gate it must pass, the reservation of the spend, the call  *)
(* to the node's vm/publish, and the receipt that announces the UAL - with *)
(* crashes between any two steps, restarts under another configuration,    *)
(* and a node and a relay that lose, delay or half-perform what they are   *)
(* asked.                                                                  *)
(*                                                                         *)
(* Every await of the code splits a handler into steps here: a remote step *)
(* (the effect on the node or relay, and what the caller is told) and the  *)
(* local continuation that follows it.                                     *)
(***************************************************************************)
EXTENDS Registry, FiniteSets

CONSTANTS
    Ops,                 \* captured operations (rows of ops)
    Reactions,           \* approval-emoji reactions a relay may deliver
    KAs,                 \* knowledge assets: same source set, same asset
    KaOf, TargetOf,      \* asset of an operation; operation a reaction targets
    UalWithin,           \* <<k, l>>: the UAL of k is a substring of the UAL of l
    Configs,             \* configurations the daemon may be started with
    Chains,              \* chains the node may be connected to
    MaxPublishesPerDay, Window,
    RelayFaults,         \* subset of {"unreadable", "late"}, see ReadBack and PostReceipt
    ResyncsOverlap,      \* two reconnections in a row may run two resyncs at once
    MaxTime, MaxPosts,   \* bounds: the clock, and the receipts told apart
    NoOp, NoReaction, Offline

ASSUME ConstantsAssumption ==
    /\ IsFiniteSet(Ops)
    /\ KaOf \in [Ops -> KAs] /\ TargetOf \in [Reactions -> Ops]
    /\ UalWithin \subseteq KAs \X KAs /\ \A k \in KAs : <<k, k>> \in UalWithin
    /\ \A c \in Configs : /\ c.mode \in {"disabled", "devnet", "mainnet"}
                          /\ c.authorised \subseteq Reactions
                          /\ c.mapped \subseteq Ops
    /\ MaxPublishesPerDay \in Nat /\ Window \in Nat
    /\ ResyncsOverlap \in BOOLEAN
    /\ MaxTime \in Nat /\ MaxPosts \in Nat \ {0}
    /\ NoOp \notin Ops /\ NoReaction \notin Reactions /\ Offline \notin Configs

VARIABLES
    opState, updatedAt, consumedBy,  \* ops table
    approvals,                       \* approvals table: reaction -> outcome
    phase, cfg, chainId, todo, w,    \* the process: in memory only
    stale,                           \* ... records that a second resync read as distilled
    layer, late, nodeChain,          \* the node: layer of each asset, delayed publishes, chain
    vmPosts, latePosts,              \* the relay: VM receipts, delayed ones
    now,
    calls, calledAt, calledOn, confirmed, \* history: vm/publish calls and confirmed answers
    doubted                               \* history: operations whose room was misread or answered late

dbVars == <<opState, updatedAt, consumedBy, approvals>>
procVars == <<phase, cfg, chainId, todo, w, stale>>
nodeVars == <<layer, late, nodeChain>>
relayVars == <<vmPosts, latePosts>>
histVars == <<calls, calledAt, calledOn, confirmed, doubted>>
vars == <<dbVars, procVars, nodeVars, relayVars, now, histVars>>

-----------------------------------------------------------------------------
(* Handler states.  "receipt", "descriptor", "digest", "publish",          *)
(* "readback" and "post" await a remote call; the others hold its result.  *)

GatePcs == {"receipt", "descriptor", "digest", "decide", "consumed"}
PublishPcs == {"publish", "confirmed", "unconfirmed"}
ReceiptPcs == {"readback", "post", "adopt"}

\* (mutant: operation and reaction swapped)
AtSwapped(pc, o, r, s) == [pc |-> pc, op |-> r, by |-> o, seen |-> s]
\* The operation in hand, the reaction that led to it, and the state the
\* handler read for it when it started.
At(pc, o, r, s) == [pc |-> pc, op |-> o, by |-> r, seen |-> s]
Idle == At("idle", NoOp, NoReaction, "none")
Goto(pc) == w' = At(pc, w.op, w.by, w.seen)

RequiredChain(mode) == IF mode = "mainnet" THEN "base" ELSE "devnet"

\* Registry.transition, with the clock it stamps.
Transition(o, to) ==
    /\ CanTransition(opState[o], to)
    /\ opState' = [opState EXCEPT ![o] = to]
    /\ updatedAt' = [updatedAt EXCEPT ![o] = now]

\* A transition that is refused throws: the handler ends and the row stays.
Refused(o, to) ==
    /\ ~CanTransition(opState[o], to)
    /\ w' = Idle /\ UNCHANGED <<opState, updatedAt>>

\* Registry.recordApproval: the first outcome of a reaction is the only one.
RecordApproval(r, outcome) ==
    approvals' = [approvals EXCEPT ![r] = IF @ = "none" THEN outcome ELSE @]

Init ==
    /\ opState = [o \in Ops |-> "distilled"]
    /\ updatedAt = [o \in Ops |-> 0]
    /\ consumedBy = [o \in Ops |-> NoReaction]
    /\ approvals = [r \in Reactions |-> "none"]
    /\ phase = "down" /\ cfg = Offline /\ chainId = "unknown" /\ todo = {}
    /\ w = Idle /\ stale = {}
    /\ layer = [k \in KAs |-> "SWM"] /\ late = {} /\ nodeChain \in Chains
    /\ vmPosts = [o \in Ops |-> 0] /\ latePosts = {}
    /\ now = 0
    /\ calls = [o \in Ops |-> 0]
    /\ calledAt = [o \in Ops |-> 0]
    /\ calledOn = [o \in Ops |-> "none"]
    /\ confirmed = [o \in Ops |-> FALSE] /\ doubted = {}

-----------------------------------------------------------------------------
(* The process: boot, recovery, crash.                                     *)

\* Daemon.start: refuse when publish mode and chain disagree; remember the chain.
Boot(c) ==
    /\ phase = "down"
    /\ c.mode # "disabled" => nodeChain = RequiredChain(c.mode)
    /\ phase' = "recovering" /\ cfg' = c /\ chainId' = nodeChain
    /\ todo' = {o \in Ops : opState[o] \in PendingStates \ CaptureStates}
    /\ UNCHANGED <<dbVars, w, stale, nodeVars, relayVars, now, histVars>>

\* (mutant: recovery repeats the call it finds reserved)
ResumeByPublishing(o) ==
    /\ phase = "recovering" /\ w.pc = "idle" /\ o \in todo
    /\ opState[o] = "publishing"
    /\ w' = At("publish", o, consumedBy[o], "publishing")
    /\ calls' = [calls EXCEPT ![o] = @ + 1]
    /\ todo' = todo \ {o}
    /\ UNCHANGED <<dbVars, phase, cfg, chainId, stale, nodeVars, relayVars, now,
                   calledAt, calledOn, confirmed, doubted>>

\* Daemon.recover on a reserved operation: never publish again, record it.
ResumeReserved(o) ==
    /\ phase = "recovering" /\ w.pc = "idle" /\ o \in todo
    /\ opState[o] = "publishing"
    /\ Transition(o, "publish_unconfirmed")
    /\ todo' = todo \ {o}
    /\ UNCHANGED <<consumedBy, approvals, phase, cfg, chainId, w, stale,
                   nodeVars, relayVars, now, histVars>>

\* Daemon.recover on a confirmed operation: only its receipt is missing.
ResumePublished(o) ==
    /\ phase = "recovering" /\ w.pc = "idle" /\ o \in todo
    /\ opState[o] = "published"
    /\ w' = At("readback", o, NoReaction, "published")
    /\ todo' = todo \ {o}
    /\ UNCHANGED <<dbVars, phase, cfg, chainId, stale, nodeVars, relayVars, now, histVars>>

\* A message request that its sender gave up on is stored later.
PostLater(o) ==
    /\ "late" \in RelayFaults
    /\ latePosts' = latePosts \cup {o} /\ doubted' = doubted \cup {o}

Serve ==
    /\ phase = "recovering" /\ w.pc = "idle" /\ todo = {}
    /\ phase' = "serving"
    /\ UNCHANGED <<dbVars, cfg, chainId, todo, w, stale, nodeVars, relayVars, now, histVars>>

\* The process dies (or is stopped) anywhere; a request it had sent may still
\* take effect afterwards.
Crash ==
    /\ phase # "down"
    /\ phase' = "down" /\ cfg' = Offline /\ chainId' = "unknown" /\ todo' = {}
    /\ w' = Idle /\ stale' = {}
    /\ \/ UNCHANGED <<late, latePosts, doubted>>
       \/ w.pc = "publish" /\ late' = late \cup {KaOf[w.op]} /\ UNCHANGED <<latePosts, doubted>>
       \/ w.pc = "post" /\ PostLater(w.op) /\ UNCHANGED late
    /\ UNCHANGED <<dbVars, layer, nodeChain, vmPosts, now, calls, calledAt, calledOn, confirmed>>

\* A capture runs through (executeOp, as module Capture has it; of its four
\* transitions nothing here tells the first three apart): the asset is in shared
\* working memory and its receipt is in the room.
CaptureReceipted(o) ==
    /\ phase # "down" /\ opState[o] = "distilled" /\ layer[KaOf[o]] = "SWM"
    /\ Transition(o, "receipted")
    /\ UNCHANGED <<consumedBy, approvals, procVars, nodeVars, relayVars, now, histVars>>

-----------------------------------------------------------------------------
(* A resync beside an earlier one that is not over.  It has listed the      *)
(* parked captures before the other finished them, and reads the source set *)
(* of each again for as long as that takes.                                 *)

ListsParked(o) ==
    /\ ResyncsOverlap /\ phase = "serving"
    /\ opState[o] = "distilled" /\ stale' = stale \cup {o}
    /\ UNCHANGED <<dbVars, phase, cfg, chainId, todo, w, nodeVars, relayVars, now, histVars>>

\* The thread has changed: the operation is failed, whatever became of it since.
\* (Between Consume and Reserve nobody else runs; a capture under way is module
\* Capture's.)
StaleFails(o) ==
    /\ o \in stale /\ stale' = stale \ {o}
    /\ opState[o] \notin CaptureStates /\ w.pc # "consumed"
    /\ Transition(o, "failed")
    /\ UNCHANGED <<consumedBy, approvals, phase, cfg, chainId, todo, w,
                   nodeVars, relayVars, now, histVars>>

\* The thread is as it was, or not readable: the transition to wm_written is
\* refused, or never tried.
StaleEnds(o) ==
    /\ o \in stale /\ stale' = stale \ {o}
    /\ UNCHANGED <<dbVars, phase, cfg, chainId, todo, w, nodeVars, relayVars, now, histVars>>

-----------------------------------------------------------------------------
(* The gate: Daemon.handleApproval up to the reservation.                  *)

\* reject(): a permanent refusal is recorded, a transient one is not, so that
\* the same reaction may be tried again.  The notice in the room is best effort.
Reject(r) == RecordApproval(r, "rejected")

\* (mutant: the mapping is not compared)
AdmittedAnyMapping(r, o) == r \in cfg.authorised
\* The checks before any await: a promoter of the channel, the mapping unchanged.
Admitted(r, o) == r \in cfg.authorised /\ o \in cfg.mapped

\* A reaction is taken off the queue (again and again: redelivery is normal).
\* One that targets no receipt, or already has an outcome, is ignored.
HandleApproval(r) ==
    LET o == TargetOf[r] IN
    /\ phase = "serving" /\ w.pc = "idle"
    /\ opState[o] \notin CaptureStates
    /\ approvals[r] = "none"
    /\ IF Admitted(r, o)
       THEN w' = At("receipt", o, r, opState[o]) /\ UNCHANGED approvals
       ELSE Reject(r) /\ UNCHANGED w
    /\ UNCHANGED <<opState, updatedAt, consumedBy, phase, cfg, chainId, todo, stale,
                   nodeVars, relayVars, now, histVars>>

\* One remote read of the gate: it may fail (transient), refuse, or pass.
GateRead(pc, next, passes, refuses) ==
    /\ w.pc = pc
    /\ \/ w' = Idle /\ UNCHANGED approvals
       \/ refuses /\ Reject(w.by) /\ w' = Idle
       \/ passes /\ Goto(next) /\ UNCHANGED approvals
    /\ UNCHANGED <<opState, updatedAt, consumedBy, phase, cfg, chainId, todo, stale,
                   nodeVars, relayVars, now, histVars>>

\* The receipt read back from the relay names this asset and digest, or does not.
ReadReceipt == GateRead("receipt", "descriptor", TRUE, TRUE)

\* (mutant: a published asset passes for a shared one)
InAnyLayer(o) == layer[KaOf[o]] \in {"SWM", "VM"}
InSwm(o) == layer[KaOf[o]] = "SWM"

\* The descriptor says promoted/SWM until the node has stamped the asset published.
ReadDescriptor == GateRead("descriptor", "digest", InSwm(w.op), ~InSwm(w.op))

\* The shared graph still carries the approved digest (a published asset left it).
ReadDigest == GateRead("digest", "decide", InSwm(w.op), ~InSwm(w.op))

BudgetLeft ==
    Cardinality(RecentPublishes(opState, updatedAt, now, Window)) < MaxPublishesPerDay

\* What is decided without another await, from the operation as read at the start.
GateOpen ==
    /\ w.seen = "receipted"
    /\ cfg.mode # "disabled"
    /\ chainId = RequiredChain(cfg.mode)
    /\ cfg.mode = "mainnet" => BudgetLeft

\* (mutant: the approval is not consumed)
ConsumeNothing == Goto("consumed") /\ UNCHANGED approvals
\* Consume the approval.  The insert is the claim: a reaction with an outcome stops here.
Consume ==
    /\ RecordApproval(w.by, "consumed")
    /\ IF approvals[w.by] = "none" THEN Goto("consumed") ELSE w' = Idle

Decide ==
    /\ w.pc = "decide"
    /\ IF GateOpen
       THEN Consume
       ELSE Reject(w.by) /\ w' = Idle
    /\ UNCHANGED <<opState, updatedAt, consumedBy, phase, cfg, chainId, todo, stale,
                   nodeVars, relayVars, now, histVars>>

\* Reserve the spend and, with no await between, issue the call to vm/publish.
Reserve ==
    /\ w.pc = "consumed"
    /\ \/ /\ Transition(w.op, "publishing") /\ Goto("publish")
          /\ consumedBy' = [consumedBy EXCEPT ![w.op] = w.by]
          /\ calls' = [calls EXCEPT ![w.op] = @ + 1]
          /\ calledAt' = [calledAt EXCEPT ![w.op] = now]
          /\ calledOn' = [calledOn EXCEPT ![w.op] = cfg.mode]
       \/ Refused(w.op, "publishing") /\ UNCHANGED <<consumedBy, calls, calledAt, calledOn>>
    /\ UNCHANGED <<approvals, phase, cfg, chainId, todo, stale, nodeVars, relayVars,
                   now, confirmed, doubted>>

-----------------------------------------------------------------------------
(* The call and what follows: performPublish, markUnconfirmed, postVmReceipt. *)

\* (mutant: a tentative transaction is taken for a confirmed one)
VerdictOnStamp(answer) == IF answer = "error" THEN "unconfirmed" ELSE "confirmed"
\* Only a 200 that carries a transaction hash is a confirmation; a 502, any
\* other error and a 200 without a hash are not.
Verdict(answer) == IF answer = "confirmed" THEN "confirmed" ELSE "unconfirmed"

\* The node stamps the asset published for a confirmed and for a tentative
\* transaction alike; an error says nothing about the effect, which may also
\* come later.
NodePublishes ==
    /\ w.pc = "publish"
    /\ \E answer \in {"confirmed", "tentative", "error"} :
          /\ Goto(Verdict(answer))
          /\ confirmed' = [confirmed EXCEPT ![w.op] = answer = "confirmed"]
          /\ \/ layer' = [layer EXCEPT ![KaOf[w.op]] = "VM"] /\ UNCHANGED late
             \/ /\ answer = "error" /\ UNCHANGED layer
                /\ late' \in {late, late \cup {KaOf[w.op]}}
    /\ UNCHANGED <<dbVars, phase, cfg, chainId, todo, stale, nodeChain, relayVars, now,
                   calls, calledAt, calledOn, doubted>>

\* (mutant: an unconfirmed publish is filed as an ordinary failure)
MarkFailed ==
    /\ w.pc = "unconfirmed"
    /\ Transition(w.op, "failed") /\ w' = Idle
    /\ UNCHANGED <<consumedBy, approvals, phase, cfg, chainId, todo, stale,
                   nodeVars, relayVars, now, histVars>>

\* markUnconfirmed: terminal; the note in the room is best effort.
MarkUnconfirmed ==
    /\ w.pc = "unconfirmed"
    /\ Transition(w.op, "publish_unconfirmed") /\ w' = Idle
    /\ UNCHANGED <<consumedBy, approvals, phase, cfg, chainId, todo, stale,
                   nodeVars, relayVars, now, histVars>>

\* A confirmed answer: persist the UAL, then look for its receipt in the room.
PersistUal ==
    /\ w.pc = "confirmed"
    /\ \/ Transition(w.op, "published") /\ Goto("readback")
       \/ Refused(w.op, "published")
    /\ UNCHANGED <<consumedBy, approvals, phase, cfg, chainId, todo, stale,
                   nodeVars, relayVars, now, histVars>>

\* (mutant: any receipt of the service in the thread will do)
AnyReceiptInRoom(o) == \E p \in Ops : vmPosts[p] > 0
\* A service message whose text contains this operation's UAL is in the thread.
UalInRoom(o) == \E p \in Ops : <<KaOf[o], KaOf[p]>> \in UalWithin /\ vmPosts[p] > 0

\* (mutant: no read-back, the receipt is posted anew)
ReadNothingBack ==
    /\ w.pc = "readback" /\ Goto("post")
    /\ UNCHANGED <<dbVars, phase, cfg, chainId, todo, stale, nodeVars, relayVars, now, histVars>>

\* findExistingVmReceipt: a query that fails is read as "no receipt".
ReadBack ==
    /\ w.pc = "readback"
    /\ \/ Goto(IF UalInRoom(w.op) THEN "adopt" ELSE "post") /\ UNCHANGED doubted
       \/ /\ "unreadable" \in RelayFaults
          /\ Goto("post") /\ doubted' = doubted \cup {w.op}
    /\ UNCHANGED <<dbVars, phase, cfg, chainId, todo, stale, nodeVars, relayVars, now,
                   calls, calledAt, calledOn, confirmed>>

\* MaxPosts receipts stand for that many or more.
OneMore(n) == IF n < MaxPosts THEN n + 1 ELSE n

\* sendMessage: posted; or an error, with the message posted nevertheless, not
\* posted, or (a timed-out request) posted later.
PostReceipt ==
    /\ w.pc = "post"
    /\ \/ /\ vmPosts' = [vmPosts EXCEPT ![w.op] = OneMore(@)]
          /\ Goto("adopt") \/ w' = Idle
          /\ UNCHANGED <<latePosts, doubted>>
       \/ /\ w' = Idle /\ UNCHANGED vmPosts
          /\ PostLater(w.op) \/ UNCHANGED <<latePosts, doubted>>
    /\ UNCHANGED <<dbVars, phase, cfg, chainId, todo, stale, nodeVars, now,
                   calls, calledAt, calledOn, confirmed>>

RecordReceipt ==
    /\ w.pc = "adopt"
    /\ \/ Transition(w.op, "vm_receipted") /\ w' = Idle
       \/ Refused(w.op, "vm_receipted")
    /\ UNCHANGED <<consumedBy, approvals, phase, cfg, chainId, todo, stale,
                   nodeVars, relayVars, now, histVars>>

-----------------------------------------------------------------------------
(* The world: delayed effects, the node moved to another chain, the clock. *)

LatePublish(k) ==
    /\ k \in late
    /\ late' = late \ {k} /\ layer' = [layer EXCEPT ![k] = "VM"]
    /\ UNCHANGED <<dbVars, procVars, nodeChain, relayVars, now, histVars>>

LatePost(o) ==
    /\ o \in latePosts
    /\ latePosts' = latePosts \ {o} /\ vmPosts' = [vmPosts EXCEPT ![o] = OneMore(@)]
    /\ UNCHANGED <<dbVars, procVars, nodeVars, now, histVars>>

NodeMoves(c) ==
    /\ c # nodeChain /\ nodeChain' = c
    /\ UNCHANGED <<dbVars, procVars, layer, late, relayVars, now, histVars>>

Tick ==
    /\ now < MaxTime /\ now' = now + 1
    /\ UNCHANGED <<dbVars, procVars, nodeVars, relayVars, histVars>>

Gate == ReadReceipt \/ ReadDescriptor \/ ReadDigest \/ Decide \/ Reserve
Publishing == NodePublishes \/ MarkUnconfirmed \/ PersistUal
Announcing == ReadBack \/ PostReceipt \/ RecordReceipt

Next ==
    \/ \E c \in Configs : Boot(c)
    \/ \E o \in Ops : ResumeReserved(o) \/ ResumePublished(o) \/ CaptureReceipted(o)
    \/ \E o \in Ops : ListsParked(o) \/ StaleFails(o) \/ StaleEnds(o)
    \/ Serve \/ Crash
    \/ \E r \in Reactions : HandleApproval(r)
    \/ Gate \/ Publishing \/ Announcing
    \/ \E k \in KAs : LatePublish(k)
    \/ \E o \in Ops : LatePost(o)
    \/ \E c \in Chains : NodeMoves(c)
    \/ Tick

Spec == Init /\ [][Next]_vars

\* Every call the daemon awaits ends (each has a timeout) and its continuation
\* runs; a stopped daemon is started again (restart: unless-stopped) with a
\* configuration it accepts, and not every restart dies before it recovers.
Fairness ==
    /\ WF_vars(Gate) /\ WF_vars(Publishing) /\ WF_vars(Announcing) /\ WF_vars(Serve)
    /\ SF_vars(\E c \in Configs : Boot(c))
    /\ \A o \in Ops : SF_vars(ResumeReserved(o)) /\ SF_vars(ResumePublished(o))

FairSpec == Spec /\ Fairness

-----------------------------------------------------------------------------
(* Properties.                                                             *)

Handler == [pc : {"idle"} \cup GatePcs \cup PublishPcs \cup ReceiptPcs,
            op : Ops \cup {NoOp}, by : Reactions \cup {NoReaction},
            seen : OpState \cup {"none"}]

\* Types of all variables; a busy handler has an operation, a running process
\* a configuration.
TypeOK ==
    /\ opState \in [Ops -> OpState] /\ updatedAt \in [Ops -> Nat]
    /\ consumedBy \in [Ops -> Reactions \cup {NoReaction}]
    /\ approvals \in [Reactions -> {"none", "consumed", "rejected"}]
    /\ phase \in {"down", "recovering", "serving"}
    /\ cfg \in Configs \cup {Offline}
    /\ chainId \in Chains \cup {"unknown"}
    /\ todo \subseteq Ops /\ stale \subseteq Ops
    /\ w \in Handler
    /\ w.pc # "idle" => w.op \in Ops /\ phase # "down"
    /\ phase # "down" => cfg \in Configs
    /\ layer \in [KAs -> {"SWM", "VM"}] /\ late \subseteq KAs /\ nodeChain \in Chains
    /\ vmPosts \in [Ops -> Nat] /\ latePosts \subseteq Ops
    /\ now \in Nat
    /\ calls \in [Ops -> Nat] /\ calledAt \in [Ops -> Nat]
    /\ calledOn \in [Ops -> {"none", "disabled", "devnet", "mainnet"}]
    /\ confirmed \in [Ops -> BOOLEAN] /\ doubted \subseteq Ops

\* Whatever is redelivered, crashes or times out, vm/publish is called at most
\* once for an operation: a retry takes a new capture (markUnconfirmed's doc).
OneSpendPerOp == \A o \in Ops : calls[o] <= 1

\* A spend never falls out of the accounts: from the moment the call may have
\* been made its operation counts against the budget (countRecentPublishes' doc).
SpendAccounted == \A o \in Ops : calls[o] > 0 => opState[o] \in SpentStates

\* Every spend is backed by an approval of its own receipt that was consumed for
\* it, and by nothing less (SPEC section 6: items 2, 3 and 6).
SpendApproved ==
    \A o \in Ops : calls[o] > 0 =>
        /\ consumedBy[o] \in Reactions
        /\ TargetOf[consumedBy[o]] = o
        /\ approvals[consumedBy[o]] = "consumed"

\* Calls that may have cost money in the current window.
SpentLately == {o \in Ops : calledOn[o] = "mainnet" /\ calledAt[o] + Window > now}

\* The rolling budget bounds the calls actually made on mainnet, not only the
\* rows counted: restarts, configurations and late answers included.
WithinBudget == Cardinality(SpentLately) <= MaxPublishesPerDay

\* A UAL is announced only when the node's own answer confirmed it; a tentative
\* or lost answer never is, not even after a restart (performPublish's doc).
UalOnlyIfConfirmed ==
    \A o \in Ops : vmPosts[o] > 0 \/ o \in latePosts => confirmed[o]

\* Once recovery is over a reserved operation is one the handler is working on:
\* none is left reserved with nobody to resolve it.
NoStrandedSpend ==
    \A o \in Ops : phase = "serving" /\ opState[o] = "publishing" =>
        w.op = o /\ w.pc \in PublishPcs

\* One capture, one announcement, through crashes, lost answers and recovery - a
\* second VM receipt only where the room could not be read, or a message was
\* stored after its sender had given it up (postVmReceipt: "idempotent on the relay").
OneVmReceipt == \A o \in Ops : vmPosts[o] > 1 => o \in doubted

\* An operation that counts as announced has a receipt of its asset in the room:
\* none is closed on the strength of another's - but for one whose UAL contains
\* its own (.../1 in .../12), which the read-back cannot tell from it.
AnnouncedWhenDone ==
    \A o \in Ops : opState[o] = "vm_receipted" =>
        \E p \in Ops : /\ KaOf[p] = KaOf[o] \/ <<KaOf[o], KaOf[p]>> \in UalWithin
                       /\ vmPosts[p] > 0

\* An asset captured twice is not paid for twice with success: no second call is
\* confirmed for an asset, whatever took effect between the gate's reads and it.
AssetConfirmedOnce ==
    \A o, p \in Ops : confirmed[o] /\ confirmed[p] /\ KaOf[o] = KaOf[p] => o = p

\* Money is spent only by the gate, for a promoter of that channel, on a channel
\* still mapped and in a mode that allows it - never by boot or recovery.
GatedSpends ==
    \A o \in Ops : calls'[o] # calls[o] =>
        /\ phase = "serving"
        /\ consumedBy'[o] \in cfg.authorised
        /\ o \in cfg.mapped
        /\ cfg.mode # "disabled"
OnlyTheGateSpends == [][GatedSpends]_vars

\* A reservation is always resolved, crash or not.
ReservationResolves ==
    \A o \in Ops : opState[o] = "publishing" ~> opState[o] # "publishing"

-----------------------------------------------------------------------------
(* What the money path promises, as module Spending states it.             *)

\* The charge an operation's row stands for.
Ledger == [o \in Ops |-> CASE opState[o] = "publishing" -> "open"
                           [] opState[o] \in {"published", "vm_receipted"} -> "settled"
                           [] opState[o] = "publish_unconfirmed" -> "unresolved"
                           [] OTHER -> "none"]

\* A consumed approval is spent once a row names it, and claimed until then (a
\* crash in between leaves it claimed for ever).
Token == [r \in Reactions |-> IF approvals[r] # "consumed" THEN "unused"
                              ELSE IF \E o \in Ops : consumedBy[o] = r THEN "spent"
                              ELSE "claimed"]

Money == INSTANCE Spending WITH
    ledger <- Ledger, token <- Token, chain <- {o \in Ops : confirmed[o]},
    room <- {o \in Ops : vmPosts[o] > 0 \/ o \in latePosts}

\* Publication implements Spending: every step of handler, recovery, crash, node
\* or relay is one of its steps, or none.
ImplementsSpending == Money!Spec
===========================================================================
