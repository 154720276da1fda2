# A TLA+ model of the Buzz–DKG integration daemon

The daemon (`src/src/`) listens to channels of a Buzz workspace (a Nostr relay).
A pin or a `/distill` message turns a thread into a *knowledge asset* on a DKG
node, in shared working memory (SWM); a promoter's reaction on the receipt
publishes that asset to verifiable memory (VM), which may cost money; and a
question in a bound channel is answered from what the node remembers. What it
must not forget (operations, approvals, questions, a cursor) is in one SQLite
file. The daemon runs as one process on one event loop, so its races are not
between threads: they lie between the awaits of its handlers, between the event
queue and the resyncs that run beside it, between the process and two remote
services that lose or delay answers, and between one life of the process and
the next.

Line numbers below are those of `src/src/daemon.ts` unless a file is named.

## 1. Inventory

| Component | State | Operations |
|---|---|---|
| Operation registry (`registry/store.ts`, `types.ts`) | SQLite: `ops`, `approvals`, `asks`, `cursor`, `channels`, `promoters` | claim, forward-only `transition`, `pendingOps`, `countRecentPublishes`, `recordApproval`, `claimAsk`/`resolveAsk`/`pendingAsks`, `advanceCursor`, `loadBindings` |
| Event delivery (`start`, `catchUp`, `resync`, `handleEvent`; `relay/client.ts`) | cursor (durable); connection, subscriptions, FIFO queue (in memory) | catch up, subscribe, reconnect, replay, move the cursor, dispatch |
| Capture executor (`handleCapture`, `executeOp`, `recover`) | `ops` rows; the snapshot in hand | claim, write, finalize, share, verify, find or post a receipt, park, take up again |
| Approval gate and publication (`handleApproval`, `performPublish`, `markUnconfirmed`, `postVmReceipt`) | `ops` and `approvals` rows; the chain read at boot | checks, consume, reserve, call, file the outcome, announce |
| Grounded questions (`executeAsk`, `ask/grounded.ts`) | `asks` rows; the evidence in hand | claim, limit, retrieve, rank, gate, check citations, reply, resolve, recover |
| Distiller (`distill/*`) | none | source snapshot, digest, quads |
| Configuration (`config.ts`, constructor and checks of `start`) | bindings file; `channels` and `promoters` tables | parse, load, probe, refuse |
| Gate scripts (`scripts/d2-execute.mjs`, `d3-execute.mjs`) | none (transcripts; an intent file nothing reads) | one production share and its receipt; one paid publication and its receipt |
| Node adapter (`dkg/client.ts`) | none (the node keeps assets in working, shared and verifiable memory) | write, finalize, share, verify, read back, publish |
| Trigger detection, receipt grammar (`triggers`, `receipts`) | none | pure functions |
| Attestation, acceptance script, viewer, demo, feasibility bridge, deployment | outside the daemon's loop | – |

**Interactions.** The relay delivers an event by subscription or by replay; all
deliveries enter one queue, which runs one handler at a time. A handler claims
its event in the registry, awaits the node and the relay, and records each
result by `transition`. Two things run *beside* the queue: a resync, started at
every (re)connection once the queue has drained, executes parked operations
while new events are handled; and late effects of calls whose answer the daemon
gave up on. At boot, recovery executes pending work before the queue opens.
Capture hands over to publication through two things at once, the receipt in
the room and the `receipted` row.

**What is hard.** Each entry is a hazard of `PROJECT.json`, with its line.

* Dying between the effect of a call and the row that records it: vm/publish
  (521), the VM receipt (613), the SWM receipt (371), a reply (697).
* Answers that are lost, late or ambiguous: vm/publish (564), a message whose
  request timed out (374), a node call that is carried out after its timeout
  (dkg/client.ts:57), a read-back that fails (631).
* Values read before an await and used after it: the record `executeOp` was
  handed (158), the chain (495), the descriptor and digest of the gate (473).
* Two workers over one operation: overlapping resyncs (153), of which one may fail a
  row that has meanwhile been reserved or published (310); two captures of the
  same source set and hence of one asset (323).
* A thread that changes between trigger and retry (304, 309).
* The cursor: persisted before its event is handled (214), fed by clients'
  clocks (214), while two subscriptions are replayed each on its own (142), beside
  live events, around the gap between subscription and connection (135).
* The bindings file against what earlier files left in the tables (store.ts:98), and
  tables overwritten before the start that overwrites them is verified (46); a mention
  handle that changes while questions are pending (196).
* Assets that move between the memory layers from query to query (grounded.ts:121,
  146), a store that returns any rows up to its limit (grounded.ts:110), and a gate
  that sees only the first of what was ranked (grounded.ts:192).
* Scripts that spend money and are run again by hand after they died
  (d2-execute.mjs:65, 114; d3-execute.mjs:97, 152).
* Limits: the publication budget over rows whose stamp moves (502), the question
  limit that counts the claim in hand (663).

**What makes each part correct.** *Publication*: never two calls for one
operation, no spend outside the accounts, the budget or an approval, no UAL
announced that was not confirmed, no reservation left unresolved. *Capture*: one
receipt per trigger, standing for a shared asset that holds exactly what its name
digests; operations only move forward; every claimed capture ends. *Questions*: a
resolved question is final, one reply unless a crash intervenes, at most so many
searches per author, every claimed question is resolved. *Retrieval*: what is cited
was found in the asked room and is still there, nothing better was left out, and a
question the room can answer is answered. *Configuration*: the daemon serves what its
file says, whatever earlier files said. *Gate scripts*: their receipts are true and
single, and the publication is paid for once. *Delivery*: the cursor
never leaves an unhandled event behind, and every stored event is handled. (Section 3
says where the code keeps these only under a premise, or not at all.)

## 2. Modules

```
Registry ──┬── Publication ──┬── MCPublication
           │   (implements   ├── PublicationProofs ── SpendingProofs
           │    Spending)    │
           └── Capture ──────┬── MCCapture
               (implements   └── CaptureProofs
                Receipting)
               Asks ─────────┬── MCAsks
                             └── AsksProofs
               Retrieval ────┬── MCRetrieval
                             └── RetrievalProofs
               Delivery ─────┬── MCDelivery
                             └── DeliveryProofs
               Bindings ─────┬── MCBindings
                             └── BindingsProofs
               Gates ─────────── GatesProofs
```

Every handler is split at its awaits. A *remote* step is the effect on node or
relay together with what the caller is told: failed, done and answered, done
with the answer lost, and where a request can time out, done *later*. The
*local* step after it runs to the next await, registry writes included. `Crash`
may come between any two; it clears what is in memory and leaves the database,
the node and the relay as they are.

**Registry** holds the registry's rules as constant-level operators: the forward
track and what leaves it (`CanTransition`), which states recovery takes up
(`PendingStates`), which count against the budget (`SpentStates`,
`RecentPublishes`). It stores nothing; the tables are variables of the modules
that use it.

**Publication** is the money path. `opState`, `updatedAt`, `consumedBy` are
columns of `ops`; `approvals` is its table. The process is `phase`, `cfg` (the
configuration it was started with; a restart may choose another), `chainId` (read
once), `todo` (recovery's list) and `w`, the handler: its position, operation,
reaction and the state it read at the start. The node is `layer`, `late`
(publishes that take effect after their caller has given up) and `nodeChain`; the
room is `vmPosts` and `latePosts`. `calls`, `calledAt`, `calledOn`, `confirmed`
and `doubted` are history. `UalWithin` says which UALs are substrings of which: the
read-back searches for text (632). `stale` is what a second resync holds while an earlier
one is still at work (`ResyncsOverlap`): operations it read as `distilled`. Whatever the row
has become, it fetches the source set again, and if that has changed it fails the row
(309–313), which the registry accepts from any state. So a row may be failed at any
point of its publication, and the transition the handler comes back to make throws
(`Refused`).

| Code | Actions |
|---|---|
| `start` 75–131, `recover` 179–186, `executeOp` 278–290 | `Boot`, `ResumeReserved`, `ResumePublished`, `Serve` |
| `handleApproval` 405–523 | `HandleApproval`, `ReadReceipt`, `ReadDescriptor`, `ReadDigest`, `Decide`, `Reserve` |
| `performPublish`, `markUnconfirmed` | `NodePublishes`, `PersistUal`, `MarkUnconfirmed` |
| `postVmReceipt`, `findExistingVmReceipt` | `ReadBack`, `PostReceipt`, `RecordReceipt` |
| `resync` 151–164 beside an earlier one, `executeOp` 302–320 | `ListsParked`, `StaleFails`, `StaleEnds` |
| `executeOp` 302–384 run through (module Capture has its steps) | `CaptureReceipted` |
| the world | `Crash`, `LatePublish`, `LatePost`, `NodeMoves`, `Tick` |

**Spending** is what the money path promises, with no handler, crash or fault in it:
each operation has a charge on a `ledger` (none, open, settled, unresolved), each
approval a `token` that can be claimed and spent once, the node a set of confirmed
operations, the room a set of announced ones. Publication implements it: `Ledger` is
read off the rows' states, `Token` off `approvals` and `consumedBy`, the other two are
`confirmed` and the receipts in or on their way to the room. The reservation (521) is
the charge, the row's outcome its settling; a crash between consuming and reserving
leaves a claimed token and nothing else. It is implemented as long as no two resyncs
overlap: one that fails a reserved row takes its charge off the ledger, which Spending has
no step for.

**Capture** has several *workers* over one set of operations: `Main` (the queue,
and recovery before it opens) and any number of resyncs. A worker has a `list` of
records as they were when read, and a `job`. An asset is identified by the set of
sources it is the digest of (`Digest == SUBSET Sources`, i.e. the digest is
injective); `ka` and `content` are its state and what was written to it, `fate`
says which events of the thread the relay shows. `HandleCapture` and `Claim` are
`handleCapture`; `ReadSource` … `Posted` are `executeOp`, await by await. A call of the
node has an `Effect`; one whose request timed out is in `late`, up to `MaxLate` of them,
until `LateCall` carries it out, whatever its worker, or the next life, does meanwhile.

**Receipting** is what the capture path promises, with no queue, resync, crash or fault in
it: a trigger is claimed once, for one asset; only the asset of an open claim is shared;
a receipt is for an asset that is shared; a claim is closed only when its receipt is out
and given up only when it is not. Capture implements it as long as resyncs do not
overlap: `Claimed` is read off the row's state (whether the asset is published later is
beyond the end of the claim), the shared assets off the node, the announced triggers off
the room and the messages on their way to it.

**Asks** has the `asks` table, the channels the database has as mapped (`mapped`: a
bindings file adds to them and takes none away), one handler and the replies in
the room.
`HandleAsk`, `Search`, `Send`, `Resolve`, `GiveUp` are `executeAsk`; `Boot`,
`Refetch`, `RefetchFails` are the questions' part of `recover`. `addressed` is the set of
questions that mention what this configuration listens to, chosen from `Handles` at each
start (`LoadConfig`). Recovery passes over a pending question whose event is gone, and
one that is no longer a question to this configuration (196); its row stays pending.

**Retrieval** is one question from its words to its answer. A row is an asset's name and
description, of which only the words it contains are kept; each of the queries of
`retrieveEvidence` and `validateCitations` is a step (`Query`, `Validate`), `Rank` is what
`answerGrounded` does between them, and `Move` is the node sharing, publishing or
discarding an asset at any point. `moved` is history: what moved under the question.
The loops of the code are given by what they yield, without recursion, so that the module
can be proved about: `OneOfEachNew` the rows that survive `seen` (any one of an asset's, as
the store returns rows in any order), `Before` and `Leading` the sort, filter and slice. Asks has the outcome of all this as the
choice made by its action `Search`.

**Bindings** is the way from the bindings file to what a handler is allowed to do:
`Edit` (the operator, between runs), `Construct` (parse and load, 40–46), `Status` and
`Probe` (`start`, up to refusal), then the reads of the tables that capture, question
and approval make. Recovery resumes an operation in the graph its row names, in the
file or not; that is why the property speaks of what is done *on an event*.

**Gates** is the two scripts as sequences of checks and calls over one asset. `Die` is
`die`, an exception or the operator's interrupt at any line; `LateCall` a call that
takes effect after its script has given it up. No run knows of an earlier one: each
sees only node and room.

**Delivery** has the cursor, the connection, the queue, and a clock with a date on
every event. There are two subscriptions (`Subs`: messages 136, reactions 142), and each
event matches one (`KindOf`). `Start` is `start` with its catch-up. `Subscribe` fixes
`since`, the date both are sent with again at every connection. `Link` is the connection:
it sends them and sets off a resync. From there the relay is on its own: it takes up each
of the two when it likes (`Req`: `live`), and sends what is stored for it and what arrives,
one by one and in any order (`coming`, `Send`), so that messages may come before
reactions, newer ones before older ones, live events before replays. The resync waits for
what was queued when it began (`Drained`), queries (`Asked`), and has the answer queued
(`Answered`); only the batch of a catch-up is sorted by date (175). `Handle` is the part of
`handleEvent` before its first await.

Some modules define, above an action or operator, a variant whose comment begins
`(mutant: …)`: the same operator with one plausible bug. No specification uses
them. `PROJECT.json` pairs each property with one under which its run fails.

## 3. Runs

Passing runs (distinct states in parentheses):

| Run | Instance | Shows |
|---|---|---|
| `publication` (1.9 million) | Two operations whose UALs contain one another, three reactions, a budget of one per window, resyncs one at a time; read-backs that fail, messages that land late; restarts with other promoters, another mapping or another mode; a node that moves between two chains | `SpendAccounted`, `WithinBudget`, `UalOnlyIfConfirmed`, `OneVmReceipt`, `AnnouncedWhenDone`, `OnlyTheGateSpends`, `ImplementsSpending` |
| `publication_live` (106 000) | One thread captured twice, late publishes, resyncs that overlap, so that a row may be failed at any point of its publication | `OneSpendPerOp`, `NoStrandedSpend`; `AssetConfirmedOnce`: no asset is confirmed under two operations; `ReservationResolves`: every reservation is resolved, by a later boot if need be |
| `capture` (763 000) | Two captures with overlapping source sets, one resync beside the queue, a deleted source and a deleted trigger, publication, late messages, a node call carried out after its timeout | `ReceiptIsBacked`, `ContentMatchesDigest`, `ForwardOnly`, `ImplementsReceipting` |
| `capture_live` (5 700) | Two captures of one asset, one resync at a time, errors of the relay final | `OneReceipt`; `Settles`: a claimed capture ends |
| `asks` (437 000) | Two questions of one author, one search allowed per window; redelivery, deletion, late replies, crashes, a channel that a later bindings file maps, a mention handle that changes | `OneReplyPerLife`, `AnsweredIsPosted`, `FloodBounded`, `ResolvedIsFinal`, `AsksResolve` |
| `retrieval` (596 000) | Five rows of four assets in two rooms, one asset with two descriptions; questions of up to three words, one of them specific; a limit of three rows and two citations | `AnswerIsGrounded`, `CitedOnce`, `CitesTheBest`, `AnswerableIsAnswered` |
| `bindings` (1.8 million) | Seven files over two channels, two graphs and two promoters (one written as an npub), three of which do not parse; graphs that come and go; a mode that requires a chain | `TablesFollowFile`, `EventsStayInFile` |
| `gates` (2 200) | Any number of runs of both scripts, receipts and payments counted to two | `ReceiptsAreTrue`, `OneReceiptEach`, `PaidOnce` |
| `delivery` (143 000) | A message and a reaction, dated up to a tick ahead of or behind their arrival, an overlap of two; replays in any order and beside live events, outages, failed catch-ups, resyncs, failing handlers, crashes | `ReachKept`, `Heard` |

Every passing run but those named `_live` also checks the `TypeOK` of its module.

Runs that must find a violation. Each states what the repository says of itself,
and is a *finding* of `PROJECT.json`, where the line is quoted:

| Run | What the code does |
|---|---|
| `publication_overlap` | A resync that read an operation as `distilled` before another one finished it fails the row after the gate has reserved the spend (310): the call is in no account, is no longer counted by the budget, and its outcome cannot be recorded. The comment at 145–150 and the title of the test at hardening.test.ts:366 say that resync leaves such rows alone. |
| `retrieval_starved` | The sufficiency gate looks at the row with the most terms (grounded.ts:192). A row with one ordinary word, ranked before a row with one specific word, has the question refused although the second passes the gate. |
| `delivery_replay` | After a time without a connection longer than the overlap the messages are replayed before the reactions (136, 142). Handling a message moves the cursor past a reaction the relay has still to send; if the process dies then, no catch-up or subscription reaches back to it (165). |

The passing runs state the premises under which the same properties do hold.
Both runs of Capture have one resync, `capture_live` also no late messages; with two
resyncs, as after two reconnections in a row (152), both find no receipt of a parked
operation and both post one, against DESIGN.md:32 ("one trigger → one KA → one receipt").
`publication` excludes overlapping resyncs, `publication_live` does not. `delivery` has the
premise in the property: `Prompt` says that while the daemon serves, no stored
event stays unheard for longer than `Gap`. The code does not see to it. It holds while
outages, and the time from the start's catch-up to the relay's answers, are shorter than
the overlap less the lead and lag of the dates; it fails after a longer outage (then the
reconnection is `delivery_replay`), and when the catch-up of a start fails after a longer
downtime. The bounds on the dates are a premise, too: the clamp of line 214 allows a lead of
300 s, and an event dated ahead by more than the overlap of 60 s moves the cursor past what
the next catch-up and subscriptions reach back to, so that `Replayed` fails without any
outage. `Prompt` is about hearing, not handling: how long an event waits in the queue does
not matter.

Where a property has an exception, the exception is code behaviour a maintainer may want to
change:

* `OneVmReceipt` excepts a room that could not be read or was answered late: a failed
  read-back counts as "no receipt" (631), and the receipt is posted a second time.
* `AnnouncedWhenDone` excepts an asset whose UAL is contained in another's: `.../1` is
  found in the receipt of `.../12` (632), and its own is never posted.
* `Settles` excepts an operation whose whole source set was deleted: the distiller
  throws before the digest comparison (304), so it is retried for ever and never
  failed, which DESIGN.md:60-61 says it is.
* `AsksResolve` excepts a question whose event was deleted and one that mentions a handle the
  daemon no longer listens to: recovery passes both over (187–202), and nothing else
  resolves their rows.
* `AsksResolve` and every other liveness property ask that the daemon stays up: a relay
  error while a pending question is fetched (189) aborts `start`, although 115-116 says
  a relay hiccup must not.
* `PaidOnce` excepts an attempt that was given up: SPEC.md:239 authorises one attempt,
  but the second run sees only the node. Check 6 of D3 prints "no prior D3 attempt
  recorded" on the strength of the descriptor, and the intent that line 90 writes is
  read by nothing.
* A publish whose answer was lost is filed as unconfirmed although the node shows the
  asset published. DESIGN.md:49-50 has it read back and recovered; the comment at
  546-552 explains why the code does not.

Behaviour the models contain and no run reports: a spend after the node moved to
another chain (the chain is read once, at boot, 495); a receipt that lands after the
retry has searched for it; the reply repeated after a crash (admitted by
`OneReplyPerLife`, which excepts recovered questions); a budget exceeded because a
failed row is no longer counted (the same cause as `publication_overlap`).

## 4. Bounds, and why they are enough

* *Publication*: two operations because every conflict (budget, shared asset) is
  between two; two reactions on the first because approvals compete. One tick is the
  window, so that a spend can leave it and a second one follow; the budget of one
  makes the second be refused before. `MaxPosts = 2`: "more than one" is all the
  properties tell apart. The three configurations differ in each way the gate may
  find itself changed: promoters, mapping, mode. `publication_live`
  differs in that the operations share one asset instead of having one each, with one UAL
  within the other; in its two configurations, of which one does not publish; in a room that
  can be read and a node that stays; and in the resyncs that overlap. Which records a resync lists, and when it comes to them, is not bounded.
* *Capture*: a thread of two messages, one in both source sets, so that source sets
  may change, coincide or become empty; one resync beside the queue. The read-back's up to four attempts are one. `MaxLate` is one in
  `capture`, so that one timed-out call of the node may still come, at any time and in any
  life; in `capture_live` a timed-out call is carried out at once or never.
* *Asks*: two questions, one search per window of one tick, so that the second is
  refused before and allowed after; the second channel is mapped by one of the two
  bindings files, and one of the two handles is mentioned by one question only.
* *Retrieval*: a limit of three under four rows that match, so that the store can
  withhold one, and more sufficient rows than citations; an asset with two
  descriptions, because only then can one layer yield it twice; one asset in another
  room. Three words, one specific, give every verdict of the gate.
* *Bindings*: a file that drops a channel, one that binds it anew, one that replaces its
  promoter and one that lists both channels, as anything an earlier file leaves behind
  needs two files; one decision per channel.
* *Gates*: two receipts and two payments, "more than one" being all that is told apart.
  The number of runs is not bounded.
* *Delivery*: two events, one for each subscription, as what is lost is a pair: one that
  moves the cursor and one it moves past. (Three events, 2.8 million states, showed the
  same of `ReachKept`, as did a clock of three ticks.) One tick is half the overlap (60 s):
  `Lag`, `Ahead` and `Gap` of one tick are as much as the premise allows, and with one tick
  more of `Gap`, or of `Lag`, the property fails, which a clock of two ticks suffices to
  show. In `delivery_replay` the tick is the overlap. The skew of 300 s is five overlaps.

For safety the bounds only matter to the runs: the theorems of
section 6 hold for every value of the constants. No run uses symmetry.
Deadlock is checked in every run: a stopped daemon can always be started.

## 5. Fairness

* Continuations and awaited calls are weakly fair: each request has a timeout (15 s
  relay, 30 s node, 180 s publish), and nothing blocks the event loop.
* Boot is fair: `docker-compose.integration.yml` has `restart: unless-stopped`. In
  Publication it is strongly fair together with recovery, i.e. not every life ends
  before recovery has reached the operation; the other modules state
  `<>[](phase # "down") => …`.
* Resync is strongly fair in Capture: it runs at every reconnection, and the
  assumption is that the connection is renewed now and then while work is parked.
  Without a reconnection nothing retries before the next boot.
* A call that is made again and again succeeds at some point (`Succeeds`,
  `SeenPromoted` in Capture, `SF_vars(Finish)` in Delivery). Not every connection drops
  before the relay has taken up a subscription and sent an event on it (`SF_vars(Req(k))`,
  `SF_vars(Send(e))` in Delivery). No other remote effect is assumed.

## 6. Proofs

All theorems hold for every value of the constants that satisfies the module's
`ConstantsAssumption` (sets of operations, reactions, questions, events are finite,
constant functions have their types, sentinels are not elements, numbers are
numbers), and for all faults the module has.

**Publication** (`PublicationProofs`): `TypeCorrect`, `Inductive`, `OneSpend`,
`SpendsAreAccounted`, `SpendsAreApproved`, `BudgetHolds`, `AnnouncedIsConfirmed`,
`ReceiptsAreSingle`, `ClosedIsAnnounced`, `ConfirmedOnce`, `NoneStranded`, `GateOnly`,
`OnlyFailedEscape`. None of the properties is inductive alone. `IInv` adds what
the handler knows:

* `HandlerInv`: while the handler is in the gate, the row is in the state the handler read,
  or a resync beside another has failed it meanwhile. The first makes the decision, taken
  on `w.seen`, a decision on the row; in the second the reservation is refused.
* `OverlapInv`: without overlapping resyncs no row is failed once its capture is through.
* `LedgerInv`: at most one call; once called, the state is one that counts, or `failed`; the
  approval consumed is one for this operation, and the row's stamp is not older than
  the call.
* `ConfirmationInv`: a UAL in the room, or on its way, belongs to a row that a
  confirmed answer moved (and that may have been failed since).
* `ReservationInv`: a reserved row is in the handler's hands or on recovery's list.
* `BudgetInv`: from the check to the reservation the budget stays open. The clock
  may pass meanwhile, which can only empty the window (`FewerCount`); and where resyncs do not
  overlap every call in the window is a counted row (`CallsAreCounted`, the step at which
  "the stamp is never older than the call" is needed).

* `RoomInv`: a receipt in the room, or a post about to be made, is accounted for by the
  row or by `doubted`; a row is closed only after its UAL was found or posted.
* `AssetInv`: a confirmed asset has left shared memory, so from the descriptor read on
  no operation of the asset in hand is confirmed; there is one handler, so none can be
  confirmed meanwhile. (A late effect may be, but it was filed as unconfirmed.)

Three results need `~ResyncsOverlap` and say so in their `ASSUME`: `SpendsAreAccounted`,
`BudgetHolds` and the refinement of Spending. `publication_overlap` shows what happens without it, and
nothing in `resync` (152) establishes it. All others hold with and without it; `OnlyFailedEscape` bounds
the damage: an operation that was called is in the accounts or `failed`, and no other state
lets it escape.

`SpendApproved` (every call rests on a consumed approval of its own receipt) is proved and
not run by itself: the token of Spending says it with more. There is one lemma per part
with one step per action. `GateOnly` is an action property: it follows from `IInv` step
by step.

`SpendingProofs`: `Implementation`, the refinement of Spending, for resyncs that do not
overlap. Every action of
Publication is a step of the abstract ledger or leaves its four variables alone;
`IInv` supplies what the abstract guards ask for (the reaction is claimed and of this
operation when the row is reserved, the row is open when the node confirms, and so on).

**Capture** (`CaptureProofs`), for any number of triggers, sources and resyncs:
`TypesHold`, `NamesAreDigests`, `ReceiptsAreBacked`. `CInv` says what a worker's job
rests on: what is about to be written is what the digest was taken over (`WriteInv`),
hence the node's content (`NodeInv`), and so is what a late call of the node is still to
write (`LateInv`); what has been verified stays shared
(`PostInv`, `RoomInv`), as nothing in the daemon takes an asset back. The other three
need the premise `AtMostOneResync`, which the code does not establish (152): under it `OneHandEach` proves that no operation is in two hands and no
record in hand is stale, from which follow `FailedStaysSilent`, `NeverBack` and, with
`~SlowPosts` (no message lands after its sender gave it up), `ReceiptedOnce`.

`Implementation` is the refinement of Receipting, under the same premise. It needs two
invariants more. `PostedInv`: a worker that is to close a row has its receipt in the room.
`ShareInv`: an asset that may still be shared, by a worker or by a late call, has a claim
whose thread was found as digested, and a claim that was closed has shared it before.
That a failing operation was never announced, which `GiveUp` asks for, comes from `XInv`:
nobody else has posted for the row in hand meanwhile. It is the guard that overlapping resyncs
break.

**Asks** (`AsksProofs`): `TypeCorrect`, `Inductive`, `WorkStaysPending`,
`RepliesAreSingle`, `AnswersArePosted`, `LimitHolds`, `ResolutionIsFinal`. Everything
rests on the claim. `WorkInv`: what is in hand is a pending row and no longer on
recovery's list. `ReplyInv`: a question without a row was never replied to, and one
about to be replied to for the first time was not before. `LimitInv`: what was
searched is claimed, and no claim is dated ahead, so a claim's own count of the
window covers every search the property counts.

`NoneIsForgotten` is the safety half of `AsksResolve`: while the daemon serves, a pending
question is the one in hand, or recovery passed it over. `PendingInv` carries it through
recovery, whose list holds what the lives before left pending. What is passed over are the
exceptions of the code: `recover` finds no event (187–202), or one that is no longer a
question to this configuration (196), and nothing resolves the row.

**Delivery** (`DeliveryProofs`), for any number of events and resyncs, replays in any order:
`TypeCorrect` and `SubscriptionsCatchUp` without a premise; `Inductive`,
`NothingLeftBehind` and `RestIsCaughtUp` under `Premise`, for the behaviours in which events
are heard promptly (`[]Prompt`).

`SubscriptionsCatchUp` says what the two subscriptions give by themselves: once both are
answered, the relay has sent what it had and the queue is empty, every stored event from the
date they began at is handled or given up. `SubInv` is what makes it so: an unheard event
that an answered subscription covers is on its way. What began before that date is the
catch-up's business, hence the cursor's, and there the premise comes in.

`Premise` is `Gap + Ahead <= Overlap` and `Lag + Ahead <= Overlap`: the catch-up reaches back
over the time an event may go unheard, and over the time by which it may be dated late,
each with the lead that dates may have on the clock. Both are exact: with one tick more
of either the model checker finds an event behind the cursor. Nothing is assumed of the order
in which the relay sends. The clamp of line 214 is not in it. An
event dated ahead that waits in the queue until the clock has caught up with its date is
not clamped, so lowering `CURSOR_SKEW_S` to the overlap would not be enough; only the
overlap counts.

That `WithinReach` holds is not a property of the cursor alone, since handling an event
moves it to a date another event put in the queue. `OrderInv` says what the queue adds:
whatever is still to be handled, behind an event in the queue or not heard of yet, is dated at
most the overlap before that event. `DateInv`: cursor and dates are no further ahead of the
clock than an event may be dated, subscriptions begin no later than the next catch-up would.
`QueueInv` and `PhaseInv`: queue and resyncs hold stored events, and only a process that
serves is connected. `RestIsCaughtUp` is the safety half of `Heard`: a daemon at rest has
handled, or given up on, every event stored.

**Retrieval** (`RetrievalProofs`), for any rows, assets, words, questions and limits:
`TypesHold`, `AnswersAreGrounded`, `CitationsAreSingle`, `TheBestIsCited`,
`AnswerableIsNotRefused`, `OnlySinglesStarve`. `IInv` has a part for each stage:

* `OutInv`: the evidence is of the asked room, each asset once, each still in the layer it
  was found in unless it moved, and in the first pass with two terms.
* `SeenInv`: while nothing is retrieved, no row of an asset that stayed in its place
  matches in the layers already looked at; once the fallback is on, none has two terms.
* `CitedInv`: the citations are the leading sufficient places of the evidence; every look
  so far found its citation in place; a refusal after a look means that an asset moved, a
  refusal before one that nothing kept has two terms.

The lemmas say what the operators yield: a list of a finite set has its elements once
(`ListOfSet`), what the leading places are (`LeadingProperties`), and that a best place
exists (`BestExists`, by `LeastNatural`, from the library's well-foundedness of `<`).
The last clause of `CitedInv` is `OnlySinglesStarve`: it bounds the finding of
`retrieval_starved`. The gate can refuse a question over evidence that would pass it, but
only when none of that evidence has more than one term.

**Bindings** (`BindingsProofs`): `TypesHold`, `FileRules`, `EventsInFile`. A running process
has the file it was started with (`FileInv`), the tables say the same of its channels
(`TableInv`, by the loop of `loadBindings` over a file in which no channel occurs
twice), and every graph probed was found (`ProbeInv`); questions in hand while serving
are of the file's channels (`AskInv`).

**Gates** (`GatesProofs`): `TypesHold`, `ReceiptsHold`, `ReceiptsAreFew`, `PaymentsAreFew`.
`PlaceInv` ties each script's position to what it has seen to; `PaidInv` says that
without an outlived call nothing was paid that the descriptor does not show, which is
all the second run goes by.

Only model-checked: liveness (`ReservationResolves`, `Settles`, `AsksResolve`, `Heard`),
which depends on fairness and `ENABLED` and is outside the prover's reach; and
`SufficientIsAnswered` and `Replayed`, which the code violates. Two of the four have their safety half
proved (`NoneIsForgotten`, `RestIsCaughtUp`), and `NoneStranded` is that of the first.

## 7. Not modelled

* Text: notices, help, receipts' wording; the quads an asset consists of (a function
  of its source set); signing, HTTP routes, JSON.
* Trigger detection, the parsing of receipts, and of settings other than the bindings
  file. Queries' text: which rows a filter matches is given by words, not substrings.
* That the node's name for an asset is a shortened digest, which may collide. Digests
  are identities here; of UALs only which contains which is kept.
* The notices a refusal posts: nothing reads them back.
* The assertion graph a receipt names: nothing reads it back.
* In Delivery, redelivery of handled events (the claims of the other modules absorb
  it) and second copies of queued ones.
* In Gates, the balances and the quote of D3 (logged, never compared), and the steps of
  `acceptance.mjs`, which drives a test deployment through the daemon's behaviour.
* Everything else outside the daemon: attestation, viewer, demo, feasibility bridge,
  ontology and deployment files.

## 8. Plan

1. `Capture` and `Publication` composed: the receipt in the room and the row as
   separate facts, so that the ✅ that arrives between them (409) is dropped as in the
   code; a thread fetch that fails before the claim (243) and is
   repaired by a later delivery.
2. The node's publish route taken apart: which chain a spend goes to after the node
   moved (495).
3. Trigger detection and the receipt grammar as operators against reference definitions.
