-------------------------------- MODULE Gates -------------------------------
(***************************************************************************)
(* The two scripts that put the one production asset on the network: D2    *)
(* shares it and posts a receipt, D3 publishes it, at a price, and posts   *)
(* another.  Each is run by hand, may die at any line, and may be run      *)
(* again; neither reads anything an earlier run wrote down, only what the  *)
(* node and the room show.  Calls to the node time out and may take effect *)
(* after that.                                                             *)
(***************************************************************************)
EXTENDS Naturals, Sequences

CONSTANTS MaxPosts       \* bound: receipts, and payments, told apart

ASSUME ConstantsAssumption == MaxPosts \in Nat \ {0}

VARIABLES
    script, pc, answer,  \* the script running: where it is, vm/publish's answer
    ka, late,            \* the node: state of the asset, calls given up on
    drifted, reacted,    \* the room: the thread changed; a promoter approved
    swmPosts, vmPosts,   \* receipts in it
    paid, outlived       \* history: effects of vm/publish; whether one came, or
                         \* may come, after its script gave it up

procVars == <<script, pc, answer>>
nodeVars == <<ka, late, paid, outlived>>
roomVars == <<drifted, reacted, swmPosts, vmPosts>>
vars == <<procVars, nodeVars, roomVars>>

Lifecycle == <<"create", "write", "finalize", "share">>
Calls == {"create", "write", "finalize", "share", "publish"}

Init ==
    /\ script = "none" /\ pc = "end" /\ answer = "none"
    /\ ka = "none" /\ late = {} /\ paid = 0 /\ outlived = FALSE
    /\ drifted = FALSE /\ reacted = FALSE /\ swmPosts = 0 /\ vmPosts = 0

\* MaxPosts stands for that many or more.
OneMore(n) == IF n < MaxPosts THEN n + 1 ELSE n

-----------------------------------------------------------------------------
(* The node.                                                               *)

\* States of the asset a call works on, and the one it leaves it in.
Accepts(c) ==
    CASE c = "create"   -> TRUE
      [] c = "write"    -> ka \notin {"none", "discarded"}
      [] c = "finalize" -> ka \in {"written", "sealed"}
      [] c = "share"    -> ka \in {"sealed", "promoted"}
      [] c = "publish"  -> ka \in {"promoted", "published"}
After(c) ==
    CASE c = "create" /\ ka \in {"none", "discarded"} -> "created"
      [] c = "write" /\ ka = "created"                -> "written"
      [] c = "finalize" /\ ka = "written"             -> "sealed"
      [] c = "share" /\ ka = "sealed"                 -> "promoted"
      [] c = "publish"                                -> "published"
      [] OTHER                                        -> ka

TakesEffect(c) ==
    /\ Accepts(c) /\ ka' = After(c)
    /\ paid' = IF c = "publish" THEN OneMore(paid) ELSE paid

LateCall(c) ==
    /\ c \in late /\ late' = late \ {c}
    /\ TakesEffect(c) \/ UNCHANGED <<ka, paid>>
    /\ UNCHANGED <<procVars, outlived, roomVars>>

\* The operator throws a draft away.
Discard ==
    /\ ka \in {"created", "written", "sealed"} /\ ka' = "discarded"
    /\ UNCHANGED <<procVars, late, paid, outlived, roomVars>>

\* A message is added to the thread, or taken out of it; a promoter reacts.
Drift == drifted' = ~drifted /\ UNCHANGED <<procVars, nodeVars, reacted, swmPosts, vmPosts>>
React ==
    /\ swmPosts > 0 /\ reacted' = TRUE
    /\ UNCHANGED <<procVars, nodeVars, drifted, swmPosts, vmPosts>>

-----------------------------------------------------------------------------
(* What the scripts have in common.                                        *)

\* die, an exception nobody catches, or the operator's interrupt.
Die ==
    /\ script # "none" /\ script' = "none" /\ pc' = "end" /\ answer' = "none"
    /\ outlived' = (outlived \/ pc = "publish")
    /\ late' \in IF pc \in Calls THEN {late, late \cup {pc}} ELSE {late}
    /\ UNCHANGED <<ka, paid, roomVars>>

Goto(to) == pc' = to /\ UNCHANGED <<script, answer>>
End == script' = "none" /\ pc' = "end" /\ answer' = "none"

\* A read at pc, that lets the script go on (dying is Die's).
Check(at, passes, to) == pc = at /\ passes /\ Goto(to) /\ UNCHANGED <<nodeVars, roomVars>>

-----------------------------------------------------------------------------
(* D2.                                                                     *)

\* (mutant: an asset of that name is no obstacle)
StartD2Anyway ==
    /\ script = "none" /\ script' = "D2" /\ pc' = "thread" /\ UNCHANGED answer
    /\ UNCHANGED <<nodeVars, roomVars>>
\* Chain, graph, wallet, and the name: taken, unless it was discarded, it is not
\* taken a second time.
StartD2 ==
    /\ script = "none" /\ ka \in {"none", "discarded"}
    /\ script' = "D2" /\ pc' = "thread" /\ UNCHANGED answer
    /\ UNCHANGED <<nodeVars, roomVars>>

\* The payload is the approved one, and so is the thread's digest.
ReadThread == Check("thread", ~drifted, "create")

\* create, write, finalize, share, in one try: the first that fails, having taken
\* effect, taking it later, or not, leads to the read-back.
Step(i) ==
    LET c == Lifecycle[i] IN
    /\ pc = c
    /\ \/ /\ TakesEffect(c) /\ UNCHANGED late
          /\ Goto(IF i < Len(Lifecycle) THEN Lifecycle[i + 1] ELSE "verify") \/ Goto("recheck")
       \/ /\ Goto("recheck") /\ late' \in {late, late \cup {c}}
          /\ UNCHANGED <<ka, paid>>
    /\ UNCHANGED <<outlived, roomVars>>

\* (mutant: after a failure the receipt is posted on the strength of the attempt)
RecheckNothing == Check("recheck", TRUE, "post")
\* After a failure only an asset that is promoted is a success.
Recheck == Check("recheck", ka = "promoted", "verify")

\* The descriptor, then the scoped query for the digest.
Verify == Check("verify", ka = "promoted", "query")
Query == Check("query", ka = "promoted", "post")

\* The receipt: posted, and the answer may be lost; or not posted.
Post ==
    /\ pc = "post" /\ End
    /\ swmPosts' \in {swmPosts, OneMore(swmPosts)}
    /\ UNCHANGED <<nodeVars, drifted, reacted, vmPosts>>

-----------------------------------------------------------------------------
(* D3.                                                                     *)

\* (mutant: the descriptor need not be readable)
StartD3Blind ==
    /\ script = "none" /\ swmPosts > 0 /\ reacted
    /\ script' = "D3" /\ pc' = "publish" /\ UNCHANGED answer
    /\ UNCHANGED <<nodeVars, roomVars>>
\* The nine checks: a promoter's reaction to D2's receipt, the asset shared and
\* not published.  The intent is written to a file.
StartD3 ==
    /\ script = "none" /\ swmPosts > 0 /\ reacted /\ ka = "promoted"
    /\ script' = "D3" /\ pc' = "publish" /\ UNCHANGED answer
    /\ UNCHANGED <<nodeVars, roomVars>>

\* (mutant: an answer that is neither is taken as it comes)
AnswersVerbatim == {"ual", "bare", "error", "timeout"}
Answers == {"ual", "bare", "error"}

\* The one attempt: with a UAL, without one, or in error, and with its effect on
\* the chain now, later, or never.
Publish ==
    /\ pc = "publish" /\ pc' = "after" /\ UNCHANGED script
    /\ answer' \in Answers
    /\ \/ TakesEffect("publish") /\ UNCHANGED <<late, outlived>>
       \/ UNCHANGED <<late, outlived, ka, paid>>
       \/ late' = late \cup {"publish"} /\ outlived' = TRUE /\ UNCHANGED <<ka, paid>>
    /\ UNCHANGED roomVars

\* A UAL, a descriptor that says published, and the asset in the scoped view of
\* verifiable memory.
Confirmed == answer = "ual" /\ ka = "published"

\* The read-back, whatever the answer; anything short of confirmed stops.  A
\* read that fails counts as not published.
Classify ==
    /\ pc = "after"
    /\ (Confirmed /\ Goto("record")) \/ End
    /\ UNCHANGED <<nodeVars, roomVars>>

\* Balances are read for the record, then the receipt is posted, or not.
PostVm ==
    /\ pc = "record" /\ End
    /\ vmPosts' \in {vmPosts, OneMore(vmPosts)}
    /\ UNCHANGED <<nodeVars, drifted, reacted, swmPosts>>

Next ==
    \/ \E c \in Calls : LateCall(c)
    \/ Discard \/ Drift \/ React \/ Die
    \/ StartD2 \/ ReadThread \/ Recheck \/ Verify \/ Query \/ Post
    \/ \E i \in DOMAIN Lifecycle : Step(i)
    \/ StartD3 \/ Publish \/ Classify \/ PostVm

Spec == Init /\ [][Next]_vars

-----------------------------------------------------------------------------
(* Properties.                                                             *)

\* Types of all variables.
TypeOK ==
    /\ script \in {"none", "D2", "D3"} /\ answer \in {"none", "ual", "bare", "error"}
    /\ pc \in Calls \cup {"end", "thread", "recheck", "verify", "query", "post", "after", "record"}
    /\ ka \in {"none", "created", "written", "sealed", "promoted", "published", "discarded"}
    /\ late \subseteq Calls /\ paid \in 0 .. MaxPosts /\ outlived \in BOOLEAN
    /\ drifted \in BOOLEAN /\ reacted \in BOOLEAN
    /\ swmPosts \in 0 .. MaxPosts /\ vmPosts \in 0 .. MaxPosts

\* Over all runs of the scripts, and with every call's effect at its own time,
\* a receipt in the room is true: the asset is shared, or published.
ReceiptsAreTrue ==
    /\ swmPosts > 0 => ka \in {"promoted", "published"}
    /\ vmPosts > 0 => ka = "published" /\ reacted /\ paid > 0

\* However often they are run, and wherever a run died, D2 and D3 leave at most
\* one receipt each.
OneReceiptEach == swmPosts <= 1 /\ vmPosts <= 1

\* The approved publication is paid for once - unless a call outlived the attempt
\* that made it: a further run, for which the node still shows the asset shared,
\* then pays again (no attempt leaves a trace that the next one reads).
PaidOnce == paid > 1 => outlived
=============================================================================
