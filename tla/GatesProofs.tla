----------------------------- MODULE GatesProofs ----------------------------
(***************************************************************************)
(* What the two gate scripts leave behind, for any number of runs of them, *)
(* and any bound on the receipts and payments told apart.                  *)
(***************************************************************************)
EXTENDS Gates, TLAPS

D2Pcs == {"thread", "create", "write", "finalize", "share", "recheck", "verify", "query", "post"}
D3Pcs == {"publish", "after", "record"}

Shared == ka \in {"promoted", "published"}

\* Which script is where, and what it has seen to.
PlaceInv ==
    /\ script = "none" => pc = "end"
    /\ script = "D2" => pc \in D2Pcs /\ swmPosts = 0
    /\ script = "D3" => pc \in D3Pcs /\ reacted /\ vmPosts = 0
    /\ pc \in {"query", "post"} => Shared
    /\ pc = "record" => ka = "published"

\* What a receipt stands for, and that there is one at most.
RoomInv ==
    /\ swmPosts <= 1 /\ vmPosts <= 1
    /\ swmPosts > 0 => Shared
    /\ vmPosts > 0 => ka = "published" /\ reacted

\* What was paid, and what may yet be.
PaidInv ==
    /\ paid > 0 <=> ka = "published"
    /\ ~outlived => /\ paid <= 1 /\ "publish" \notin late
                    /\ ~(pc = "publish" /\ ka = "published")

GInv == TypeOK /\ PlaceInv /\ RoomInv /\ PaidInv

LEMMA OneMoreTyped ==
    ASSUME NEW n \in 0 .. MaxPosts
    PROVE  OneMore(n) \in 0 .. MaxPosts /\ OneMore(n) > 0 /\ OneMore(n) <= n + 1
BY ConstantsAssumption DEF OneMore

\* The effect of a call other than publish: paid stays, and shared stays shared.
LEMMA EffectOfCall ==
    ASSUME GInv, NEW c \in Calls, c # "publish", TakesEffect(c)
    PROVE  /\ ka' \in {"none", "created", "written", "sealed", "promoted", "published", "discarded"}
           /\ paid' = paid
           /\ Shared => ka' = ka
           /\ ka' = "published" => ka = "published"
BY DEF GInv, TypeOK, TakesEffect, Accepts, After, Calls, Shared

LEMMA EffectOfPublish ==
    ASSUME GInv, TakesEffect("publish")
    PROVE  Shared /\ ka' = "published" /\ paid' \in 0 .. MaxPosts /\ paid' > 0 /\ paid' <= paid + 1
<1>1. paid \in 0 .. MaxPosts /\ paid' = OneMore(paid) BY DEF GInv, TypeOK, TakesEffect
<1>2. Shared /\ ka' = "published" BY DEF TakesEffect, Accepts, After, Shared
<1> QED BY <1>1, <1>2, OneMoreTyped

LEMMA LateCallStep == ASSUME GInv, NEW c \in Calls, LateCall(c) PROVE GInv'
<1>1. /\ c \in late /\ late' = late \ {c}
      /\ UNCHANGED <<script, pc, answer, outlived, drifted, reacted, swmPosts, vmPosts>>
  BY DEF LateCall, procVars, roomVars
<1>2. CASE UNCHANGED <<ka, paid>>
  BY <1>1, <1>2 DEF GInv, TypeOK, PlaceInv, RoomInv, PaidInv, Shared
<1>3. CASE c # "publish" /\ TakesEffect(c)
  BY <1>1, <1>3, EffectOfCall DEF GInv, TypeOK, PlaceInv, RoomInv, PaidInv, Shared
<1>4. CASE c = "publish" /\ TakesEffect(c)
  <2>1. outlived BY <1>1, <1>4 DEF GInv, PaidInv
  <2> QED BY <1>1, <1>4, <2>1, EffectOfPublish DEF GInv, TypeOK, PlaceInv, RoomInv, PaidInv, Shared
<1> QED BY <1>2, <1>3, <1>4 DEF LateCall

LEMMA RoomStep == ASSUME GInv, Discard \/ Drift \/ React PROVE GInv'
<1>1. CASE Discard
  <2>1. /\ ka \in {"created", "written", "sealed"} /\ ka' = "discarded"
        /\ UNCHANGED <<script, pc, answer, late, paid, outlived, drifted, reacted, swmPosts, vmPosts>>
    BY <1>1 DEF Discard, procVars, roomVars
  <2> QED BY <2>1 DEF GInv, TypeOK, PlaceInv, RoomInv, PaidInv, Shared
<1>2. CASE Drift \/ React
  <2>1. /\ drifted' \in BOOLEAN /\ reacted' \in BOOLEAN /\ (reacted => reacted')
        /\ UNCHANGED <<script, pc, answer, ka, late, paid, outlived, swmPosts, vmPosts>>
    BY <1>2 DEF Drift, React, procVars, nodeVars, GInv, TypeOK
  <2> QED BY <2>1 DEF GInv, TypeOK, PlaceInv, RoomInv, PaidInv, Shared
<1> QED BY <1>1, <1>2

LEMMA DieStep == ASSUME GInv, Die PROVE GInv'
<1>1. /\ script' = "none" /\ pc' = "end" /\ answer' = "none"
      /\ outlived' = (outlived \/ pc = "publish")
      /\ late' = late \/ (pc \in Calls /\ late' = late \cup {pc})
      /\ UNCHANGED <<ka, paid, drifted, reacted, swmPosts, vmPosts>>
  BY DEF Die, roomVars
<1>2. TypeOK' BY <1>1 DEF GInv, TypeOK
<1>3. PlaceInv' /\ RoomInv' BY <1>1 DEF GInv, PlaceInv, RoomInv, Shared
<1>4. PaidInv' BY <1>1 DEF GInv, PaidInv
<1> QED BY <1>2, <1>3, <1>4 DEF GInv

\* D2 begins only while nothing is shared, hence before any receipt.
LEMMA StartD2Step == ASSUME GInv, StartD2 PROVE GInv'
<1>1. /\ ka \in {"none", "discarded"} /\ script' = "D2" /\ pc' = "thread"
      /\ UNCHANGED <<answer, ka, late, paid, outlived, drifted, reacted, swmPosts, vmPosts>>
  BY DEF StartD2, nodeVars, roomVars
<1>2. swmPosts = 0 BY <1>1 DEF GInv, TypeOK, RoomInv, Shared
<1> QED BY <1>1, <1>2 DEF GInv, TypeOK, PlaceInv, RoomInv, PaidInv, Shared, D2Pcs, Calls

LEMMA CheckStep == ASSUME GInv, ReadThread \/ Recheck \/ Verify \/ Query PROVE GInv'
<1>1. /\ UNCHANGED <<script, answer, ka, late, paid, outlived, drifted, reacted, swmPosts, vmPosts>>
      /\ pc \in D2Pcs /\ pc' \in {"create", "verify", "query", "post"}
      /\ pc' \in {"query", "post"} => Shared
  BY DEF ReadThread, Recheck, Verify, Query, Check, Goto, nodeVars, roomVars, D2Pcs, Shared
<1>2. script = "D2" BY <1>1 DEF GInv, TypeOK, PlaceInv, D2Pcs, D3Pcs
<1> QED BY <1>1, <1>2 DEF GInv, TypeOK, PlaceInv, RoomInv, PaidInv, Shared, D2Pcs, Calls

LEMMA StepStep == ASSUME GInv, NEW i \in DOMAIN Lifecycle, Step(i) PROVE GInv'
<1> DEFINE c == Lifecycle[i]
<1>1. /\ c \in {"create", "write", "finalize", "share"}
      /\ i < Len(Lifecycle) => Lifecycle[i + 1] \in {"write", "finalize", "share"}
  BY DEF Lifecycle
<1>2. pc = c /\ UNCHANGED <<outlived, drifted, reacted, swmPosts, vmPosts>> BY DEF Step, roomVars
<1>3. /\ UNCHANGED <<script, answer>>
      /\ pc' \in {"write", "finalize", "share", "verify", "recheck"}
      /\ \/ TakesEffect(c) /\ UNCHANGED late
         \/ UNCHANGED <<ka, paid>> /\ late' \in {late, late \cup {c}}
  BY <1>1 DEF Step, Goto
<1> HIDE DEF c
<1>4. script = "D2" BY <1>1, <1>2 DEF GInv, TypeOK, PlaceInv, D3Pcs
<1>5. c \in Calls /\ c # "publish" BY <1>1 DEF Calls
<1>6. CASE UNCHANGED <<ka, paid>> /\ late' \in {late, late \cup {c}}
  BY <1>2, <1>3, <1>4, <1>5, <1>6 DEF GInv, TypeOK, PlaceInv, RoomInv, PaidInv, Shared, D2Pcs, Calls
<1>7. CASE TakesEffect(c) /\ UNCHANGED late
  BY <1>2, <1>3, <1>4, <1>5, <1>7, EffectOfCall
  DEF GInv, TypeOK, PlaceInv, RoomInv, PaidInv, Shared, D2Pcs, Calls
<1> QED BY <1>3, <1>6, <1>7

LEMMA PostStep == ASSUME GInv, Post PROVE GInv'
<1>1. /\ pc = "post" /\ script' = "none" /\ pc' = "end" /\ answer' = "none"
      /\ swmPosts' \in {swmPosts, OneMore(swmPosts)}
      /\ UNCHANGED <<ka, late, paid, outlived, drifted, reacted, vmPosts>>
  BY DEF Post, End, nodeVars
<1>2. swmPosts = 0 /\ Shared BY <1>1 DEF GInv, TypeOK, PlaceInv, D2Pcs, D3Pcs
<1>3. 0 \in 0 .. MaxPosts BY ConstantsAssumption
<1>4. swmPosts' \in 0 .. MaxPosts /\ swmPosts' <= 1 BY <1>1, <1>2, <1>3, OneMoreTyped
<1> QED BY <1>1, <1>2, <1>4 DEF GInv, TypeOK, PlaceInv, RoomInv, PaidInv, Shared

\* D3 begins only while the asset is shared and not published, hence before any
\* receipt of its own.
LEMMA StartD3Step == ASSUME GInv, StartD3 PROVE GInv'
<1>1. /\ reacted /\ ka = "promoted" /\ script' = "D3" /\ pc' = "publish"
      /\ UNCHANGED <<answer, ka, late, paid, outlived, drifted, reacted, swmPosts, vmPosts>>
  BY DEF StartD3, nodeVars, roomVars
<1>2. vmPosts = 0 BY <1>1 DEF GInv, TypeOK, RoomInv
<1> QED BY <1>1, <1>2 DEF GInv, TypeOK, PlaceInv, RoomInv, PaidInv, Shared, D3Pcs, Calls

LEMMA PublishStep == ASSUME GInv, Publish PROVE GInv'
<1>1. /\ pc = "publish" /\ pc' = "after" /\ answer' \in {"ual", "bare", "error"}
      /\ UNCHANGED <<script, drifted, reacted, swmPosts, vmPosts>>
  BY DEF Publish, Answers, roomVars
<1>2. script = "D3" BY <1>1 DEF GInv, TypeOK, PlaceInv, D2Pcs
<1>3. CASE TakesEffect("publish") /\ UNCHANGED <<late, outlived>>
  <2>1. Shared /\ ka' = "published" /\ paid' \in 0 .. MaxPosts /\ paid' > 0 /\ paid' <= paid + 1
    BY <1>3, EffectOfPublish
  <2>2. ~outlived => paid = 0 BY <1>1 DEF GInv, TypeOK, PaidInv
  <2> QED BY <1>1, <1>2, <1>3, <2>1, <2>2
          DEF GInv, TypeOK, PlaceInv, RoomInv, PaidInv, Shared, D3Pcs
<1>4. CASE UNCHANGED <<late, outlived, ka, paid>>
  BY <1>1, <1>2, <1>4 DEF GInv, TypeOK, PlaceInv, RoomInv, PaidInv, Shared, D3Pcs
<1>5. CASE late' = late \cup {"publish"} /\ outlived' = TRUE /\ UNCHANGED <<ka, paid>>
  BY <1>1, <1>2, <1>5 DEF GInv, TypeOK, PlaceInv, RoomInv, PaidInv, Shared, D3Pcs, Calls
<1> QED BY <1>3, <1>4, <1>5 DEF Publish

LEMMA ClassifyStep == ASSUME GInv, Classify PROVE GInv'
<1>1. UNCHANGED <<ka, late, paid, outlived, drifted, reacted, swmPosts, vmPosts>> /\ pc = "after"
  BY DEF Classify, nodeVars, roomVars
<1>2. script = "D3" BY <1>1 DEF GInv, TypeOK, PlaceInv, D2Pcs
<1>3. CASE Confirmed /\ Goto("record")
  BY <1>1, <1>2, <1>3 DEF Confirmed, Goto, GInv, TypeOK, PlaceInv, RoomInv, PaidInv, Shared, D3Pcs
<1>4. CASE End
  BY <1>1, <1>4 DEF End, GInv, TypeOK, PlaceInv, RoomInv, PaidInv, Shared
<1> QED BY <1>3, <1>4 DEF Classify

LEMMA PostVmStep == ASSUME GInv, PostVm PROVE GInv'
<1>1. /\ pc = "record" /\ script' = "none" /\ pc' = "end" /\ answer' = "none"
      /\ vmPosts' \in {vmPosts, OneMore(vmPosts)}
      /\ UNCHANGED <<ka, late, paid, outlived, drifted, reacted, swmPosts>>
  BY DEF PostVm, End, nodeVars
<1>2. vmPosts = 0 /\ reacted /\ ka = "published"
  BY <1>1 DEF GInv, TypeOK, PlaceInv, D2Pcs, D3Pcs
<1>3. 0 \in 0 .. MaxPosts BY ConstantsAssumption
<1>4. vmPosts' \in 0 .. MaxPosts /\ vmPosts' <= 1 BY <1>1, <1>2, <1>3, OneMoreTyped
<1> QED BY <1>1, <1>2, <1>4 DEF GInv, TypeOK, PlaceInv, RoomInv, PaidInv, Shared

\* GInv is inductive (scripts d2-execute and d3-execute).
THEOREM InductiveInvariant == Spec => []GInv
<1>1. Init => GInv
  <2> SUFFICES ASSUME Init PROVE GInv OBVIOUS
  <2>1. 0 \in 0 .. MaxPosts BY ConstantsAssumption
  <2>2. TypeOK BY <2>1 DEF Init, TypeOK
  <2>3. PlaceInv /\ RoomInv /\ PaidInv BY DEF Init, PlaceInv, RoomInv, PaidInv, Shared
  <2> QED BY <2>2, <2>3 DEF GInv
<1>2. GInv /\ [Next]_vars => GInv'
  <2> SUFFICES ASSUME GInv, [Next]_vars PROVE GInv' OBVIOUS
  <2>1. CASE UNCHANGED vars
    BY <2>1 DEF vars, procVars, nodeVars, roomVars, GInv, TypeOK, PlaceInv, RoomInv, PaidInv, Shared
  <2>2. CASE Next
    BY <2>2, LateCallStep, RoomStep, DieStep, StartD2Step, CheckStep, StepStep, PostStep,
       StartD3Step, PublishStep, ClassifyStep, PostVmStep
    DEF Next
  <2> QED BY <2>1, <2>2
<1> QED BY <1>1, <1>2, PTL DEF Spec

\* The types of all variables, whatever the bound (the gate scripts).
THEOREM TypesHold == Spec => []TypeOK
<1>1. GInv => TypeOK BY DEF GInv
<1> QED BY <1>1, InductiveInvariant, PTL

\* Over any runs of the scripts, with calls that take effect late, a receipt in the
\* room is true (read-backs before the receipts).
THEOREM ReceiptsHold == Spec => []ReceiptsAreTrue
<1>1. GInv => ReceiptsAreTrue BY DEF GInv, RoomInv, PaidInv, Shared, ReceiptsAreTrue
<1> QED BY <1>1, InductiveInvariant, PTL

\* However often they are run, the scripts leave one receipt each (preflights of D2
\* and D3, which look at the asset and not at the room).
THEOREM ReceiptsAreFew == Spec => []OneReceiptEach
<1>1. GInv => OneReceiptEach BY DEF GInv, RoomInv, OneReceiptEach
<1> QED BY <1>1, InductiveInvariant, PTL

\* The publication is paid for a second time only after a call that outlived its
\* attempt (D3's preflight and its one attempt).
THEOREM PaymentsAreFew == Spec => []PaidOnce
<1>1. GInv => PaidOnce BY DEF GInv, TypeOK, PaidInv, PaidOnce
<1> QED BY <1>1, InductiveInvariant, PTL
=============================================================================
