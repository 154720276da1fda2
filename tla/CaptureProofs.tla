---------------------------- MODULE CaptureProofs ---------------------------
(***************************************************************************)
(* Proofs about the capture path.  What the node holds and what a receipt  *)
(* stands for is proved for any number of workers and whatever the relay   *)
(* does (CInv); what depends on an operation being in one worker's hands   *)
(* at a time is proved for at most one resync (XInv), which is the premise *)
(* the code does not establish: two resyncs may overlap.                   *)
(***************************************************************************)
EXTENDS Capture, TLAPS

JobType == [pc : Busy \cup {"idle"}, op : Triggers \cup {NoTrigger},
            seen : OpState \cup {"none"}, src : Digest]
LateType == [call : {"write", "finalize", "share"}, op : Triggers, src : Digest]

\* What is being worked on, or listed, is an operation that was claimed.
JobsClaimed ==
    \A x \in Workers :
        /\ job[x].pc # "idle" => job[x].op \in Triggers
        /\ job[x].pc \notin {"idle", "thread"} => opState[job[x].op] # "none"
        /\ job[x].pc = "thread" => x = Main
ListsClaimed == \A x \in Workers : \A rec \in list[x] : opState[rec.op] # "none"

\* What is about to be written is what the digest was taken over.
WriteInv == \A x \in Workers : job[x].pc = "write" => job[x].src = digest[job[x].op]
NodeInv == \A d \in Digest : content[d] = IF ka[d] = "none" THEN {} ELSE d
\* The same of what is still to be carried out.
LateInv ==
    \A c \in late : opState[c.op] # "none" /\ (c.call = "write" => c.src = digest[c.op])

Shared(t) == ka[digest[t]] \in {"promoted", "published"}
\* Receipts, those under way included, and those about to be posted.
RoomInv ==
    \A t \in Triggers : receipts[t] > 0 \/ t \in latePosts => opState[t] # "none" /\ Shared(t)
PostInv == \A x \in Workers : job[x].pc \in {"find", "post", "posted"} => Shared(job[x].op)

CInv ==
    /\ TypeOK /\ JobsClaimed /\ ListsClaimed /\ WriteInv /\ NodeInv /\ LateInv
    /\ RoomInv /\ PostInv

-----------------------------------------------------------------------------
(* What the operators that change a job do.                                *)

LEMMA TypedJobs ==
    ASSUME TypeOK, NEW x \in Workers
    PROVE  job[x] \in JobType
BY DEF TypeOK, JobType

LEMMA IdleTyped == Idle \in JobType
BY DEF Idle, JobType, Digest

LEMMA DoneJob ==
    ASSUME TypeOK, NEW x \in Workers, Done(x)
    PROVE  /\ job' \in [Workers -> JobType] /\ job'[x] = Idle
           /\ \A y \in Workers \ {x} : job'[y] = job[y]
BY TypedJobs, IdleTyped DEF Done, TypeOK, JobType

LEMMA GotoJob ==
    ASSUME TypeOK, NEW x \in Workers, NEW pc \in Busy, Goto(x, pc)
    PROVE  /\ job' \in [Workers -> JobType]
           /\ job'[x].pc = pc /\ job'[x].op = job[x].op
           /\ job'[x].seen = job[x].seen /\ job'[x].src = job[x].src
           /\ \A y \in Workers \ {x} : job'[y] = job[y]
BY TypedJobs DEF Goto, TypeOK, JobType

LEMMA MoveJob ==
    ASSUME TypeOK, NEW x \in Workers, job[x].op \in Triggers,
           NEW to \in OpState, NEW pc \in Busy \cup {"idle"}, Move(x, to, pc)
    PROVE  /\ job' \in [Workers -> JobType] /\ opState' \in [Triggers -> OpState \cup {"none"}]
           /\ \A y \in Workers \ {x} : job'[y] = job[y]
           /\ \/ /\ CanTransition(opState[job[x].op], to)
                 /\ opState' = [opState EXCEPT ![job[x].op] = to]
                 /\ \/ pc = "idle" /\ job'[x] = Idle
                    \/ /\ pc # "idle" /\ job'[x].pc = pc /\ job'[x].op = job[x].op
                       /\ job'[x].seen = to /\ job'[x].src = job[x].src
              \/ opState' = opState /\ job'[x] = Idle
<1>1. opState \in [Triggers -> OpState \cup {"none"}] /\ job[x] \in JobType
  BY TypedJobs DEF TypeOK
<1>2. CASE CanTransition(opState[job[x].op], to) /\ pc = "idle"
  BY <1>1, <1>2, DoneJob DEF Move
<1>3. CASE CanTransition(opState[job[x].op], to) /\ pc # "idle"
  <2>1. /\ opState' = [opState EXCEPT ![job[x].op] = to]
        /\ job' = [job EXCEPT ![x].pc = pc, ![x].seen = to]
    BY <1>3 DEF Move
  <2>2. /\ job' \in [Workers -> JobType]
        /\ job'[x].pc = pc /\ job'[x].op = job[x].op
        /\ job'[x].seen = to /\ job'[x].src = job[x].src
        /\ \A y \in Workers \ {x} : job'[y] = job[y]
    BY <2>1, TypedJobs DEF TypeOK, JobType
  <2> QED BY <1>1, <1>3, <2>1, <2>2
<1>4. CASE ~CanTransition(opState[job[x].op], to)
  BY <1>1, <1>4, DoneJob DEF Move
<1> QED BY <1>2, <1>3, <1>4

-----------------------------------------------------------------------------
(* What the node holds, and what a receipt stands for.                     *)

LEMMA TypeOfState ==
    ASSUME TypeOK
    PROVE  /\ job \in [Workers -> JobType] /\ opState \in [Triggers -> OpState \cup {"none"}]
           /\ digest \in [Triggers -> Digest]
           /\ ka \in [Digest -> {"none", "draft", "sealed", "promoted", "published"}]
           /\ content \in [Digest -> Digest]
           /\ receipts \in [Triggers -> Nat] /\ latePosts \subseteq Triggers
           /\ late \subseteq LateType
BY DEF TypeOK, JobType, LateType

\* A step of the executor: what it may change, and what it must have seen to.
LEMMA WorkerStep ==
    ASSUME CInv, NEW x \in Workers, job[x].pc \notin {"idle", "thread"},
           job' \in [Workers -> JobType], \A y \in Workers \ {x} : job'[y] = job[y],
           \/ job'[x] = Idle
           \/ job'[x].op = job[x].op /\ job'[x].pc \notin {"idle", "thread"},
           opState' \in [Triggers -> OpState \cup {"none"}],
           \A t \in Triggers : opState[t] # "none" => opState'[t] # "none",
           UNCHANGED <<digest, phase, list, fate>>,
           receipts' \in [Triggers -> Nat], latePosts' \subseteq Triggers,
           ka' \in [Digest -> {"none", "draft", "sealed", "promoted", "published"}],
           content' \in [Digest -> Digest], NodeInv',
           \/ late' = late
           \/ /\ job[x].pc \in {"write", "finalize", "share"}
              /\ late' = late \cup {[call |-> job[x].pc, op |-> job[x].op, src |-> job[x].src]},
           \A d \in Digest : ka[d] \in {"promoted", "published"} => ka'[d] \in {"promoted", "published"},
           job'[x].pc = "write" => job'[x].src = digest[job[x].op],
           job'[x].pc \in {"find", "post", "posted"} => ka'[digest[job[x].op]] \in {"promoted", "published"},
           \A t \in Triggers : receipts'[t] > 0 \/ t \in latePosts' =>
               receipts[t] > 0 \/ t \in latePosts \/ (t = job[x].op /\ job[x].pc = "post")
    PROVE  CInv'
<1> USE DEF CInv
<1>1. job[x].op \in Triggers /\ opState[job[x].op] # "none" /\ digest \in [Triggers -> Digest]
  BY TypeOfState DEF JobsClaimed
<1>2. Idle.pc = "idle" BY DEF Idle
<1>9. late' \subseteq LateType /\ LateInv'
  <2> DEFINE c == [call |-> job[x].pc, op |-> job[x].op, src |-> job[x].src]
  <2>1. /\ late \subseteq LateType /\ job[x] \in JobType
        /\ \A e \in late : opState'[e.op] # "none" /\ (e.call = "write" => e.src = digest'[e.op])
    BY TypeOfState, TypedJobs DEF LateInv, LateType
  <2>2. CASE late' = late BY <2>1, <2>2 DEF LateInv
  <2>3. CASE job[x].pc \in {"write", "finalize", "share"} /\ late' = late \cup {c}
    <3>1. c \in LateType BY <1>1, <2>1, <2>3 DEF LateType, JobType
    <3>2. opState'[c.op] # "none" /\ (c.call = "write" => c.src = digest'[c.op])
      BY <1>1 DEF WriteInv
    <3> HIDE DEF c
    <3> QED BY <2>1, <2>3, <3>1, <3>2 DEF LateInv
  <2> QED BY <2>2, <2>3
<1>3. TypeOK' BY <1>9 DEF TypeOK, JobType, LateType
<1>4. JobsClaimed'
  <2> SUFFICES ASSUME NEW y \in Workers
               PROVE  /\ job'[y].pc # "idle" => job'[y].op \in Triggers
                      /\ job'[y].pc \notin {"idle", "thread"} => opState'[job'[y].op] # "none"
                      /\ job'[y].pc = "thread" => y = Main
    BY DEF JobsClaimed
  <2>1. CASE y = x BY <2>1, <1>1, <1>2
  <2>2. CASE y # x BY <2>2, <1>1 DEF JobsClaimed
  <2> QED BY <2>1, <2>2
<1>5. ListsClaimed'
  <2>1. \A y \in Workers : \A rec \in list[y] : rec.op \in Triggers BY DEF TypeOK
  <2> QED BY <2>1 DEF ListsClaimed
<1>6. WriteInv' BY <1>1, <1>2 DEF WriteInv
<1>7. RoomInv'
  <2> SUFFICES ASSUME NEW t \in Triggers, receipts'[t] > 0 \/ t \in latePosts'
               PROVE  opState'[t] # "none" /\ ka'[digest[t]] \in {"promoted", "published"}
    BY DEF RoomInv, Shared
  <2>1. opState[t] # "none" /\ ka[digest[t]] \in {"promoted", "published"}
    BY <1>1 DEF RoomInv, PostInv, Shared
  <2> QED BY <2>1, <1>1
<1>8. PostInv'
  <2> SUFFICES ASSUME NEW y \in Workers, job'[y].pc \in {"find", "post", "posted"}
               PROVE  ka'[digest[job'[y].op]] \in {"promoted", "published"}
    BY DEF PostInv, Shared
  <2>1. CASE y = x BY <2>1, <1>1, <1>2
  <2>2. CASE y # x
    <3>1. job[y].op \in Triggers /\ ka[digest[job[y].op]] \in {"promoted", "published"}
      BY <2>2 DEF PostInv, Shared, JobsClaimed
    <3> QED BY <2>2, <3>1, <1>1
  <2> QED BY <2>1, <2>2
<1> QED BY <1>3, <1>4, <1>5, <1>6, <1>7, <1>8, <1>9

\* A call that reaches the node and leaves the asset's content in order.
LEMMA CallStep ==
    ASSUME CInv, NEW x \in Workers, NEW next \in {"written", "sealed", "promoted"},
           job[x].pc \in {"write", "finalize", "share"},
           Goto(x, next) \/ Done(x),
           UNCHANGED <<dbVars, phase, list, relayVars>>,
           ka' \in [Digest -> {"none", "draft", "sealed", "promoted", "published"}],
           content' \in [Digest -> Digest], NodeInv',
           \/ late' = late
           \/ late' = late \cup {[call |-> job[x].pc, op |-> job[x].op, src |-> job[x].src]},
           \A d \in Digest : ka[d] \in {"promoted", "published"} => ka'[d] \in {"promoted", "published"}
    PROVE  CInv'
<1>1. TypeOK BY DEF CInv
<1>2. /\ job' \in [Workers -> JobType] /\ \A y \in Workers \ {x} : job'[y] = job[y]
      /\ job'[x] = Idle \/ (job'[x].op = job[x].op /\ job'[x].pc = next)
  BY <1>1, DoneJob, GotoJob DEF Busy
<1>3. job'[x].pc \in {"idle", next} BY <1>2 DEF Idle
<1>4. job[x].pc \notin {"idle", "thread"} /\ next \notin {"idle", "thread", "write", "find", "post", "posted"}
  OBVIOUS
<1>5. job'[x].pc \notin {"write", "find", "post", "posted"} BY <1>3, <1>4
<1>6. job'[x] = Idle \/ (job'[x].op = job[x].op /\ job'[x].pc \notin {"idle", "thread"})
  BY <1>2, <1>4
<1>7. UNCHANGED <<opState, digest, phase, list, fate, receipts, latePosts>>
  BY DEF dbVars, relayVars
<1>8. /\ opState' \in [Triggers -> OpState \cup {"none"}] /\ receipts' \in [Triggers -> Nat]
      /\ latePosts' \subseteq Triggers
  BY <1>1, <1>7, TypeOfState
<1> QED BY <1>2, <1>4, <1>5, <1>6, <1>7, <1>8, WorkerStep

LEMMA WriteStep == ASSUME CInv, NEW x \in Workers, Write(x) PROVE CInv'
<1>1. TypeOK /\ NodeInv /\ WriteInv /\ JobsClaimed BY DEF CInv
<1>2. job[x].pc = "write" /\ UNCHANGED <<dbVars, phase, list, relayVars>>
  BY DEF Write, Call
<1>6. \/ late' = late
      \/ late' = late \cup {[call |-> job[x].pc, op |-> job[x].op, src |-> job[x].src]}
  BY DEF Write, Call
<1>3. job[x].op \in Triggers /\ job[x].src = digest[job[x].op] /\ digest[job[x].op] \in Digest
  BY <1>1, <1>2, TypeOfState DEF WriteInv, JobsClaimed
<1>4. CASE Done(x) /\ UNCHANGED <<ka, content>>
  BY <1>1, <1>2, <1>4, <1>6, TypeOfState, CallStep DEF NodeInv
<1>5. ASSUME NEW d \in Digest, d = digest[job[x].op],
             ka' = [ka EXCEPT ![d] = IF @ = "none" THEN "draft" ELSE @],
             content' = [content EXCEPT ![d] = @ \cup job[x].src],
             Goto(x, "written") \/ Done(x)
      PROVE  CInv'
  <2>1. /\ ka' \in [Digest -> {"none", "draft", "sealed", "promoted", "published"}]
        /\ content' \in [Digest -> Digest]
    BY <1>1, <1>3, <1>5, TypeOfState DEF Digest
  <2>2. NodeInv'
    <3> SUFFICES ASSUME NEW e \in Digest
                 PROVE  content'[e] = IF ka'[e] = "none" THEN {} ELSE e
      BY DEF NodeInv
    <3>1. content[e] = IF ka[e] = "none" THEN {} ELSE e BY <1>1 DEF NodeInv
    <3>2. CASE e = d
      <4>1. content'[e] = content[e] \cup e /\ ka'[e] # "none"
        BY <1>1, <1>3, <1>5, <3>2, TypeOfState
      <4> QED BY <3>1, <4>1
    <3>3. CASE e # d BY <1>1, <1>5, <3>1, <3>3, TypeOfState
    <3> QED BY <3>2, <3>3
  <2>3. \A e \in Digest : ka[e] \in {"promoted", "published"} => ka'[e] \in {"promoted", "published"}
    BY <1>1, <1>5, TypeOfState
  <2>4. \E next \in {"written", "sealed", "promoted"} : Goto(x, next) \/ Done(x) BY <1>5
  <2> QED BY <1>2, <1>6, <2>1, <2>2, <2>3, <2>4, CallStep
<1> QED BY <1>3, <1>4, <1>5 DEF Write, Call, Effect

LEMMA FinalizeStep == ASSUME CInv, NEW x \in Workers, Finalize(x) PROVE CInv'
<1>1. TypeOK /\ NodeInv /\ JobsClaimed BY DEF CInv
<1>2. job[x].pc = "finalize" /\ UNCHANGED <<dbVars, phase, list, relayVars>>
  BY DEF Finalize, Call
<1>6. \/ late' = late
      \/ late' = late \cup {[call |-> job[x].pc, op |-> job[x].op, src |-> job[x].src]}
  BY DEF Finalize, Call
<1>3. job[x].op \in Triggers /\ digest[job[x].op] \in Digest
  BY <1>1, <1>2, TypeOfState DEF JobsClaimed
<1>4. CASE Done(x) /\ UNCHANGED <<ka, content>>
  BY <1>1, <1>2, <1>4, <1>6, TypeOfState, CallStep DEF NodeInv
<1>5. ASSUME NEW d \in Digest, ka[d] \in {"draft", "sealed"},
             ka' = [ka EXCEPT ![d] = "sealed"], UNCHANGED content,
             Goto(x, "sealed") \/ Done(x)
      PROVE  CInv'
  <2>1. /\ ka' \in [Digest -> {"none", "draft", "sealed", "promoted", "published"}]
        /\ content' \in [Digest -> Digest] /\ NodeInv'
        /\ \A e \in Digest : ka[e] \in {"promoted", "published"} => ka'[e] \in {"promoted", "published"}
    BY <1>1, <1>5, TypeOfState DEF NodeInv
  <2> QED BY <1>2, <1>5, <1>6, <2>1, CallStep
<1> QED BY <1>3, <1>4, <1>5 DEF Finalize, Call, Effect

LEMMA ShareStep == ASSUME CInv, NEW x \in Workers, Share(x) PROVE CInv'
<1>1. TypeOK /\ NodeInv /\ JobsClaimed BY DEF CInv
<1>2. job[x].pc = "share" /\ UNCHANGED <<dbVars, phase, list, relayVars>>
  BY DEF Share, Call
<1>6. \/ late' = late
      \/ late' = late \cup {[call |-> job[x].pc, op |-> job[x].op, src |-> job[x].src]}
  BY DEF Share, Call
<1>3. job[x].op \in Triggers /\ digest[job[x].op] \in Digest
  BY <1>1, <1>2, TypeOfState DEF JobsClaimed
<1>4. CASE Done(x) /\ UNCHANGED <<ka, content>>
  BY <1>1, <1>2, <1>4, <1>6, TypeOfState, CallStep DEF NodeInv
<1>5. ASSUME NEW d \in Digest, ka[d] \in {"sealed", "promoted"},
             ka' = [ka EXCEPT ![d] = "promoted"], UNCHANGED content,
             Goto(x, "promoted") \/ Done(x)
      PROVE  CInv'
  <2>1. /\ ka' \in [Digest -> {"none", "draft", "sealed", "promoted", "published"}]
        /\ content' \in [Digest -> Digest] /\ NodeInv'
        /\ \A e \in Digest : ka[e] \in {"promoted", "published"} => ka'[e] \in {"promoted", "published"}
    BY <1>1, <1>5, TypeOfState DEF NodeInv
  <2> QED BY <1>2, <1>5, <1>6, <2>1, CallStep
<1> QED BY <1>3, <1>4, <1>5 DEF Share, Call, Effect

\* A step that records its progress in the row, or is refused and parks.
LEMMA MoveStep ==
    ASSUME CInv, NEW x \in Workers, job[x].pc \notin {"idle", "thread"},
           NEW to \in OpState, NEW pc \in (Busy \ {"thread", "write"}) \cup {"idle"}, Move(x, to, pc),
           pc \in {"find", "post", "posted"} => Shared(job[x].op),
           UNCHANGED <<digest, phase, list, relayVars, nodeVars>>
    PROVE  CInv'
<1>1. TypeOK /\ NodeInv /\ JobsClaimed BY DEF CInv
<1>2. job[x].op \in Triggers BY <1>1 DEF JobsClaimed
<1>3. Idle.pc = "idle" /\ to # "none" BY DEF Idle, OpState, Track, OffTrack
<1>4. /\ job' \in [Workers -> JobType] /\ opState' \in [Triggers -> OpState \cup {"none"}]
      /\ \A y \in Workers \ {x} : job'[y] = job[y]
      /\ opState' = opState \/ opState' = [opState EXCEPT ![job[x].op] = to]
      /\ \/ job'[x] = Idle
         \/ job'[x].pc = pc /\ job'[x].op = job[x].op /\ pc # "idle"
  <2>1. CASE pc = "idle" BY <1>1, <1>2, <2>1, MoveJob
  <2>2. CASE pc # "idle" BY <1>1, <1>2, <2>2, MoveJob
  <2> QED BY <2>1, <2>2
<1>5. UNCHANGED <<digest, phase, list, fate, receipts, latePosts, ka, content, late>>
  BY DEF relayVars, nodeVars
<1>6. \A t \in Triggers : opState[t] # "none" => opState'[t] # "none"
  BY <1>1, <1>3, <1>4, TypeOfState
<1>7. /\ receipts' \in [Triggers -> Nat] /\ latePosts' \subseteq Triggers /\ NodeInv'
      /\ ka' \in [Digest -> {"none", "draft", "sealed", "promoted", "published"}]
      /\ content' \in [Digest -> Digest]
  BY <1>1, <1>5, TypeOfState DEF NodeInv
<1>8. /\ job'[x].pc # "write"
      /\ job'[x].pc \in {"find", "post", "posted"} => ka'[digest[job[x].op]] \in {"promoted", "published"}
      /\ job'[x] = Idle \/ (job'[x].op = job[x].op /\ job'[x].pc \notin {"idle", "thread"})
  BY <1>3, <1>4, <1>5 DEF Shared
<1> QED BY <1>4, <1>5, <1>6, <1>7, <1>8, WorkerStep

\* A step of the executor that changes its own job alone.
LEMMA GotoStep ==
    ASSUME CInv, NEW x \in Workers, NEW pc \in Busy \ {"thread", "write"},
           job[x].pc \notin {"idle", "thread"}, Goto(x, pc) \/ Done(x),
           pc \in {"find", "post", "posted"} => Shared(job[x].op),
           UNCHANGED <<dbVars, phase, list, relayVars, nodeVars>>
    PROVE  CInv'
<1>1. TypeOK /\ NodeInv BY DEF CInv
<1>2. /\ job' \in [Workers -> JobType] /\ \A y \in Workers \ {x} : job'[y] = job[y]
      /\ job'[x] = Idle \/ (job'[x].op = job[x].op /\ job'[x].pc = pc)
  BY <1>1, DoneJob, GotoJob DEF Busy
<1>3. UNCHANGED <<opState, digest, phase, list, fate, receipts, latePosts, ka, content, late>>
  BY DEF dbVars, relayVars, nodeVars
<1>4. /\ receipts' \in [Triggers -> Nat] /\ latePosts' \subseteq Triggers /\ NodeInv'
      /\ ka' \in [Digest -> {"none", "draft", "sealed", "promoted", "published"}]
      /\ content' \in [Digest -> Digest] /\ opState' \in [Triggers -> OpState \cup {"none"}]
  BY <1>1, <1>3, TypeOfState DEF NodeInv
<1>5. /\ job'[x].pc # "write"
      /\ job'[x].pc \in {"find", "post", "posted"} => ka'[digest[job[x].op]] \in {"promoted", "published"}
      /\ job'[x] = Idle \/ (job'[x].op = job[x].op /\ job'[x].pc \notin {"idle", "thread"})
  BY <1>2, <1>3 DEF Shared, Idle, Busy
<1> QED BY <1>2, <1>3, <1>4, <1>5, WorkerStep

LEMMA ReadSourceStep == ASSUME CInv, NEW x \in Workers, ReadSource(x) PROVE CInv'
<1> DEFINE t == job[x].op
           src == Snapshot(t)
<1>1. TypeOK /\ NodeInv /\ JobsClaimed BY DEF CInv
<1>2. job[x].pc = "source" /\ UNCHANGED <<digest, phase, list, relayVars, nodeVars>>
  BY DEF ReadSource
<1>3. t \in Triggers BY <1>1, <1>2 DEF JobsClaimed
<1>4. CASE Done(x) /\ UNCHANGED opState
  BY <1>2, <1>4, GotoStep DEF dbVars, Busy
<1>5. CASE Move(x, "failed", "idle")
  BY <1>2, <1>5, MoveStep DEF OpState, OffTrack
<1>6. CASE /\ job' = [job EXCEPT ![x].pc = "write", ![x].src = src] /\ UNCHANGED opState
           /\ SameSource(t, src)
  <2>1. src = digest[t] /\ src \in Digest BY <1>1, <1>3, <1>6, TypeOfState DEF SameSource
  <2>2. /\ job' \in [Workers -> JobType] /\ \A y \in Workers \ {x} : job'[y] = job[y]
        /\ job'[x].op = t /\ job'[x].pc = "write" /\ job'[x].src = digest[t]
    BY <1>1, <1>6, <2>1, TypeOfState DEF JobType, Busy
  <2>3. UNCHANGED <<opState, digest, phase, list, fate, receipts, latePosts, ka, content, late>>
    BY <1>2, <1>6 DEF relayVars, nodeVars
  <2>4. /\ receipts' \in [Triggers -> Nat] /\ latePosts' \subseteq Triggers /\ NodeInv'
        /\ ka' \in [Digest -> {"none", "draft", "sealed", "promoted", "published"}]
        /\ content' \in [Digest -> Digest] /\ opState' \in [Triggers -> OpState \cup {"none"}]
    BY <1>1, <2>3, TypeOfState DEF NodeInv
  <2> QED BY <1>2, <2>2, <2>3, <2>4, WorkerStep
<1> QED BY <1>4, <1>5, <1>6 DEF ReadSource

LEMMA PostStep == ASSUME CInv, NEW x \in Workers, Post(x) PROVE CInv'
<1> DEFINE t == job[x].op
<1>1. TypeOK /\ NodeInv /\ JobsClaimed /\ PostInv BY DEF CInv
<1>2. job[x].pc = "post" /\ UNCHANGED <<dbVars, phase, list, fate, nodeVars>>
  BY DEF Post
<1>3. t \in Triggers /\ Shared(t) BY <1>1, <1>2 DEF JobsClaimed, PostInv
<1>4. Goto(x, "posted") \/ Done(x) BY DEF Post
<1>5. /\ job' \in [Workers -> JobType] /\ \A y \in Workers \ {x} : job'[y] = job[y]
      /\ job'[x] = Idle \/ (job'[x].op = t /\ job'[x].pc = "posted")
  BY <1>1, <1>4, DoneJob, GotoJob DEF Busy
<1>6. UNCHANGED <<opState, digest, phase, list, fate, ka, content, late>> BY <1>2 DEF dbVars, nodeVars
<1>7. /\ receipts' \in [Triggers -> Nat] /\ latePosts' \subseteq Triggers
      /\ \A u \in Triggers : receipts'[u] > 0 \/ u \in latePosts' =>
             receipts[u] > 0 \/ u \in latePosts \/ u = t
  BY <1>1, <1>3, TypeOfState, ConstantsAssumption DEF Post, OneMore
<1>8. /\ NodeInv' /\ content' \in [Digest -> Digest] /\ opState' \in [Triggers -> OpState \cup {"none"}]
      /\ ka' \in [Digest -> {"none", "draft", "sealed", "promoted", "published"}]
  BY <1>1, <1>6, TypeOfState DEF NodeInv
<1>9. /\ job'[x].pc # "write" /\ ka'[digest[t]] \in {"promoted", "published"}
      /\ job'[x] = Idle \/ (job'[x].op = t /\ job'[x].pc \notin {"idle", "thread"})
  BY <1>3, <1>5, <1>6 DEF Shared, Idle
<1> QED BY <1>2, <1>5, <1>6, <1>7, <1>8, <1>9, WorkerStep

LEMMA ExecuteStep == ASSUME CInv, NEW x \in Workers, Execute(x) PROVE CInv'
<1>1. TypeOK /\ JobsClaimed /\ PostInv BY DEF CInv
<1>2. job[x].pc \notin {"idle", "thread"} => job[x].op \in Triggers
  BY <1>1 DEF JobsClaimed
<1>3. {"wm_written", "finalized", "shared", "receipted"} \subseteq OpState
  BY DEF OpState, Track
<1>4. CASE ReadSource(x) BY <1>4, ReadSourceStep
<1>5. CASE Write(x) BY <1>5, WriteStep
<1>6. CASE Written(x) BY <1>3, <1>6, MoveStep DEF Written, Busy
<1>7. CASE Describe(x)
  <2>1. job[x].pc = "describe" /\ UNCHANGED <<digest, phase, list, relayVars, nodeVars>>
    BY <1>7 DEF Describe
  <2>2. CASE Move(x, "shared", "verify") BY <1>3, <2>1, <2>2, MoveStep DEF Busy
  <2>3. ASSUME NEW pc \in {"finalize", "share"}, Goto(x, pc), UNCHANGED opState PROVE CInv'
    BY <2>1, <2>3, GotoStep DEF dbVars, Busy
  <2> QED BY <1>7, <2>2, <2>3 DEF Describe
<1>8. CASE Finalize(x) BY <1>8, FinalizeStep
<1>9. CASE Sealed(x) BY <1>3, <1>9, MoveStep DEF Sealed, Busy
<1>10. CASE Share(x) BY <1>10, ShareStep
<1>11. CASE Promoted(x) BY <1>3, <1>11, MoveStep DEF Promoted, Busy
<1>12. CASE Verify(x)
  <2>1. job[x].pc = "verify" /\ UNCHANGED <<dbVars, phase, list, relayVars, nodeVars>>
    BY <1>12 DEF Verify
  <2>2. CASE Done(x) BY <2>1, <2>2, GotoStep DEF Busy
  <2>3. CASE ConfirmedInSwm(digest[job[x].op]) /\ Goto(x, "find")
    BY <2>1, <2>3, GotoStep DEF Busy, ConfirmedInSwm, Shared
  <2> QED BY <1>12, <2>2, <2>3 DEF Verify
<1>13. CASE Find(x)
  <2>1. job[x].pc = "find" /\ UNCHANGED <<digest, phase, list, relayVars, nodeVars>>
    BY <1>13 DEF Find
  <2>2. CASE Move(x, "receipted", "idle") BY <1>3, <2>1, <2>2, MoveStep DEF Busy
  <2>3. CASE UNCHANGED opState /\ (Done(x) \/ Goto(x, "post"))
    <3>1. Shared(job[x].op) BY <1>1, <2>1 DEF PostInv
    <3> QED BY <2>1, <2>3, <3>1, GotoStep DEF dbVars, Busy
  <2> QED BY <1>13, <2>2, <2>3 DEF Find
<1>14. CASE Post(x) BY <1>14, PostStep
<1>15. CASE Posted(x) BY <1>3, <1>15, MoveStep DEF Posted, Busy
<1> QED BY <1>4, <1>5, <1>6, <1>7, <1>8, <1>9, <1>10, <1>11, <1>12, <1>13, <1>14, <1>15 DEF Execute

\* A step of the process that gives a worker a list, or takes all work away.
LEMMA ListStep ==
    ASSUME CInv, phase' \in {"down", "recovering", "serving"},
           job' = job \/ job' = [x \in Workers |-> Idle],
           list' \in [Workers -> SUBSET [op : Triggers, seen : CaptureStates]],
           \A x \in Workers : \A rec \in list'[x] : opState[rec.op] # "none",
           UNCHANGED <<dbVars, relayVars, nodeVars>>
    PROVE  CInv'
<1>1. TypeOK /\ JobsClaimed /\ WriteInv /\ NodeInv /\ LateInv /\ RoomInv /\ PostInv BY DEF CInv
<1>2. UNCHANGED <<opState, digest, fate, receipts, latePosts, ka, content, late>>
  BY DEF dbVars, relayVars, nodeVars
<1>3. job' \in [Workers -> JobType] BY <1>1, IdleTyped, TypeOfState
<1>4. TypeOK' BY <1>1, <1>2, <1>3 DEF TypeOK, JobType
<1>5. ListsClaimed' BY <1>2 DEF ListsClaimed
<1>6. NodeInv' /\ LateInv' /\ RoomInv' BY <1>1, <1>2 DEF NodeInv, LateInv, RoomInv, Shared
<1>7. CASE job' = job
  BY <1>1, <1>2, <1>4, <1>5, <1>6, <1>7 DEF CInv, JobsClaimed, WriteInv, PostInv, Shared
<1>8. CASE job' = [x \in Workers |-> Idle]
  <2>1. \A x \in Workers : job'[x].pc = "idle" BY <1>8 DEF Idle
  <2> QED BY <1>4, <1>5, <1>6, <2>1 DEF CInv, JobsClaimed, WriteInv, PostInv
<1> QED BY <1>7, <1>8

LEMMA PendingTyped ==
    ASSUME TypeOK
    PROVE  /\ Pending \subseteq [op : Triggers, seen : CaptureStates]
           /\ \A rec \in Pending : rec.seen = opState[rec.op] /\ opState[rec.op] # "none"
BY TypeOfState DEF Pending, CaptureStates

LEMMA ProcessStep ==
    ASSUME CInv, Boot \/ Serve \/ Crash \/ \E x \in Workers : Resync(x)
    PROVE  CInv'
<1>1. TypeOK /\ ListsClaimed BY DEF CInv
<1>2. list \in [Workers -> SUBSET [op : Triggers, seen : CaptureStates]] BY <1>1 DEF TypeOK
<1>3. ASSUME NEW x \in Workers, list' = [list EXCEPT ![x] = Pending]
      PROVE  /\ list' \in [Workers -> SUBSET [op : Triggers, seen : CaptureStates]]
             /\ \A y \in Workers : \A rec \in list'[y] : opState[rec.op] # "none"
  <2>1. list' \in [Workers -> SUBSET [op : Triggers, seen : CaptureStates]]
    BY <1>1, <1>2, <1>3, PendingTyped
  <2>2. \A y \in Workers : list'[y] = IF y = x THEN Pending ELSE list[y]
    BY <1>2, <1>3
  <2> QED BY <1>1, <2>1, <2>2, PendingTyped DEF ListsClaimed
<1>4. CASE Boot
  <2>1. Main \in Workers BY DEF Workers
  <2> QED BY <1>3, <1>4, <2>1, ListStep DEF Boot
<1>5. CASE Serve
  <2>1. UNCHANGED <<dbVars, job, list, relayVars, nodeVars>> /\ phase' = "serving" BY <1>5 DEF Serve
  <2> QED BY <1>1, <1>2, <2>1, ListStep DEF ListsClaimed
<1>6. CASE Crash
  <2>1. /\ phase' = "down" /\ job' = [x \in Workers |-> Idle] /\ list' = [x \in Workers |-> {}]
        /\ UNCHANGED <<dbVars, relayVars, nodeVars>>
    BY <1>6 DEF Crash
  <2> QED BY <2>1, ListStep
<1>7. CASE \E x \in Workers : Resync(x)
  <2> PICK x \in Workers : Resync(x) BY <1>7
  <2>1. phase' \in {"down", "recovering", "serving"} BY DEF Resync
  <2> QED BY <1>3, <2>1, ListStep DEF Resync
<1> QED BY <1>4, <1>5, <1>6, <1>7

\* A worker takes up an operation.
LEMMA TakeStep == ASSUME CInv, NEW x \in Workers, Take(x) PROVE CInv'
<1>1. /\ TypeOK /\ JobsClaimed /\ ListsClaimed /\ WriteInv /\ NodeInv /\ LateInv
      /\ RoomInv /\ PostInv
  BY DEF CInv
<1>2. PICK rec \in list[x] : /\ job' = [job EXCEPT ![x] = Entry(rec.op, rec.seen)]
                             /\ list' = [list EXCEPT ![x] = @ \ {rec}]
  BY DEF Take
<1>3. rec \in [op : Triggers, seen : CaptureStates] /\ opState[rec.op] # "none"
  BY <1>1 DEF TypeOK, ListsClaimed
<1>4. UNCHANGED <<opState, digest, phase, fate, receipts, latePosts, ka, content, late>>
  BY DEF Take, dbVars, relayVars, nodeVars
<1>5. /\ Entry(rec.op, rec.seen) \in JobType /\ Entry(rec.op, rec.seen).op = rec.op
      /\ Entry(rec.op, rec.seen).pc \in {"source", "describe", "verify"}
  <2>1. rec.seen \in OpState BY <1>3 DEF CaptureStates, OpState, Track
  <2>2. {} \in Digest BY DEF Digest
  <2> QED BY <1>3, <2>1, <2>2 DEF Entry, JobType, Busy, CaptureStates
<1>6. /\ job' \in [Workers -> JobType] /\ job'[x] = Entry(rec.op, rec.seen)
      /\ \A y \in Workers \ {x} : job'[y] = job[y]
  BY <1>1, <1>2, <1>5, TypeOfState
<1>7. /\ list' \in [Workers -> SUBSET [op : Triggers, seen : CaptureStates]]
      /\ \A y \in Workers : list'[y] \subseteq list[y]
  BY <1>1, <1>2 DEF TypeOK
<1>8. TypeOK' BY <1>1, <1>4, <1>6, <1>7 DEF TypeOK, JobType
<1>9. JobsClaimed'
  BY <1>1, <1>3, <1>4, <1>5, <1>6 DEF JobsClaimed
<1>10. ListsClaimed' BY <1>1, <1>4, <1>7 DEF ListsClaimed
<1>11. WriteInv' BY <1>1, <1>4, <1>5, <1>6 DEF WriteInv
<1>12. NodeInv' /\ LateInv' /\ RoomInv' BY <1>1, <1>4 DEF NodeInv, LateInv, RoomInv, Shared
<1>13. PostInv' BY <1>1, <1>4, <1>5, <1>6 DEF PostInv, Shared
<1> QED BY <1>8, <1>9, <1>10, <1>11, <1>12, <1>13 DEF CInv

LEMMA HandleStep == ASSUME CInv, NEW t \in Triggers, HandleCapture(t) PROVE CInv'
<1> DEFINE j == [Idle EXCEPT !.pc = "thread", !.op = t]
<1>1. /\ TypeOK /\ JobsClaimed /\ ListsClaimed /\ WriteInv /\ NodeInv /\ LateInv
      /\ RoomInv /\ PostInv
  BY DEF CInv
<1>2. UNCHANGED <<opState, digest, phase, list, fate, receipts, latePosts, ka, content, late>>
  BY DEF HandleCapture, dbVars, relayVars, nodeVars
<1>3. j \in JobType /\ j.pc = "thread" /\ j.op = t BY DEF Idle, JobType, Busy, Digest
<1>4. Main \in Workers /\ job' = [job EXCEPT ![Main] = j] BY DEF HandleCapture, Workers
<1> HIDE DEF j
<1>5. /\ job' \in [Workers -> JobType] /\ job'[Main] = j
      /\ \A y \in Workers \ {Main} : job'[y] = job[y]
  BY <1>1, <1>3, <1>4, TypeOfState
<1>6. TypeOK' BY <1>1, <1>2, <1>5 DEF TypeOK, JobType
<1>7. JobsClaimed' BY <1>1, <1>2, <1>3, <1>5 DEF JobsClaimed
<1>8. WriteInv' /\ PostInv' BY <1>1, <1>2, <1>3, <1>5 DEF WriteInv, PostInv, Shared
<1>9. ListsClaimed' /\ NodeInv' /\ LateInv' /\ RoomInv'
  BY <1>1, <1>2 DEF ListsClaimed, NodeInv, LateInv, RoomInv, Shared
<1> QED BY <1>6, <1>7, <1>8, <1>9 DEF CInv

\* The claim gives an operation its digest; nobody else has it in hand yet.
LEMMA ClaimStep == ASSUME CInv, Claim PROVE CInv'
<1> DEFINE t == job[Main].op
           src == Snapshot(t)
<1>1. /\ TypeOK /\ JobsClaimed /\ ListsClaimed /\ WriteInv /\ NodeInv /\ LateInv
      /\ RoomInv /\ PostInv
  BY DEF CInv
<1>2. /\ Main \in Workers /\ job[Main].pc = "thread"
      /\ UNCHANGED <<phase, list, fate, receipts, latePosts, ka, content, late>>
  BY DEF Claim, Workers, relayVars, nodeVars
<1>3. t \in Triggers BY <1>1, <1>2 DEF JobsClaimed
<1>4. CASE Done(Main) /\ UNCHANGED <<opState, digest>>
  <2>1. /\ job' \in [Workers -> JobType] /\ job'[Main].pc = "idle"
        /\ \A y \in Workers \ {Main} : job'[y] = job[y]
    BY <1>1, <1>2, <1>4, DoneJob DEF Idle
  <2>2. TypeOK' BY <1>1, <1>2, <1>4, <2>1 DEF TypeOK, JobType
  <2>3. JobsClaimed' BY <1>1, <1>4, <2>1 DEF JobsClaimed
  <2>4. WriteInv' /\ PostInv' BY <1>1, <1>2, <1>4, <2>1 DEF WriteInv, PostInv, Shared
  <2>5. ListsClaimed' /\ NodeInv' /\ LateInv' /\ RoomInv'
    BY <1>1, <1>2, <1>4 DEF ListsClaimed, NodeInv, LateInv, RoomInv, Shared
  <2> QED BY <2>2, <2>3, <2>4, <2>5 DEF CInv
<1>5. CASE /\ opState[t] = "none" /\ opState' = [opState EXCEPT ![t] = "distilled"]
           /\ digest' = [digest EXCEPT ![t] = src]
           /\ job' = [job EXCEPT ![Main].pc = "write", ![Main].seen = "distilled", ![Main].src = src]
  <2>1. src \in Digest /\ "distilled" \in OpState
    BY <1>3, ConstantsAssumption DEF Snapshot, Digest, OpState, Track
  <2> HIDE DEF src
  <2>2. /\ job' \in [Workers -> JobType]
        /\ job'[Main].pc = "write" /\ job'[Main].op = t /\ job'[Main].src = src
        /\ \A y \in Workers \ {Main} : job'[y] = job[y]
    <3> DEFINE j == [job[Main] EXCEPT !.pc = "write", !.seen = "distilled", !.src = src]
    <3>1. job \in [Workers -> JobType] /\ job[Main] \in JobType BY <1>1, <1>2, TypeOfState
    <3>2. j \in JobType /\ j.pc = "write" /\ j.op = t /\ j.src = src
      BY <2>1, <3>1 DEF JobType, Busy
    <3>3. job' = [job EXCEPT ![Main] = j] BY <1>2, <1>5, <3>1
    <3> HIDE DEF j
    <3> QED BY <1>2, <3>1, <3>2, <3>3
  <2>3. /\ opState' \in [Triggers -> OpState \cup {"none"}] /\ digest' \in [Triggers -> Digest]
        /\ opState'[t] # "none" /\ digest'[t] = src
        /\ \A u \in Triggers \ {t} : opState'[u] = opState[u] /\ digest'[u] = digest[u]
    BY <1>1, <1>3, <1>5, <2>1, TypeOfState
  <2>4. TypeOK' BY <1>1, <1>2, <2>2, <2>3 DEF TypeOK, JobType
  <2>5. \A y \in Workers \ {Main} : job[y].pc # "idle" => job[y].op \in Triggers \ {t}
    BY <1>1, <1>5 DEF JobsClaimed
  <2>6. JobsClaimed' BY <1>1, <1>3, <2>2, <2>3, <2>5 DEF JobsClaimed
  <2>7. WriteInv' BY <1>1, <1>3, <2>2, <2>3, <2>5 DEF WriteInv
  <2>8. PostInv'
    <3> SUFFICES ASSUME NEW y \in Workers, job'[y].pc \in {"find", "post", "posted"}
                 PROVE  ka'[digest'[job'[y].op]] \in {"promoted", "published"}
      BY DEF PostInv, Shared
    <3>1. y # Main BY <2>2
    <3> QED BY <1>1, <1>2, <2>2, <2>3, <2>5, <3>1 DEF PostInv, Shared
  <2>9. ListsClaimed'
    <3>1. \A y \in Workers : \A rec \in list[y] : rec.op \in Triggers BY <1>1 DEF TypeOK
    <3> QED BY <1>1, <1>2, <2>3, <3>1 DEF ListsClaimed
  <2>10. NodeInv' /\ LateInv'
    <3>1. \A c \in late : c.op \in Triggers \ {t} BY <1>1, <1>5, TypeOfState DEF LateInv, LateType
    <3> QED BY <1>1, <1>2, <2>3, <3>1 DEF NodeInv, LateInv
  <2>11. RoomInv'
    <3> SUFFICES ASSUME NEW u \in Triggers, receipts'[u] > 0 \/ u \in latePosts'
                 PROVE  opState'[u] # "none" /\ ka'[digest'[u]] \in {"promoted", "published"}
      BY DEF RoomInv, Shared
    <3>1. opState[u] # "none" /\ ka[digest[u]] \in {"promoted", "published"}
      BY <1>1, <1>2 DEF RoomInv, Shared
    <3> QED BY <1>2, <1>5, <2>3, <3>1
  <2> QED BY <2>4, <2>6, <2>7, <2>8, <2>9, <2>10, <2>11 DEF CInv
<1> QED BY <1>4, <1>5 DEF Claim

\* The room and the relay; and publication, which moves an asset on.
LEMMA OutsideStep ==
    ASSUME CInv,
           \/ \E e \in Sources \cup Triggers : Appear(e) \/ Delete(e)
           \/ \E t \in Triggers : LatePost(t) \/ Publish(t)
    PROVE  CInv'
<1>1. /\ TypeOK /\ JobsClaimed /\ ListsClaimed /\ WriteInv /\ NodeInv /\ LateInv
      /\ RoomInv /\ PostInv
  BY DEF CInv
<1>2. CASE \E e \in Sources \cup Triggers : Appear(e) \/ Delete(e)
  <2>1. /\ UNCHANGED <<opState, digest, phase, job, list, receipts, latePosts, ka, content, late>>
        /\ fate' \in [Sources \cup Triggers -> {"unsent", "visible", "deleted"}]
    BY <1>1, <1>2 DEF Appear, Delete, TypeOK, dbVars, procVars, nodeVars
  <2> QED
    BY <1>1, <2>1
    DEF CInv, TypeOK, JobsClaimed, ListsClaimed, WriteInv, NodeInv, LateInv, RoomInv, PostInv, Shared
<1>3. ASSUME NEW t \in Triggers, LatePost(t) PROVE CInv'
  <2>1. UNCHANGED <<opState, digest, phase, job, list, fate, ka, content, late>>
    BY <1>3 DEF LatePost, dbVars, procVars, nodeVars
  <2>2. /\ receipts' \in [Triggers -> Nat] /\ latePosts' \subseteq Triggers
        /\ \A u \in Triggers : receipts'[u] > 0 \/ u \in latePosts' => receipts[u] > 0 \/ u \in latePosts
    BY <1>1, <1>3, TypeOfState, ConstantsAssumption DEF LatePost, OneMore
  <2>3. TypeOK' BY <1>1, <2>1, <2>2 DEF TypeOK
  <2>4. RoomInv' BY <1>1, <2>1, <2>2 DEF RoomInv, Shared
  <2> QED
    BY <1>1, <2>1, <2>3, <2>4
    DEF CInv, JobsClaimed, ListsClaimed, WriteInv, NodeInv, LateInv, PostInv, Shared
<1>4. ASSUME NEW t \in Triggers, Publish(t) PROVE CInv'
  <2>1. /\ opState[t] = "receipted" /\ opState' = [opState EXCEPT ![t] = "vm_receipted"]
        /\ ka[digest[t]] = "promoted" /\ ka' = [ka EXCEPT ![digest[t]] = "published"]
        /\ UNCHANGED <<digest, phase, job, list, fate, receipts, latePosts, content, late>>
    BY <1>4 DEF Publish, procVars, relayVars
  <2>2. digest \in [Triggers -> Digest] /\ digest[t] \in Digest BY <1>1, TypeOfState
  <2>3. /\ opState' \in [Triggers -> OpState \cup {"none"}]
        /\ \A u \in Triggers : opState[u] # "none" => opState'[u] # "none"
    BY <1>1, <2>1, TypeOfState DEF OpState, Track
  <2>4. /\ ka' \in [Digest -> {"none", "draft", "sealed", "promoted", "published"}]
        /\ \A d \in Digest : ka[d] \in {"promoted", "published"} => ka'[d] \in {"promoted", "published"}
        /\ \A d \in Digest : ka'[d] = "none" <=> ka[d] = "none"
    BY <1>1, <2>1, <2>2, TypeOfState
  <2>5. TypeOK' BY <1>1, <2>1, <2>3, <2>4 DEF TypeOK
  <2>6. JobsClaimed' BY <1>1, <2>1, <2>3 DEF JobsClaimed
  <2>7. ListsClaimed'
    <3>1. \A y \in Workers : \A rec \in list[y] : rec.op \in Triggers BY <1>1 DEF TypeOK
    <3> QED BY <1>1, <2>1, <2>3, <3>1 DEF ListsClaimed
  <2>8. WriteInv' /\ NodeInv' BY <1>1, <2>1, <2>4 DEF WriteInv, NodeInv
  <2>11. LateInv' BY <1>1, <2>1, <2>3, TypeOfState DEF LateInv, LateType
  <2>9. RoomInv' BY <1>1, <2>1, <2>2, <2>3, <2>4 DEF RoomInv, Shared
  <2>10. PostInv' BY <1>1, <2>1, <2>2, <2>4 DEF PostInv, Shared, JobsClaimed
  <2> QED BY <2>5, <2>6, <2>7, <2>8, <2>9, <2>10, <2>11 DEF CInv
<1> QED BY <1>2, <1>3, <1>4

\* A call carried out after its timeout does what it would have done before it: it
\* writes what the digest was taken over, and takes no asset back.
LEMMA LateEffect ==
    ASSUME CInv, NEW c \in late, LateCall(c)
    PROVE  /\ c \in LateType /\ late' \subseteq late
           /\ UNCHANGED <<opState, digest, phase, job, list, fate, receipts, latePosts>>
           /\ ka' \in [Digest -> {"none", "draft", "sealed", "promoted", "published"}]
           /\ content' \in [Digest -> Digest] /\ NodeInv'
           /\ \A d \in Digest : ka[d] \in {"promoted", "published"} => ka'[d] \in {"promoted", "published"}
           /\ \A d \in Digest : ka'[d] \in {"promoted", "published"} =>
                  \/ ka[d] \in {"promoted", "published"}
                  \/ c.call = "share" /\ d = digest[c.op]
<1> DEFINE d == digest[c.op]
<1>1. TypeOK /\ NodeInv /\ LateInv BY DEF CInv
<1>2. c \in LateType /\ c.op \in Triggers /\ d \in Digest BY <1>1, TypeOfState DEF LateType
<1>3. late' \subseteq late /\ UNCHANGED <<opState, digest, phase, job, list, fate, receipts, latePosts>>
  BY DEF LateCall, dbVars, procVars, relayVars
<1>4. /\ ka \in [Digest -> {"none", "draft", "sealed", "promoted", "published"}]
      /\ content \in [Digest -> Digest]
  BY <1>1, TypeOfState
<1> HIDE DEF d
<1>5. CASE UNCHANGED <<ka, content>> BY <1>1, <1>2, <1>3, <1>4, <1>5 DEF NodeInv
<1>6. CASE /\ c.call = "write"
           /\ ka' = [ka EXCEPT ![d] = IF @ = "none" THEN "draft" ELSE @]
           /\ content' = [content EXCEPT ![d] = @ \cup c.src]
  <2>1. c.src = d BY <1>1, <1>6 DEF LateInv, d
  <2>2. content[d] \in {{}, d} BY <1>1, <1>2 DEF NodeInv
  <2>3. content'[d] = d /\ \A e \in Digest \ {d} : content'[e] = content[e]
    BY <1>2, <1>4, <1>6, <2>1, <2>2
  <2>4. /\ ka'[d] # "none" /\ (ka[d] # "none" => ka'[d] = ka[d])
        /\ (ka[d] = "none" => ka'[d] = "draft")
        /\ \A e \in Digest \ {d} : ka'[e] = ka[e]
    BY <1>2, <1>4, <1>6
  <2>5. /\ ka' \in [Digest -> {"none", "draft", "sealed", "promoted", "published"}]
        /\ content' \in [Digest -> Digest]
    BY <1>2, <1>4, <1>6, <2>1, <2>2 DEF Digest
  <2>6. NodeInv'
    <3> SUFFICES ASSUME NEW e \in Digest
                 PROVE  content'[e] = IF ka'[e] = "none" THEN {} ELSE e
      BY DEF NodeInv
    <3>1. CASE e = d BY <2>3, <2>4, <3>1
    <3>2. CASE e # d BY <1>1, <2>3, <2>4, <3>2 DEF NodeInv
    <3> QED BY <3>1, <3>2
  <2> QED BY <1>2, <1>3, <2>4, <2>5, <2>6
<1>7. CASE /\ c.call = "finalize" /\ ka[d] \in {"draft", "sealed"}
           /\ ka' = [ka EXCEPT ![d] = "sealed"] /\ UNCHANGED content
  BY <1>1, <1>2, <1>3, <1>4, <1>7 DEF NodeInv
<1>8. CASE /\ c.call = "share" /\ ka[d] \in {"sealed", "promoted"}
           /\ ka' = [ka EXCEPT ![d] = "promoted"] /\ UNCHANGED content
  BY <1>1, <1>2, <1>3, <1>4, <1>8 DEF NodeInv, d
<1> QED BY <1>5, <1>6, <1>7, <1>8 DEF LateCall, Effect, d

LEMMA LateCallStep == ASSUME CInv, NEW c \in late, LateCall(c) PROVE CInv'
<1>1. /\ TypeOK /\ JobsClaimed /\ ListsClaimed /\ WriteInv /\ LateInv /\ RoomInv /\ PostInv
      /\ digest \in [Triggers -> Digest] /\ late \subseteq LateType
  BY TypeOfState DEF CInv
<1>2. TypeOK' BY <1>1, LateEffect DEF TypeOK
<1>3. JobsClaimed' /\ ListsClaimed' /\ WriteInv'
  BY <1>1, LateEffect DEF JobsClaimed, ListsClaimed, WriteInv
<1>4. LateInv' BY <1>1, LateEffect DEF LateInv
<1>5. RoomInv' BY <1>1, LateEffect DEF RoomInv, Shared
<1>6. PostInv' BY <1>1, LateEffect DEF PostInv, Shared, JobsClaimed
<1> QED BY <1>2, <1>3, <1>4, <1>5, <1>6, LateEffect DEF CInv

LEMMA InitCInv == Init => CInv
<1> SUFFICES ASSUME Init PROVE CInv OBVIOUS
<1>1. /\ {} \in Digest /\ Idle \in JobType /\ Idle.pc = "idle"
  BY IdleTyped DEF Digest, Idle
<1>2. TypeOK BY <1>1 DEF Init, TypeOK, JobType
<1>3. JobsClaimed /\ ListsClaimed /\ WriteInv /\ NodeInv /\ LateInv /\ RoomInv /\ PostInv
  BY <1>1 DEF Init, JobsClaimed, ListsClaimed, WriteInv, NodeInv, LateInv, RoomInv, PostInv
<1> QED BY <1>2, <1>3 DEF CInv

LEMMA NextCInv == CInv /\ [Next]_vars => CInv'
<1> SUFFICES ASSUME CInv, [Next]_vars PROVE CInv' OBVIOUS
<1>1. CASE UNCHANGED vars
  <2>1. UNCHANGED <<opState, digest, phase, job, list, fate, receipts, latePosts, ka, content, late>>
    BY <1>1 DEF vars, dbVars, procVars, relayVars, nodeVars
  <2> QED
    BY <2>1
    DEF CInv, TypeOK, JobsClaimed, ListsClaimed, WriteInv, NodeInv, LateInv, RoomInv, PostInv, Shared
<1>2. CASE Boot \/ Serve \/ Crash \/ \E x \in Workers : Resync(x) BY <1>2, ProcessStep
<1>3. CASE Claim BY <1>3, ClaimStep
<1>4. CASE \E t \in Triggers : HandleCapture(t) BY <1>4, HandleStep
<1>5. CASE \E x \in Workers : Take(x) \/ Execute(x) BY <1>5, TakeStep, ExecuteStep
<1>6. CASE \/ \E e \in Sources \cup Triggers : Appear(e) \/ Delete(e)
           \/ \E t \in Triggers : LatePost(t) \/ Publish(t)
  BY <1>6, OutsideStep
<1>7. CASE \E c \in late : LateCall(c) BY <1>7, LateCallStep
<1> QED BY <1>1, <1>2, <1>3, <1>4, <1>5, <1>6, <1>7 DEF Next

\* CInv is inductive (capture executor, node and room).
THEOREM InductiveInvariant == Spec => []CInv
BY InitCInv, NextCInv, PTL DEF Spec

\* The types of all variables, for any number of triggers, messages and workers
\* (capture executor).
THEOREM TypesHold == Spec => []TypeOK
<1>1. CInv => TypeOK BY DEF CInv
<1> QED BY <1>1, InductiveInvariant, PTL

\* Whatever is deleted, backdated, retried or run side by side: an asset holds the
\* source set its name is the digest of (snapshot and digest check of executeOp).
THEOREM NamesAreDigests == Spec => []ContentMatchesDigest
<1>1. CInv => ContentMatchesDigest BY DEF CInv, NodeInv, ContentMatchesDigest
<1> QED BY <1>1, InductiveInvariant, PTL

\* A receipt stands for an asset that is shared under its digest, even when two
\* workers execute the operation side by side (verify before the receipt).
THEOREM ReceiptsAreBacked == Spec => []ReceiptIsBacked
<1>1. CInv => ReceiptIsBacked BY DEF CInv, RoomInv, Shared, ReceiptIsBacked
<1> QED BY <1>1, InductiveInvariant, PTL

-----------------------------------------------------------------------------
(* One worker per operation: what holds when resyncs do not overlap.       *)

AtMostOneResync == \A x, y \in Resyncs : x = y

Working(x) == job[x].pc \notin {"idle", "thread"}

\* Resyncs work only while the daemon serves, and boot's list is done by then.
PhaseInv ==
    /\ phase # "serving" => \A x \in Resyncs : job[x] = Idle /\ list[x] = {}
    /\ phase = "down" => job[Main] = Idle /\ list[Main] = {}
    /\ phase = "serving" => list[Main] = {}

\* The record in hand is not stale, and the receipt is looked for and posted from
\* the last capture state.
SeenInv ==
    \A x \in Workers : Working(x) =>
        /\ job[x].seen = opState[job[x].op] /\ job[x].seen \in CaptureStates
        /\ job[x].pc = "source" => job[x].seen = "distilled"
        /\ job[x].pc \in {"verify", "find", "post", "posted"} => job[x].seen = "shared"
ListInv == \A x \in Workers : \A rec \in list[x] : rec.seen = opState[rec.op]

\* No two hands on one operation.
Apart ==
    /\ \A x, y \in Workers : x # y /\ Working(x) /\ Working(y) => job[x].op # job[y].op
    /\ \A x, y \in Workers : Working(y) => \A rec \in list[x] : rec.op # job[y].op
    /\ \A x, y \in Workers : x # y => \A r1 \in list[x], r2 \in list[y] : r1.op # r2.op

SilentInv ==
    \A t \in Triggers : receipts[t] > 0 \/ t \in latePosts =>
        opState[t] \in {"shared", "receipted", "vm_receipted"}

XInv == PhaseInv /\ SeenInv /\ ListInv /\ Apart /\ SilentInv

\* A step of the executor on the operation in its hands.
LEMMA WorkerApart ==
    ASSUME CInv, XInv, NEW x \in Workers, Working(x),
           job' \in [Workers -> JobType], \A y \in Workers \ {x} : job'[y] = job[y],
           \/ job'[x] = Idle
           \/ /\ job'[x].op = job[x].op /\ job'[x].pc \notin {"idle", "thread"}
              /\ job'[x].seen = opState'[job[x].op] /\ job'[x].seen \in CaptureStates
              /\ job'[x].pc # "source"
              /\ job'[x].pc \in {"verify", "find", "post", "posted"} => job'[x].seen = "shared",
           \A t \in Triggers \ {job[x].op} : opState'[t] = opState[t],
           UNCHANGED <<phase, list>>,
           \A t \in Triggers : receipts'[t] > 0 \/ t \in latePosts' =>
               receipts[t] > 0 \/ t \in latePosts \/ (t = job[x].op /\ job[x].pc = "post"),
           opState[job[x].op] = "shared" => opState'[job[x].op] \in {"shared", "receipted"}
    PROVE  XInv'
<1>1. TypeOK /\ JobsClaimed /\ PhaseInv /\ SeenInv /\ ListInv /\ Apart /\ SilentInv
  BY DEF CInv, XInv
<1>2. job[x].op \in Triggers BY <1>1 DEF JobsClaimed, Working
<1>3. Idle.pc = "idle" BY DEF Idle
<1>4. PhaseInv'
  <2>1. job[x] # Idle BY <1>3 DEF Working
  <2> QED BY <1>1, <1>3, <2>1 DEF PhaseInv, Workers
<1>5. SeenInv'
  <2> SUFFICES ASSUME NEW y \in Workers, job'[y].pc \notin {"idle", "thread"}
               PROVE  /\ job'[y].seen = opState'[job'[y].op] /\ job'[y].seen \in CaptureStates
                      /\ job'[y].pc = "source" => job'[y].seen = "distilled"
                      /\ job'[y].pc \in {"verify", "find", "post", "posted"} => job'[y].seen = "shared"
    BY DEF SeenInv, Working
  <2>1. CASE y = x BY <1>3, <2>1
  <2>2. CASE y # x
    <3>1. Working(y) /\ job[y].op \in Triggers /\ job[y].op # job[x].op
      BY <1>1, <2>2 DEF Working, JobsClaimed, Apart
    <3> QED BY <1>1, <2>2, <3>1 DEF SeenInv
  <2> QED BY <2>1, <2>2
<1>6. ListInv'
  <2>1. \A y \in Workers : \A rec \in list[y] : rec.op \in Triggers /\ rec.op # job[x].op
    BY <1>1 DEF TypeOK, Apart
  <2> QED BY <1>1, <2>1 DEF ListInv
<1>7. Apart'
  <2>1. \A y \in Workers : job'[y].pc \notin {"idle", "thread"} => Working(y) /\ job'[y].op = job[y].op
    BY <1>3 DEF Working
  <2> QED BY <1>1, <2>1 DEF Apart, Working
<1>8. SilentInv'
  <2> SUFFICES ASSUME NEW t \in Triggers, receipts'[t] > 0 \/ t \in latePosts'
               PROVE  opState'[t] \in {"shared", "receipted", "vm_receipted"}
    BY DEF SilentInv
  <2>1. CASE t = job[x].op
    <3>1. opState[t] \in {"shared", "receipted", "vm_receipted"}
      BY <1>1, <2>1 DEF SilentInv, SeenInv
    <3>2. opState[t] \in CaptureStates BY <1>1, <2>1 DEF SeenInv
    <3>3. opState[t] = "shared" BY <3>1, <3>2 DEF CaptureStates
    <3> QED BY <2>1, <3>3
  <2>2. CASE t # job[x].op BY <1>1, <2>2 DEF SilentInv
  <2> QED BY <2>1, <2>2
<1> QED BY <1>4, <1>5, <1>6, <1>7, <1>8 DEF XInv

LEMMA GotoApart ==
    ASSUME CInv, XInv, NEW x \in Workers, Working(x), NEW pc \in Busy \ {"thread", "source"},
           Goto(x, pc) \/ Done(x),
           pc \in {"verify", "find", "post", "posted"} => job[x].seen = "shared",
           UNCHANGED <<opState, phase, list>>,
           \A t \in Triggers : receipts'[t] > 0 \/ t \in latePosts' =>
               receipts[t] > 0 \/ t \in latePosts \/ (t = job[x].op /\ job[x].pc = "post")
    PROVE  XInv'
<1>1. TypeOK /\ SeenInv BY DEF CInv, XInv
<1>2. /\ job' \in [Workers -> JobType] /\ \A y \in Workers \ {x} : job'[y] = job[y]
      /\ job'[x] = Idle \/ (/\ job'[x].op = job[x].op /\ job'[x].pc = pc
                           /\ job'[x].seen = job[x].seen)
  BY <1>1, DoneJob, GotoJob
<1>3. job[x].seen = opState[job[x].op] /\ job[x].seen \in CaptureStates
  BY <1>1 DEF SeenInv
<1>4. pc \notin {"idle", "thread", "source"} BY DEF Busy
<1>5. \/ job'[x] = Idle
      \/ /\ job'[x].op = job[x].op /\ job'[x].pc \notin {"idle", "thread"}
         /\ job'[x].seen = opState'[job[x].op] /\ job'[x].seen \in CaptureStates
         /\ job'[x].pc # "source"
         /\ job'[x].pc \in {"verify", "find", "post", "posted"} => job'[x].seen = "shared"
  BY <1>2, <1>3, <1>4
<1> QED BY <1>2, <1>5, WorkerApart

LEMMA MoveApart ==
    ASSUME CInv, XInv, NEW x \in Workers, Working(x),
           NEW to \in OpState, NEW pc \in (Busy \ {"thread", "source"}) \cup {"idle"}, Move(x, to, pc),
           \/ to \in CaptureStates /\ (pc \in {"verify", "find", "post", "posted"} => to = "shared")
           \/ to = "receipted" /\ pc = "idle"
           \/ to = "failed" /\ pc = "idle" /\ job[x].pc = "source",
           UNCHANGED <<phase, list, receipts, latePosts>>
    PROVE  XInv'
<1>1. TypeOK /\ SeenInv /\ JobsClaimed BY DEF CInv, XInv
<1>2. job[x].op \in Triggers BY <1>1 DEF JobsClaimed, Working
<1>3. /\ job' \in [Workers -> JobType] /\ \A y \in Workers \ {x} : job'[y] = job[y]
      /\ \/ /\ CanTransition(opState[job[x].op], to)
            /\ opState' = [opState EXCEPT ![job[x].op] = to]
            /\ \/ pc = "idle" /\ job'[x] = Idle
               \/ /\ pc # "idle" /\ job'[x].pc = pc /\ job'[x].op = job[x].op
                  /\ job'[x].seen = to
         \/ opState' = opState /\ job'[x] = Idle
  BY <1>1, <1>2, MoveJob
<1>4. /\ \A t \in Triggers \ {job[x].op} : opState'[t] = opState[t]
      /\ opState'[job[x].op] = opState[job[x].op]
         \/ (opState'[job[x].op] = to /\ CanTransition(opState[job[x].op], to))
  BY <1>1, <1>2, <1>3, TypeOfState
<1>5. opState[job[x].op] = "shared" => opState'[job[x].op] \in {"shared", "receipted"}
  <2>1. to \in CaptureStates => ~CanTransition("shared", to)
    BY DEF CaptureStates, CanTransition, OffTrack, Track, Rank
  <2>2. to = "failed" => opState[job[x].op] = "distilled"
    BY <1>1 DEF SeenInv, CaptureStates
  <2> QED BY <1>4, <2>1, <2>2
<1>6. \/ job'[x] = Idle
      \/ /\ job'[x].op = job[x].op /\ job'[x].pc \notin {"idle", "thread"}
         /\ job'[x].seen = opState'[job[x].op] /\ job'[x].seen \in CaptureStates
         /\ job'[x].pc # "source"
         /\ job'[x].pc \in {"verify", "find", "post", "posted"} => job'[x].seen = "shared"
  <2> SUFFICES ASSUME job'[x] # Idle
               PROVE  /\ job'[x].op = job[x].op /\ job'[x].pc \notin {"idle", "thread"}
                      /\ job'[x].seen = opState'[job[x].op] /\ job'[x].seen \in CaptureStates
                      /\ job'[x].pc # "source"
                      /\ job'[x].pc \in {"verify", "find", "post", "posted"} => job'[x].seen = "shared"
    OBVIOUS
  <2>1. /\ pc # "idle" /\ job'[x].pc = pc /\ job'[x].op = job[x].op /\ job'[x].seen = to
        /\ opState'[job[x].op] = to
    BY <1>1, <1>2, <1>3, TypeOfState
  <2>2. to \in CaptureStates /\ pc \notin {"idle", "thread", "source"} BY <2>1 DEF Busy
  <2> QED BY <2>1, <2>2
<1> QED BY <1>3, <1>4, <1>5, <1>6, WorkerApart

LEMMA ExecuteApart == ASSUME CInv, XInv, NEW x \in Workers, Execute(x) PROVE XInv'
<1>1. TypeOK /\ JobsClaimed /\ SeenInv BY DEF CInv, XInv
<1>2. {"wm_written", "finalized", "shared"} \subseteq CaptureStates \cap OpState
  BY DEF OpState, Track, CaptureStates
<1>3. "receipted" \in OpState /\ "failed" \in OpState BY DEF OpState, Track, OffTrack
<1>4. CASE ReadSource(x)
  <2>1. /\ job[x].pc = "source" /\ Working(x) /\ job[x].op \in Triggers
        /\ UNCHANGED <<phase, list, receipts, latePosts>>
    BY <1>1, <1>4 DEF ReadSource, Working, relayVars, JobsClaimed
  <2>2. CASE Done(x) /\ UNCHANGED opState BY <2>1, <2>2, GotoApart DEF Busy
  <2>3. CASE Move(x, "failed", "idle") BY <1>3, <2>1, <2>3, MoveApart
  <2>4. CASE /\ job' = [job EXCEPT ![x].pc = "write", ![x].src = Snapshot(job[x].op)]
             /\ UNCHANGED opState /\ SameSource(job[x].op, Snapshot(job[x].op))
    <3>1. Snapshot(job[x].op) \in Digest BY <1>1, <2>1, <2>4, TypeOfState DEF SameSource
    <3>2. /\ job' \in [Workers -> JobType] /\ \A y \in Workers \ {x} : job'[y] = job[y]
          /\ job'[x].op = job[x].op /\ job'[x].pc = "write" /\ job'[x].seen = job[x].seen
      BY <1>1, <2>4, <3>1, TypeOfState DEF JobType, Busy
    <3>3. job[x].seen = opState[job[x].op] /\ job[x].seen \in CaptureStates
      BY <1>1, <2>1 DEF SeenInv
    <3> QED BY <2>1, <2>4, <3>2, <3>3, WorkerApart
  <2> QED BY <1>4, <2>2, <2>3, <2>4 DEF ReadSource
<1>5. ASSUME NEW pc \in Busy, NEW next \in {"written", "sealed", "promoted"},
             pc # "thread", Call(x, pc, next)
      PROVE  XInv'
  <2>1. /\ Working(x) /\ (Goto(x, next) \/ Done(x))
        /\ UNCHANGED <<opState, phase, list, receipts, latePosts>>
    BY <1>5 DEF Call, Working, dbVars, relayVars, Busy
  <2> QED BY <2>1, GotoApart DEF Busy
<1>6. CASE Write(x) \/ Finalize(x) \/ Share(x)
  BY <1>5, <1>6 DEF Write, Finalize, Share, Busy
<1>7. CASE Written(x) \/ Sealed(x) \/ Promoted(x)
  <2>1. Working(x) /\ UNCHANGED <<phase, list, receipts, latePosts>>
    BY <1>7 DEF Written, Sealed, Promoted, Working, relayVars
  <2> QED BY <1>2, <1>7, <2>1, MoveApart DEF Written, Sealed, Promoted, Busy
<1>8. CASE Describe(x)
  <2>1. Working(x) /\ UNCHANGED <<phase, list, receipts, latePosts>>
    BY <1>8 DEF Describe, Working, relayVars
  <2>2. CASE Move(x, "shared", "verify") BY <1>2, <2>1, <2>2, MoveApart DEF Busy
  <2>3. ASSUME NEW pc \in {"finalize", "share"}, Goto(x, pc), UNCHANGED opState PROVE XInv'
    BY <2>1, <2>3, GotoApart DEF Busy
  <2> QED BY <1>8, <2>2, <2>3 DEF Describe
<1>9. CASE Verify(x)
  <2>1. /\ Working(x) /\ UNCHANGED <<opState, phase, list, receipts, latePosts>>
        /\ (Goto(x, "find") \/ Done(x)) /\ job[x].pc = "verify"
    BY <1>9 DEF Verify, Working, dbVars, relayVars
  <2>2. job[x].seen = "shared" BY <1>1, <1>9 DEF SeenInv, Verify, Working
  <2> QED BY <2>1, <2>2, GotoApart DEF Busy
<1>10. CASE Find(x)
  <2>1. Working(x) /\ job[x].pc = "find" /\ UNCHANGED <<phase, list, receipts, latePosts>>
    BY <1>10 DEF Find, Working, relayVars
  <2>2. CASE Move(x, "receipted", "idle") BY <1>3, <2>1, <2>2, MoveApart
  <2>3. CASE (Done(x) \/ Goto(x, "post")) /\ UNCHANGED opState
    <3>1. job[x].seen = "shared" BY <1>1, <2>1 DEF SeenInv
    <3> QED BY <2>1, <2>3, <3>1, GotoApart DEF Busy
  <2> QED BY <1>10, <2>2, <2>3 DEF Find
<1>11. CASE Post(x)
  <2>1. /\ Working(x) /\ job[x].pc = "post" /\ UNCHANGED <<opState, phase, list>>
        /\ (Goto(x, "posted") \/ Done(x)) /\ job[x].op \in Triggers
    BY <1>1, <1>11 DEF Post, Working, dbVars, JobsClaimed
  <2>2. job[x].seen = "shared" BY <1>1, <2>1 DEF SeenInv
  <2>3. \A t \in Triggers : receipts'[t] > 0 \/ t \in latePosts' =>
            receipts[t] > 0 \/ t \in latePosts \/ t = job[x].op
    BY <1>1, <1>11, TypeOfState DEF Post
  <2> QED BY <1>11, <2>1, <2>2, <2>3, GotoApart DEF Busy, Post
<1>12. CASE Posted(x)
  <2>1. Working(x) /\ UNCHANGED <<phase, list, receipts, latePosts>>
    BY <1>12 DEF Posted, Working, relayVars
  <2> QED BY <1>3, <1>12, <2>1, MoveApart DEF Posted
<1> QED BY <1>4, <1>6, <1>7, <1>8, <1>9, <1>10, <1>11, <1>12 DEF Execute

LEMMA BootApart == ASSUME CInv, XInv, Boot \/ Serve \/ Crash PROVE XInv'
<1>1. TypeOK /\ PhaseInv /\ SeenInv /\ ListInv /\ Apart /\ SilentInv BY DEF CInv, XInv
<1>2. Idle.pc = "idle" /\ Main \in Workers /\ Main \notin Resyncs
  BY ConstantsAssumption DEF Idle, Workers
<1>3. UNCHANGED <<opState, receipts, latePosts>> BY DEF Boot, Serve, Crash, dbVars, relayVars
<1>4. SilentInv' BY <1>1, <1>3 DEF SilentInv
<1>5. CASE Boot
  <2>1. /\ phase = "down" /\ phase' = "recovering" /\ job' = job
        /\ list' = [list EXCEPT ![Main] = Pending]
    BY <1>5 DEF Boot
  <2>2. /\ list'[Main] = Pending /\ \A x \in Resyncs : job[x] = Idle /\ list'[x] = {}
    BY <1>1, <1>2, <2>1 DEF TypeOK, PhaseInv, Workers
  <2>3. \A x \in Workers : job'[x] = Idle BY <1>1, <2>1 DEF PhaseInv, Workers
  <2>4. PhaseInv' BY <2>1, <2>2, <2>3 DEF PhaseInv
  <2>5. SeenInv' BY <1>2, <2>3 DEF SeenInv, Working
  <2>6. ListInv' BY <1>1, <1>3, <2>2, PendingTyped DEF ListInv, Workers
  <2>7. Apart' BY <1>2, <2>2, <2>3 DEF Apart, Working, Workers
  <2> QED BY <1>4, <2>4, <2>5, <2>6, <2>7 DEF XInv
<1>6. CASE Serve
  <2>1. /\ phase' = "serving" /\ list[Main] = {} /\ UNCHANGED <<job, list>> BY <1>6 DEF Serve
  <2>2. PhaseInv' BY <2>1 DEF PhaseInv
  <2> QED BY <1>1, <1>3, <1>4, <2>1, <2>2 DEF XInv, SeenInv, ListInv, Apart, Working
<1>7. CASE Crash
  <2>1. /\ phase' = "down" /\ job' = [x \in Workers |-> Idle] /\ list' = [x \in Workers |-> {}]
    BY <1>7 DEF Crash
  <2>2. \A x \in Workers : job'[x] = Idle /\ list'[x] = {} BY <2>1
  <2> QED BY <1>2, <1>4, <2>2 DEF XInv, PhaseInv, SeenInv, ListInv, Apart, Working, Workers
<1> QED BY <1>5, <1>6, <1>7

\* The premise: with one resync there is none under way when one begins, and the
\* queue has been drained.
LEMMA ResyncApart ==
    ASSUME CInv, XInv, AtMostOneResync, NEW x \in Workers, Resync(x)
    PROVE  XInv'
<1>1. TypeOK /\ PhaseInv /\ SeenInv /\ ListInv /\ Apart /\ SilentInv BY DEF CInv, XInv
<1>2. Idle.pc = "idle" /\ Main \in Workers /\ Main \notin Resyncs
  BY ConstantsAssumption DEF Idle, Workers
<1>3. /\ phase = "serving" /\ job[Main] = Idle /\ x \in Resyncs /\ job[x] = Idle /\ list[x] = {}
      /\ list' = [list EXCEPT ![x] = Pending]
      /\ UNCHANGED <<opState, phase, job, receipts, latePosts>>
  BY DEF Resync, dbVars, relayVars
<1>4. \A y \in Workers : job'[y] = Idle /\ list'[y] = IF y = x THEN Pending ELSE {}
  BY <1>1, <1>2, <1>3 DEF TypeOK, PhaseInv, Workers, AtMostOneResync
<1>5. PhaseInv' BY <1>1, <1>2, <1>3, <1>4 DEF PhaseInv
<1>6. SeenInv' BY <1>2, <1>4 DEF SeenInv, Working
<1>7. ListInv' BY <1>1, <1>3, <1>4, PendingTyped DEF ListInv
<1>8. Apart' BY <1>2, <1>4 DEF Apart, Working
<1>9. SilentInv' BY <1>1, <1>3 DEF SilentInv
<1> QED BY <1>5, <1>6, <1>7, <1>8, <1>9 DEF XInv

LEMMA TakeApart == ASSUME CInv, XInv, NEW x \in Workers, Take(x) PROVE XInv'
<1>1. TypeOK /\ PhaseInv /\ SeenInv /\ ListInv /\ Apart /\ SilentInv BY DEF CInv, XInv
<1>2. PICK rec \in list[x] : /\ job' = [job EXCEPT ![x] = Entry(rec.op, rec.seen)]
                             /\ list' = [list EXCEPT ![x] = @ \ {rec}]
  BY DEF Take
<1>3. UNCHANGED <<opState, phase, receipts, latePosts>> /\ job[x] = Idle
  BY DEF Take, dbVars, relayVars
<1>4. rec \in [op : Triggers, seen : CaptureStates] BY <1>1 DEF TypeOK
<1> DEFINE e == Entry(rec.op, rec.seen)
<1>5. /\ e.op = rec.op /\ e.seen = rec.seen
      /\ e.pc \in {"source", "describe", "verify"}
      /\ e.pc = "source" => rec.seen = "distilled"
      /\ e.pc = "verify" => rec.seen = "shared"
  BY <1>4 DEF Entry, CaptureStates
<1> HIDE DEF e
<1>6. job'[x] = e /\ \A y \in Workers \ {x} : job'[y] = job[y]
  BY <1>1, <1>2, TypeOfState DEF e
<1>7. list'[x] = list[x] \ {rec} /\ \A y \in Workers \ {x} : list'[y] = list[y]
  BY <1>1, <1>2 DEF TypeOK
<1>8. PhaseInv' BY <1>1, <1>2, <1>3, <1>6, <1>7 DEF PhaseInv, Workers
<1>9. SeenInv'
  <2>1. rec.seen = opState[rec.op] /\ rec.seen \in CaptureStates BY <1>1, <1>4 DEF ListInv
  <2>2. CaptureStates \subseteq OpState BY DEF CaptureStates, OpState, Track
  <2> SUFFICES ASSUME NEW y \in Workers, job'[y].pc \notin {"idle", "thread"}
               PROVE  /\ job'[y].seen = opState'[job'[y].op] /\ job'[y].seen \in CaptureStates
                      /\ job'[y].pc = "source" => job'[y].seen = "distilled"
                      /\ job'[y].pc \in {"verify", "find", "post", "posted"} => job'[y].seen = "shared"
    BY DEF SeenInv, Working
  <2>3. CASE y = x BY <1>3, <1>4, <1>5, <1>6, <2>1, <2>3 DEF Entry, e, CaptureStates
  <2>4. CASE y # x BY <1>1, <1>3, <1>6, <2>4 DEF SeenInv, Working
  <2> QED BY <2>3, <2>4
<1>10. ListInv' BY <1>1, <1>3, <1>7 DEF ListInv
<1>11. \A r \in list'[x] : r.op # rec.op
  <2>1. \A r \in list[x] : r \in [op : Triggers, seen : CaptureStates] BY <1>1 DEF TypeOK
  <2> SUFFICES ASSUME NEW r \in list[x], r # rec PROVE r.op # rec.op BY <1>7
  <2>2. r.seen = opState[r.op] /\ rec.seen = opState[rec.op] BY <1>1 DEF ListInv
  <2> QED BY <1>4, <2>1, <2>2
<1>12. Apart'
  <2>1. \A y \in Workers : list'[y] \subseteq list[y] BY <1>7
  <2>2. ASSUME NEW y \in Workers, NEW z \in Workers, y # z, job'[y].pc \notin {"idle", "thread"},
               job'[z].pc \notin {"idle", "thread"}
        PROVE  job'[y].op # job'[z].op
    BY <1>1, <1>5, <1>6, <2>2 DEF Apart, Working
  <2>3. ASSUME NEW y \in Workers, NEW z \in Workers, job'[z].pc \notin {"idle", "thread"},
               NEW r \in list'[y]
        PROVE  r.op # job'[z].op
    BY <1>1, <1>5, <1>6, <1>11, <2>1, <2>3 DEF Apart, Working
  <2>4. ASSUME NEW y \in Workers, NEW z \in Workers, y # z, NEW r1 \in list'[y], NEW r2 \in list'[z]
        PROVE  r1.op # r2.op
    BY <1>1, <2>1, <2>4 DEF Apart
  <2> QED BY <2>2, <2>3, <2>4 DEF Apart, Working
<1>13. SilentInv' BY <1>1, <1>3 DEF SilentInv
<1> QED BY <1>8, <1>9, <1>10, <1>12, <1>13 DEF XInv

LEMMA HandleApart == ASSUME CInv, XInv, NEW t \in Triggers, HandleCapture(t) PROVE XInv'
<1>1. TypeOK /\ PhaseInv /\ SeenInv /\ ListInv /\ Apart /\ SilentInv BY DEF CInv, XInv
<1>2. /\ phase = "serving" /\ UNCHANGED <<opState, phase, list, receipts, latePosts>>
      /\ Main \in Workers /\ Main \notin Resyncs
  BY ConstantsAssumption DEF HandleCapture, dbVars, relayVars, Workers
<1>3. job'[Main].pc = "thread" /\ \A y \in Workers \ {Main} : job'[y] = job[y]
  BY <1>1, <1>2, TypeOfState DEF HandleCapture, Idle
<1>4. PhaseInv' BY <1>1, <1>2, <1>3 DEF PhaseInv
<1>5. SeenInv' BY <1>1, <1>2, <1>3 DEF SeenInv, Working
<1>6. ListInv' /\ SilentInv' BY <1>1, <1>2 DEF ListInv, SilentInv
<1>7. Apart' BY <1>1, <1>2, <1>3 DEF Apart, Working
<1> QED BY <1>4, <1>5, <1>6, <1>7 DEF XInv

LEMMA ClaimApart == ASSUME CInv, XInv, Claim PROVE XInv'
<1> DEFINE t == job[Main].op
           src == Snapshot(t)
<1>1. TypeOK /\ JobsClaimed /\ ListsClaimed /\ RoomInv
      /\ PhaseInv /\ SeenInv /\ ListInv /\ Apart /\ SilentInv
  BY DEF CInv, XInv
<1>2. /\ Main \in Workers /\ Main \notin Resyncs /\ job[Main].pc = "thread"
      /\ UNCHANGED <<phase, list, receipts, latePosts>>
  BY ConstantsAssumption DEF Claim, Workers, relayVars
<1>3. t \in Triggers /\ job[Main] # Idle BY <1>1, <1>2 DEF JobsClaimed, Idle
<1>4. CASE Done(Main) /\ UNCHANGED <<opState, digest>>
  <2>1. job'[Main] = Idle /\ Idle.pc = "idle" /\ \A y \in Workers \ {Main} : job'[y] = job[y]
    BY <1>1, <1>2, <1>4, DoneJob DEF Idle
  <2>2. PhaseInv' BY <1>1, <1>2, <2>1 DEF PhaseInv, Workers
  <2>3. SeenInv' BY <1>1, <1>4, <2>1 DEF SeenInv, Working
  <2>4. ListInv' /\ SilentInv' BY <1>1, <1>2, <1>4 DEF ListInv, SilentInv
  <2>5. Apart' BY <1>1, <1>2, <2>1 DEF Apart, Working
  <2> QED BY <2>2, <2>3, <2>4, <2>5 DEF XInv
<1>5. CASE /\ opState[t] = "none" /\ opState' = [opState EXCEPT ![t] = "distilled"]
           /\ digest' = [digest EXCEPT ![t] = src]
           /\ job' = [job EXCEPT ![Main].pc = "write", ![Main].seen = "distilled", ![Main].src = src]
  <2>1. /\ job'[Main].pc = "write" /\ job'[Main].op = t /\ job'[Main].seen = "distilled"
        /\ \A y \in Workers \ {Main} : job'[y] = job[y]
    <3> DEFINE j == [job[Main] EXCEPT !.pc = "write", !.seen = "distilled", !.src = src]
    <3>1. job \in [Workers -> JobType] /\ job[Main] \in JobType BY <1>1, <1>2, TypeOfState
    <3>2. j.pc = "write" /\ j.op = t /\ j.seen = "distilled" BY <3>1 DEF JobType
    <3>3. job' = [job EXCEPT ![Main] = j] BY <1>2, <1>5, <3>1
    <3> HIDE DEF j
    <3> QED BY <1>2, <3>1, <3>2, <3>3
  <2>2. opState'[t] = "distilled" /\ \A u \in Triggers \ {t} : opState'[u] = opState[u]
    BY <1>1, <1>3, <1>5, TypeOfState
  <2>3. \A y \in Workers \ {Main} : Working(y) => job[y].op \in Triggers \ {t}
    BY <1>1, <1>5 DEF JobsClaimed, Working
  <2>4. \A y \in Workers : \A rec \in list[y] : rec.op \in Triggers \ {t}
    BY <1>1, <1>5 DEF ListsClaimed, TypeOK
  <2>5. PhaseInv' BY <1>1, <1>2, <1>3, <2>1 DEF PhaseInv, Workers
  <2>6. SeenInv'
    <3> SUFFICES ASSUME NEW y \in Workers, job'[y].pc \notin {"idle", "thread"}
                 PROVE  /\ job'[y].seen = opState'[job'[y].op] /\ job'[y].seen \in CaptureStates
                        /\ job'[y].pc = "source" => job'[y].seen = "distilled"
                        /\ job'[y].pc \in {"verify", "find", "post", "posted"} => job'[y].seen = "shared"
      BY DEF SeenInv, Working
    <3>1. CASE y = Main BY <2>1, <2>2, <3>1 DEF CaptureStates
    <3>2. CASE y # Main BY <1>1, <2>1, <2>2, <2>3, <3>2 DEF SeenInv, Working
    <3> QED BY <3>1, <3>2
  <2>7. ListInv' BY <1>1, <1>2, <2>2, <2>4 DEF ListInv
  <2>8. Apart'
    <3>1. \A y \in Workers : job'[y].pc \notin {"idle", "thread"} =>
              \/ y = Main /\ job'[y].op = t
              \/ y # Main /\ Working(y) /\ job'[y].op = job[y].op
      BY <2>1 DEF Working
    <3> QED BY <1>1, <1>2, <2>3, <2>4, <3>1 DEF Apart, Working
  <2>9. SilentInv' BY <1>1, <1>2, <1>5, <2>2 DEF SilentInv, RoomInv
  <2> QED BY <2>5, <2>6, <2>7, <2>8, <2>9 DEF XInv
<1> QED BY <1>4, <1>5 DEF Claim

\* The room, and publication, whose operations have left the capture states.
LEMMA OutsideApart ==
    ASSUME CInv, XInv,
           \/ \E e \in Sources \cup Triggers : Appear(e) \/ Delete(e)
           \/ \E t \in Triggers : LatePost(t) \/ Publish(t)
           \/ \E c \in late : LateCall(c)
    PROVE  XInv'
<1>1. TypeOK /\ JobsClaimed /\ PhaseInv /\ SeenInv /\ ListInv /\ Apart /\ SilentInv
  BY DEF CInv, XInv
<1>2. UNCHANGED <<phase, job, list>> BY DEF Appear, Delete, LatePost, Publish, LateCall, procVars
<1>3. PhaseInv' /\ Apart' BY <1>1, <1>2 DEF PhaseInv, Apart, Working
<1>4. CASE \/ \E e \in Sources \cup Triggers : Appear(e) \/ Delete(e)
           \/ \E t \in Triggers : LatePost(t)
           \/ \E c \in late : LateCall(c)
  <2>1. opState' = opState BY <1>4 DEF Appear, Delete, LatePost, LateCall, dbVars
  <2>2. \A u \in Triggers : receipts'[u] > 0 \/ u \in latePosts' => receipts[u] > 0 \/ u \in latePosts
    BY <1>1, <1>4, TypeOfState, ConstantsAssumption
    DEF Appear, Delete, LatePost, LateCall, OneMore, relayVars
  <2>3. SilentInv' BY <1>1, <2>1, <2>2 DEF SilentInv
  <2> QED BY <1>1, <1>2, <1>3, <2>1, <2>3 DEF XInv, SeenInv, ListInv, Working
<1>5. ASSUME NEW t \in Triggers, Publish(t) PROVE XInv'
  <2>1. /\ opState[t] = "receipted" /\ opState' = [opState EXCEPT ![t] = "vm_receipted"]
        /\ UNCHANGED <<receipts, latePosts>>
    BY <1>5 DEF Publish, relayVars
  <2>2. opState'[t] = "vm_receipted" /\ \A u \in Triggers \ {t} : opState'[u] = opState[u]
    BY <1>1, <2>1, TypeOfState
  <2>3. opState[t] \notin CaptureStates BY <2>1 DEF CaptureStates
  <2>4. SeenInv'
    <3>1. \A y \in Workers : Working(y) => job[y].op \in Triggers \ {t}
      BY <1>1, <2>3 DEF SeenInv, JobsClaimed, Working
    <3> QED BY <1>1, <1>2, <2>2, <3>1 DEF SeenInv, Working
  <2>5. ListInv'
    <3>1. \A y \in Workers : \A rec \in list[y] : rec.op \in Triggers \ {t}
      BY <1>1, <2>3 DEF ListInv, TypeOK
    <3> QED BY <1>1, <1>2, <2>2, <3>1 DEF ListInv
  <2>6. SilentInv' BY <1>1, <2>1, <2>2 DEF SilentInv
  <2> QED BY <1>3, <2>4, <2>5, <2>6 DEF XInv
<1> QED BY <1>4, <1>5

LEMMA InitXInv == Init => XInv
<1> SUFFICES ASSUME Init PROVE XInv OBVIOUS
<1>1. /\ Idle.pc = "idle" /\ Main \in Workers /\ Resyncs \subseteq Workers
      /\ \A x \in Workers : job[x] = Idle /\ list[x] = {}
      /\ phase = "down" /\ latePosts = {} /\ \A t \in Triggers : receipts[t] = 0
  BY DEF Init, Idle, Workers
<1> QED BY <1>1 DEF XInv, PhaseInv, SeenInv, ListInv, Apart, SilentInv, Working

LEMMA NextXInv == ASSUME AtMostOneResync PROVE CInv /\ XInv /\ [Next]_vars => XInv'
<1> SUFFICES ASSUME CInv, XInv, [Next]_vars PROVE XInv' OBVIOUS
<1>1. CASE UNCHANGED vars
  <2>1. UNCHANGED <<opState, phase, job, list, receipts, latePosts>>
    BY <1>1 DEF vars, dbVars, procVars, relayVars
  <2> QED BY <2>1 DEF XInv, PhaseInv, SeenInv, ListInv, Apart, SilentInv, Working
<1>2. CASE Boot \/ Serve \/ Crash BY <1>2, BootApart
<1>3. CASE \E x \in Workers : Resync(x) BY <1>3, ResyncApart
<1>4. CASE \E x \in Workers : Take(x) \/ Execute(x) BY <1>4, TakeApart, ExecuteApart
<1>5. CASE \E t \in Triggers : HandleCapture(t) BY <1>5, HandleApart
<1>6. CASE Claim BY <1>6, ClaimApart
<1>7. CASE \/ \E e \in Sources \cup Triggers : Appear(e) \/ Delete(e)
           \/ \E t \in Triggers : LatePost(t) \/ Publish(t)
           \/ \E c \in late : LateCall(c)
  BY <1>7, OutsideApart
<1> QED BY <1>1, <1>2, <1>3, <1>4, <1>5, <1>6, <1>7 DEF Next

\* As long as resyncs do not overlap, no operation is in two hands and no record in
\* hand is stale (event queue, boot recovery and resync).
THEOREM OneHandEach == AtMostOneResync => (Spec => []XInv)
<1> SUFFICES ASSUME AtMostOneResync PROVE Spec => []XInv OBVIOUS
<1>1. Init => XInv BY InitXInv
<1>2. CInv /\ XInv /\ [Next]_vars => XInv' BY NextXInv
<1> QED BY <1>1, <1>2, InductiveInvariant, PTL DEF Spec

\* As long as resyncs do not overlap, an operation that failed because its source
\* changed has no receipt, and no delayed post of one (digest check of executeOp).
FailedIsSilent ==
    \A t \in Triggers : opState[t] = "failed" => receipts[t] = 0 /\ t \notin latePosts

THEOREM FailedStaysSilent == AtMostOneResync => (Spec => []FailedIsSilent)
<1> SUFFICES ASSUME AtMostOneResync PROVE Spec => []FailedIsSilent OBVIOUS
<1>1. CInv /\ XInv => FailedIsSilent
  BY TypeOfState DEF CInv, XInv, SilentInv, FailedIsSilent
<1>2. Spec => []XInv BY OneHandEach
<1> QED BY <1>1, <1>2, InductiveInvariant, PTL

-----------------------------------------------------------------------------
(* What one hand per operation gives: no step back, and one receipt.       *)

LEMMA MovesItsOwn ==
    ASSUME CInv, XInv, NEW x \in Workers, Execute(x), NEW t \in Triggers,
           opState[t] \notin CaptureStates
    PROVE  opState'[t] = opState[t]
<1>1. TypeOK /\ JobsClaimed /\ SeenInv BY DEF CInv, XInv
<1>2. \/ UNCHANGED opState
      \/ Working(x) /\ \E to \in OpState : opState' = [opState EXCEPT ![job[x].op] = to]
  <2>1. {"failed", "wm_written", "finalized", "shared", "receipted"} \subseteq OpState
    BY DEF OpState, Track, OffTrack
  <2> QED BY <2>1 DEF Execute, ReadSource, Write, Written, Describe, Finalize, Sealed, Share,
                      Promoted, Verify, Find, Post, Posted, Call, Move, Working, dbVars
<1>3. Working(x) => job[x].op \in Triggers \ {t} BY <1>1 DEF SeenInv, JobsClaimed, Working
<1> QED BY <1>1, <1>2, <1>3, TypeOfState

\* As long as resyncs do not overlap, a receipted or failed operation is moved by
\* its publication alone (registry and executor: forward only).
THEOREM NeverBack == AtMostOneResync => (Spec => ForwardOnly)
<1> SUFFICES ASSUME AtMostOneResync PROVE Spec => ForwardOnly OBVIOUS
<1> DEFINE Stays == \A t \in Triggers : opState[t] \in {"receipted", "vm_receipted", "failed"} =>
                        opState'[t] \in {opState[t], "vm_receipted"}
<1>1. CInv /\ XInv /\ [Next]_vars => [Stays]_vars
  <2> SUFFICES ASSUME CInv, XInv, Next, NEW t \in Triggers,
                      opState[t] \in {"receipted", "vm_receipted", "failed"}
               PROVE  opState'[t] \in {opState[t], "vm_receipted"}
    BY DEF vars
  <2>1. opState \in [Triggers -> OpState \cup {"none"}] BY TypeOfState DEF CInv
  <2>2. CASE \/ Boot \/ Serve \/ Crash \/ \E x \in Workers : Resync(x) \/ Take(x)
             \/ \E u \in Triggers : HandleCapture(u) \/ LatePost(u)
             \/ \E e \in Sources \cup Triggers : Appear(e) \/ Delete(e)
             \/ \E c \in late : LateCall(c)
    BY <2>2 DEF Boot, Serve, Crash, Resync, Take, HandleCapture, LatePost, Appear, Delete,
                LateCall, dbVars
  <2>3. CASE Claim
    <3>1. job[Main].op \in Triggers
      BY <2>3, ConstantsAssumption DEF Claim, CInv, JobsClaimed, Idle, Workers
    <3> QED BY <2>1, <2>3, <3>1 DEF Claim
  <2>4. CASE \E u \in Triggers : Publish(u) BY <2>1, <2>4 DEF Publish
  <2>5. CASE \E x \in Workers : Execute(x)
    <3>1. opState[t] \notin CaptureStates BY DEF CaptureStates
    <3> QED BY <2>5, <3>1, MovesItsOwn
  <2> QED BY <2>2, <2>3, <2>4, <2>5 DEF Next
<1>2. Spec => []XInv BY OneHandEach
<1> QED BY <1>1, <1>2, InductiveInvariant, PTL DEF Spec, ForwardOnly

\* With no post delayed, a post is made by the worker that found no receipt.
PostOnceInv ==
    /\ latePosts = {} /\ \A t \in Triggers : receipts[t] <= 1
    /\ \A x \in Workers : job[x].pc = "post" => receipts[job[x].op] = 0

LEMMA NextPostOnce ==
    ASSUME ~SlowPosts
    PROVE  CInv /\ XInv /\ PostOnceInv /\ [Next]_vars => PostOnceInv'
<1> SUFFICES ASSUME CInv, XInv, PostOnceInv, [Next]_vars PROVE PostOnceInv' OBVIOUS
<1>1. TypeOK /\ JobsClaimed /\ Apart BY DEF CInv, XInv
<1>2. /\ job \in [Workers -> JobType] /\ receipts \in [Triggers -> Nat]
      /\ Main \in Workers /\ Idle.pc = "idle"
  BY <1>1, TypeOfState DEF Workers, Idle
<1>3. \A x \in Workers : job[x].pc = "post" => job[x].op \in Triggers
  BY <1>1 DEF JobsClaimed
<1>4. ASSUME UNCHANGED <<receipts, latePosts>>,
             \A y \in Workers : job'[y].pc = "post" =>
                 \/ job'[y] = job[y]
                 \/ receipts[job'[y].op] = 0
      PROVE  PostOnceInv'
  BY <1>4 DEF PostOnceInv
<1>5. CASE UNCHANGED vars \/ Boot \/ Serve \/ \E x \in Workers : Resync(x)
  BY <1>4, <1>5 DEF vars, Boot, Serve, Resync, procVars, relayVars
<1>6. CASE Crash BY <1>2, <1>4, <1>6 DEF Crash, relayVars
<1>7. CASE Claim BY <1>2, <1>4, <1>7 DEF Claim, Done, relayVars, JobType
<1>8. CASE \E t \in Triggers : HandleCapture(t)
  BY <1>2, <1>4, <1>8 DEF HandleCapture, relayVars, Idle
<1>9. CASE \E x \in Workers : Take(x)
  <2>1. PICK x \in Workers : Take(x) BY <1>9
  <2>2. PICK rec \in list[x] : job' = [job EXCEPT ![x] = Entry(rec.op, rec.seen)]
    BY <2>1 DEF Take
  <2>3. rec.seen \in CaptureStates BY <1>1 DEF TypeOK
  <2>4. Entry(rec.op, rec.seen).pc # "post" BY <2>3 DEF Entry, CaptureStates
  <2> QED BY <1>2, <1>4, <2>1, <2>2, <2>4 DEF Take, relayVars
<1>10. CASE \E e \in Sources \cup Triggers : Appear(e) \/ Delete(e)
  BY <1>4, <1>10 DEF Appear, Delete, procVars
<1>11. CASE \E t \in Triggers : LatePost(t) BY <1>11 DEF LatePost, PostOnceInv
<1>12. CASE (\E t \in Triggers : Publish(t)) \/ \E c \in late : LateCall(c)
  BY <1>4, <1>12 DEF Publish, LateCall, procVars, relayVars
<1>13. ASSUME NEW x \in Workers, Execute(x), ~Find(x), ~Post(x) PROVE PostOnceInv'
  <2>1. UNCHANGED <<receipts, latePosts>>
    BY <1>13 DEF Execute, ReadSource, Write, Written, Describe, Finalize, Sealed, Share,
                 Promoted, Verify, Posted, Call, relayVars
  <2>2. \/ job' = [job EXCEPT ![x] = Idle]
        \/ \E pc \in Busy \ {"post"} : job' = [job EXCEPT ![x].pc = pc]
        \/ \E pc \in Busy \ {"post"}, to \in OpState :
               job' = [job EXCEPT ![x].pc = pc, ![x].seen = to]
        \/ \E src \in Digest : job' = [job EXCEPT ![x].pc = "write", ![x].src = src]
    <3>1. {"wm_written", "finalized", "shared"} \subseteq OpState BY DEF OpState, Track
    <3>2. CASE ReadSource(x)
      <4>1. job[x].op \in Triggers BY <1>1, <3>2 DEF ReadSource, JobsClaimed
      <4>2. Snapshot(job[x].op) \in Digest
        BY <4>1, ConstantsAssumption DEF Snapshot, Digest
      <4> QED BY <3>2, <4>2 DEF ReadSource, Move, Done
    <3>3. CASE Written(x) \/ Describe(x) \/ Sealed(x) \/ Promoted(x) \/ Posted(x)
      BY <3>1, <3>3 DEF Written, Describe, Sealed, Promoted, Posted, Move, Done, Goto, Busy
    <3>4. CASE Write(x) \/ Finalize(x) \/ Share(x) \/ Verify(x)
      BY <3>4 DEF Write, Finalize, Share, Verify, Call, Done, Goto, Busy
    <3> QED BY <1>13, <3>2, <3>3, <3>4 DEF Execute
  <2>3. job'[x].pc # "post" /\ \A y \in Workers \ {x} : job'[y] = job[y]
    <3>1. job[x] \in JobType BY <1>2
    <3> QED BY <1>2, <2>2, <3>1 DEF JobType
  <2> QED BY <1>4, <2>1, <2>3
<1>14. ASSUME NEW x \in Workers, Find(x) PROVE PostOnceInv'
  <2>1. UNCHANGED <<receipts, latePosts>> BY <1>14 DEF Find, relayVars
  <2>2. \/ job' = [job EXCEPT ![x] = Idle]
        \/ receipts[job[x].op] = 0 /\ job' = [job EXCEPT ![x].pc = "post"]
    BY <1>14 DEF Find, Move, Done, Goto
  <2>3. /\ job'[x].pc = "post" => receipts[job'[x].op] = 0
        /\ \A y \in Workers \ {x} : job'[y] = job[y]
    <3>1. job[x] \in JobType BY <1>2
    <3> QED BY <1>2, <2>2, <3>1 DEF JobType
  <2> QED BY <1>4, <2>1, <2>3
<1>15. ASSUME NEW x \in Workers, Post(x) PROVE PostOnceInv'
  <2>1. /\ job[x].pc = "post" /\ job[x].op \in Triggers /\ receipts[job[x].op] = 0
        /\ latePosts' = {}
        /\ receipts' = receipts \/ receipts' = [receipts EXCEPT ![job[x].op] = OneMore(@)]
    BY <1>3, <1>15 DEF Post, PostOnceInv
  <2>2. OneMore(0) <= 1 BY ConstantsAssumption DEF OneMore
  <2>3. /\ \A t \in Triggers : receipts'[t] <= 1
        /\ \A t \in Triggers \ {job[x].op} : receipts'[t] = receipts[t]
    BY <1>2, <2>1, <2>2 DEF PostOnceInv
  <2>4. job'[x].pc # "post" /\ \A y \in Workers \ {x} : job'[y] = job[y]
    <3>1. job[x] \in JobType BY <1>2
    <3>2. job' = [job EXCEPT ![x] = Idle] \/ job' = [job EXCEPT ![x].pc = "posted"]
      BY <1>15 DEF Post, Done, Goto
    <3> QED BY <1>2, <3>1, <3>2 DEF JobType
  <2>5. \A y \in Workers \ {x} : job[y].pc = "post" => job[y].op \in Triggers \ {job[x].op}
    BY <1>1, <1>3, <2>1 DEF Apart, Working
  <2> QED BY <2>1, <2>3, <2>4, <2>5 DEF PostOnceInv
<1> QED
  BY <1>5, <1>6, <1>7, <1>8, <1>9, <1>10, <1>11, <1>12, <1>13, <1>14, <1>15 DEF Next

\* As long as resyncs do not overlap and no post takes effect after its call, one
\* trigger has one receipt, through every crash and lost answer (the executor's
\* search before re-posting).
THEOREM ReceiptedOnce == AtMostOneResync /\ ~SlowPosts => (Spec => []OneReceipt)
<1> SUFFICES ASSUME AtMostOneResync, ~SlowPosts PROVE Spec => []OneReceipt OBVIOUS
<1>1. Init => PostOnceInv
  BY DEF Init, PostOnceInv, Idle
<1>2. CInv /\ XInv /\ PostOnceInv /\ [Next]_vars => PostOnceInv' BY NextPostOnce
<1>3. PostOnceInv => OneReceipt BY DEF PostOnceInv, OneReceipt
<1>4. Spec => []XInv BY OneHandEach
<1> QED BY <1>1, <1>2, <1>3, <1>4, InductiveInvariant, PTL DEF Spec
-----------------------------------------------------------------------------
(* Capture implements Receipting.                                          *)

\* A worker that goes on after a post has its receipt in the room.
PostedInv == \A x \in Workers : job[x].pc = "posted" => receipts[job[x].op] > 0

\* One more receipt is at least one.
LEMMA OneMoreIsSome ==
    ASSUME NEW n \in Nat
    PROVE  OneMore(n) \in Nat /\ OneMore(n) > 0
BY ConstantsAssumption DEF OneMore

\* Receipts do not go away.
LEMMA ReceiptsStay ==
    ASSUME TypeOK, [Next]_vars, NEW t \in Triggers, receipts[t] > 0
    PROVE  receipts'[t] > 0
<1>1. \/ receipts' = receipts
      \/ \E u : receipts' = [receipts EXCEPT ![u] = OneMore(@)]
  BY DEF Next, vars, Boot, Serve, Crash, Claim, HandleCapture, LatePost, Publish, Resync, Take,
         Execute, ReadSource, Write, Written, Describe, Finalize, Sealed, Share, Promoted,
         Verify, Find, Post, Posted, Call, Appear, Delete, LateCall, relayVars
<1>2. receipts \in [Triggers -> Nat] BY TypeOfState
<1> QED BY <1>1, <1>2, OneMoreIsSome

LEMMA NextPosted == CInv /\ PostedInv /\ [Next]_vars => PostedInv'
<1> SUFFICES ASSUME CInv, PostedInv, [Next]_vars, NEW y \in Workers, job'[y].pc = "posted"
             PROVE  receipts'[job'[y].op] > 0
  BY DEF PostedInv
<1>1. TypeOK /\ JobsClaimed BY DEF CInv
<1>2. job \in [Workers -> JobType] /\ receipts \in [Triggers -> Nat] /\ Idle.pc = "idle"
      /\ Main \in Workers
  BY <1>1, TypeOfState DEF Workers, Idle
<1>3. ASSUME job'[y] = job[y] PROVE receipts'[job'[y].op] > 0
  BY <1>1, <1>3, ReceiptsStay DEF PostedInv, JobsClaimed
<1>4. CASE UNCHANGED vars \/ Boot \/ Serve \/ \E x \in Workers : Resync(x)
  BY <1>3, <1>4 DEF vars, Boot, Serve, Resync, procVars
<1>5. CASE Crash BY <1>2, <1>5 DEF Crash
<1>6. CASE Claim BY <1>2, <1>3, <1>6 DEF Claim, Done, JobType
<1>7. CASE \E t \in Triggers : HandleCapture(t)
  BY <1>2, <1>3, <1>7 DEF HandleCapture, Idle
<1>8. CASE \E x \in Workers : Take(x)
  <2>1. PICK x \in Workers : Take(x) BY <1>8
  <2>2. PICK rec \in list[x] : job' = [job EXCEPT ![x] = Entry(rec.op, rec.seen)]
    BY <2>1 DEF Take
  <2>3. rec.seen \in CaptureStates BY <1>1 DEF TypeOK
  <2>4. Entry(rec.op, rec.seen).pc # "posted" BY <2>3 DEF Entry, CaptureStates
  <2> QED BY <1>2, <1>3, <2>2, <2>4
<1>9. CASE \/ \E e \in Sources \cup Triggers : Appear(e) \/ Delete(e)
           \/ \E t \in Triggers : LatePost(t) \/ Publish(t)
           \/ \E c \in late : LateCall(c)
  BY <1>3, <1>9 DEF Appear, Delete, LatePost, Publish, LateCall, procVars
<1>10. ASSUME NEW x \in Workers, Execute(x), ~Post(x) PROVE receipts'[job'[y].op] > 0
  <2>1. \/ job' = [job EXCEPT ![x] = Idle]
        \/ \E pc \in Busy \ {"posted"} : job' = [job EXCEPT ![x].pc = pc]
        \/ \E pc \in Busy \ {"posted"}, to \in OpState :
               job' = [job EXCEPT ![x].pc = pc, ![x].seen = to]
        \/ \E src \in Digest : job' = [job EXCEPT ![x].pc = "write", ![x].src = src]
    <3>1. {"wm_written", "finalized", "shared"} \subseteq OpState BY DEF OpState, Track
    <3>2. CASE ReadSource(x)
      <4>1. job[x].op \in Triggers BY <1>1, <3>2 DEF ReadSource, JobsClaimed
      <4>2. Snapshot(job[x].op) \in Digest
        BY <4>1, ConstantsAssumption DEF Snapshot, Digest
      <4> QED BY <3>2, <4>2 DEF ReadSource, Move, Done
    <3>3. CASE Written(x) \/ Describe(x) \/ Sealed(x) \/ Promoted(x) \/ Find(x) \/ Posted(x)
      BY <3>1, <3>3 DEF Written, Describe, Sealed, Promoted, Find, Posted, Move, Done, Goto, Busy
    <3>4. CASE Write(x) \/ Finalize(x) \/ Share(x) \/ Verify(x)
      BY <3>4 DEF Write, Finalize, Share, Verify, Call, Done, Goto, Busy
    <3> QED BY <1>10, <3>2, <3>3, <3>4 DEF Execute
  <2>2. job'[x].pc # "posted" /\ (y # x => job'[y] = job[y])
    <3>1. job[x] \in JobType BY <1>2
    <3> QED BY <1>2, <2>1, <3>1 DEF JobType
  <2> QED BY <1>3, <2>2
<1>11. ASSUME NEW x \in Workers, Post(x) PROVE receipts'[job'[y].op] > 0
  <2>1. CASE y # x
    BY <1>2, <1>3, <1>11, <2>1 DEF Post, Done, Goto
  <2>2. CASE y = x
    <3>1. job'[x] # Idle BY <1>2, <2>2
    <3>2. Goto(x, "posted") /\ receipts' = [receipts EXCEPT ![job[x].op] = OneMore(@)]
      BY <1>2, <1>11, <3>1 DEF Post, Done
    <3>3. job'[x].op = job[x].op /\ job[x].op \in Triggers
      BY <1>1, <1>11, <3>2, GotoJob DEF Busy, Post, JobsClaimed
    <3> QED BY <1>2, <2>2, <3>2, <3>3, OneMoreIsSome
  <2> QED BY <2>1, <2>2
<1> QED BY <1>4, <1>5, <1>6, <1>7, <1>8, <1>9, <1>10, <1>11 DEF Next

\* What may be shared, by a call at hand or by one still to be carried out, has a
\* row past the digest check; and a closed row has been shared.
Checked == {"wm_written", "finalized", "shared", "receipted", "vm_receipted"}
ShareInv ==
    /\ \A x \in Workers : job[x].pc \in {"describe", "finalize", "sealed", "share"} =>
                              job[x].seen # "distilled"
    /\ \A c \in late : c.call = "share" => opState[c.op] \in Checked
    /\ \A t \in Triggers : opState[t] \in {"receipted", "vm_receipted"} => Shared(t)

\* Every move a row makes.
LEMMA RowMoves ==
    ASSUME CInv, XInv, [Next]_vars, NEW t \in Triggers
    PROVE  \/ opState'[t] = opState[t]
           \/ opState[t] = "none" /\ opState'[t] = "distilled"
           \/ opState[t] = "distilled" /\ opState'[t] = "failed"
           \/ opState'[t] \in {"wm_written", "finalized", "shared"}
           \/ opState'[t] \in {"receipted", "vm_receipted"} /\ Shared(t)
<1>1. TypeOK /\ JobsClaimed /\ PostInv /\ SeenInv BY DEF CInv, XInv
<1>2. opState \in [Triggers -> OpState \cup {"none"}] BY <1>1, TypeOfState
<1>3. CASE \/ UNCHANGED vars \/ Boot \/ Serve \/ Crash
           \/ \E u \in Triggers : HandleCapture(u) \/ LatePost(u)
           \/ \E x \in Workers : Resync(x) \/ Take(x)
           \/ \E e \in Sources \cup Triggers : Appear(e) \/ Delete(e)
           \/ \E c \in late : LateCall(c)
  BY <1>3 DEF vars, Boot, Serve, Crash, HandleCapture, LatePost, Resync, Take, Appear, Delete,
              LateCall, dbVars
<1>4. CASE Claim BY <1>2, <1>4 DEF Claim
<1>5. CASE \E u \in Triggers : Publish(u) BY <1>2, <1>5 DEF Publish, Shared
<1>6. ASSUME NEW x \in Workers, Execute(x)
      PROVE  \/ opState'[t] = opState[t]
             \/ opState[t] = "distilled" /\ opState'[t] = "failed"
             \/ opState'[t] \in {"wm_written", "finalized", "shared"}
             \/ opState'[t] = "receipted" /\ Shared(t)
  <2>1. CASE ReadSource(x)
    <3>1. opState[job[x].op] = "distilled" BY <1>1, <2>1 DEF ReadSource, SeenInv, Working
    <3> QED BY <1>2, <2>1, <3>1 DEF ReadSource, Move
  <2>2. CASE Written(x) \/ Describe(x) \/ Sealed(x) \/ Promoted(x)
    BY <1>2, <2>2 DEF Written, Describe, Sealed, Promoted, Move
  <2>3. CASE Find(x) \/ Posted(x)
    <3>1. Shared(job[x].op) BY <1>1, <2>3 DEF Find, Posted, PostInv
    <3> QED BY <1>2, <2>3, <3>1 DEF Find, Posted, Move
  <2>4. CASE Write(x) \/ Finalize(x) \/ Share(x) \/ Verify(x) \/ Post(x)
    BY <2>4 DEF Write, Finalize, Share, Verify, Post, Call, dbVars
  <2> QED BY <1>6, <2>1, <2>2, <2>3, <2>4 DEF Execute
<1> QED BY <1>3, <1>4, <1>5, <1>6 DEF Next

\* A claimed asset that is shared stays so.
LEMMA SharedStays ==
    ASSUME CInv, [Next]_vars, NEW t \in Triggers, Shared(t), opState[t] # "none"
    PROVE  Shared(t)'
<1>1. TypeOK /\ JobsClaimed BY DEF CInv
<1>2. /\ digest \in [Triggers -> Digest] /\ digest[t] \in Digest
      /\ ka \in [Digest -> {"none", "draft", "sealed", "promoted", "published"}]
  BY <1>1, TypeOfState
<1>3. digest'[t] = digest[t]
  <2>1. CASE Claim BY <1>2, <2>1 DEF Claim
  <2>2. CASE ~Claim
    <3>1. UNCHANGED digest
      BY <2>2 DEF Next, vars, Boot, Serve, Crash, HandleCapture, LatePost, Publish, Resync, Take,
                  Appear, Delete, LateCall, Execute, ReadSource, Write, Written, Describe,
                  Finalize, Sealed, Share, Promoted, Verify, Find, Post, Posted, Call, dbVars
    <3> QED BY <3>1
  <2> QED BY <2>1, <2>2
<1>4. CASE UNCHANGED ka BY <1>3, <1>4 DEF Shared
<1>5. CASE \E u \in Triggers : Publish(u) BY <1>2, <1>3, <1>5 DEF Publish, Shared
<1>6. CASE \E c \in late : LateCall(c) BY <1>2, <1>3, <1>6, LateEffect DEF Shared
<1>7. CASE \E x \in Workers : Write(x) \/ Finalize(x) \/ Share(x)
  BY <1>2, <1>3, <1>7 DEF Write, Finalize, Share, Call, Effect, Shared
<1> QED
  BY <1>4, <1>5, <1>6, <1>7
  DEF Next, vars, Boot, Serve, Crash, Claim, HandleCapture, LatePost, Resync, Take, Appear,
      Delete, Execute, ReadSource, Written, Describe, Sealed, Promoted, Verify, Find, Post,
      Posted, nodeVars

LEMMA NextShare == CInv /\ XInv /\ ShareInv /\ [Next]_vars => ShareInv'
<1> SUFFICES ASSUME CInv, XInv, ShareInv, [Next]_vars PROVE ShareInv' OBVIOUS
<1>1. TypeOK /\ JobsClaimed /\ LateInv /\ SeenInv BY DEF CInv, XInv
<1>2. /\ job \in [Workers -> JobType] /\ late \subseteq LateType
      /\ Idle.pc = "idle" /\ Main \in Workers
  BY <1>1, TypeOfState DEF Idle, Workers
<1> DEFINE Ahead == {"describe", "finalize", "sealed", "share"}
\* The record in hand.
<1>3. ASSUME NEW y \in Workers, job'[y].pc \in Ahead PROVE job'[y].seen # "distilled"
  <2>1. CASE job'[y] = job[y] BY <1>3, <2>1 DEF ShareInv
  <2>2. CASE \/ UNCHANGED vars \/ Boot \/ Serve
             \/ \E x \in Workers : Resync(x)
             \/ \E e \in Sources \cup Triggers : Appear(e) \/ Delete(e)
             \/ \E t \in Triggers : LatePost(t) \/ Publish(t)
             \/ \E c \in late : LateCall(c)
    BY <2>1, <2>2 DEF vars, Boot, Serve, Resync, Appear, Delete, LatePost, Publish, LateCall,
                      procVars
  <2>3. CASE Crash BY <1>2, <1>3, <2>3 DEF Crash
  <2>4. CASE Claim BY <1>2, <1>3, <2>1, <2>4 DEF Claim, Done, JobType
  <2>5. CASE \E t \in Triggers : HandleCapture(t)
    BY <1>2, <1>3, <2>1, <2>5 DEF HandleCapture, Idle
  <2>6. CASE \E x \in Workers : Take(x)
    <3>1. PICK x \in Workers : Take(x) BY <2>6
    <3>2. PICK rec \in list[x] : job' = [job EXCEPT ![x] = Entry(rec.op, rec.seen)]
      BY <3>1 DEF Take
    <3>3. rec.seen \in CaptureStates BY <1>1 DEF TypeOK
    <3>4. Entry(rec.op, rec.seen).pc = "describe" => Entry(rec.op, rec.seen).seen # "distilled"
      BY <3>3 DEF Entry, CaptureStates
    <3>5. Entry(rec.op, rec.seen).pc \in {"source", "describe", "verify"}
      BY <3>3 DEF Entry, CaptureStates
    <3> QED BY <1>2, <1>3, <2>1, <3>2, <3>4, <3>5
  <2>7. ASSUME NEW x \in Workers, Execute(x) PROVE job'[y].seen # "distilled"
    <3>1. job[x] \in JobType BY <1>2
    <3>2. \/ job' = [job EXCEPT ![x] = Idle]
          \/ \E pc \in Busy \ Ahead : job' = [job EXCEPT ![x].pc = pc]
          \/ job[x].pc \in Ahead /\ \E pc \in Busy : job' = [job EXCEPT ![x].pc = pc]
          \/ \E pc \in Busy, to \in OpState \ {"distilled"} :
                 job' = [job EXCEPT ![x].pc = pc, ![x].seen = to]
          \/ \E src \in Digest : job' = [job EXCEPT ![x].pc = "write", ![x].src = src]
      <4>1. {"wm_written", "finalized", "shared"} \subseteq OpState BY DEF OpState, Track
      <4>2. CASE ReadSource(x)
        <5>1. job[x].op \in Triggers BY <1>1, <4>2 DEF ReadSource, JobsClaimed
        <5>2. Snapshot(job[x].op) \in Digest
          BY <5>1, ConstantsAssumption DEF Snapshot, Digest
        <5> QED BY <4>2, <5>2 DEF ReadSource, Move, Done
      <4>3. CASE Written(x) \/ Sealed(x) \/ Promoted(x)
        BY <4>1, <4>3 DEF Written, Sealed, Promoted, Move, Done, Busy
      <4>4. CASE Describe(x) BY <4>1, <4>4 DEF Describe, Move, Done, Goto, Busy
      <4>5. CASE Write(x) \/ Finalize(x) \/ Share(x)
        BY <4>5 DEF Write, Finalize, Share, Call, Done, Goto, Busy
      <4>6. CASE Verify(x) \/ Find(x) \/ Post(x) \/ Posted(x)
        BY <4>6 DEF Verify, Find, Post, Posted, Move, Done, Goto, Busy
      <4> QED BY <2>7, <4>2, <4>3, <4>4, <4>5, <4>6 DEF Execute
    <3>3. CASE y # x BY <1>2, <2>1, <3>2, <3>3
    <3>4. CASE y = x
      <4>1. CASE job' = [job EXCEPT ![x] = Idle] BY <1>2, <1>3, <3>4, <4>1
      <4>2. ASSUME NEW pc \in Busy, job' = [job EXCEPT ![x].pc = pc]
            PROVE  job'[x].pc = pc /\ job'[x].seen = job[x].seen
        BY <1>2, <3>1, <4>2 DEF JobType
      <4>3. ASSUME NEW pc \in Busy, NEW to \in OpState, job' = [job EXCEPT ![x].pc = pc, ![x].seen = to]
            PROVE  job'[x].seen = to
        BY <1>2, <3>1, <4>3 DEF JobType
      <4>4. ASSUME NEW src \in Digest, job' = [job EXCEPT ![x].pc = "write", ![x].src = src]
            PROVE  job'[x].pc = "write"
        BY <1>2, <3>1, <4>4 DEF JobType
      <4> QED BY <1>3, <3>2, <3>4, <4>1, <4>2, <4>3, <4>4 DEF ShareInv
    <3> QED BY <3>3, <3>4
  <2> QED BY <2>2, <2>3, <2>4, <2>5, <2>6, <2>7 DEF Next
\* What is still to be carried out.
<1>4. \A t \in Triggers : opState[t] \in Checked => opState'[t] \in Checked
  BY RowMoves DEF Checked
<1>5. ASSUME NEW c \in late', c.call = "share" PROVE opState'[c.op] \in Checked
  <2>1. CASE c \in late BY <1>2, <1>4, <1>5, <2>1 DEF ShareInv, LateType
  <2>2. CASE c \notin late
    <3>1. PICK x \in Workers : Write(x) \/ Finalize(x) \/ Share(x)
      <4>1. c \in late' /\ c \notin late BY <1>5, <2>2
      <4>2. CASE UNCHANGED late BY <4>1, <4>2
      <4>3. CASE \E e \in late : LateCall(e) BY <4>1, <4>3 DEF LateCall
      <4> QED
        BY <4>2, <4>3
        DEF Next, vars, Boot, Serve, Crash, Claim, HandleCapture, LatePost, Publish, Resync,
            Take, Appear, Delete, Execute, ReadSource, Written, Describe, Sealed, Promoted,
            Verify, Find, Post, Posted, nodeVars
    <3>2. job[x].pc = c.call /\ c.op = job[x].op /\ UNCHANGED opState
      <4>1. PICK pc, next : Call(x, pc, next) BY <3>1 DEF Write, Finalize, Share
      <4>2. c \in {[call |-> pc, op |-> job[x].op, src |-> job[x].src]} BY <1>5, <2>2, <4>1 DEF Call
      <4> QED BY <4>1, <4>2 DEF Call, dbVars
    <3>3. opState[c.op] \in CaptureStates \ {"distilled"}
      BY <1>1, <1>5, <3>2 DEF SeenInv, Working, ShareInv
    <3> QED BY <3>2, <3>3 DEF CaptureStates, Checked
  <2> QED BY <2>1, <2>2
\* The closed rows.
<1>6. ASSUME NEW t \in Triggers, opState'[t] \in {"receipted", "vm_receipted"} PROVE Shared(t)'
  <2>1. Shared(t) BY <1>6, RowMoves DEF ShareInv
  <2>2. CASE opState[t] # "none" BY <2>1, <2>2, SharedStays
  <2>3. CASE opState[t] = "none"
    <3>1. CASE Claim
      BY <1>1, <1>2, <1>6, <2>3, <3>1, TypeOfState DEF Claim, JobsClaimed
    <3>2. CASE \E u \in Triggers : Publish(u)
      BY <1>1, <1>6, <2>3, <3>2, TypeOfState DEF Publish
    <3>3. CASE \E x \in Workers : Execute(x)
      <4>1. PICK x \in Workers : Execute(x) BY <3>3
      <4>2. opState[t] \notin CaptureStates BY <2>3 DEF CaptureStates
      <4> QED BY <1>6, <2>3, <4>1, <4>2, MovesItsOwn
    <3>4. CASE UNCHANGED opState BY <1>6, <2>3, <3>4
    <3> QED
      BY <3>1, <3>2, <3>3, <3>4
      DEF Next, vars, Boot, Serve, Crash, HandleCapture, LatePost, Resync, Take, Appear,
          Delete, LateCall, dbVars
  <2> QED BY <2>2, <2>3
<1> QED BY <1>3, <1>4, <1>5, <1>6 DEF ShareInv

\* The mapped variables, named.
ClaimOf(s) == CASE s = "none" -> "none"
                [] s \in CaptureStates -> "open"
                [] s = "failed" -> "failed"
                [] OTHER -> "closed"
Given == {d \in Digest : ka[d] \in {"promoted", "published"}}
Announced == {t \in Triggers : receipts[t] > 0 \/ t \in latePosts}

LEMMA ClaimedAt ==
    /\ Claimed = [t \in Triggers |-> ClaimOf(opState[t])]
    /\ Claimed' = [t \in Triggers |-> ClaimOf(opState'[t])]
BY DEF Claimed, ClaimOf

\* A row's move moves its claim, and no other.
LEMMA NewClaim ==
    ASSUME TypeOK, NEW t \in Triggers, NEW to, opState' = [opState EXCEPT ![t] = to]
    PROVE  /\ Claimed[t] = ClaimOf(opState[t])
           /\ Claimed' = [Claimed EXCEPT ![t] = ClaimOf(to)]
<1>1. opState \in [Triggers -> OpState \cup {"none"}] BY TypeOfState
<1>2. \A u \in Triggers : ClaimOf(opState'[u]) = IF u = t THEN ClaimOf(to) ELSE ClaimOf(opState[u])
  BY <1>1
<1> QED BY <1>2, ClaimedAt

\* A move within the capture states leaves the claim open.
LEMMA SameClaim ==
    ASSUME TypeOK, NEW t \in Triggers, NEW to, opState' = [opState EXCEPT ![t] = to],
           ClaimOf(to) = ClaimOf(opState[t])
    PROVE  Claimed' = Claimed
<1>1. opState \in [Triggers -> OpState \cup {"none"}] BY TypeOfState
<1>2. \A u \in Triggers : ClaimOf(opState'[u]) = ClaimOf(opState[u]) BY <1>1
<1> QED BY <1>2, ClaimedAt

LEMMA Unmoved ==
    ASSUME UNCHANGED <<Claimed, digest, Given, Announced>>
    PROVE  [Promise!Next]_(Promise!vars)
BY DEF Promise!vars, Given, Announced

LEMMA Unmoving ==
    ASSUME UNCHANGED <<opState, digest, ka, receipts, latePosts>>
    PROVE  [Promise!Next]_(Promise!vars)
<1>1. UNCHANGED <<Claimed, Given, Announced>> BY ClaimedAt DEF Given, Announced
<1> QED BY <1>1, Unmoved

LEMMA PromiseSteps ==
    ASSUME NEW t \in Triggers,
           Promise!Share(t) \/ Promise!Announce(t) \/ Promise!Close(t) \/ Promise!GiveUp(t)
    PROVE  [Promise!Next]_(Promise!vars)
BY DEF Promise!Next

\* A transition of the executor: on the way nothing is promised, failure gives an
\* unannounced claim up, and the last state closes an announced one.
LEMMA MovePromise ==
    ASSUME CInv, XInv, NEW x \in Workers, Working(x), NEW to \in OpState, NEW pc, Move(x, to, pc),
           \/ to \in CaptureStates
           \/ to = "failed" /\ job[x].pc = "source"
           \/ to = "receipted" /\ receipts[job[x].op] > 0,
           UNCHANGED <<digest, ka, receipts, latePosts>>
    PROVE  [Promise!Next]_(Promise!vars)
<1> DEFINE t == job[x].op
<1>1. TypeOK /\ JobsClaimed /\ SeenInv /\ SilentInv BY DEF CInv, XInv
<1>2. t \in Triggers /\ opState[t] \in CaptureStates BY <1>1 DEF JobsClaimed, SeenInv, Working
<1>3. Given' = Given /\ Announced' = Announced BY DEF Given, Announced
<1>4. ClaimOf(opState[t]) = "open" BY <1>2 DEF ClaimOf, CaptureStates
<1>5. CASE UNCHANGED opState BY <1>5, Unmoving
<1>6. CASE opState' = [opState EXCEPT ![t] = to]
  <2>1. Claimed[t] = "open" /\ Claimed' = [Claimed EXCEPT ![t] = ClaimOf(to)]
    BY <1>1, <1>2, <1>4, <1>6, NewClaim
  <2>2. CASE to \in CaptureStates
    <3>1. ClaimOf(to) = "open" BY <2>2 DEF ClaimOf, CaptureStates
    <3>2. Claimed' = Claimed BY <1>1, <1>2, <1>4, <1>6, <3>1, SameClaim
    <3> QED BY <1>3, <3>2, Unmoved
  <2>3. CASE to = "failed" /\ job[x].pc = "source"
    <3>1. opState[t] = "distilled" BY <1>1, <2>3 DEF SeenInv, Working
    <3>2. t \notin Announced BY <1>1, <3>1 DEF SilentInv, Announced
    <3>3. ClaimOf(to) = "failed" BY <2>3 DEF ClaimOf, CaptureStates
    <3>4. Promise!GiveUp(t) BY <1>3, <2>1, <3>2, <3>3 DEF Promise!GiveUp, Given, Announced
    <3> QED BY <1>2, <3>4, PromiseSteps
  <2>4. CASE to = "receipted" /\ receipts[t] > 0
    <3>1. t \in Announced BY <1>2, <2>4 DEF Announced
    <3>2. ClaimOf(to) = "closed" BY <2>4 DEF ClaimOf, CaptureStates
    <3>3. Promise!Close(t) BY <1>3, <2>1, <3>1, <3>2 DEF Promise!Close, Given, Announced
    <3> QED BY <1>2, <3>3, PromiseSteps
  <2> QED BY <2>2, <2>3, <2>4
<1> QED BY <1>5, <1>6 DEF Move

\* A worker's own asset is claimed for an open operation, and the abstract share
\* of it is all that a share on the node is.
LEMMA ExecutePromise ==
    ASSUME CInv, XInv, PostedInv, NEW x \in Workers, Execute(x)
    PROVE  [Promise!Next]_(Promise!vars)
<1> DEFINE t == job[x].op
<1>1. TypeOK /\ JobsClaimed /\ SeenInv /\ PostInv BY DEF CInv, XInv
<1>2. {"failed", "wm_written", "finalized", "shared", "receipted"} \subseteq OpState
  BY DEF OpState, Track, OffTrack
<1>3. Working(x)
  BY DEF Execute, ReadSource, Write, Written, Describe, Finalize, Sealed, Share, Promoted,
         Verify, Find, Post, Posted, Call, Working
<1>4. t \in Triggers /\ opState[t] \in CaptureStates
  BY <1>1, <1>3 DEF JobsClaimed, SeenInv, Working
<1>5. digest \in [Triggers -> Digest] /\ receipts \in [Triggers -> Nat] /\ latePosts \subseteq Triggers
      /\ ka \in [Digest -> {"none", "draft", "sealed", "promoted", "published"}]
  BY <1>1, TypeOfState
<1>6. Claimed[t] = "open" BY <1>4, ClaimedAt DEF ClaimOf, CaptureStates
<1>7. CASE ReadSource(x)
  <2>1. CASE UNCHANGED opState
    BY <1>7, <2>1, Unmoving DEF ReadSource, relayVars, nodeVars
  <2>2. CASE Move(x, "failed", "idle")
    BY <1>2, <1>3, <1>7, <2>2, MovePromise DEF ReadSource, relayVars, nodeVars
  <2> QED BY <1>7, <2>1, <2>2 DEF ReadSource
<1>8. CASE Written(x) \/ Sealed(x) \/ Promoted(x)
  <2>1. UNCHANGED <<digest, ka, receipts, latePosts>>
    BY <1>8 DEF Written, Sealed, Promoted, relayVars, nodeVars
  <2>2. \E to \in CaptureStates, pc \in Busy : Move(x, to, pc)
    BY <1>8 DEF Written, Sealed, Promoted, CaptureStates, Busy
  <2>3. CaptureStates \subseteq OpState BY DEF CaptureStates, OpState, Track
  <2> QED BY <1>3, <2>1, <2>2, <2>3, MovePromise
<1>9. CASE Describe(x)
  <2>1. UNCHANGED <<digest, ka, receipts, latePosts>>
    BY <1>9 DEF Describe, relayVars, nodeVars
  <2>2. "shared" \in CaptureStates BY DEF CaptureStates
  <2>3. CASE Move(x, "shared", "verify") BY <1>2, <1>3, <2>1, <2>2, <2>3, MovePromise
  <2>4. CASE UNCHANGED opState BY <2>1, <2>4, Unmoving
  <2> QED BY <1>9, <2>3, <2>4 DEF Describe
\* Calls on an asset that is not yet shared, and stays so.
<1>10. CASE Write(x) \/ Finalize(x)
  <2>1. UNCHANGED <<opState, digest, receipts, latePosts>>
    BY <1>10 DEF Write, Finalize, Call, dbVars, relayVars
  <2>2. \A d \in Digest : ka'[d] \in {"promoted", "published"} <=> ka[d] \in {"promoted", "published"}
    BY <1>4, <1>5, <1>10 DEF Write, Finalize, Call, Effect
  <2>3. UNCHANGED <<Claimed, Given, Announced>>
    BY <2>1, <2>2, ClaimedAt DEF Given, Announced
  <2> QED BY <2>1, <2>3, Unmoved
<1>11. CASE Share(x)
  <2>1. UNCHANGED <<opState, digest, receipts, latePosts>>
    BY <1>11 DEF Share, Call, dbVars, relayVars
  <2>2. UNCHANGED <<Claimed, Announced>> BY <2>1, ClaimedAt DEF Announced
  <2>3. CASE UNCHANGED ka BY <2>1, <2>3, Unmoving
  <2>4. CASE ka' = [ka EXCEPT ![digest[t]] = "promoted"]
    <3>1. Given' = Given \cup {digest[t]} BY <1>4, <1>5, <2>4 DEF Given
    <3>2. PICK u \in Triggers : u = t BY <1>4
    <3>3. Promise!Share(u)
      BY <1>6, <2>1, <2>2, <3>1, <3>2 DEF Promise!Share, Given, Announced
    <3> QED BY <3>3, PromiseSteps
  <2> QED BY <1>11, <2>3, <2>4 DEF Share, Call, Effect
<1>12. CASE Verify(x)
  BY <1>12, Unmoving DEF Verify, dbVars, relayVars, nodeVars
<1>13. CASE Find(x)
  <2>1. UNCHANGED <<digest, ka, receipts, latePosts>> BY <1>13 DEF Find, relayVars, nodeVars
  <2>2. CASE receipts[t] > 0 /\ Move(x, "receipted", "idle")
    BY <1>2, <1>3, <2>1, <2>2, MovePromise
  <2>3. CASE UNCHANGED opState BY <2>1, <2>3, Unmoving
  <2> QED BY <1>13, <2>2, <2>3 DEF Find
\* A receipt that will be stored later counts as announced.
<1>14. CASE Post(x)
  <2>1. UNCHANGED <<opState, digest, ka>> /\ job[x].pc = "post"
    BY <1>14 DEF Post, dbVars, nodeVars
  <2>2. digest[t] \in Given BY <1>1, <1>4, <1>5, <2>1 DEF PostInv, Shared, Given
  <2>3. UNCHANGED <<Claimed, Given>> BY <2>1, ClaimedAt DEF Given
  <2>4. \/ UNCHANGED <<receipts, latePosts>>
        \/ receipts' = [receipts EXCEPT ![t] = OneMore(@)] /\ latePosts' = latePosts
        \/ receipts' = receipts /\ latePosts' = latePosts \cup {t}
    BY <1>14 DEF Post
  <2>5. Announced' \in {Announced, Announced \cup {t}}
    BY <1>4, <1>5, <2>4, OneMoreIsSome DEF Announced
  <2>6. CASE Announced' = Announced BY <2>1, <2>3, <2>6, Unmoved
  <2>7. CASE Announced' = Announced \cup {t}
    <3>1. PICK u \in Triggers : u = t BY <1>4
    <3>2. Promise!Announce(u)
      BY <1>6, <2>1, <2>2, <2>3, <2>7, <3>1 DEF Promise!Announce, Given, Announced
    <3> QED BY <3>2, PromiseSteps
  <2> QED BY <2>5, <2>6, <2>7
<1>15. CASE Posted(x)
  <2>1. UNCHANGED <<digest, ka, receipts, latePosts>> BY <1>15 DEF Posted, relayVars, nodeVars
  <2>2. receipts[t] > 0 BY <1>15 DEF PostedInv, Posted
  <2> QED BY <1>2, <1>3, <1>15, <2>1, <2>2, MovePromise DEF Posted
<1> QED
  BY <1>7, <1>8, <1>9, <1>10, <1>11, <1>12, <1>13, <1>14, <1>15 DEF Execute

LEMMA StepPromise ==
    ASSUME CInv, XInv, PostedInv, ShareInv, [Next]_vars
    PROVE  [Promise!Next]_(Promise!vars)
<1>1. TypeOK /\ JobsClaimed BY DEF CInv
<1>2. digest \in [Triggers -> Digest] /\ receipts \in [Triggers -> Nat] /\ latePosts \subseteq Triggers
      /\ ka \in [Digest -> {"none", "draft", "sealed", "promoted", "published"}]
  BY <1>1, TypeOfState
<1>3. CASE \/ UNCHANGED vars \/ Boot \/ Serve \/ Crash
           \/ \E t \in Triggers : HandleCapture(t)
           \/ \E x \in Workers : Resync(x) \/ Take(x)
           \/ \E e \in Sources \cup Triggers : Appear(e) \/ Delete(e)
  BY <1>3, Unmoving DEF vars, Boot, Serve, Crash, HandleCapture, Resync, Take, Appear, Delete,
                        dbVars, relayVars, nodeVars
<1>4. CASE Claim
  <2> DEFINE t == job[Main].op
             src == Snapshot(t)
  <2>1. t \in Triggers
    BY <1>1, <1>4 DEF Claim, JobsClaimed, Workers
  <2>2. UNCHANGED <<ka, receipts, latePosts>> BY <1>4 DEF Claim, relayVars, nodeVars
  <2>3. UNCHANGED <<Given, Announced>> BY <2>2 DEF Given, Announced
  <2>4. CASE UNCHANGED <<opState, digest>> BY <2>2, <2>4, Unmoving
  <2>5. CASE /\ src # {} /\ opState[t] = "none"
             /\ opState' = [opState EXCEPT ![t] = "distilled"]
             /\ digest' = [digest EXCEPT ![t] = src]
    <3>1. src \in Digest BY <2>1, ConstantsAssumption DEF Snapshot, Digest
    <3>2. Claimed[t] = "none" /\ Claimed' = [Claimed EXCEPT ![t] = "open"]
      BY <1>1, <2>1, <2>5, NewClaim DEF ClaimOf, CaptureStates
    <3>3. Promise!Claim(t, src)
      BY <2>3, <2>5, <3>2 DEF Promise!Claim, Given, Announced
    <3> QED BY <2>1, <3>1, <3>3 DEF Promise!Next
  <2> QED BY <1>4, <2>4, <2>5 DEF Claim
\* A late receipt was announced when it was sent.
<1>5. ASSUME NEW t \in Triggers, LatePost(t) PROVE [Promise!Next]_(Promise!vars)
  <2>1. \A u \in Triggers : receipts'[u] > 0 \/ u \in latePosts' <=> receipts[u] > 0 \/ u \in latePosts
    BY <1>2, <1>5, OneMoreIsSome DEF LatePost
  <2>2. UNCHANGED <<Claimed, digest, Given, Announced>>
    BY <1>5, <2>1, ClaimedAt DEF LatePost, dbVars, nodeVars, Given, Announced
  <2> QED BY <2>2, Unmoved
\* What is published stays shared, and its operation closed.
<1>6. ASSUME NEW t \in Triggers, Publish(t) PROVE [Promise!Next]_(Promise!vars)
  <2>1. ClaimOf("receipted") = ClaimOf("vm_receipted") BY DEF ClaimOf, CaptureStates
  <2>2. Claimed' = Claimed BY <1>1, <1>6, <2>1, SameClaim DEF Publish
  <2>3. \A d \in Digest : ka'[d] \in {"promoted", "published"} <=> ka[d] \in {"promoted", "published"}
    BY <1>2, <1>6 DEF Publish
  <2>4. UNCHANGED <<digest, Given, Announced>>
    BY <1>6, <2>3 DEF Publish, relayVars, Given, Announced
  <2> QED BY <2>2, <2>4, Unmoved
<1>7. CASE \E x \in Workers : Execute(x) BY <1>7, ExecutePromise
\* A late share is one of an open claim, or of an asset that is shared already.
<1>8. ASSUME NEW c \in late, LateCall(c) PROVE [Promise!Next]_(Promise!vars)
  <2>1. /\ c \in LateType /\ UNCHANGED <<opState, digest, receipts, latePosts>>
        /\ \A d \in Digest : ka[d] \in {"promoted", "published"} => ka'[d] \in {"promoted", "published"}
        /\ \A d \in Digest : ka'[d] \in {"promoted", "published"} =>
               \/ ka[d] \in {"promoted", "published"}
               \/ c.call = "share" /\ d = digest[c.op]
    BY <1>8, LateEffect
  <2>2. UNCHANGED <<Claimed, Announced>> BY <2>1, ClaimedAt DEF Announced
  <2>3. c.op \in Triggers /\ digest[c.op] \in Digest BY <1>2, <2>1 DEF LateType
  <2>4. CASE Given' = Given BY <2>1, <2>2, <2>4, Unmoved
  <2>5. CASE Given' # Given
    <3>1. /\ c.call = "share" /\ digest[c.op] \notin Given
          /\ Given' = Given \cup {digest[c.op]}
      BY <2>1, <2>3, <2>5 DEF Given
    <3>2. opState[c.op] \in Checked BY <1>8, <3>1 DEF ShareInv
    <3>3. opState[c.op] \notin {"receipted", "vm_receipted"}
      BY <2>3, <3>1 DEF ShareInv, Shared, Given
    <3>4. Claimed[c.op] = "open"
      BY <2>3, <3>2, <3>3, ClaimedAt DEF ClaimOf, Checked, CaptureStates
    <3>5. Promise!Share(c.op)
      BY <2>1, <2>2, <3>1, <3>4 DEF Promise!Share, Given, Announced
    <3> QED BY <2>3, <3>5, PromiseSteps
  <2> QED BY <2>4, <2>5
<1> QED BY <1>3, <1>4, <1>5, <1>6, <1>7, <1>8 DEF Next

\* As long as resyncs do not overlap, the capture path keeps the promises of
\* Receipting: one claim, one name, receipts only of shared assets, no end but a
\* receipt or a silent failure - through all crashes and faults of the module.
THEOREM Implementation == AtMostOneResync => (Spec => ImplementsReceipting)
<1> SUFFICES ASSUME AtMostOneResync PROVE Spec => ImplementsReceipting OBVIOUS
<1>1. Init => Promise!Init
  <2> SUFFICES ASSUME Init PROVE Promise!Init OBVIOUS
  <2>1. Claimed = [t \in Triggers |-> "none"] BY ClaimedAt DEF Init, ClaimOf, CaptureStates
  <2>2. Given = {} /\ Announced = {} BY DEF Init, Given, Announced
  <2> QED BY <2>1, <2>2 DEF Init, Promise!Init, Given, Announced
<1>2. Init => PostedInv BY DEF Init, PostedInv, Idle
<1>3. CInv /\ PostedInv /\ [Next]_vars => PostedInv' BY NextPosted
<1>6. Init => ShareInv BY DEF Init, ShareInv, Idle
<1>7. CInv /\ XInv /\ ShareInv /\ [Next]_vars => ShareInv' BY NextShare
<1>4. CInv /\ XInv /\ PostedInv /\ ShareInv /\ [Next]_vars => [Promise!Next]_(Promise!vars)
  BY StepPromise
<1>5. Spec => []XInv BY OneHandEach
<1> QED
  BY <1>1, <1>2, <1>3, <1>4, <1>5, <1>6, <1>7, InductiveInvariant, PTL
  DEF Spec, ImplementsReceipting, Promise!Spec
=============================================================================
