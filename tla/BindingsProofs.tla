--------------------------- MODULE BindingsProofs ---------------------------
(***************************************************************************)
(* The bindings file is what the daemon serves by, for any number of       *)
(* channels, graphs, keys and files, and any sequence of edits, refused    *)
(* starts and crashes.                                                     *)
(***************************************************************************)
EXTENDS Bindings, TLAPS

Up == phase # "down"

\* A running process has the file it was started with, and the tables say so.
FileInv == Up => Parses(file) /\ config = Parsed(file)
TableInv ==
    Up => \A i \in DOMAIN config : /\ mapping[config[i].channel] = config[i].graph
                                   /\ promoters[config[i].channel] = config[i].promoters

\* The probes that were passed, all of them once it works.
ProbeInv ==
    Up => /\ \A i \in 1 .. probed : config[i].graph \in seen
          /\ phase \in {"recovering", "serving"} => probed = Len(config)

\* While it serves, the questions in hand are of the file's channels.
AskInv == phase = "serving" => \A c \in todo : Listed(config, c)

BInv == TypeOK /\ FileInv /\ TableInv /\ ProbeInv /\ AskInv /\ EventsStayInFile

-----------------------------------------------------------------------------
(* Parsing and loading.                                                    *)

LEMMA EntryFound ==
    ASSUME NEW b, NEW c, Listed(b, c)
    PROVE  \E i \in DOMAIN b : b[i].channel = c /\ EntryOf(b, c) = b[i]
<1> DEFINE P(i) == i \in DOMAIN b /\ b[i].channel = c
<1>1. \E i : P(i) BY DEF Listed
<1>2. P(CHOOSE i : P(i)) BY <1>1
<1>3. PICK i : P(i) BY <1>1
<1>4. /\ (CHOOSE j \in DOMAIN b : b[j].channel = c) \in DOMAIN b
      /\ b[CHOOSE j \in DOMAIN b : b[j].channel = c].channel = c
  BY <1>3
<1> QED BY <1>4 DEF EntryOf

LEMMA ParsedTyped ==
    ASSUME NEW f \in Files, Parses(f)
    PROVE  /\ Parsed(f) \in Seq(Bound) /\ DOMAIN Parsed(f) = DOMAIN f /\ Len(Parsed(f)) = Len(f)
           /\ \A i \in DOMAIN f : /\ Parsed(f)[i].channel = f[i].channel
                                  /\ Parsed(f)[i].graph = f[i].graph
                                  /\ Parsed(f)[i].promoters = {KeyOf[k] : k \in f[i].promoters}
           /\ \A i, j \in DOMAIN f : Parsed(f)[i].channel = Parsed(f)[j].channel => i = j
<1>1. f \in Seq(Entries) /\ Len(f) \in Nat /\ DOMAIN f = 1 .. Len(f) BY ConstantsAssumption
<1>2. ASSUME NEW i \in DOMAIN f
      PROVE  /\ Parsed(f)[i].channel = f[i].channel /\ Parsed(f)[i].graph = f[i].graph
             /\ Parsed(f)[i].promoters = {KeyOf[k] : k \in f[i].promoters}
             /\ Parsed(f)[i] \in Bound
  <2>1. f[i] \in Entries BY <1>1
  <2>2. f[i].channel \in Channels /\ f[i].graph \in Graphs BY <2>1 DEF Entries, Parses
  <2>3. {KeyOf[k] : k \in f[i].promoters} \in SUBSET Keys
    BY <2>1, ConstantsAssumption DEF Entries, Parses, IsKey
  <2>4. Parsed(f)[i] = [f[i] EXCEPT !.promoters = {KeyOf[k] : k \in f[i].promoters}]
    BY DEF Parsed
  <2> QED BY <2>1, <2>2, <2>3, <2>4 DEF Entries, Bound
<1>3. Parsed(f) \in [1 .. Len(f) -> Bound] BY <1>1, <1>2 DEF Parsed
<1>4. \A i, j \in DOMAIN f : f[i].channel = f[j].channel => i = j BY DEF Parses
<1>5. \A i, j \in DOMAIN f : Parsed(f)[i].channel = Parsed(f)[j].channel => i = j
  BY <1>2, <1>4
<1>6. Parsed(f) \in Seq(Bound) /\ DOMAIN Parsed(f) = DOMAIN f /\ Len(Parsed(f)) = Len(f)
  BY <1>1, <1>3
<1> QED BY <1>2, <1>5, <1>6

LEMMA Loaded ==
    ASSUME TypeOK, NEW b \in Seq(Bound), LoadBindings(b),
           \A i, j \in DOMAIN b : b[i].channel = b[j].channel => i = j
    PROVE  /\ mapping' \in [Channels -> Graphs \cup {None}]
           /\ promoters' \in [Channels -> SUBSET Keys]
           /\ \A i \in DOMAIN b : /\ mapping'[b[i].channel] = b[i].graph
                                  /\ promoters'[b[i].channel] = b[i].promoters
<1>1. \A i \in DOMAIN b : b[i] \in Bound OBVIOUS
<1>2. \A c \in Channels : Listed(b, c) => EntryOf(b, c) \in Bound
  BY <1>1, EntryFound
<1>3. \A i \in DOMAIN b : Listed(b, b[i].channel) /\ EntryOf(b, b[i].channel) = b[i]
  <2> SUFFICES ASSUME NEW i \in DOMAIN b
               PROVE  Listed(b, b[i].channel) /\ EntryOf(b, b[i].channel) = b[i]
    OBVIOUS
  <2>1. Listed(b, b[i].channel) BY DEF Listed
  <2>2. PICK j \in DOMAIN b : b[j].channel = b[i].channel /\ EntryOf(b, b[i].channel) = b[j]
    BY <2>1, EntryFound
  <2> QED BY <2>1, <2>2
<1>4. /\ mapping' \in [Channels -> Graphs \cup {None}] /\ promoters' \in [Channels -> SUBSET Keys]
  <2>1. \A c \in Channels : Listed(b, c) =>
            EntryOf(b, c).graph \in Graphs /\ EntryOf(b, c).promoters \in SUBSET Keys
    BY <1>2 DEF Bound
  <2> QED BY <2>1 DEF LoadBindings, TypeOK
<1>5. \A i \in DOMAIN b : b[i].channel \in Channels BY <1>1 DEF Bound
<1> QED BY <1>3, <1>4, <1>5 DEF LoadBindings

-----------------------------------------------------------------------------
(* The steps.                                                              *)

LEMMA EnvStep == ASSUME BInv, Edit \/ NodeChanges PROVE BInv'
<1>1. CASE Edit
  <2>1. /\ phase = "down" /\ file' \in Files /\ mode' \in Modes
        /\ UNCHANGED <<config, mapping, promoters, phase, probed, present, chain, opGraph, asks,
                       todo, seen, done>>
    BY <1>1 DEF Edit, tables, procVars, nodeVars, rows, history
  <2> QED BY <2>1 DEF BInv, TypeOK, FileInv, TableInv, ProbeInv, AskInv, EventsStayInFile, Up, Listed
<1>2. CASE NodeChanges
  <2>1. /\ present' \subseteq Graphs
        /\ UNCHANGED <<file, mode, config, mapping, promoters, phase, probed, chain, opGraph, asks,
                       todo, seen, done>>
    BY <1>2 DEF NodeChanges, envVars, tables, procVars, rows, history, BInv, TypeOK
  <2> QED BY <2>1 DEF BInv, TypeOK, FileInv, TableInv, ProbeInv, AskInv, EventsStayInFile, Up,
                      Listed, Parses, IsKey, Parsed
<1> QED BY <1>1, <1>2

LEMMA ConstructStep == ASSUME BInv, Construct PROVE BInv'
<1>1. /\ Parses(file) /\ config' = Parsed(file) /\ LoadBindings(Parsed(file))
      /\ phase' = "status" /\ probed' = 0 /\ seen' = {} /\ done' = {}
      /\ UNCHANGED <<file, mode, present, chain, opGraph, asks, todo>>
  BY DEF Construct, envVars, nodeVars, rows
<1>2. file \in Files /\ TypeOK BY DEF BInv, TypeOK
<1>3. /\ Parsed(file) \in Seq(Bound) /\ DOMAIN Parsed(file) = DOMAIN file
      /\ \A i, j \in DOMAIN file : Parsed(file)[i].channel = Parsed(file)[j].channel => i = j
  BY <1>1, <1>2, ParsedTyped
<1>4. /\ mapping' \in [Channels -> Graphs \cup {None}] /\ promoters' \in [Channels -> SUBSET Keys]
      /\ \A i \in DOMAIN Parsed(file) :
            /\ mapping'[Parsed(file)[i].channel] = Parsed(file)[i].graph
            /\ promoters'[Parsed(file)[i].channel] = Parsed(file)[i].promoters
  BY <1>1, <1>2, <1>3, Loaded
<1>5. TypeOK'
  <2>1. 0 \in 0 .. Len(config') BY <1>1, <1>3
  <2> QED BY <1>1, <1>2, <1>3, <1>4, <2>1 DEF TypeOK
<1>6. FileInv' BY <1>1 DEF FileInv, Parses, Parsed
<1>7. TableInv' BY <1>1, <1>4 DEF TableInv
<1>8. ProbeInv' /\ AskInv' /\ EventsStayInFile'
  BY <1>1 DEF ProbeInv, AskInv, EventsStayInFile
<1> QED BY <1>5, <1>6, <1>7, <1>8 DEF BInv

\* The process goes down, by itself or not, or begins to serve.
LEMMA DownStep == ASSUME BInv, Status \/ Serve \/ Stop PROVE BInv'
<1>1. /\ UNCHANGED <<file, mode, config, probed, mapping, promoters, present, chain, opGraph, asks,
                     seen, done>>
      /\ \/ phase' = "down" /\ todo' = {}
         \/ phase' = "probe" /\ Up /\ todo' = todo
         \/ phase = "recovering" /\ phase' = "serving" /\ todo = {} /\ todo' = {}
  BY DEF Status, Serve, Stop, Refuse, envVars, tables, nodeVars, rows, history, Up
<1> QED BY <1>1 DEF BInv, TypeOK, FileInv, TableInv, ProbeInv, AskInv, EventsStayInFile, Up,
                    Listed, Parses, IsKey, Parsed

LEMMA ProbeStep == ASSUME BInv, Probe PROVE BInv'
<1>1. /\ phase = "probe"
      /\ UNCHANGED <<file, mode, config, mapping, promoters, present, chain, opGraph, asks, done>>
  BY DEF Probe, envVars, tables, nodeVars, rows
<1>2. /\ config \in Seq(Bound) /\ probed \in 0 .. Len(config) /\ Len(config) \in Nat
      /\ seen \subseteq Graphs
  BY DEF BInv, TypeOK
<1>3. CASE Refuse /\ UNCHANGED seen
  BY <1>1, <1>3 DEF Refuse, BInv, TypeOK, FileInv, TableInv, ProbeInv, AskInv, EventsStayInFile, Up
<1>4. CASE /\ probed < Len(config) /\ probed' = probed + 1 /\ UNCHANGED <<phase, todo>>
           /\ seen' = seen \cup {config[probed + 1].graph}
  <2>1. probed' \in 0 .. Len(config) /\ 1 .. probed' = (1 .. probed) \cup {probed + 1}
    BY <1>2, <1>4
  <2>2. config[probed + 1] \in Bound BY <1>2, <1>4
  <2>3. seen' \subseteq Graphs BY <1>2, <1>4, <2>2 DEF Bound
  <2>4. TypeOK' BY <1>1, <1>4, <2>1, <2>3 DEF BInv, TypeOK
  <2>5. FileInv' /\ TableInv' /\ AskInv'
    BY <1>1, <1>4 DEF BInv, FileInv, TableInv, AskInv, Up, Parses, Parsed
  <2>6. ProbeInv' BY <1>1, <1>4, <2>1 DEF BInv, ProbeInv, Up
  <2>7. EventsStayInFile' BY <1>1 DEF BInv, EventsStayInFile
  <2> QED BY <2>4, <2>5, <2>6, <2>7 DEF BInv
<1>5. CASE ~(probed < Len(config)) /\ phase' = "recovering" /\ todo' = asks /\ UNCHANGED <<probed, seen>>
  <2>1. probed = Len(config) BY <1>2, <1>5
  <2> QED BY <1>1, <1>5, <2>1
          DEF BInv, TypeOK, FileInv, TableInv, ProbeInv, AskInv, EventsStayInFile, Up, Parses, Parsed
<1> QED BY <1>1, <1>3, <1>4, <1>5 DEF Probe

\* While it works, an entry of the file is in the tables, and its graph was found.
LEMMA EntryServed ==
    ASSUME BInv, NEW c \in Channels, phase \in {"recovering", "serving"}, Listed(config, c)
    PROVE  \E i \in DOMAIN config : /\ config[i].channel = c /\ config[i].graph = mapping[c]
                                    /\ config[i].promoters = promoters[c] /\ mapping[c] \in seen
<1>1. PICK i \in DOMAIN config : config[i].channel = c BY DEF Listed
<1>2. i \in 1 .. probed BY DEF BInv, TypeOK, ProbeInv, Up
<1> QED BY <1>1, <1>2 DEF BInv, TableInv, ProbeInv, Up

\* Something done, on an event or not.
LEMMA DoesStep ==
    ASSUME BInv, NEW what \in {"capture", "answer", "approval"}, NEW c \in Channels,
           NEW g \in Graphs, NEW k \in Keys \cup {None}, NEW live \in BOOLEAN,
           Does(what, c, g, k, live),
           UNCHANGED <<file, mode, config, mapping, promoters, phase, probed, present, chain>>,
           opGraph' \in [Channels -> Graphs \cup {None}], asks' \subseteq Channels,
           todo' \subseteq asks', todo' \subseteq todo,
           live => /\ g \in seen
                   /\ \E i \in DOMAIN config : /\ config[i].channel = c /\ config[i].graph = g
                                               /\ what = "approval" => k \in config[i].promoters
    PROVE  BInv'
<1> DEFINE d == [what |-> what, channel |-> c, graph |-> g, key |-> k, live |-> live,
                 found |-> g \in seen]
<1>1. done' = done \cup {d} /\ seen' = seen BY DEF Does
<1>2. /\ d.what = what /\ d.channel = c /\ d.graph = g /\ d.key = k /\ d.live = live
      /\ d.found = (g \in seen) /\ (g \in seen) \in BOOLEAN
  OBVIOUS
<1>3. d \in [what : {"capture", "answer", "approval"}, channel : Channels, graph : Graphs,
             key : Keys \cup {None}, live : BOOLEAN, found : BOOLEAN]
  BY <1>2
<1> HIDE DEF d
<1>4. TypeOK' BY <1>1, <1>3 DEF BInv, TypeOK
<1>5. FileInv' /\ TableInv' /\ ProbeInv' /\ AskInv'
  BY <1>1 DEF BInv, FileInv, TableInv, ProbeInv, AskInv, Up, Parses, Parsed, Listed
<1>6. EventsStayInFile' BY <1>1, <1>2 DEF BInv, EventsStayInFile
<1> QED BY <1>4, <1>5, <1>6 DEF BInv

LEMMA WorkStep ==
    ASSUME BInv, NEW c \in Channels,
           Resume(c) \/ HandleCapture(c) \/ HandleAsk(c) \/ Answer(c)
               \/ \E k \in Keys : HandleApproval(c, k)
    PROVE  BInv'
<1>1. /\ mapping \in [Channels -> Graphs \cup {None}] /\ promoters \in [Channels -> SUBSET Keys]
      /\ opGraph \in [Channels -> Graphs \cup {None}] /\ asks \subseteq Channels /\ todo \subseteq asks
  BY DEF BInv, TypeOK
<1>2. /\ UNCHANGED <<file, mode, config, mapping, promoters, phase, probed, present, chain>>
      /\ phase \in {"recovering", "serving"}
  BY DEF Resume, HandleCapture, HandleAsk, Answer, HandleApproval, Subscribed, envVars, tables,
         procVars, nodeVars
<1>3. Subscribed(c) =>
          \E i \in DOMAIN config : /\ config[i].channel = c /\ config[i].graph = mapping[c]
                                   /\ config[i].promoters = promoters[c] /\ mapping[c] \in seen
  BY <1>2, EntryServed DEF Subscribed
<1>4. CASE Resume(c)
  <2>1. opGraph[c] \in Graphs BY <1>1, <1>4 DEF Resume
  <2>2. /\ Does("capture", c, opGraph[c], None, FALSE) /\ UNCHANGED <<opGraph, asks, todo>>
    BY <1>4 DEF Resume, rows
  <2> QED BY <1>1, <1>2, <2>1, <2>2, DoesStep
<1>5. CASE HandleCapture(c)
  <2>1. mapping[c] \in Graphs BY <1>1, <1>5 DEF HandleCapture
  <2>2. /\ Does("capture", c, mapping[c], None, TRUE) /\ Subscribed(c)
        /\ opGraph' = [opGraph EXCEPT ![c] = mapping[c]] /\ UNCHANGED <<asks, todo>>
    BY <1>5 DEF HandleCapture
  <2>3. opGraph' \in [Channels -> Graphs \cup {None}] BY <1>1, <2>1, <2>2
  <2> QED BY <1>1, <1>2, <1>3, <2>1, <2>2, <2>3, DoesStep
<1>6. CASE HandleAsk(c)
  <2>1. /\ Listed(config, c) /\ asks' = asks \cup {c} /\ todo' = todo \cup {c}
        /\ UNCHANGED <<opGraph, seen, done>>
    BY <1>6 DEF HandleAsk, Subscribed, history
  <2> QED BY <1>1, <1>2, <2>1
          DEF BInv, TypeOK, FileInv, TableInv, ProbeInv, AskInv, EventsStayInFile, Up, Listed,
              Parses, Parsed
<1>7. CASE Answer(c)
  <2>1. /\ c \in todo /\ todo' = todo \ {c} /\ asks' = asks \ {c} /\ UNCHANGED opGraph
    BY <1>7 DEF Answer
  <2>2. CASE mapping[c] = None
    <3>1. UNCHANGED <<seen, done>> BY <1>7, <2>2 DEF Answer, history
    <3> QED BY <1>1, <1>2, <2>1, <3>1
            DEF BInv, TypeOK, FileInv, TableInv, ProbeInv, AskInv, EventsStayInFile, Up, Listed,
                Parses, Parsed
  <2>3. CASE mapping[c] # None
    <3>1. mapping[c] \in Graphs BY <1>1, <2>3
    <3>2. Does("answer", c, mapping[c], None, phase = "serving") BY <1>7, <2>3 DEF Answer
    <3>3. phase = "serving" => Subscribed(c) BY <2>1 DEF BInv, AskInv, Subscribed
    <3>4. todo' \subseteq asks' /\ asks' \subseteq Channels /\ todo' \subseteq todo BY <1>1, <2>1
    <3>5. CASE phase = "serving"
      <4>1. Does("answer", c, mapping[c], None, TRUE) BY <3>2, <3>5
      <4> QED BY <1>1, <1>2, <1>3, <2>1, <3>1, <3>3, <3>4, <3>5, <4>1, DoesStep
    <3>6. CASE phase # "serving"
      <4>1. Does("answer", c, mapping[c], None, FALSE) BY <3>2, <3>6
      <4> QED BY <1>1, <1>2, <2>1, <3>1, <3>4, <4>1, DoesStep
    <3> QED BY <3>5, <3>6
  <2> QED BY <2>2, <2>3
<1>8. ASSUME NEW k \in Keys, HandleApproval(c, k) PROVE BInv'
  <2>1. /\ Subscribed(c) /\ k \in promoters[c] /\ mapping[c] = opGraph[c] /\ opGraph[c] # None
        /\ Does("approval", c, opGraph[c], k, TRUE) /\ UNCHANGED <<opGraph, asks, todo>>
    BY <1>8 DEF HandleApproval, rows
  <2>2. opGraph[c] \in Graphs BY <1>1, <2>1
  <2> QED BY <1>1, <1>2, <1>3, <2>1, <2>2, DoesStep
<1> QED BY <1>4, <1>5, <1>6, <1>7, <1>8

\* BInv is inductive (configuration, tables, start and handlers).
THEOREM InductiveInvariant == Spec => []BInv
<1>1. Init => BInv
  <2> SUFFICES ASSUME Init PROVE BInv OBVIOUS
  <2>1. /\ <<>> \in Seq(Bound) /\ Len(<<>>) = 0 /\ 0 \in 0 .. 0 OBVIOUS
  <2>2. TypeOK BY <2>1 DEF Init, TypeOK
  <2> QED BY <2>2 DEF Init, BInv, FileInv, TableInv, ProbeInv, AskInv, EventsStayInFile, Up
<1>2. BInv /\ [Next]_vars => BInv'
  <2> SUFFICES ASSUME BInv, [Next]_vars PROVE BInv' OBVIOUS
  <2>1. CASE UNCHANGED vars
    BY <2>1 DEF vars, envVars, tables, procVars, nodeVars, rows, history, BInv, TypeOK, FileInv,
                TableInv, ProbeInv, AskInv, EventsStayInFile, Up, Listed, Parses, IsKey, Parsed
  <2>2. CASE Next BY <2>2, EnvStep, ConstructStep, DownStep, ProbeStep, WorkStep DEF Next
  <2> QED BY <2>1, <2>2
<1> QED BY <1>1, <1>2, PTL DEF Spec

\* The types of all variables, for any channels, graphs and files (configuration).
THEOREM TypesHold == Spec => []TypeOK
<1>1. BInv => TypeOK BY DEF BInv
<1> QED BY <1>1, InductiveInvariant, PTL

\* Whatever files came before, the tables say what the file of this start says
\* (parseBindings and Registry.loadBindings).
THEOREM FileRules == Spec => []TablesFollowFile
<1>1. BInv => TablesFollowFile
  <2> SUFFICES ASSUME BInv, phase \in {"recovering", "serving"}, NEW i \in DOMAIN file
               PROVE  /\ mapping[file[i].channel] = file[i].graph
                      /\ promoters[file[i].channel] = {KeyOf[k] : k \in file[i].promoters}
                      /\ file[i].promoters \subseteq RawKeys
    BY DEF TablesFollowFile
  <2>1. file \in Files /\ Parses(file) /\ config = Parsed(file) BY DEF BInv, TypeOK, FileInv, Up
  <2>2. file[i] \in Entries
    <3>1. file \in Seq(Entries) BY <2>1, ConstantsAssumption
    <3> QED BY <3>1
  <2> QED BY <2>1, <2>2, ParsedTyped DEF BInv, TableInv, Up, Entries
<1> QED BY <1>1, InductiveInvariant, PTL

\* An event is acted on in the graph and at the word the file gives its channel
\* (subscription, claim, and the gates of handleApproval).
THEOREM EventsInFile == Spec => []EventsStayInFile
<1>1. BInv => EventsStayInFile BY DEF BInv
<1> QED BY <1>1, InductiveInvariant, PTL
=============================================================================
