------------------------------- MODULE Bindings -----------------------------
(***************************************************************************)
(* Which channels the daemon serves, in which graphs and at whose word: a  *)
(* bindings file, edited between runs, is parsed, written over the tables  *)
(* of the database, and only then held against the node; the subscription  *)
(* follows the file, the handlers follow the tables, and recovery resumes  *)
(* what was left in any channel.                                           *)
(*                                                                         *)
(* Of the handlers only the reads of the tables are kept: Capture, Asks    *)
(* and Publication have the rest.  One decision per channel is enough.     *)
(***************************************************************************)
EXTENDS Naturals, Sequences

CONSTANTS
    Channels, Graphs, None,      \* None: a field left out of an entry, no mapping
    RawKeys, Keys, KeyOf,        \* promoters as written (hex, npub), as stored
    Malformed,                   \* what a string that is neither decodes to
    Modes, Chains, ChainFor,     \* publication modes, and the chain each requires
    Files                        \* the files an operator may leave: sequences of
                                 \* entries [channel, graph, promoters]

Entries == [channel : Channels \cup {None}, graph : Graphs \cup {None}, promoters : SUBSET RawKeys]
Bound == [channel : Channels, graph : Graphs, promoters : SUBSET Keys]

ASSUME ConstantsAssumption ==
    /\ None \notin Channels \cup Graphs /\ Malformed \notin Keys
    /\ KeyOf \in [RawKeys -> Keys \cup {Malformed}]
    /\ Files \subseteq Seq(Entries)
    /\ ChainFor \in [Modes -> SUBSET Chains]

VARIABLES
    file, mode,              \* the bindings file and the mode in the environment
    config,                  \* parsed bindings of the running process, in file order
    mapping, promoters,      \* channels and promoters tables
    phase, probed,           \* the process; how many entries of config are probed
    present, chain,          \* the node: the graphs it has, the chain it is on
    opGraph, asks, todo,     \* ops (the graph recorded), pending questions, and
                             \* those the process has in hand
    seen, done               \* history: graphs this start found on the node, and
                             \* what the process did in which graph

envVars == <<file, mode>>
tables == <<mapping, promoters>>
procVars == <<config, phase, probed>>
nodeVars == <<present, chain>>
rows == <<opGraph, asks>>
history == <<seen, done>>
vars == <<envVars, tables, procVars, nodeVars, rows, todo, history>>

Init ==
    /\ file \in Files /\ mode \in Modes
    /\ config = <<>> /\ phase = "down" /\ probed = 0
    /\ mapping = [c \in Channels |-> None] /\ promoters = [c \in Channels |-> {}]
    /\ present \in SUBSET Graphs /\ chain \in Chains
    /\ opGraph = [c \in Channels |-> None] /\ asks = {} /\ todo = {}
    /\ seen = {} /\ done = {}

-----------------------------------------------------------------------------
(* The operator and the node.                                              *)

Edit ==
    /\ phase = "down" /\ file' \in Files /\ mode' \in Modes
    /\ UNCHANGED <<tables, procVars, nodeVars, rows, todo, history>>

\* A graph is created on the node, or the node comes back without it.
NodeChanges ==
    /\ \E g \in Graphs : present' = IF g \in present THEN present \ {g} ELSE present \cup {g}
    /\ UNCHANGED <<envVars, tables, procVars, chain, rows, todo, history>>

-----------------------------------------------------------------------------
(* Start.                                                                  *)

\* (mutant: whatever is written is taken for a key)
AnyKey(k) == TRUE
\* normalizePubkey: 64 hex digits or an npub; it throws on anything else.
IsKey(k) == KeyOf[k] # Malformed

\* parseBindings: an array of complete entries, no channel twice, every promoter
\* a key; otherwise it throws.
Parses(f) ==
    /\ \A i \in DOMAIN f : f[i].channel # None /\ f[i].graph # None
    /\ \A i, j \in DOMAIN f : f[i].channel = f[j].channel => i = j
    /\ \A i \in DOMAIN f : \A k \in f[i].promoters : IsKey(k)

Parsed(f) == [i \in DOMAIN f |-> [f[i] EXCEPT !.promoters = {KeyOf[k] : k \in @}]]

Listed(bindings, c) == \E i \in DOMAIN bindings : bindings[i].channel = c
EntryOf(bindings, c) == bindings[CHOOSE i \in DOMAIN bindings : bindings[i].channel = c]

\* (mutant: promoters are added to those of earlier files)
LoadAdding(bindings) ==
    /\ mapping' = [c \in Channels |-> IF Listed(bindings, c) THEN EntryOf(bindings, c).graph ELSE mapping[c]]
    /\ promoters' = [c \in Channels |->
          promoters[c] \cup IF Listed(bindings, c) THEN EntryOf(bindings, c).promoters ELSE {}]
\* Registry.loadBindings, one transaction: the file's channels are overwritten,
\* the others stay as they are.
LoadBindings(bindings) ==
    /\ mapping' = [c \in Channels |-> IF Listed(bindings, c) THEN EntryOf(bindings, c).graph ELSE mapping[c]]
    /\ promoters' = [c \in Channels |->
          IF Listed(bindings, c) THEN EntryOf(bindings, c).promoters ELSE promoters[c]]

\* The Daemon is constructed: the tables change before anything is verified.  A
\* file that does not parse ends the process before that.
Construct ==
    /\ phase = "down" /\ Parses(file)
    /\ config' = Parsed(file) /\ LoadBindings(Parsed(file))
    /\ phase' = "status" /\ probed' = 0 /\ seen' = {} /\ done' = {}
    /\ UNCHANGED <<envVars, nodeVars, rows, todo>>

\* start refuses: the process exits, the tables stay.
Refuse == phase' = "down" /\ todo' = {} /\ UNCHANGED probed

\* dkg.status: the node does not answer, or is on the wrong chain for the mode.
Status ==
    /\ phase = "status"
    /\ \/ Refuse
       \/ chain \in ChainFor[mode] /\ phase' = "probe" /\ UNCHANGED <<probed, todo>>
    /\ UNCHANGED <<envVars, config, tables, nodeVars, rows, history>>

\* (mutant: an entry whose probe fails is passed over)
ProbeLenient ==
    /\ phase = "probe"
    /\ IF probed < Len(config)
       THEN \/ Refuse /\ UNCHANGED seen
            \/ /\ probed' = probed + 1 /\ UNCHANGED <<phase, todo>>
               /\ seen' = seen \cup ({config[probed + 1].graph} \cap present)
       ELSE phase' = "recovering" /\ todo' = asks /\ UNCHANGED <<probed, seen>>
    /\ UNCHANGED <<envVars, config, tables, nodeVars, rows, done>>

\* Every graph of the file is probed in turn; absent, or the probe in error,
\* refuses.  Past the last, recovery reads what is pending.
Probe ==
    /\ phase = "probe"
    /\ IF probed < Len(config)
       THEN \/ Refuse /\ UNCHANGED seen
            \/ /\ config[probed + 1].graph \in present
               /\ probed' = probed + 1 /\ UNCHANGED <<phase, todo>>
               /\ seen' = seen \cup {config[probed + 1].graph}
       ELSE phase' = "recovering" /\ todo' = asks /\ UNCHANGED <<probed, seen>>
    /\ UNCHANGED <<envVars, config, tables, nodeVars, rows, done>>

Serve ==
    /\ phase = "recovering" /\ todo = {} /\ phase' = "serving"
    /\ UNCHANGED <<envVars, config, probed, tables, nodeVars, rows, todo, history>>

\* A crash or a shutdown.
Stop ==
    /\ phase # "down" /\ phase' = "down" /\ todo' = {}
    /\ UNCHANGED <<envVars, config, probed, tables, nodeVars, rows, history>>

-----------------------------------------------------------------------------
(* Work.                                                                   *)

Does(what, c, g, k, live) ==
    /\ done' = done \cup {[what |-> what, channel |-> c, graph |-> g, key |-> k, live |-> live,
                           found |-> g \in seen]}
    /\ UNCHANGED seen

\* subscribe, catchUp: events of the file's channels, and of no other, arrive.
Subscribed(c) == phase = "serving" /\ Listed(config, c)

\* executeOp resumes a pending operation, at boot or on a reconnect, in the graph
\* it was claimed in.
Resume(c) ==
    /\ phase \in {"recovering", "serving"} /\ opGraph[c] # None
    /\ Does("capture", c, opGraph[c], None, FALSE)
    /\ UNCHANGED <<envVars, tables, procVars, nodeVars, rows, todo>>

\* A capture is claimed with the channel's graph, or not at all.
HandleCapture(c) ==
    /\ Subscribed(c) /\ mapping[c] # None /\ opGraph[c] = None
    /\ opGraph' = [opGraph EXCEPT ![c] = mapping[c]]
    /\ Does("capture", c, mapping[c], None, TRUE)
    /\ UNCHANGED <<envVars, tables, procVars, nodeVars, asks, todo>>

\* A question is claimed; it is answered in a later step.
HandleAsk(c) ==
    /\ Subscribed(c) /\ c \notin asks
    /\ asks' = asks \cup {c} /\ todo' = todo \cup {c}
    /\ UNCHANGED <<envVars, tables, procVars, nodeVars, opGraph, history>>

\* executeAsk: from the channel's graph, or with the reply that there is none.
Answer(c) ==
    /\ phase \in {"recovering", "serving"} /\ c \in todo
    /\ todo' = todo \ {c} /\ asks' = asks \ {c}
    /\ IF mapping[c] = None THEN UNCHANGED history
       ELSE Does("answer", c, mapping[c], None, phase = "serving")
    /\ UNCHANGED <<envVars, tables, procVars, nodeVars, opGraph>>

\* The gates on the promoter and on the graph; the operation in hand has a receipt.
HandleApproval(c, k) ==
    /\ Subscribed(c) /\ opGraph[c] # None
    /\ k \in promoters[c] /\ mapping[c] = opGraph[c]
    /\ Does("approval", c, opGraph[c], k, TRUE)
    /\ UNCHANGED <<envVars, tables, procVars, nodeVars, rows, todo>>

Next ==
    \/ Edit \/ NodeChanges \/ Construct \/ Status \/ Probe \/ Serve \/ Stop
    \/ \E c \in Channels :
          \/ Resume(c) \/ HandleCapture(c) \/ HandleAsk(c) \/ Answer(c)
          \/ \E k \in Keys : HandleApproval(c, k)

Spec == Init /\ [][Next]_vars

-----------------------------------------------------------------------------
(* Properties.                                                             *)

\* Types of all variables.
TypeOK ==
    /\ file \in Files /\ mode \in Modes
    /\ config \in Seq(Bound) /\ probed \in 0 .. Len(config)
    /\ mapping \in [Channels -> Graphs \cup {None}] /\ promoters \in [Channels -> SUBSET Keys]
    /\ phase \in {"down", "status", "probe", "recovering", "serving"}
    /\ present \subseteq Graphs /\ chain \in Chains
    /\ opGraph \in [Channels -> Graphs \cup {None}]
    /\ asks \subseteq Channels /\ todo \subseteq asks
    /\ seen \subseteq Graphs
    /\ done \subseteq [what : {"capture", "answer", "approval"}, channel : Channels, graph : Graphs,
                       key : Keys \cup {None}, live : BOOLEAN, found : BOOLEAN]

\* While it serves, the tables say of the file's channels what the file says,
\* whatever earlier files and refused starts left in them: a promoter taken off
\* the list is off it, a channel bound anew is bound anew.
TablesFollowFile ==
    phase \in {"recovering", "serving"} =>
        \A i \in DOMAIN file :
            /\ mapping[file[i].channel] = file[i].graph
            /\ \A r \in RawKeys : r \in file[i].promoters => KeyOf[r] \in promoters[file[i].channel]
            /\ \A k \in promoters[file[i].channel] : \E r \in file[i].promoters : KeyOf[r] = k

\* What the daemon does on an event is within the file it was started with: in a
\* channel of it, in that channel's graph, which this start found on the node,
\* and, for an approval, at the word of a promoter of that channel.
EventsStayInFile ==
    \A d \in done : d.live =>
        /\ d.found
        /\ \E i \in DOMAIN config :
              /\ config[i].channel = d.channel /\ config[i].graph = d.graph
              /\ d.what = "approval" => d.key \in config[i].promoters
=============================================================================
