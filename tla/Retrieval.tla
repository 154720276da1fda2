------------------------------ MODULE Retrieval -----------------------------
(***************************************************************************)
(* The evidence behind a grounded answer: two passes of filters over the   *)
(* two memory layers of one room's graph, a ranking, a sufficiency gate,   *)
(* and a last look at every citation, while assets move between the layers *)
(* under the queries.                                                      *)
(*                                                                         *)
(* A row is one solution of the query: an asset's name and description.    *)
(* What is kept of its text is which words of the vocabulary it contains.  *)
(* Every awaited query is a step; Asks runs one of these for each question.*)
(***************************************************************************)
EXTENDS Naturals, Sequences, FiniteSets, FiniteSetsExt, SequencesExt

CONSTANTS
    Rows, Assets, AssetOf,   \* rows the store may return, and their assets
    Rooms, RoomOf,           \* the context graph each asset is in
    Words, WordsOf,          \* content words, and those in a row's text
    Specific,                \* words of seven letters or more
    MaxTerms, Limit,         \* most words of a question, most rows of a query
    MaxCited                 \* most citations of an answer

ASSUME ConstantsAssumption ==
    /\ AssetOf \in [Rows -> Assets] /\ RoomOf \in [Assets -> Rooms]
    /\ IsFiniteSet(Rows) /\ IsFiniteSet(Words)
    /\ WordsOf \in [Rows -> SUBSET Words] /\ Specific \subseteq Words
    /\ {MaxTerms, Limit, MaxCited} \subseteq Nat \ {0}

VARIABLES
    layer,               \* the node: the memory layer each asset is in
    room, terms,         \* the question: its graph and its words
    pc, pass, out,       \* retrieveEvidence: where it is, evidence so far
    cited, looks,        \* validateCitations: the citations, and the layer each
                         \* asset was found in by the looks so far
    verdict,
    moved                \* history: assets that moved under this question

asked == <<room, terms>>
work == <<pc, pass, out, cited, looks, verdict>>
vars == <<layer, asked, work, moved>>

Views == {"vm", "swm"}
Layers == Views \cup {"none"}
Evidence == [row : Rows, view : Views]

\* The question's words that a row's text contains.
Matched(r) == WordsOf[r] \cap terms
Score(r) == Cardinality(Matched(r))

\* Two terms, or a specific one.
Sufficient(r) == Score(r) >= 2 \/ Matched(r) \cap Specific # {}

Init ==
    /\ layer \in [Assets -> Layers]
    /\ room \in Rooms /\ terms = {}
    /\ pc = "idle" /\ pass = "any" /\ out = <<>> /\ cited = <<>> /\ looks = <<>>
    /\ verdict = "none" /\ moved = {}

-----------------------------------------------------------------------------
(* The node.                                                               *)

\* An asset is shared, published (it leaves shared memory), or discarded.
Move(a) ==
    /\ \E to \in Layers :
          /\ <<layer[a], to>> \in {<<"none", "swm">>, <<"swm", "vm">>, <<"swm", "none">>}
          /\ layer' = [layer EXCEPT ![a] = to]
    /\ moved' = moved \cup {a}
    /\ UNCHANGED <<asked, work>>

\* The query is scoped to one view of the question's graph.
RowsIn(view) == {r \in Rows : RoomOf[AssetOf[r]] = room /\ layer[AssetOf[r]] = view}

-----------------------------------------------------------------------------
(* retrieveEvidence.                                                       *)

End(v) == pc' = "idle" /\ verdict' = v

\* A question with no content words is refused without a query.
Ask ==
    /\ pc = "idle"
    /\ room' \in Rooms
    /\ terms' \in {T \in SUBSET Words : Cardinality(T) <= MaxTerms}
    /\ pass' = IF Cardinality(terms') >= 2 THEN "pairs" ELSE "any"
    /\ IF terms' = {} THEN End("refusal") ELSE pc' = "vm" /\ verdict' = "none"
    /\ out' = <<>> /\ cited' = <<>> /\ looks' = <<>>
    /\ moved' = {}
    /\ UNCHANGED layer

\* Two of the terms; in the fallback, one.
Filter(r) == IF pass = "pairs" THEN Score(r) >= 2 ELSE Matched(r) # {}

AssetsIn(rows) == {AssetOf[r] : r \in rows}

\* (mutant: an asset with two descriptions is evidence twice)
AllNew(rows) == {rows}
\* An asset is evidence once, by the row that comes first: one row of each asset
\* that is no evidence yet, any one as rows come in any order.
OneOfEachNew(rows) ==
    LET fresh == {r \in rows : \A i \in DOMAIN out : AssetOf[out[i].row] # AssetOf[r]}
    IN {some \in SUBSET fresh : /\ AssetsIn(some) = AssetsIn(fresh)
                                /\ \A r, s \in some : AssetOf[r] = AssetOf[s] => r = s}

\* (mutant: the fallback is not taken)
NextQueryNoFallback(es, view) ==
    IF view = "vm" /\ Len(es) < Limit THEN <<"swm", pass>> ELSE <<"rank", pass>>
\* After a view the other one, unless the limit is reached; after an empty pass
\* the fallback.
NextQuery(es, view) ==
    IF view = "vm" /\ Len(es) < Limit THEN <<"swm", pass>>
    ELSE IF es = <<>> /\ pass = "pairs" THEN <<"vm", "any">>
    ELSE <<"rank", pass>>

\* The smaller of a set's size and a limit.
AtMost(limit, S) == IF Cardinality(S) < limit THEN Cardinality(S) ELSE limit

\* dkg.query: at most Limit of the matching rows, any of them, in any order.
Query(view) ==
    /\ pc = view
    /\ LET matching == {r \in RowsIn(view) : Filter(r)}
       IN \E rows \in kSubset(AtMost(Limit, matching), matching) :
          \E some \in OneOfEachNew(rows) : \E new \in SetToSeqs(some) :
             LET es == out \o [i \in DOMAIN new |-> [row |-> new[i], view |-> view]] IN
             /\ out' = es
             /\ pc' = NextQuery(es, view)[1] /\ pass' = NextQuery(es, view)[2]
    /\ UNCHANGED <<layer, asked, cited, looks, verdict, moved>>

-----------------------------------------------------------------------------
(* answerGrounded.                                                         *)

\* What is returned of the evidence, by its places, and what passes the gate.
Kept == {i \in DOMAIN out : i <= Limit}
Good == {i \in Kept : Sufficient(out[i].row)}

\* (mutant: in the order retrieved)
BeforeUnranked(i, j) == i < j
\* A stable sort by score, best first.
Before(i, j) == \/ Score(out[i].row) > Score(out[j].row)
                \/ Score(out[i].row) = Score(out[j].row) /\ i < j

\* (mutant: the slice is forgotten)
CountUnsliced(S) == Cardinality(S)
Count(S) == AtMost(MaxCited, S)

\* The first Count(S) of the places S, in rank order.
Leading(S) ==
    {p \in [1 .. Count(S) -> S] :
        /\ \A i, j \in DOMAIN p : i < j => Before(p[i], p[j])
        /\ \A k \in S : k \notin ToSet(p) => \A i \in DOMAIN p : Before(p[i], k)}

\* If the best of the evidence passes the gate, those that do are cited.
Rank ==
    /\ pc = "rank"
    /\ IF \E best \in Good : \A i \in Kept \ {best} : Before(best, i)
       THEN /\ \E p \in Leading(Good) : cited' = [i \in DOMAIN p |-> out[p[i]]]
            /\ pc' = "validate" /\ UNCHANGED verdict
       ELSE End("refusal") /\ UNCHANGED cited
    /\ UNCHANGED <<layer, asked, pass, out, looks, moved>>

\* (mutant: present in either layer)
ResolvesAnywhere(e) == layer[AssetOf[e.row]] # "none"
\* The ASK: the citation is in the view it was retrieved from.
Resolves(e) == e.row \in RowsIn(e.view)

\* validateCitations: one query for each citation; the first that fails refuses.
Validate ==
    /\ pc = "validate"
    /\ LET n == Len(looks) + 1
           e == cited[n]
       IN /\ looks' = Append(looks, layer[AssetOf[e.row]])
          /\ IF ~Resolves(e) THEN End("refusal")
             ELSE IF n = Len(cited) THEN End("answer")
             ELSE UNCHANGED <<pc, verdict>>
    /\ UNCHANGED <<layer, asked, pass, out, cited, moved>>

\* Any query may fail; the error is executeAsk's.
Throw ==
    /\ pc \in Views \cup {"validate"} /\ End("error")
    /\ UNCHANGED <<layer, asked, pass, out, cited, looks, moved>>

Next ==
    \/ \E a \in Assets : Move(a)
    \/ Ask \/ Query("vm") \/ Query("swm") \/ Rank \/ Validate \/ Throw

Spec == Init /\ [][Next]_vars

-----------------------------------------------------------------------------
(* Properties.                                                             *)

\* Types of all variables.
TypeOK ==
    /\ layer \in [Assets -> Layers]
    /\ room \in Rooms /\ terms \subseteq Words
    /\ pc \in Views \cup {"idle", "rank", "validate"} /\ pass \in {"pairs", "any"}
    /\ {out, cited} \subseteq Seq(Evidence) /\ Len(cited) <= MaxCited
    /\ looks \in Seq(Layers) /\ Len(looks) <= Len(cited)
    /\ verdict \in {"none", "answer", "refusal", "error"}
    /\ moved \subseteq Assets

\* An answer cites something; all of it was, when last looked at, where it had
\* been found: in the asked room's graph, in the view it is shown with.
AnswerIsGrounded ==
    verdict = "answer" =>
        /\ cited # <<>>
        /\ looks = [i \in DOMAIN cited |-> cited[i].view]
        /\ \A i \in DOMAIN cited : RoomOf[AssetOf[cited[i].row]] = room

\* No asset is cited twice, though it has two descriptions or moves between the
\* layers from query to query.
CitedOnce == \A i, j \in DOMAIN cited : AssetOf[cited[i].row] = AssetOf[cited[j].row] => i = j

\* What is quoted and cited passes the gate, the best first, and what passes it
\* and is left out is no better and left out for want of room only.
CitesTheBest ==
    \A i \in DOMAIN cited :
        /\ Sufficient(cited[i].row)
        /\ \A j \in DOMAIN cited : i < j => Score(cited[i].row) >= Score(cited[j].row)
        /\ \A k \in Good : out[k] \notin ToSet(cited) =>
               Score(cited[i].row) >= Score(out[k].row) /\ Len(cited) = MaxCited

\* A question the room can answer is not refused.  If an asset stayed in one layer
\* all along and has a term, something is retrieved; if it has two terms, a
\* refusal means that a citation's asset moved between its retrieval and the last
\* look, however many rows the limits withheld.
AnswerableIsAnswered ==
    \A r \in Rows :
        /\ verdict = "refusal" /\ RoomOf[AssetOf[r]] = room
        /\ layer[AssetOf[r]] # "none" /\ AssetOf[r] \notin moved
        => /\ Matched(r) # {} => out # <<>>
           /\ Score(r) >= 2 => \E i \in DOMAIN cited : AssetOf[cited[i].row] \in moved

\* The gate does not starve a question of an answer it retrieved: evidence that
\* passes it is not refused for lack of support (the comment on the gate).
SufficientIsAnswered ==
    verdict = "refusal" /\ cited = <<>> => \A e \in ToSet(out) : ~Sufficient(e.row)
=============================================================================
