--------------------------- MODULE RetrievalProofs --------------------------
(***************************************************************************)
(* Proofs about Retrieval, for any store, vocabulary and limits, and for   *)
(* assets that move between the layers at any time.                        *)
(***************************************************************************)
EXTENDS Retrieval, FiniteSetTheorems, SequenceTheorems, WellFoundedInduction, TLAPS

\* A row of the asked room whose asset has been in one layer all along.
Stable(r) ==
    /\ RoomOf[AssetOf[r]] = room
    /\ layer[AssetOf[r]] # "none" /\ AssetOf[r] \notin moved

\* The evidence: one row of each asset, of the asked room, each still in the layer
\* it was found in unless its asset moved, and each as good as its pass demands.
OutInv ==
    /\ \A i, j \in 1 .. Len(out) : AssetOf[out[i].row] = AssetOf[out[j].row] => i = j
    /\ \A i \in 1 .. Len(out) :
          LET a == AssetOf[out[i].row] IN
          /\ RoomOf[a] = room /\ (a \notin moved => layer[a] = out[i].view)
          /\ pass = "pairs" => Score(out[i].row) >= 2

\* What the queries so far have seen: while nothing is retrieved, no stable row of
\* the layers looked at matches; and once the second pass is on, no stable row has
\* two terms.
SeenInv ==
    /\ pc = "vm" => out = <<>>
    /\ pc = "swm" /\ out = <<>> =>
          \A r \in Rows : Stable(r) /\ layer[AssetOf[r]] = "vm" => ~Filter(r)
    /\ pc \in {"rank", "validate"} \/ verdict \in {"answer", "refusal"} =>
          (out = <<>> => pass = "any" /\ \A r \in Rows : Stable(r) => ~Filter(r))
    /\ pass = "any" => \A r \in Rows : Stable(r) => Score(r) < 2

\* The citations are the leading sufficient ones, and every look so far found its
\* citation in place; a citation that did not is one whose asset moved.
CitedInv ==
    /\ pc \in Views \cup {"rank"} => cited = <<>> /\ looks = <<>>
    /\ pc # "idle" => verdict = "none"
    /\ cited # <<>> => \E p \in Leading(Good) : cited = [i \in DOMAIN p |-> out[p[i]]]
    /\ pc = "validate" => /\ Len(looks) < Len(cited)
                          /\ \A i \in 1 .. Len(looks) : looks[i] = cited[i].view
    /\ verdict = "answer" => /\ cited # <<>> /\ Len(looks) = Len(cited)
                             /\ \A i \in 1 .. Len(looks) : looks[i] = cited[i].view
    /\ verdict = "refusal" /\ cited # <<>> =>
          \E i \in 1 .. Len(cited) : AssetOf[cited[i].row] \in moved
    /\ verdict = "refusal" /\ cited = <<>> =>
          pass = "any" /\ \A k \in Kept : Score(out[k].row) < 2

IInv == TypeOK /\ OutInv /\ SeenInv /\ CitedInv

-----------------------------------------------------------------------------
(* Numbers, sequences and orders.                                          *)

\* A set of naturals that is not empty has a least element.
LEMMA LeastNatural ==
  ASSUME NEW S, S \subseteq Nat, S # {}
  PROVE  \E m \in S : \A n \in S : m <= n
<1> DEFINE R == OpToRel(<, Nat)
<1>1. IsWellFoundedOn(R, Nat)
  BY NatLessThanWellFounded
<1>2. \A m, n \in Nat : m < n => <<m, n>> \in R
  BY DEF OpToRel
<1> HIDE DEF R
<1>3. PICK m \in S : \A n \in S : <<n, m>> \notin R
  BY <1>1, WFMin
<1>4. ASSUME NEW n \in S PROVE m <= n
  <2>1. m \in Nat /\ n \in Nat /\ ~(n < m)
    BY <1>2, <1>3
  <2> QED
    BY <2>1
<1> QED
  BY <1>4

\* A list of the elements of a finite set is a sequence that has each of them once.
LEMMA ListOfSet ==
  ASSUME NEW S, IsFiniteSet(S), NEW q \in SetToSeqs(S)
  PROVE  /\ q \in Seq(S) /\ Len(q) = Cardinality(S) /\ Cardinality(S) \in Nat
         /\ \A i \in 1 .. Len(q) : q[i] \in S
         /\ \A i, j \in 1 .. Len(q) : i # j => q[i] # q[j]
         /\ S # {} => Len(q) > 0
<1>1. Cardinality(S) \in Nat /\ (Cardinality(S) = 0 <=> S = {})
  BY FS_CardinalityType, FS_EmptySet
<1>2. q \in [1 .. Cardinality(S) -> S]
  BY DEF SetToSeqs
<1>3. q \in Seq(S) /\ Len(q) = Cardinality(S)
  BY <1>1, <1>2
<1> QED
  BY <1>1, <1>2, <1>3 DEF SetToSeqs

LEMMA ScoreType ==
  ASSUME NEW r \in Rows, TypeOK
  PROVE  Score(r) \in Nat /\ Score(r) <= Cardinality(terms) /\ (Score(r) = 0 <=> Matched(r) = {})
<1>1. IsFiniteSet(terms) /\ Matched(r) \subseteq terms
  BY ConstantsAssumption, FS_Subset DEF TypeOK, Matched
<1>2. IsFiniteSet(Matched(r)) /\ Cardinality(Matched(r)) <= Cardinality(terms)
  BY <1>1, FS_Subset
<1> QED
  BY <1>2, FS_CardinalityType, FS_EmptySet DEF Score

\* Evidence has rows of the store.
LEMMA EvidenceType ==
  ASSUME TypeOK
  PROVE  /\ out \in Seq(Evidence) /\ Len(out) \in Nat /\ DOMAIN out = 1 .. Len(out)
         /\ cited \in Seq(Evidence) /\ Len(cited) \in Nat /\ DOMAIN cited = 1 .. Len(cited)
         /\ \A i \in 1 .. Len(out) : out[i].row \in Rows /\ out[i].view \in Views
         /\ \A i \in 1 .. Len(cited) : cited[i].row \in Rows /\ cited[i].view \in Views
<1>1. out \in Seq(Evidence) /\ cited \in Seq(Evidence)
  BY DEF TypeOK
<1>2. \A e \in Evidence : e.row \in Rows /\ e.view \in Views
  BY DEF Evidence
<1> QED
  BY <1>1, <1>2

\* Among the evidence kept, if any, one comes before all others.
LEMMA BestExists ==
  ASSUME TypeOK, Kept # {}
  PROVE  \E best \in Kept : \A i \in Kept \ {best} : Before(best, i)
<1> DEFINE n == Cardinality(terms)
           lack(i) == n - Score(out[i].row)
           lacks == {lack(i) : i \in Kept}
<1>1. Kept \subseteq Nat /\ \A i \in Kept : out[i].row \in Rows
  BY EvidenceType DEF Kept
<1>2. n \in Nat
  BY ConstantsAssumption, FS_Subset, FS_CardinalityType DEF TypeOK
<1>3. \A i \in Kept : Score(out[i].row) \in Nat /\ lack(i) \in Nat
  BY <1>1, <1>2, ScoreType
<1>4. PICK m \in lacks : \A l \in lacks : m <= l
  BY <1>3, LeastNatural
<1> DEFINE best == {i \in Kept : lack(i) = m}
<1>5. PICK b \in best : \A i \in best : b <= i
  BY <1>1, LeastNatural
<1>6. ASSUME NEW i \in Kept, i # b PROVE Before(b, i)
  <2>1. b \in Nat /\ i \in Nat /\ lack(b) = m /\ m <= lack(i)
    BY <1>1, <1>4, <1>5, <1>6
  <2>2. lack(b) = lack(i) => b < i
    <3>1. lack(i) = m => i \in best
      BY <1>6
    <3>2. i \in best => b <= i
      BY <1>5
    <3> QED
      BY <1>6, <2>1, <3>1, <3>2
  <2>3. lack(b) = n - Score(out[b].row) /\ lack(i) = n - Score(out[i].row)
    OBVIOUS
  <2> HIDE DEF lack
  <2>4. Score(out[b].row) \in Nat /\ Score(out[i].row) \in Nat
    BY <1>3, <1>5, <1>6
  <2> QED
    BY <1>2, <2>1, <2>2, <2>3, <2>4 DEF Before
<1> QED
  BY <1>5, <1>6

\* The number of the leading places of a finite set.
LEMMA CountType ==
  ASSUME NEW S, IsFiniteSet(S)
  PROVE  /\ Count(S) \in Nat /\ Count(S) <= MaxCited /\ Count(S) <= Cardinality(S)
         /\ S # {} => Count(S) > 0
         /\ Count(S) < MaxCited => Count(S) = Cardinality(S)
         /\ AtMost(Limit, S) \in Nat /\ (AtMost(Limit, S) = 0 <=> S = {})
<1>1. Cardinality(S) \in Nat /\ (Cardinality(S) = 0 <=> S = {})
  BY FS_CardinalityType, FS_EmptySet
<1> QED
  BY <1>1, ConstantsAssumption DEF Count, AtMost

LEMMA GoodType ==
  ASSUME TypeOK
  PROVE  /\ Kept \subseteq 1 .. Len(out) /\ Good \subseteq Kept /\ IsFiniteSet(Good)
         /\ \A k \in Kept : k \in Nat /\ out[k].row \in Rows
<1>1. Kept \subseteq 1 .. Len(out) /\ Good \subseteq Kept
  BY EvidenceType DEF Kept, Good
<1>2. IsFiniteSet(1 .. Len(out))
  BY EvidenceType, FS_Interval
<1>3. IsFiniteSet(Good)
  BY <1>1, <1>2, FS_Subset
<1> QED
  BY <1>1, <1>3, EvidenceType

\* A ranking lists places, each once, better ones first, and leaves one out only
\* if the list is full.
LEMMA LeadingProperties ==
  ASSUME TypeOK, NEW p \in Leading(Good)
  PROVE  /\ Count(Good) \in Nat /\ DOMAIN p = 1 .. Count(Good)
         /\ \A i \in 1 .. Count(Good) : p[i] \in Good /\ p[i] \in Nat
         /\ \A i, j \in 1 .. Count(Good) :
               /\ i < j => Score(out[p[i]].row) >= Score(out[p[j]].row)
               /\ p[i] = p[j] => i = j
         /\ \A k \in Good : (\A i \in 1 .. Count(Good) : p[i] # k) =>
               /\ \A i \in 1 .. Count(Good) : Score(out[p[i]].row) >= Score(out[k].row)
               /\ Count(Good) = MaxCited
<1> DEFINE n == Count(Good)
<1>1. n \in Nat /\ n <= MaxCited /\ (n < MaxCited => n = Cardinality(Good))
  BY GoodType, CountType
<1>2. p \in [1 .. n -> Good]
  BY DEF Leading
<1>3. \A k \in Good : k \in Nat /\ Score(out[k].row) \in Nat
  BY GoodType, ScoreType
<1>4. \A i, j \in 1 .. n : i < j => Before(p[i], p[j])
  BY <1>2 DEF Leading
<1>5. \A k, l \in Good : Before(k, l) => Score(out[k].row) >= Score(out[l].row) /\ k # l
  BY <1>3 DEF Before
<1>6. \A i, j \in 1 .. n : i < j => Score(out[p[i]].row) >= Score(out[p[j]].row) /\ p[i] # p[j]
  BY <1>2, <1>4, <1>5
<1>7. \A i, j \in 1 .. n : p[i] = p[j] => i = j
  BY <1>1, <1>6
<1>8. ASSUME NEW k \in Good, \A i \in 1 .. n : p[i] # k
      PROVE  (\A i \in 1 .. n : Score(out[p[i]].row) >= Score(out[k].row)) /\ n = MaxCited
  <2>1. k \notin ToSet(p)
    BY <1>2, <1>8 DEF ToSet
  <2>2. \A i \in 1 .. n : Before(p[i], k)
    BY <1>2, <2>1 DEF Leading
  <2>3. p \in Injection(1 .. n, Good)
    BY <1>2, <1>7, Zenon DEF Injection, IsInjective
  <2>4. p \notin Surjection(1 .. n, Good)
    BY <1>8 DEF Surjection
  <2>5. n # Cardinality(Good)
    BY <1>1, <2>3, <2>4, FS_Injection, FS_Interval, GoodType
  <2>6. n = MaxCited
    BY <1>1, <2>5, ConstantsAssumption
  <2> QED
    BY <1>2, <1>5, <2>2, <2>6
<1>9. n \in Nat /\ DOMAIN p = 1 .. n /\ \A i \in 1 .. n : p[i] \in Good /\ p[i] \in Nat
  BY <1>1, <1>2, <1>3
<1> QED
  BY <1>6, <1>7, <1>8, <1>9

-----------------------------------------------------------------------------
(* What a step leaves alone.                                               *)

LEMMA SameQuestion ==
  ASSUME UNCHANGED terms
  PROVE  \A r : Matched(r)' = Matched(r) /\ Score(r)' = Score(r) /\ (Sufficient(r)' <=> Sufficient(r))
  BY DEF Matched, Score, Sufficient

LEMMA SameEvidence ==
  ASSUME UNCHANGED <<terms, out>>
  PROVE  Kept' = Kept /\ Good' = Good /\ Leading(Good)' = Leading(Good)
<1>1. \A r : Score(r)' = Score(r) /\ (Sufficient(r)' <=> Sufficient(r))
  BY SameQuestion
<1>2. Kept' = Kept
  BY DEF Kept
<1>3. Good' = Good
  BY <1>1, <1>2 DEF Good
<1>4. \A i, j : Before(i, j)' <=> Before(i, j)
  BY <1>1 DEF Before
<1>5. Count(Good)' = Count(Good)
  BY <1>3 DEF Count, AtMost
<1>6. Leading(Good)' =
        {p \in [1 .. Count(Good) -> Good] :
           /\ \A i, j \in DOMAIN p : i < j => Before(p[i], p[j])
           /\ \A k \in Good : k \notin ToSet(p) => \A i \in DOMAIN p : Before(p[i], k)}
  BY <1>3, <1>4, <1>5 DEF Leading, ToSet
<1> QED
  BY <1>2, <1>3, <1>6 DEF Leading

\* A row that is stable after a step was stable before it, in the same layer,
\* and is the same row of the same question.
LEMMA StableBefore ==
  ASSUME TypeOK, UNCHANGED asked,
         \/ \E a \in Assets : Move(a)
         \/ UNCHANGED <<layer, moved>>
  PROVE  \A r \in Rows : Stable(r)' => Stable(r) /\ layer'[AssetOf[r]] = layer[AssetOf[r]]
<1> SUFFICES ASSUME NEW r \in Rows, Stable(r)'
             PROVE  Stable(r) /\ layer'[AssetOf[r]] = layer[AssetOf[r]]
  OBVIOUS
<1>1. AssetOf[r] \in Assets
  BY ConstantsAssumption
<1>2. ASSUME NEW a \in Assets, Move(a) PROVE layer'[AssetOf[r]] = layer[AssetOf[r]] /\ moved \subseteq moved'
  <2>1. AssetOf[r] # a
    BY <1>2 DEF Move, Stable
  <2> QED
    BY <1>1, <1>2, <2>1 DEF Move, TypeOK
<1>3. layer'[AssetOf[r]] = layer[AssetOf[r]] /\ moved \subseteq moved'
  BY <1>2
<1> QED
  BY <1>3 DEF Stable, asked

\* A query adds rows of its view that match, each of an asset that was no evidence
\* and each asset once; and if nothing is evidence after it, nothing matched.
LEMMA QueryAdds ==
  ASSUME TypeOK, NEW view \in Views, Query(view)
  PROVE  /\ out' \in Seq(Evidence) /\ Len(out') \in Nat /\ Len(out) <= Len(out')
         /\ \A i \in 1 .. Len(out) : out'[i] = out[i]
         /\ \A i \in Len(out) + 1 .. Len(out') :
               /\ out'[i].view = view /\ out'[i].row \in RowsIn(view) /\ Filter(out'[i].row)
               /\ \A j \in 1 .. Len(out) : AssetOf[out[j].row] # AssetOf[out'[i].row]
               /\ \A j \in Len(out) + 1 .. Len(out') :
                     AssetOf[out'[i].row] = AssetOf[out'[j].row] => i = j
         /\ out' = <<>> => out = <<>> /\ \A r \in RowsIn(view) : ~Filter(r)
         /\ pc' = NextQuery(out', view)[1] /\ pass' = NextQuery(out', view)[2]
<1> DEFINE matching == {r \in RowsIn(view) : Filter(r)}
<1>0. PICK rows \in kSubset(AtMost(Limit, matching), matching) :
        \E some \in OneOfEachNew(rows) : \E new \in SetToSeqs(some) :
           /\ out' = out \o [i \in DOMAIN new |-> [row |-> new[i], view |-> view]]
           /\ pc' = NextQuery(out', view)[1] /\ pass' = NextQuery(out', view)[2]
  BY DEF Query
<1>a. PICK some \in OneOfEachNew(rows) : \E new \in SetToSeqs(some) :
        /\ out' = out \o [i \in DOMAIN new |-> [row |-> new[i], view |-> view]]
        /\ pc' = NextQuery(out', view)[1] /\ pass' = NextQuery(out', view)[2]
  BY <1>0
<1>1. PICK new \in SetToSeqs(some) :
        /\ out' = out \o [i \in DOMAIN new |-> [row |-> new[i], view |-> view]]
        /\ pc' = NextQuery(out', view)[1] /\ pass' = NextQuery(out', view)[2]
  BY <1>a
<1> DEFINE es == [i \in DOMAIN new |-> [row |-> new[i], view |-> view]]
           fresh == {r \in rows : \A i \in DOMAIN out : AssetOf[out[i].row] # AssetOf[r]}
<1>2. /\ rows \subseteq matching /\ Cardinality(rows) = AtMost(Limit, matching)
      /\ matching \subseteq Rows /\ some \subseteq fresh /\ fresh \subseteq rows
      /\ AssetsIn(some) = AssetsIn(fresh)
      /\ \A r, s \in some : AssetOf[r] = AssetOf[s] => r = s
  BY <1>1 DEF kSubset, RowsIn, OneOfEachNew
<1>3. IsFiniteSet(matching) /\ IsFiniteSet(rows) /\ IsFiniteSet(some)
  <2>1. IsFiniteSet(matching)
    BY <1>2, ConstantsAssumption, FS_Subset
  <2>2. IsFiniteSet(rows)
    BY <1>2, <2>1, FS_Subset
  <2> QED
    BY <1>2, <2>1, <2>2, FS_Subset
<1> HIDE DEF matching
<1>4. /\ new \in Seq(some) /\ Len(new) \in Nat
      /\ \A i \in 1 .. Len(new) : new[i] \in some
      /\ \A i, j \in 1 .. Len(new) : i # j => new[i] # new[j]
      /\ some # {} => Len(new) > 0
  BY <1>1, <1>3, ListOfSet
<1>5. /\ es \in Seq(Evidence) /\ Len(es) = Len(new)
      /\ \A i \in 1 .. Len(es) : es[i].row = new[i] /\ es[i].view = view
  <2>1. DOMAIN new = 1 .. Len(new)
    BY <1>4
  <2>2. \A i \in 1 .. Len(new) : [row |-> new[i], view |-> view] \in Evidence
    BY <1>2, <1>4 DEF Evidence
  <2>3. es = [i \in 1 .. Len(new) |-> [row |-> new[i], view |-> view]]
    BY <2>1
  <2>4. es \in [1 .. Len(new) -> Evidence]
    BY <2>2, <2>3
  <2>5. es \in Seq(Evidence) /\ Len(es) = Len(new)
    BY <1>4, <2>4
  <2> QED
    BY <2>3, <2>5
<1>6. out' = out \o es
  BY <1>1
<1> HIDE DEF es
<1>7. /\ out' \in Seq(Evidence) /\ Len(out') = Len(out) + Len(es)
      /\ \A i \in 1 .. Len(out) + Len(es) : out'[i] = IF i <= Len(out) THEN out[i] ELSE es[i - Len(out)]
  <2>1. out \in Seq(Evidence) /\ es \in Seq(Evidence)
    BY <1>5, EvidenceType
  <2> QED
    BY <1>6, <2>1, ConcatProperties
<1>8. Len(out) \in Nat /\ Len(es) \in Nat /\ DOMAIN out = 1 .. Len(out)
  BY <1>4, <1>5, EvidenceType
<1>9. ASSUME NEW i \in Len(out) + 1 .. Len(out')
      PROVE  /\ i - Len(out) \in 1 .. Len(new)
             /\ out'[i].row = new[i - Len(out)] /\ out'[i].view = view
             /\ out'[i].row \in some
  <2>1. i - Len(out) \in 1 .. Len(es) /\ ~(i <= Len(out)) /\ i \in 1 .. Len(out) + Len(es)
    BY <1>7, <1>8
  <2>2. out'[i] = es[i - Len(out)]
    BY <1>7, <2>1
  <2> QED
    BY <1>4, <1>5, <2>1, <2>2
<1>10. \A r \in some : /\ r \in RowsIn(view) /\ Filter(r)
                       /\ \A j \in 1 .. Len(out) : AssetOf[out[j].row] # AssetOf[r]
  BY <1>2, <1>8 DEF matching
<1>11. ASSUME NEW i \in Len(out) + 1 .. Len(out'), NEW j \in Len(out) + 1 .. Len(out'),
              AssetOf[out'[i].row] = AssetOf[out'[j].row]
       PROVE  i = j
  <2>1. new[i - Len(out)] = new[j - Len(out)]
    BY <1>2, <1>9, <1>11
  <2>2. i - Len(out) = j - Len(out)
    BY <1>4, <1>9, <2>1
  <2> QED
    BY <1>8, <2>2
<1>12. ASSUME out' = <<>> PROVE out = <<>> /\ \A r \in RowsIn(view) : ~Filter(r)
  <2>1. Len(out) = 0 /\ Len(new) = 0
    BY <1>4, <1>5, <1>7, <1>8, <1>12, EmptySeq
  <2>2. some = {} /\ out = <<>>
    BY <1>4, <2>1, EvidenceType, EmptySeq
  <2>3. fresh = rows
    BY <2>1, <1>8
  <2>4. rows = {}
    <3>1. AssetsIn(fresh) = {}
      BY <1>2, <2>2 DEF AssetsIn
    <3> QED
      BY <2>3, <3>1 DEF AssetsIn
  <2>5. AtMost(Limit, matching) = 0
    BY <1>2, <2>4, FS_EmptySet
  <2>6. matching = {}
    BY <1>3, <2>5, CountType
  <2> QED
    BY <2>2, <2>6 DEF matching
<1> HIDE DEF fresh
<1>13. \A i \in 1 .. Len(out) : out'[i] = out[i]
  BY <1>7, <1>8
<1>14. out' \in Seq(Evidence) /\ Len(out') \in Nat /\ Len(out) <= Len(out')
  BY <1>7, <1>8
<1>15. \A i \in Len(out) + 1 .. Len(out') :
         /\ out'[i].view = view /\ out'[i].row \in RowsIn(view) /\ Filter(out'[i].row)
         /\ \A j \in 1 .. Len(out) : AssetOf[out[j].row] # AssetOf[out'[i].row]
  BY <1>9, <1>10
<1> QED
  BY <1>1, <1>11, <1>12, <1>13, <1>14, <1>15

-----------------------------------------------------------------------------
(* One lemma per part of the invariant, one step per action.               *)

LEMMA TypeStep == IInv /\ [Next]_vars => TypeOK'
<1> SUFFICES ASSUME IInv, [Next]_vars PROVE TypeOK'
  OBVIOUS
<1> USE DEF asked, work
<1>0. TypeOK /\ CitedInv
  BY DEF IInv
<1>1. ASSUME NEW a \in Assets, Move(a) PROVE TypeOK'
  BY <1>0, <1>1 DEF Move, TypeOK
<1>2. CASE Ask
  <2>1. <<>> \in Seq(Evidence) /\ <<>> \in Seq(Layers) /\ Len(<<>>) = 0
    BY EmptySeq
  <2>2. out' = <<>> /\ cited' = <<>> /\ looks' = <<>>
    BY <1>2 DEF Ask
  <2>3. {out, cited}' \subseteq Seq(Evidence) /\ looks' \in Seq(Layers)
    BY <2>1, <2>2
  <2>4. Len(cited') <= MaxCited /\ Len(looks') <= Len(cited')
    BY <2>1, <2>2, ConstantsAssumption
  <2>5. /\ layer' \in [Assets -> Layers] /\ room' \in Rooms /\ terms' \subseteq Words
        /\ pc' \in Views \cup {"idle", "rank", "validate"} /\ pass' \in {"pairs", "any"}
        /\ verdict' \in {"none", "answer", "refusal", "error"} /\ moved' \subseteq Assets
    BY <1>0, <1>2 DEF Ask, End, TypeOK, Views
  <2> QED
    BY <2>3, <2>4, <2>5 DEF TypeOK
<1>3. ASSUME NEW view \in Views, Query(view) PROVE TypeOK'
  <2>1. out' \in Seq(Evidence) /\ pc' = NextQuery(out', view)[1] /\ pass' = NextQuery(out', view)[2]
    BY <1>0, <1>3, QueryAdds
  <2>2. pc' \in Views \cup {"idle", "rank", "validate"} /\ pass' \in {"pairs", "any"}
    BY <1>0, <2>1 DEF NextQuery, TypeOK, Views
  <2> QED
    BY <1>0, <1>3, <2>1, <2>2 DEF Query, TypeOK
<1>4. CASE Rank
  <2>1. cited = <<>> /\ looks = <<>> /\ Len(<<>>) = 0
    BY <1>0, <1>4, EmptySeq DEF Rank, CitedInv
  <2>2. ASSUME NEW p \in Leading(Good), cited' = [i \in DOMAIN p |-> out[p[i]]]
        PROVE  cited' \in Seq(Evidence) /\ Len(cited') <= MaxCited /\ 0 <= Len(cited')
    <3>1. /\ Count(Good) \in Nat /\ DOMAIN p = 1 .. Count(Good)
          /\ \A i \in 1 .. Count(Good) : p[i] \in Good
      BY <1>0, <2>2, LeadingProperties
    <3>2. Count(Good) <= MaxCited
      BY <1>0, GoodType, CountType
    <3>3. \A k \in Good : out[k] \in Evidence
      BY <1>0, GoodType, EvidenceType
    <3>4. cited' \in [1 .. Count(Good) -> Evidence]
      BY <2>2, <3>1, <3>3
    <3>5. cited' \in Seq(Evidence) /\ Len(cited') = Count(Good)
      BY <3>1, <3>4
    <3> QED
      BY <3>1, <3>2, <3>5
  <2>3. cited' \in Seq(Evidence) /\ Len(cited') <= MaxCited /\ 0 <= Len(cited')
    BY <1>0, <1>4, <2>1, <2>2, ConstantsAssumption DEF Rank, TypeOK
  <2> QED
    BY <1>0, <1>4, <2>1, <2>3 DEF Rank, End, TypeOK
<1>5. CASE Validate
  <2>1. Len(looks) < Len(cited) /\ looks \in Seq(Layers) /\ cited \in Seq(Evidence)
    BY <1>0, <1>5 DEF Validate, CitedInv, TypeOK
  <2> DEFINE a == AssetOf[cited[Len(looks) + 1].row]
  <2>2. looks' = Append(looks, layer[a]) /\ a \in Assets
    <3>1. Len(looks) + 1 \in 1 .. Len(cited)
      BY <2>1
    <3> QED
      BY <1>0, <1>5, <3>1, EvidenceType, ConstantsAssumption DEF Validate
  <2>3. layer[a] \in Layers
    BY <1>0, <2>2 DEF TypeOK
  <2> HIDE DEF a
  <2>4. looks' \in Seq(Layers) /\ Len(looks') <= Len(cited)
    BY <2>1, <2>2, <2>3, AppendProperties
  <2> QED
    BY <1>0, <1>5, <2>4 DEF Validate, End, TypeOK
<1>6. CASE Throw
  BY <1>0, <1>6 DEF Throw, End, TypeOK
<1>7. CASE UNCHANGED vars
  BY <1>0, <1>7 DEF vars, TypeOK
<1> QED
  BY <1>1, <1>2, <1>3, <1>4, <1>5, <1>6, <1>7 DEF Next, Views

LEMMA OutStep == IInv /\ [Next]_vars => OutInv'
<1> SUFFICES ASSUME IInv, [Next]_vars PROVE OutInv'
  OBVIOUS
<1> USE DEF asked, work
<1>0. TypeOK /\ OutInv
  BY DEF IInv
<1>a. \A i \in 1 .. Len(out) : out[i].row \in Rows /\ AssetOf[out[i].row] \in Assets
  BY <1>0, EvidenceType, ConstantsAssumption
<1>b. ASSUME UNCHANGED <<layer, room, terms, pass, out, moved>> PROVE OutInv'
  <2>1. \A r : Score(r)' = Score(r)
    BY <1>b, SameQuestion
  <2> QED
    BY <1>0, <1>b, <2>1 DEF OutInv
<1>1. ASSUME NEW a \in Assets, Move(a) PROVE OutInv'
  <2>1. \A r : Score(r)' = Score(r)
    BY <1>1, SameQuestion DEF Move
  <2>2. \A b \in Assets : b \notin moved' => b \notin moved /\ layer'[b] = layer[b]
    BY <1>0, <1>1 DEF Move, TypeOK
  <2>3. UNCHANGED <<out, pass, room>>
    BY <1>1 DEF Move
  <2> QED
    BY <1>0, <1>a, <2>1, <2>2, <2>3 DEF OutInv
<1>2. CASE Ask
  <2>1. out' = <<>> /\ Len(<<>>) = 0 /\ 1 .. 0 = {}
    BY <1>2, EmptySeq DEF Ask
  <2> QED
    BY <2>1 DEF OutInv
<1>3. ASSUME NEW view \in Views, Query(view) PROVE OutInv'
  <2> DEFINE old == 1 .. Len(out)
             add == Len(out) + 1 .. Len(out')
  <2>1. /\ Len(out') \in Nat /\ Len(out) <= Len(out')
        /\ \A i \in old : out'[i] = out[i]
        /\ \A i \in add :
               /\ out'[i].view = view /\ out'[i].row \in RowsIn(view) /\ Filter(out'[i].row)
               /\ \A j \in old : AssetOf[out[j].row] # AssetOf[out'[i].row]
               /\ \A j \in add : AssetOf[out'[i].row] = AssetOf[out'[j].row] => i = j
        /\ pass' = NextQuery(out', view)[2]
    BY <1>0, <1>3, QueryAdds
  <2>2. \A i \in 1 .. Len(out') : i \in old \/ i \in add
    BY <1>0, <2>1, EvidenceType
  <2> HIDE DEF old, add
  <2>3. UNCHANGED <<layer, room, terms, moved>>
    BY <1>3 DEF Query
  <2>4. \A r : Score(r)' = Score(r)
    BY <2>3, SameQuestion
  <2>5. pass' = "pairs" => pass = "pairs"
    BY <2>1 DEF NextQuery
  <2>6. ASSUME NEW i \in 1 .. Len(out')
        PROVE  LET a == AssetOf[out'[i].row] IN
               /\ RoomOf[a] = room /\ (a \notin moved => layer[a] = out'[i].view)
               /\ pass' = "pairs" => Score(out'[i].row) >= 2
    <3>1. CASE i \in old
      BY <1>0, <2>1, <2>5, <3>1 DEF OutInv, old
    <3>2. CASE i \in add
      BY <2>1, <2>5, <3>2 DEF RowsIn, Filter
    <3> QED
      BY <2>2, <3>1, <3>2
  <2>7. ASSUME NEW i \in 1 .. Len(out'), NEW j \in 1 .. Len(out'),
               AssetOf[out'[i].row] = AssetOf[out'[j].row]
        PROVE  i = j
    <3>1. CASE i \in old /\ j \in old
      BY <1>0, <2>1, <2>7, <3>1 DEF OutInv, old
    <3>2. CASE i \in add \/ j \in add
      BY <2>1, <2>2, <2>7, <3>2
    <3> QED
      BY <2>2, <3>1, <3>2
  <2> QED
    BY <2>3, <2>4, <2>6, <2>7 DEF OutInv
<1>4. CASE Rank \/ Validate \/ Throw \/ UNCHANGED vars
  BY <1>b, <1>4 DEF Rank, Validate, Throw, vars
<1> QED
  BY <1>1, <1>2, <1>3, <1>4 DEF Next, Views

LEMMA SeenStep == IInv /\ [Next]_vars => SeenInv'
<1> SUFFICES ASSUME IInv, [Next]_vars PROVE SeenInv'
  OBVIOUS
<1> USE DEF asked, work
<1>0. TypeOK /\ OutInv /\ SeenInv /\ CitedInv
  BY DEF IInv
<1>a. \A r \in Rows : Score(r) \in Nat /\ (Score(r) = 0 <=> Matched(r) = {})
  BY <1>0, ScoreType
<1>1. ASSUME NEW a \in Assets, Move(a) PROVE SeenInv'
  <2>1. \A r : Score(r)' = Score(r) /\ Matched(r)' = Matched(r)
    BY <1>1, SameQuestion DEF Move
  <2>2. \A r \in Rows : Stable(r)' => Stable(r) /\ layer'[AssetOf[r]] = layer[AssetOf[r]]
    BY <1>0, <1>1, StableBefore DEF Move
  <2>3. UNCHANGED <<pc, out, pass, verdict>>
    BY <1>1 DEF Move
  <2>4. \A r : Filter(r)' <=> Filter(r)
    BY <2>1, <2>3 DEF Filter
  <2> QED
    BY <1>0, <2>1, <2>2, <2>3, <2>4 DEF SeenInv
\* A question of one word has no pairs, one of none is refused outright.
<1>2. CASE Ask
  <2>1. out' = <<>> /\ pc' \in {"idle", "vm"}
    BY <1>2 DEF Ask, End
  <2>2. IsFiniteSet(terms') /\ Cardinality(terms') \in Nat /\ terms' \subseteq Words
    BY <1>2, ConstantsAssumption, FS_Subset, FS_CardinalityType DEF Ask
  <2>3. ASSUME NEW r \in Rows, pass' = "any" PROVE Score(r)' < 2
    <3>1. ~(Cardinality(terms') >= 2)
      BY <1>2, <2>3 DEF Ask
    <3>2. Matched(r)' \subseteq terms'
      BY DEF Matched
    <3>3. Cardinality(Matched(r)') \in Nat /\ Cardinality(Matched(r)') <= Cardinality(terms')
      BY <2>2, <3>2, FS_Subset, FS_CardinalityType
    <3> QED
      BY <2>2, <3>1, <3>3 DEF Score
  <2>4. ASSUME pc' = "idle" PROVE pass' = "any" /\ \A r \in Rows : ~Filter(r)'
    <3>1. terms' = {}
      BY <1>2, <2>4 DEF Ask
    <3>2. pass' = "any"
      BY <1>2, <3>1, FS_EmptySet DEF Ask
    <3> QED
      BY <3>1, <3>2 DEF Filter, Matched
  <2>5. pc' = "vm" => verdict' = "none"
    BY <1>2 DEF Ask, End
  <2> QED
    BY <2>1, <2>3, <2>4, <2>5 DEF SeenInv
\* A query of a pass that has retrieved nothing has seen every stable row of its
\* view.
<1>3. ASSUME NEW view \in Views, Query(view) PROVE SeenInv'
  <2>1. /\ out' = <<>> => out = <<>> /\ \A r \in RowsIn(view) : ~Filter(r)
        /\ pc' = NextQuery(out', view)[1] /\ pass' = NextQuery(out', view)[2]
        /\ out' \in Seq(Evidence)
    BY <1>0, <1>3, QueryAdds
  <2>2. UNCHANGED <<layer, room, terms, moved, verdict>> /\ pc = view /\ verdict = "none"
    BY <1>0, <1>3 DEF Query, CitedInv, Views
  <2>3. \A r : Score(r)' = Score(r) /\ Matched(r)' = Matched(r)
    BY <2>2, SameQuestion
  <2>4. \A r : Stable(r)' <=> Stable(r)
    BY <2>2 DEF Stable
  <2>5. ASSUME out' = <<>>, NEW r \in Rows, Stable(r), layer[AssetOf[r]] = view PROVE ~Filter(r)
    BY <2>1, <2>5 DEF RowsIn, Stable
  <2>6. ASSUME view = "swm", out' = <<>>, NEW r \in Rows, Stable(r) PROVE ~Filter(r)
    <3>1. AssetOf[r] \in Assets /\ layer[AssetOf[r]] \in {"vm", "swm"}
      BY <1>0, <2>6, ConstantsAssumption DEF TypeOK, Stable, Layers, Views
    <3>2. layer[AssetOf[r]] = "vm" => ~Filter(r)
      BY <1>0, <2>1, <2>2, <2>6 DEF SeenInv
    <3> QED
      BY <2>5, <2>6, <3>1, <3>2
  <2>7. CASE view = "vm" /\ Len(out') < Limit
    <3>1. pc' = "swm" /\ pass' = pass
      BY <2>1, <2>7 DEF NextQuery
    <3>2. \A r : Filter(r)' <=> Filter(r)
      BY <2>3, <3>1 DEF Filter
    <3> QED
      BY <1>0, <2>2, <2>3, <2>4, <2>5, <2>7, <3>1, <3>2 DEF SeenInv
  <2>8. CASE ~(view = "vm" /\ Len(out') < Limit)
    <3>1. out' = <<>> => view = "swm"
      <4>1. Len(<<>>) = 0 /\ Limit \in Nat \ {0}
        BY EmptySeq, ConstantsAssumption
      <4> QED
        BY <2>8, <4>1 DEF Views
    <3>2. CASE out' = <<>> /\ pass = "pairs"
      <4>1. pc' = "vm" /\ pass' = "any"
        BY <2>1, <2>8, <3>2 DEF NextQuery
      <4>2. \A r \in Rows : Stable(r) => Score(r) < 2
        BY <1>a, <2>6, <3>1, <3>2 DEF Filter
      <4> QED
        BY <2>2, <2>3, <2>4, <3>2, <4>1, <4>2 DEF SeenInv
    <3>3. CASE ~(out' = <<>> /\ pass = "pairs")
      <4>1. pc' = "rank" /\ pass' = pass
        BY <2>1, <2>8, <3>3 DEF NextQuery
      <4>2. \A r : Filter(r)' <=> Filter(r)
        BY <2>3, <4>1 DEF Filter
      <4>3. out' = <<>> => pass = "any" /\ \A r \in Rows : Stable(r) => ~Filter(r)
        BY <1>0, <2>6, <3>1, <3>3 DEF TypeOK
      <4> QED
        BY <1>0, <2>2, <2>3, <2>4, <4>1, <4>2, <4>3 DEF SeenInv
    <3> QED
      BY <3>2, <3>3
  <2> QED
    BY <2>7, <2>8
<1>4. CASE Rank \/ Validate \/ Throw \/ UNCHANGED vars
  <2>1. UNCHANGED <<layer, room, terms, pass, out, moved>>
    BY <1>4 DEF Rank, Validate, Throw, vars
  <2>2. \/ pc' \in {"idle", "validate"} /\ pc \in {"rank", "validate"}
        \/ pc' = "idle" /\ verdict' = "error"
        \/ UNCHANGED <<pc, verdict>>
    BY <1>4 DEF Rank, Validate, Throw, End, vars
  <2>3. \A r : Score(r)' = Score(r) /\ Matched(r)' = Matched(r)
    BY <2>1, SameQuestion
  <2>4. \A r : (Stable(r)' <=> Stable(r)) /\ (Filter(r)' <=> Filter(r))
    BY <2>1, <2>3 DEF Stable, Filter
  <2> QED
    BY <1>0, <2>1, <2>2, <2>3, <2>4 DEF SeenInv
<1> QED
  BY <1>1, <1>2, <1>3, <1>4 DEF Next, Views

LEMMA CitedStep == IInv /\ [Next]_vars => CitedInv'
<1> SUFFICES ASSUME IInv, [Next]_vars PROVE CitedInv'
  OBVIOUS
<1> USE DEF asked, work
<1>0. TypeOK /\ OutInv /\ SeenInv /\ CitedInv
  BY DEF IInv
<1>a. ASSUME UNCHANGED <<terms, out>>
      PROVE  /\ Leading(Good)' = Leading(Good) /\ Kept' = Kept
             /\ \A r : Score(r)' = Score(r)
  BY <1>a, SameEvidence, SameQuestion
<1>1. ASSUME NEW a \in Assets, Move(a) PROVE CitedInv'
  <2>1. UNCHANGED <<room, terms, work>> /\ moved \subseteq moved'
    BY <1>1 DEF Move
  <2> QED
    BY <1>0, <1>a, <2>1 DEF CitedInv
<1>2. CASE Ask
  <2>1. out' = <<>> /\ cited' = <<>> /\ looks' = <<>>
    BY <1>2 DEF Ask
  <2>2. Kept' = {}
    BY <2>1 DEF Kept
  <2>3. CASE terms' = {}
    <3>1. ~(Cardinality(terms') >= 2)
      BY <2>3, FS_EmptySet
    <3>2. pc' = "idle" /\ verdict' = "refusal" /\ pass' = "any"
      BY <1>2, <2>3, <3>1 DEF Ask, End
    <3> QED
      BY <2>1, <2>2, <3>2 DEF CitedInv, Views
  <2>4. CASE terms' # {}
    <3>1. pc' = "vm" /\ verdict' = "none"
      BY <1>2, <2>4 DEF Ask
    <3> QED
      BY <2>1, <2>2, <3>1 DEF CitedInv, Views
  <2> QED
    BY <2>3, <2>4
<1>3. ASSUME NEW view \in Views, Query(view) PROVE CitedInv'
  <2>1. cited' = <<>> /\ looks' = <<>> /\ verdict' = "none"
    BY <1>0, <1>3 DEF Query, CitedInv, Views
  <2>2. pc' \in {"vm", "swm", "rank"}
    BY <1>0, <1>3, QueryAdds DEF NextQuery
  <2> QED
    BY <2>1, <2>2 DEF CitedInv
<1>4. CASE Rank
  <2>1. cited = <<>> /\ looks = <<>> /\ Len(<<>>) = 0 /\ UNCHANGED <<terms, pass, out, looks>>
    BY <1>0, <1>4, EmptySeq DEF Rank, CitedInv
  <2>2. /\ Leading(Good)' = Leading(Good) /\ Kept' = Kept
        /\ \A r : Score(r)' = Score(r)
    BY <1>a, <2>1
  <2>3. CASE \E best \in Good : \A i \in Kept \ {best} : Before(best, i)
    <3>1. PICK p \in Leading(Good) : cited' = [i \in DOMAIN p |-> out[p[i]]]
      BY <1>4, <2>3 DEF Rank
    <3>2. Count(Good) \in Nat /\ Count(Good) > 0 /\ DOMAIN p = 1 .. Count(Good)
      BY <1>0, <2>3, <3>1, LeadingProperties, GoodType, CountType
    <3>3. cited' \in Seq(Evidence)
      BY <1>4, TypeStep DEF TypeOK, Next
    <3>4. Len(cited') = Count(Good)
      BY <3>1, <3>2, <3>3
    <3>5. pc' = "validate" /\ verdict' = "none"
      BY <1>0, <1>4, <2>3 DEF Rank, CitedInv
    <3> QED
      BY <2>1, <2>2, <3>1, <3>2, <3>4, <3>5 DEF CitedInv, Views
  \* The best of the evidence is refused only if nothing has two terms.
  <2>4. CASE ~\E best \in Good : \A i \in Kept \ {best} : Before(best, i)
    <3>1. pc' = "idle" /\ verdict' = "refusal" /\ cited' = <<>>
      BY <1>4, <2>1, <2>4 DEF Rank, End
    <3>2. \A k \in Kept : k \in 1 .. Len(out) /\ out[k].row \in Rows /\ Score(out[k].row) \in Nat
      BY <1>0, GoodType, ScoreType
    <3>3. ASSUME NEW k \in Kept, Score(out[k].row) >= 2 PROVE FALSE
      <4>1. PICK best \in Kept : \A i \in Kept \ {best} : Before(best, i)
        BY <1>0, BestExists, <3>3
      <4>2. Score(out[best].row) >= Score(out[k].row)
        BY <3>2, <4>1 DEF Before
      <4>3. best \in Good
        BY <3>2, <3>3, <4>2 DEF Good, Sufficient
      <4> QED
        BY <2>4, <4>1, <4>3
    <3>4. \A k \in Kept : Score(out[k].row) < 2
      BY <3>2, <3>3
    <3>5. pass = "any"
      <4> SUFFICES ASSUME pass = "pairs" PROVE FALSE
        BY <1>0 DEF TypeOK
      <4>1. out # <<>>
        BY <1>0, <1>4 DEF Rank, SeenInv
      <4>2. 1 \in Kept
        BY <1>0, <4>1, EvidenceType, EmptySeq, ConstantsAssumption DEF Kept
      <4>3. Score(out[1].row) >= 2
        BY <1>0, <3>2, <4>2 DEF OutInv
      <4> QED
        BY <3>3, <4>2, <4>3
    <3> QED
      BY <2>1, <2>2, <3>1, <3>4, <3>5 DEF CitedInv, Views
  <2> QED
    BY <2>3, <2>4
<1>5. CASE Validate
  <2>1. /\ UNCHANGED <<layer, terms, pass, out, cited, moved, room>> /\ pc = "validate" /\ verdict = "none"
        /\ Len(looks) < Len(cited) /\ \A i \in 1 .. Len(looks) : looks[i] = cited[i].view
    BY <1>0, <1>5 DEF Validate, CitedInv
  <2> DEFINE n == Len(looks) + 1
             a == AssetOf[cited[n].row]
  <2>2. looks \in Seq(Layers) /\ Len(looks) \in Nat /\ n \in 1 .. Len(cited) /\ cited # <<>>
    BY <1>0, <2>1, EvidenceType, EmptySeq DEF TypeOK
  <2>3. a \in Assets /\ cited[n].row \in Rows
    BY <1>0, <2>2, EvidenceType, ConstantsAssumption
  <2>4. layer[a] \in Layers
    BY <1>0, <2>3 DEF TypeOK
  <2>5. looks' = Append(looks, layer[a])
    BY <1>5 DEF Validate
  <2>6. /\ Len(looks') = n /\ looks'[n] = layer[a]
        /\ \A i \in 1 .. Len(looks) : looks'[i] = looks[i]
    BY <2>2, <2>4, <2>5, AppendProperties
  <2>7. /\ Leading(Good)' = Leading(Good) /\ Kept' = Kept
        /\ \A r : Score(r)' = Score(r)
    BY <1>a, <2>1
  \* A look fails only at an asset that moved since it was retrieved.
  <2>8. RoomOf[a] = room /\ (a \notin moved => layer[a] = cited[n].view)
    <3>1. PICK p \in Leading(Good) : cited = [i \in DOMAIN p |-> out[p[i]]]
      BY <1>0, <2>2 DEF CitedInv
    <3>2. DOMAIN cited = 1 .. Len(cited) /\ DOMAIN cited = DOMAIN p
      BY <1>0, <3>1, EvidenceType
    <3>3. p[n] \in 1 .. Len(out) /\ cited[n] = out[p[n]]
      BY <1>0, <2>2, <3>1, <3>2, LeadingProperties, GoodType
    <3> QED
      BY <1>0, <3>3 DEF OutInv
  <2>9. Resolves(cited[n]) <=> layer[a] = cited[n].view
    BY <2>3, <2>8 DEF Resolves, RowsIn
  <2>10. /\ ~Resolves(cited[n]) => pc' = "idle" /\ verdict' = "refusal"
         /\ Resolves(cited[n]) /\ n = Len(cited) => pc' = "idle" /\ verdict' = "answer"
         /\ Resolves(cited[n]) /\ n # Len(cited) => pc' = "validate" /\ verdict' = "none"
    BY <1>5, <2>1 DEF Validate, End
  <2>11. Resolves(cited[n]) => \A i \in 1 .. Len(looks') : looks'[i] = cited[i].view
    <3>1. \A i \in 1 .. n : i \in 1 .. Len(looks) \/ i = n
      BY <2>2
    <3> QED
      BY <2>1, <2>6, <2>9, <3>1
  <2>12. CASE ~Resolves(cited[n])
    <3>1. a \in moved
      BY <2>8, <2>9, <2>12
    <3>2. verdict' = "refusal" /\ pc' = "idle" /\ \E i \in 1 .. Len(cited) : AssetOf[cited[i].row] \in moved
      BY <2>2, <2>10, <2>12, <3>1
    <3> QED
      BY <1>0, <2>1, <2>2, <2>7, <3>2 DEF CitedInv, Views
  <2>13. CASE Resolves(cited[n]) /\ n = Len(cited)
    <3> HIDE DEF a
    <3> QED
      BY <1>0, <2>1, <2>2, <2>6, <2>7, <2>10, <2>11, <2>13 DEF CitedInv, Views
  <2>14. CASE Resolves(cited[n]) /\ n # Len(cited)
    <3>1. n < Len(cited)
      <4>1. Len(cited) \in Nat /\ Len(looks) \in Nat
        BY <1>0, <2>2, EvidenceType
      <4>2. Len(looks) < Len(cited) /\ Len(looks) + 1 # Len(cited)
        BY <2>1, <2>14
      <4> QED
        BY <4>1, <4>2
    <3> HIDE DEF a
    <3> QED
      BY <1>0, <2>1, <2>2, <2>6, <2>7, <2>10, <2>11, <2>14, <3>1 DEF CitedInv, Views
  <2> QED
    BY <2>12, <2>13, <2>14
<1>6. CASE Throw
  <2>1. UNCHANGED <<terms, out, cited, looks>> /\ pc' = "idle" /\ verdict' = "error"
    BY <1>6 DEF Throw, End
  <2> QED
    BY <1>0, <1>a, <2>1 DEF CitedInv, Views
<1>7. CASE UNCHANGED vars
  <2>1. UNCHANGED <<room, terms, work, moved>>
    BY <1>7 DEF vars
  <2> QED
    BY <1>0, <1>a, <2>1 DEF CitedInv
<1> QED
  BY <1>1, <1>2, <1>3, <1>4, <1>5, <1>6, <1>7 DEF Next, Views

-----------------------------------------------------------------------------
(* The theorems.                                                           *)

LEMMA Initially == Init => IInv
<1> SUFFICES ASSUME Init PROVE IInv
  OBVIOUS
<1>1. Len(<<>>) = 0 /\ 1 .. 0 = {} /\ <<>> \in Seq(Evidence) /\ <<>> \in Seq(Layers) /\ 0 <= MaxCited
  BY EmptySeq, ConstantsAssumption
<1>2. TypeOK
  BY <1>1 DEF Init, TypeOK
<1>3. \A r \in Rows : Score(r) = 0
  BY <1>2, ScoreType DEF Init, Matched
<1> QED
  BY <1>1, <1>2, <1>3 DEF Init, IInv, OutInv, SeenInv, CitedInv, Views

\* The invariant of Retrieval holds in every reachable state.
THEOREM InductiveInvariant == Spec => []IInv
<1>1. IInv /\ [Next]_vars => IInv'
  BY TypeStep, OutStep, SeenStep, CitedStep DEF IInv
<1> QED
  BY Initially, <1>1, PTL DEF Spec

\* Every variable of Retrieval keeps its type; no more is cited than MaxCited.
THEOREM TypesHold == Spec => []TypeOK
  BY InductiveInvariant, PTL DEF IInv

\* Answers rest on citations of the asked room, each looked up where it was found,
\* whatever moves between the queries.
THEOREM AnswersAreGrounded == Spec => []AnswerIsGrounded
<1>1. IInv => AnswerIsGrounded
  <2> SUFFICES ASSUME IInv, verdict = "answer"
               PROVE  /\ cited # <<>>
                      /\ looks = [i \in DOMAIN cited |-> cited[i].view]
                      /\ \A i \in DOMAIN cited : RoomOf[AssetOf[cited[i].row]] = room
    BY DEF AnswerIsGrounded
  <2>0. TypeOK /\ OutInv /\ CitedInv
    BY DEF IInv
  <2>1. /\ cited # <<>> /\ Len(looks) = Len(cited)
        /\ \A i \in 1 .. Len(looks) : looks[i] = cited[i].view
    BY <2>0 DEF CitedInv
  <2>2. looks \in Seq(Layers) /\ DOMAIN cited = 1 .. Len(cited)
    BY <2>0, EvidenceType DEF TypeOK
  <2>3. looks = [i \in 1 .. Len(looks) |-> looks[i]]
    BY <2>2
  <2>4. PICK p \in Leading(Good) : cited = [i \in DOMAIN p |-> out[p[i]]]
    BY <2>0, <2>1 DEF CitedInv
  <2>5. \A i \in DOMAIN cited : p[i] \in 1 .. Len(out) /\ cited[i] = out[p[i]]
    BY <2>0, <2>4, LeadingProperties, GoodType
  <2> QED
    BY <2>0, <2>1, <2>2, <2>3, <2>5 DEF OutInv
<1> QED
  BY <1>1, InductiveInvariant, PTL

\* No asset is cited twice, however many descriptions it has and wherever it moves
\* while the two layers are queried.
THEOREM CitationsAreSingle == Spec => []CitedOnce
<1>1. IInv => CitedOnce
  <2> SUFFICES ASSUME IInv, NEW i \in DOMAIN cited, NEW j \in DOMAIN cited,
                      AssetOf[cited[i].row] = AssetOf[cited[j].row]
               PROVE  i = j
    BY DEF CitedOnce
  <2>0. TypeOK /\ OutInv /\ CitedInv
    BY DEF IInv
  <2>1. DOMAIN cited = 1 .. Len(cited) /\ cited # <<>>
    BY <2>0, EvidenceType, EmptySeq
  <2>2. PICK p \in Leading(Good) : cited = [k \in DOMAIN p |-> out[p[k]]]
    BY <2>0, <2>1 DEF CitedInv
  <2>3. DOMAIN p = 1 .. Count(Good) /\ \A k \in DOMAIN p : p[k] \in 1 .. Len(out)
    BY <2>0, <2>2, LeadingProperties, GoodType
  <2>4. p[i] = p[j]
    BY <2>0, <2>2, <2>3 DEF OutInv
  <2> QED
    BY <2>0, <2>2, <2>3, <2>4, LeadingProperties
<1> QED
  BY <1>1, InductiveInvariant, PTL

\* Citations pass the gate and come best first, and what passes it and is not cited
\* supports the answer no better, and is left out for want of room only.
THEOREM TheBestIsCited == Spec => []CitesTheBest
<1>1. IInv => CitesTheBest
  <2> SUFFICES ASSUME IInv, NEW i \in DOMAIN cited
               PROVE  /\ Sufficient(cited[i].row)
                      /\ \A j \in DOMAIN cited : i < j => Score(cited[i].row) >= Score(cited[j].row)
                      /\ \A k \in Good : out[k] \notin ToSet(cited) =>
                            Score(cited[i].row) >= Score(out[k].row) /\ Len(cited) = MaxCited
    BY DEF CitesTheBest
  <2>0. TypeOK /\ CitedInv
    BY DEF IInv
  <2>1. DOMAIN cited = 1 .. Len(cited) /\ cited # <<>> /\ Len(cited) \in Nat
    BY <2>0, EvidenceType, EmptySeq
  <2>2. PICK p \in Leading(Good) : cited = [k \in DOMAIN p |-> out[p[k]]]
    BY <2>0, <2>1 DEF CitedInv
  <2> DEFINE n == Count(Good)
  <2>3. /\ n \in Nat /\ DOMAIN p = 1 .. n /\ DOMAIN cited = 1 .. n
        /\ \A k \in 1 .. n : p[k] \in Good /\ cited[k] = out[p[k]]
    BY <2>0, <2>2, LeadingProperties
  <2>4. Len(cited) = n
    BY <2>1, <2>3
  <2>5. Sufficient(cited[i].row)
    BY <2>3 DEF Good
  <2>6. \A j \in DOMAIN cited : i < j => Score(cited[i].row) >= Score(cited[j].row)
    BY <2>0, <2>3, LeadingProperties
  <2>7. ASSUME NEW k \in Good, out[k] \notin ToSet(cited)
        PROVE  Score(cited[i].row) >= Score(out[k].row) /\ Len(cited) = MaxCited
    <3>1. \A j \in 1 .. n : p[j] # k
      BY <2>3, <2>7 DEF ToSet
    <3> QED
      BY <2>0, <2>3, <2>4, <3>1, LeadingProperties
  <2> QED
    BY <2>5, <2>6, <2>7
<1> QED
  BY <1>1, InductiveInvariant, PTL

\* A refusal is the store's or the room's doing: what stayed in place and has a word
\* of the question is retrieved, and what has two is refused only if a citation moved.
THEOREM AnswerableIsNotRefused == Spec => []AnswerableIsAnswered
<1>1. IInv => AnswerableIsAnswered
  <2> SUFFICES ASSUME IInv, NEW r \in Rows, verdict = "refusal", Stable(r)
               PROVE  /\ Matched(r) # {} => out # <<>>
                      /\ Score(r) >= 2 => \E i \in DOMAIN cited : AssetOf[cited[i].row] \in moved
    BY DEF AnswerableIsAnswered, Stable
  <2>0. TypeOK /\ SeenInv /\ CitedInv
    BY DEF IInv
  <2>1. Matched(r) # {} => out # <<>>
    BY <2>0 DEF SeenInv, Filter
  <2>2. ASSUME Score(r) >= 2 PROVE \E i \in DOMAIN cited : AssetOf[cited[i].row] \in moved
    <3>1. Score(r) \in Nat
      BY <2>0, ScoreType
    <3>2. pass # "any"
      BY <2>0, <2>2, <3>1 DEF SeenInv
    <3>3. cited # <<>>
      BY <2>0, <3>2 DEF CitedInv
    <3> QED
      BY <2>0, <3>3, EvidenceType DEF CitedInv
  <2> QED
    BY <2>1, <2>2
<1> QED
  BY <1>1, InductiveInvariant, PTL

\* How far the gate can starve a question (SufficientIsAnswered fails): whatever was
\* kept of the evidence of a question refused without a look has one word of it only.
THEOREM OnlySinglesStarve ==
  Spec => [](verdict = "refusal" /\ cited = <<>> => \A k \in Kept : Score(out[k].row) < 2)
<1>1. IInv => (verdict = "refusal" /\ cited = <<>> => \A k \in Kept : Score(out[k].row) < 2)
  BY DEF IInv, CitedInv
<1> QED
  BY <1>1, InductiveInvariant, PTL
=============================================================================
