--------------------------- MODULE MCPublication ----------------------------
(* Two operations and three reactions: two promoters compete for the first  *)
(* operation, one approves the second.                                      *)
EXTENDS Publication

CONSTANTS o1, o2, r1, r2, r3, k1, k2

OpsDef == {o1, o2}
ReactionsDef == {r1, r2, r3}
TargetDef == [r \in ReactionsDef |-> IF r = r3 THEN o2 ELSE o1]

\* Two threads, or the same thread captured twice.
AssetsTwo == {k1, k2}
KaTwo == [o \in OpsDef |-> IF o = o1 THEN k1 ELSE k2]
AssetsOne == {k1}
KaOne == [o \in OpsDef |-> k1]

\* The UAL of k1 is a substring of that of k2, as .../1 is one of .../12.
UalsNested == {<<k1, k1>>, <<k1, k2>>, <<k2, k2>>}
UalOne == {<<k1, k1>>}

Everyone(mode) == [mode |-> mode, authorised |-> ReactionsDef, mapped |-> OpsDef]
\* A restart may change the promoters, the mapping and the mode.
Rolling == {Everyone("mainnet"),
            [mode |-> "mainnet", authorised |-> {r1, r3}, mapped |-> {o1}],
            [mode |-> "devnet", authorised |-> {r2, r3}, mapped |-> {o1, o2}]}
OnOrOff == {Everyone("mainnet"), Everyone("disabled")}

Base == {"base"}
BaseAndDevnet == {"base", "devnet"}
=============================================================================
