----------------------------- MODULE MCBindings -----------------------------
(* Two channels, two graphs, two promoters; files that list both channels, *)
(* drop one, bind one anew or to the other's graph, replace a promoter,    *)
(* write one as an npub, or do not parse; a mode that requires a chain.    *)
EXTENDS Bindings, TLC

CONSTANTS c1, c2, g1, g2, k1, k2, npub1, npubX, disabled, devnet, dev, other

BothChannels == {c1, c2}
BothGraphs == {g1, g2}
BothKeys == {k1, k2}
Written == {k1, k2, npub1, npubX}
Decoded == (k1 :> k1) @@ (k2 :> k2) @@ (npub1 :> k1) @@ (npubX :> Malformed)
TwoModes == {disabled, devnet}
TwoChains == {dev, other}
Required == (disabled :> {dev, other}) @@ (devnet :> {dev})

Entry(c, g, ps) == [channel |-> c, graph |-> g, promoters |-> ps]
SomeFiles ==
    {<<Entry(c1, g1, {npub1}), Entry(c2, g2, {k2})>>,
     <<Entry(c1, g2, {k2}), Entry(c2, g2, {k2})>>,
     <<Entry(c1, g1, {k1, k2})>>,
     <<>>,
     <<Entry(c1, g1, {k1}), Entry(c1, g2, {k1})>>,
     <<Entry(c1, None, {k1})>>,
     <<Entry(c2, g2, {npubX})>>}
=============================================================================
