--------------------------- MODULE MCTwoGateRunner ---------------------------
(***************************************************************************)
(* An instance of TwoGateRunner: two first images, a correction of the one *)
(* and a hero clip of the other.                                           *)
(***************************************************************************)
EXTENDS TwoGateRunner, TLC

CONSTANTS a, b, fix, hero, e, c1, c2

MCEpisodes == {e}
MCCalls == {c1, c2}
Symmetry == Permutations(MCCalls)

MCRequests == {a, b, fix, hero}
MCStarted == {a, b}
MCCategory == (a :> "first") @@ (b :> "first") @@ (fix :> "correction") @@ (hero :> "hero")
MCPred == (a :> a) @@ (b :> b) @@ (fix :> a) @@ (hero :> b)
MCDeps == (a :> {}) @@ (b :> {}) @@ (fix :> {b}) @@ (hero :> {})

\* The third call is let in once production is over: it finds another one rendering,
\* or what that one left.
LateCalls == last[e] <= 2 \/ doc.state \notin Open

===============================================================================
