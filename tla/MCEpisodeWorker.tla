--------------------------- MODULE MCEpisodeWorker ---------------------------
(* Small instances of EpisodeWorker: h1 serves two turns and h2 one, or one turn each. *)
EXTENDS EpisodeWorker, TLC

CONSTANTS h1, h2, t1, t2, t3

MCHostOf == (t1 :> h1) @@ (t2 :> h1) @@ (t3 :> h2)
MCHostOf1 == (t1 :> h1) @@ (t3 :> h2)

\* The two turns of one host are interchangeable.
MCSymmetry == Permutations({t1, t2})
=============================================================================
