--------------------------- MODULE MCEpisodeLease ---------------------------
(* Small instance of EpisodeLease: three interchangeable runs, one episode. *)
EXTENDS EpisodeLease, TLC

MCSymmetry == Permutations(Runs)
=============================================================================
