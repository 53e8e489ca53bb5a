-------------------------- MODULE MCRevisionPipeline --------------------------
EXTENDS RevisionPipeline, TLC

CONSTANTS s1, s2

mc_Scenes == {s1, s2}
mc_Heroes == {TRUE, FALSE}
mc_WithHeroes == {TRUE}
mc_Symmetry == Permutations(mc_Scenes)
=============================================================================
