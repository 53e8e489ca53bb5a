-------------------------- MODULE MCEpisodeDirector --------------------------
EXTENDS EpisodeDirector, TLC

CONSTANTS c1, c2

mc_Scenes == {"s1", "s3"}
mc_Imported == {"s3"}
mc_HeroScenes == {"s1"}
mc_Codes == {"ACTION", "SOURCE"}
mc_Owners == {c1, c2}
mc_Symmetry == Permutations(mc_Owners)
mc_Threads == {"flight", "worker"}
mc_Holds == {3, 4}

\* Bound: a call of the script and audio stages is not left open past them.
mc_NoStaleScript ==
    (\E c \in Owners : call[c].pc \in {"read", "script", "scriptqa", "audio", "storyboard"})
        => pipe = NoPipe /\ lock = Nobody
=============================================================================
