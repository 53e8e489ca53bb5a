----------------------------- MODULE MCRunPodHero -----------------------------
(* Two drivers, so that a submission can race another call of the request,    *)
(* and two cancellers, so that two control requests can be under way at once. *)
EXTENDS RunPodHero
=============================================================================
