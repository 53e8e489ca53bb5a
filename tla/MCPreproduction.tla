---------------------------- MODULE MCPreproduction ----------------------------
(***************************************************************************)
(* Two TEST sources of one request with a recording each, and a            *)
(* PREPRODUCTION source with two.                                          *)
(***************************************************************************)
EXTENDS Preproduction, TLC

CONSTANTS p1, p2, st, su, sp, t1, t2, t3, t4

MCSourceMode == [s \in Sources |-> IF s = sp THEN "PREPRODUCTION" ELSE "TEST"]
MCSourceOf == [t \in Timelines |-> CASE t = t1 -> st [] t = t2 -> su [] OTHER -> sp]
MCSuffixOf == [t \in Timelines |-> "wav"]

MCSymmetry == Permutations({p1, p2})
=============================================================================
