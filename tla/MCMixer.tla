------------------------------- MODULE MCMixer ------------------------------
(* Mixer for TLC: two links, one controllable property per media, the     *)
(* fallback-timeout as the mixer's controlled setting, two points.        *)
EXTENDS Mixer, TLC

MCPointValue == [p \in PointIds |-> IF p = "p1" THEN 1 ELSE 0]
MCMaxPads == 2
MCMaxPts == 3

(* Link ids are interchangeable: nothing orders them. *)
MCSymmetry == Permutations(Links)
=============================================================================
