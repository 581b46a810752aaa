-------------------------- MODULE MCLatencyRunbook --------------------------
(* The two phases of the gate, and services that are alike. *)
EXTENDS LatencyRunbook

MCPlans == {<<"p0-control", "p1-netem0">>}
MCSymmetry == Permutations(Keys)
=============================================================================
