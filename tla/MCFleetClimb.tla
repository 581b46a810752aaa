---------------------------- MODULE MCFleetClimb ----------------------------
(* An edge search of at most three fleets, and a sweep that adds one octet. *)
EXTENDS FleetClimb

MCRungs == <<[target |-> 1, octets |-> {}], [target |-> 2, octets |-> {1}]>>
=============================================================================
