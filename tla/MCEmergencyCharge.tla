------------------------- MODULE MCEmergencyCharge -------------------------
(* Instances of EmergencyCharge: a day of two hours. *)
EXTENDS EmergencyCharge, TLC
CONSTANTS c1, c2
MCCallers == {c1, c2}
\* From midnight for an hour, or from now until midnight.
MCSettings == {<<{0}, {}>>, <<{}, {0}>>}

Symmetry == Permutations(MCCallers)
=============================================================================
