--------------------------- MODULE MCBatteryScan ---------------------------
(* Two modules and two tiers: the slots 0 to 2 of the first cabinet and the *)
(* slots 3 and 4 of the second.                                             *)
EXTENDS BatteryScan, TLC
CONSTANTS m1, m2

MCModules == {m1, m2}
MCTiers == <<<<0, 1, 2>>, <<3, 4>>>>
MCCabinet == [i \in 0 .. 4 |-> IF i < 3 THEN 0 ELSE 1]

Symmetry == Permutations(MCModules)

=============================================================================
