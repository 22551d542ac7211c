--------------------------- MODULE MCOverrideEdit ---------------------------
(* The instance of OverrideEdit that TLC checks: two slots, one action, two *)
(* markers of two values; a service that sets one slot, one that resets all, *)
(* and a slider that may meet a smart marker below it.                      *)
EXTENDS OverrideEdit, TLC

CONSTANTS s1, s2, a

MCMarks == {0, 1}
Pair(high, low) == "high" :> high @@ "low" :> low
MCDefault == Pair(1, 0)
MCRefused == {Pair(0, 1)}

Ask(kind, patch, given) == [kind |-> kind, patch |-> patch, given |-> given]

MCInitial == {[slots |-> s1 :> None @@ s2 :> a, header |-> MCDefault]}
MCNoise == {Pair(1, 1)}

MCEdits == {Ask("slots", s1 :> a, NoPatch), Ask("reset", [s \in Slots |-> None], NoPatch),
            Ask("marker", NoPatch, "low" :> 1)}

Symmetry == Permutations(Editors)

=============================================================================
