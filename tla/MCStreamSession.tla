--------------------------- MODULE MCStreamSession ---------------------------
(* The instances of StreamSession that TLC checks. *)
EXTENDS StreamSession, TLC

\* Session objects are interchangeable.
Symmetry == Permutations(Sessions)

=============================================================================
