------------------------- MODULE MCCredentialCache -------------------------
(* The instances of CredentialCache that TLC checks. *)
EXTENDS CredentialCache, TLC

\* The threads of one kind are interchangeable, and so are the devices of one
\* kind; used by the runs that check no liveness.
Symmetry ==
    Permutations(Threads \ Direct) \cup Permutations(Direct)
        \cup Permutations(Devices \ Secondary)

=============================================================================
