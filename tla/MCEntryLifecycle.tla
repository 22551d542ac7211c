-------------------------- MODULE MCEntryLifecycle --------------------------
(* Two entries, the two cabinets of a home, and a change of password. *)
EXTENDS EntryLifecycle, TLC
CONSTANTS e1, e2, d1, d2

MCEntries == {e1, e2}
MCDevices == {d1, d2}

\* What list-bmt answers: both cabinets, behind a module without an id.
MCLists == {<<NoId, d1, d2>>}

Symmetry == Permutations(MCEntries)

=============================================================================
