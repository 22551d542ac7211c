--------------------------- MODULE MCRealtimePoll ---------------------------
(* The instance of RealtimePoll that TLC checks. *)
EXTENDS RealtimePoll

\* Two rungs of the reset ladder, in polls.
MCLadder == <<3, 4>>

=============================================================================
