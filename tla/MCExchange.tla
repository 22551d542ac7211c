----------------------------- MODULE MCExchange -----------------------------
(* One socket, with a short drain and one frame the relay sends of itself. *)
EXTENDS Exchange
=============================================================================
