-------------------------- MODULE MCDeviceSettings --------------------------
(* The instance of DeviceSettings that TLC checks: the sell limit, manual   *)
(* selling, peak shaving, in the order of the poll, and third-party PV.     *)
EXTENDS DeviceSettings, TLC

MCOrder == <<"limit", "selling", "peak">>

Off == [on |-> FALSE, amount |-> 0]
\* A frame that is taken for the state of manual selling may read as "on": a
\* switch believes it, and a staged target is dropped for it.
MCStrays == [k \in Polled |-> IF k = "selling" THEN {[on |-> TRUE, amount |-> 1]} ELSE {}]

MCInitial == {[k \in Settings |-> Off]}

MCCalls == {[kind |-> "switch", of |-> "selling", on |-> TRUE, amount |-> 0],
            [kind |-> "switch", of |-> "pv", on |-> TRUE, amount |-> 0],
            [kind |-> "slider", of |-> "selling", on |-> FALSE, amount |-> 1],
            [kind |-> "slider", of |-> "limit", on |-> FALSE, amount |-> 1]}

Symmetry == Permutations(Callers)

=============================================================================
