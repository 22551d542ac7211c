------------------------------ MODULE Exchange ------------------------------
(***************************************************************************)
(* The life of one UDP socket of emaldo_lib/e2e.py: the one of a one-shot  *)
(* function (read_overrides, cancel_sell, _run_session, ...), which is     *)
(* closed when the function returns, or the one of a PersistentE2ESession, *)
(* whose methods take turns under the session's lock.                      *)
(*                                                                         *)
(* A datagram says nothing of the request it answers: a function takes     *)
(* whatever comes next, and recognises an answer by the length and a few   *)
(* bytes of its payload.  Answers are lost, come late or in another order, *)
(* and on a subscribed socket the relay sends frames nobody asked for.     *)
(***************************************************************************)
EXTENDS Naturals, Sequences, Functions

CONSTANTS
    Drain,      \* datagrams a reader takes after the first one (5)
    MaxOps,     \* bound: functions run on a session's socket
    MaxPush,    \* bound: frames the relay sends of itself
    MaxBox,     \* bound: datagrams in the socket's buffer
    None
ASSUME ExchangeAssumption == Drain \in Nat /\ MaxOps \in Nat /\ MaxPush \in Nat /\ MaxBox \in Nat

-----------------------------------------------------------------------------
(* Payloads: what they are, their length and their first two bytes *)

Payload(kind, lens, b0, b1) == [kind : {kind}, len : lens, b0 : b0, b1 : b1]

Flow == Payload("flow", {16, 22}, {5}, {0})
Freq == Payload("freq", {4}, {0}, {0})
Sell == Payload("sell", {6}, {0}, {1})
Vpp == Payload("vpp", {1}, {1}, {0})
Manual == Payload("manual", {10}, {0}, {1})
Config == Payload("config", {20}, {0}, {0})
Plan == Payload("plan", {28}, {1}, {0})
Cluster == Payload("cluster", {73}, {1}, {0})
Overrides == Payload("override", {105}, {72}, {20})
Mode == Payload("mode", {58}, {25}, {10})
Ev == Payload("ev", {6}, {3}, {0})
EvHours == Payload("hours", {7}, {0}, {0})

Status == Payload("status", {60}, {123}, {34})      \* JSON the relay sends
Plain(kind) == Payload(kind, {0}, {0}, {0})         \* no key decrypts it
Text == {"ack", "refused", "expired", "notice"}

Datagrams == UNION {Flow, Freq, Sell, Vpp, Manual, Config, Plan, Cluster, Overrides, Mode,
                    Ev, EvHours, Status, UNION {Plain(k) : k \in Text}}

-----------------------------------------------------------------------------
(* What a function takes for its answer *)

\* Every channel below 200 kW; of these kinds the JSON text is not.
Reasonable(p) == p.kind # "status"

\* Mutant: the flag bytes of a frame are not looked at.
IsPowerFlowLoose(p) == p.len \in 16 .. 24 /\ Reasonable(p)

\* Bytes 16, 17 and 19 are 0 or 1 in a power flow; byte 16 of a configuration is 100.
IsPowerFlow(p) == p.len \in 16 .. 24 /\ Reasonable(p) /\ (p.len >= 18 => p.kind # "config")

IsRegulateFrequency(p) == p.len \in {2, 4} /\ p.b0 <= 7 /\ p.b1 = 0
IsSellingProtection(p) == p.len \in 6 .. 16 /\ p.b1 \in {0, 1}
IsVirtualPowerPlant(p) == p.len \in 1 .. 4 /\ p.b0 \in {0, 1}
IsClustering(p) == p.len >= 73 /\ p.b0 \in {0, 1} /\ p.kind = "cluster"
IsOverride(p) == p.len >= 105 /\ p.kind = "override"    \* byte 8 counts 96 or 192 slots
IsScheduleMode(p) == p.len \in {57, 58} /\ p.b0 <= 100 /\ p.b1 < p.b0
IsReserveConfig(p) == p.len = 20 /\ p.kind = "config"   \* mode, flag and reserves in their ranges

Decrypted(p) == p.kind \notin Text

Answers(ask, p) ==
    CASE ask = "set"      -> TRUE
      [] ask = "flow"     -> Decrypted(p) /\ IsPowerFlow(p)
      [] ask = "freq"     -> Decrypted(p) /\ IsRegulateFrequency(p)
      [] ask = "sell"     -> Decrypted(p) /\ IsSellingProtection(p)
      [] ask = "vpp"      -> Decrypted(p) /\ IsVirtualPowerPlant(p)
      [] ask = "manual"   -> Decrypted(p) /\ p.len >= 10
      [] ask = "config"   -> Decrypted(p) /\ p.len >= 20
      [] ask = "plan"     -> Decrypted(p) /\ p.len >= 28
      [] ask = "plan16"   -> Decrypted(p) /\ p.len >= 16
      [] ask = "cluster"  -> Decrypted(p) /\ IsClustering(p)
      [] ask = "override" -> Decrypted(p) /\ IsOverride(p)
      [] ask = "mode"     -> Decrypted(p) /\ IsScheduleMode(p)
      [] ask = "reserve"  -> Decrypted(p) /\ IsReserveConfig(p)
      [] ask = "ev"       -> Decrypted(p) /\ p.len = 6
      [] ask = "hours"    -> Decrypted(p) /\ p.len >= 7

\* What the device answers to a request.
Asked(ask) ==
    CASE ask = "flow" -> Flow [] ask = "freq" -> Freq [] ask = "sell" -> Sell
      [] ask = "vpp" -> Vpp [] ask = "manual" -> Manual [] ask = "cluster" -> Cluster
      [] ask \in {"config", "reserve"} -> Config [] ask \in {"plan", "plan16"} -> Plan
      [] ask = "override" -> Overrides [] ask = "mode" -> Mode
      [] ask = "ev" -> Ev [] ask = "hours" -> EvHours
      [] ask = "set" -> Plain("ack") \cup Plain("refused")
      [] OTHER -> Plain("ack")
-----------------------------------------------------------------------------
(* The functions: the packets sent first, whether each of them must be     *)
(* answered, the requests, how many more datagrams are taken for an answer *)

Handshake == <<"home", "device", "wake", "beat">>

\* _run_session: one datagram is taken for each packet
RunSession(asks) == [own |-> TRUE, shake |-> Handshake, strict |-> FALSE, asks |-> asks,
                     more |-> 0, clear |-> FALSE, renew |-> FALSE]

SendOverride == RunSession(<<"set">>)
SendSell == RunSession(<<"set">>)
CancelSell == [RunSession(<<"set">>) EXCEPT !.strict = TRUE]
SetEmergencyCharge == [RunSession(<<"set">>) EXCEPT !.strict = TRUE]
SetManualSelling == RunSession(<<"set">>)
PeakShavingSetters == RunSession(<<"set">>)
EvSetters == RunSession(<<"set">>)
SetReserveMode == RunSession(<<"set">>)
SetThirdPartyPv == RunSession(<<"set">>)
SetSellingProtection == RunSession(<<"set">>)
SetVirtualPowerPlant == RunSession(<<"set">>)

ReadOverrides == [RunSession(<<"override">>) EXCEPT !.more = Drain]
ReadRegulateFrequency ==
    [RunSession(<<"freq">>) EXCEPT !.shake = <<"home", "device", "beat">>, !.more = Drain]
ReadPowerFlow == [RunSession(<<"flow">>) EXCEPT !.more = Drain]
GetManualSelling == RunSession(<<"manual">>)
ReadPeakShaving == RunSession(<<"config", "plan16">>)
ReadEvChargingMode == RunSession(<<"ev">>)
ReadEvHours == RunSession(<<"hours">>)
GetSellingProtection == [RunSession(<<"sell">>) EXCEPT !.more = 2 * Drain]
GetVirtualPowerPlant == [RunSession(<<"vpp">>) EXCEPT !.more = 2 * Drain]
ReadScheduleMode == [RunSession(<<"mode">>) EXCEPT !.more = Drain]
ReadReserveConfig == [RunSession(<<"reserve">>) EXCEPT !.more = Drain]

\* The one-shot functions by name; those with the same packets share one.
OneShot ==
    [send |-> SendOverride, send_strictly |-> CancelSell, read_overrides |-> ReadOverrides,
     read_regulate_frequency_state |-> ReadRegulateFrequency, read_power_flow |-> ReadPowerFlow,
     get_manual_selling |-> GetManualSelling, read_peak_shaving |-> ReadPeakShaving,
     read_ev_charging_mode |-> ReadEvChargingMode, read_ev_hours |-> ReadEvHours,
     get_selling_protection |-> GetSellingProtection,
     get_virtualpowerplant |-> GetVirtualPowerPlant,
     read_schedule_mode |-> ReadScheduleMode, read_reserve_mode_config |-> ReadReserveConfig]

\* A method of the session: the handshake is for its renewal, and for a keepalive.
Method(asks, more) == [RunSession(asks) EXCEPT !.own = FALSE, !.more = more]

SessionPowerFlow == [Method(<<"flow">>, Drain) EXCEPT !.clear = TRUE, !.renew = TRUE]
SessionRegulateFrequency == Method(<<"freq">>, Drain)
SessionSellingProtection == Method(<<"sell">>, Drain)
SessionVirtualPowerPlant == Method(<<"vpp">>, Drain)
SessionManualSelling == Method(<<"manual">>, Drain)
SessionPeakShaving == Method(<<"config", "plan">>, Drain)
SessionClustering == Method(<<"cluster">>, 1)
SessionCommand == Method(<<"set">>, 0)
SessionKeepalive == Method(<<>>, 0)             \* the handshake's packets again

Session ==
    [power_flow |-> SessionPowerFlow, regulate_frequency |-> SessionRegulateFrequency,
     selling_protection |-> SessionSellingProtection,
     virtualpowerplant |-> SessionVirtualPowerPlant,
     manual_selling |-> SessionManualSelling, peak_shaving |-> SessionPeakShaving,
     clustering_io_state |-> SessionClustering, command |-> SessionCommand,
     keepalive |-> SessionKeepalive]

ASSUME NoneAssumption ==
    None \notin Datagrams \cup [payload : Datagrams, at : Nat] \cup Range(OneShot) \cup Range(Session)

-----------------------------------------------------------------------------
VARIABLES
    own,        \* the socket is a one-shot function's
    open,       \* the socket is there
    ops,        \* functions begun
    op,         \* the latest, or None
    busy,       \* it is under way
    renewed,    \* it has shaken hands again
    packet,     \* which of its packets is next, or under way
    left,       \* datagrams that may still be taken for the packet; 0: not sent
    net,        \* datagrams on their way to the socket, alike ones as one
    box,        \* datagrams in its buffer
    pushed,     \* frames the relay has sent of itself
    cache,      \* _regulate_frequency_cache
    reached,    \* history: the relay got the packet
    out         \* what was taken for the answer of each of its requests, or None

vars == <<own, open, ops, op, busy, renewed, packet, left, net, box, pushed, cache, reached, out>>

\* Packets are sent in order, the handshake's first: _do_handshake before a renewed request
Packets == IF op.own \/ renewed \/ op.asks = <<>> THEN op.shake \o op.asks ELSE op.asks
IsAsk == packet > Len(Packets) - Len(op.asks)
Ask == Packets[packet]
First == left = 1 + op.more

Init ==
    /\ own \in BOOLEAN /\ open = TRUE
    /\ ops = 0 /\ op = None /\ busy = FALSE /\ renewed = FALSE /\ packet = 1 /\ left = 0
    /\ net = {} /\ box = <<>> /\ pushed = 0 /\ cache = None
    /\ reached = FALSE /\ out = <<>>

Begin ==
    /\ ~busy /\ open /\ ops < (IF own THEN 1 ELSE MaxOps)
    /\ \/ own /\ \E f \in DOMAIN OneShot : op' = OneShot[f]
       \/ ~own /\ \E f \in DOMAIN Session : op' = Session[f]
    /\ ops' = ops + 1 /\ busy' = TRUE
    /\ renewed' = FALSE /\ packet' = 1 /\ out' = <<>> /\ reached' = FALSE
    /\ UNCHANGED <<own, open, left, net, box, pushed, cache>>

-----------------------------------------------------------------------------
(* The network and the relay *)

\* What the relay and the device send for a packet: an acknowledgement, the
\* answer, both, or that the session has expired.
Replies ==
    IF ~IsAsk THEN {{a} : a \in Plain("ack") \cup (IF own THEN {} ELSE Plain("expired"))}
    ELSE {{a} : a \in Asked(Ask)} \cup {Plain("ack") \cup {a} : a \in Asked(Ask) \ Plain("refused")}
         \cup (IF own THEN {} ELSE {Plain("expired")})

\* Mutant: what is in the buffer stays there.
Uncleared == box

Cleared == IF op.clear /\ IsAsk THEN <<>> ELSE box

Send ==
    /\ busy /\ left = 0
    /\ left' = IF IsAsk THEN 1 + op.more ELSE 1
    /\ box' = Cleared
    /\ \/ reached' = FALSE /\ UNCHANGED net
       \/ /\ reached' = TRUE
          /\ \E answer \in Replies :
                net' = net \cup answer
    /\ UNCHANGED <<own, open, ops, op, busy, renewed, packet, pushed, cache, out>>

Put(p) == box' = Append(box, [payload |-> p, at |-> ops])

Arrive ==
    \E p \in net :
        /\ net' = net \ {p}
        /\ \/ Len(box) < MaxBox /\ Put(p)
           \/ UNCHANGED box
        /\ UNCHANGED <<own, open, ops, op, busy, renewed, packet, left, pushed, cache,
                       reached, out>>

\* On a socket that has asked for something, the relay sends more.
Push ==
    /\ pushed < MaxPush /\ Len(box) < MaxBox /\ open
    /\ \/ own /\ busy /\ IsAsk /\ Ask # "set" /\ reached /\ left > 0
          /\ \E p \in Status \cup Plain("notice") : Put(p)
       \/ ~own /\ \E p \in Flow \cup Freq \cup Status \cup Plain("notice") : Put(p)
    /\ pushed' = pushed + 1
    /\ UNCHANGED <<own, open, ops, op, busy, renewed, packet, left, net, cache, reached,
                   out>>

-----------------------------------------------------------------------------
(* The function *)

\* The packet is done with: the next one, or the end.
Onward ==
    /\ left' = 0
    /\ IF packet = Len(Packets) THEN busy' = FALSE /\ UNCHANGED packet
                                ELSE packet' = packet + 1 /\ UNCHANGED busy

Settle(got) ==
    /\ Onward
    /\ out' = Append(out, [ask |-> Ask, got |-> got])

\* One datagram answers a packet of the handshake, whatever it is.
TakeShake ==
    /\ busy /\ left > 0 /\ box # <<>> /\ ~IsAsk
    /\ box' = Tail(box) /\ Onward
    /\ UNCHANGED <<own, open, ops, op, renewed, net, pushed, cache, reached, out>>

Taking == busy /\ left > 0 /\ box # <<>> /\ IsAsk
Datagram == Head(box).payload
Expired == ~own /\ Ask # "set" /\ Datagram.kind = "expired"

Renews == Expired /\ op.renew /\ First /\ ~renewed

\* The session has expired: another socket, a handshake, the request once more.
\* What was on its way to the old socket is lost with it.
TakeRenewing ==
    /\ Taking /\ Renews
    /\ box' = <<>> /\ net' = {}
    /\ \/ renewed' = TRUE /\ packet' = 1 /\ left' = 0 /\ reached' = FALSE /\ UNCHANGED <<open, busy, out>>
       \/ open' \in BOOLEAN /\ Settle(None) /\ UNCHANGED <<renewed, reached>>
    /\ UNCHANGED <<own, ops, op, pushed, cache>>

TakeExpired ==
    /\ Taking /\ Expired /\ ~Renews
    /\ box' = Tail(box) /\ Settle(None)
    /\ UNCHANGED <<own, open, ops, op, renewed, net, pushed, cache, reached>>

TakeAnswer ==
    /\ Taking /\ ~Expired /\ Answers(Ask, Datagram)
    /\ box' = Tail(box) /\ Settle(Head(box))
    /\ cache' = IF ~own /\ Ask = "freq" THEN Datagram ELSE cache
    /\ UNCHANGED <<own, open, ops, op, renewed, net, pushed, reached>>

\* A frame that is no answer; a power-flow read keeps a regulation state it meets.
TakeOther ==
    /\ Taking /\ ~Expired /\ ~Answers(Ask, Datagram)
    /\ box' = Tail(box)
    /\ IF left = 1 THEN Settle(None)
                   ELSE left' = left - 1 /\ UNCHANGED <<busy, packet, out>>
    /\ cache' = IF ~own /\ Ask = "flow" /\ ~First /\ Decrypted(Datagram) /\ IsRegulateFrequency(Datagram)
                THEN Datagram ELSE cache
    /\ UNCHANGED <<own, open, ops, op, renewed, net, pushed, reached>>

\* Mutant: the handshake's silence is ignored.
PressesOn == FALSE

GivesUp == op.strict /\ ~IsAsk

\* Nothing comes in time.
Silent ==
    /\ busy /\ left > 0 /\ box = <<>>
    /\ IF IsAsk THEN Settle(None)
       ELSE /\ IF GivesUp THEN busy' = FALSE /\ left' = 0 /\ UNCHANGED packet ELSE Onward
            /\ UNCHANGED out
    /\ UNCHANGED <<own, open, ops, op, renewed, net, box, pushed, cache, reached>>

Step == Send \/ TakeShake \/ TakeRenewing \/ TakeExpired \/ TakeAnswer \/ TakeOther \/ Silent

Next == Begin \/ Arrive \/ Push \/ Step

Spec == Init /\ [][Next]_vars

\* A function runs on: its receive returns or times out.
FairSpec == Spec /\ WF_vars(Step)

-----------------------------------------------------------------------------
TypeOK ==
    /\ {own, open, busy, renewed} \subseteq BOOLEAN
    /\ ops \in 0 .. MaxOps + 1 /\ pushed \in 0 .. MaxPush
    /\ op # None => packet \in DOMAIN Packets /\ left \in 0 .. 1 + op.more
    /\ net \subseteq Datagrams
    /\ Len(box) <= MaxBox
    /\ \A i \in DOMAIN box : box[i].payload \in Datagrams /\ box[i].at \in 0 .. ops
    /\ cache \in Datagrams \cup {None}
    /\ op # None => Len(out) <= Len(op.asks)

\* A power flow that a session reads came after the read had begun: the frames
\* that gathered in the buffer between two reads are not taken for it.
FlowFresh ==
    ~own => \A i \in DOMAIN out :
                out[i].ask = "flow" /\ out[i].got # None => out[i].got.at = ops

\* A cancelled sale or an emergency charge that is reported as acknowledged
\* has reached the relay, however late the answers to the handshake come.
Acknowledged == ~busy /\ out # <<>> /\ out[1].got # None /\ out[1].got.payload.kind # "refused"

StrictReal == op # None /\ op.strict /\ Acknowledged => reached

\* The requests whose answers are told from every other frame by their shape;
\* on a socket of their own, where no power flow comes in between, also the
\* short ones.
Recognised(private) ==
    {"flow", "freq", "cluster", "override", "mode", "reserve"}
        \cup (IF private THEN {"sell", "vpp", "ev"} ELSE {})

Promised(private, ask) == IF ask \in Recognised(private) THEN Asked(ask) ELSE Datagrams

\* The functions keep RequestReply's promise: a late or unasked frame is never
\* taken for the answer to a recognised request, a request is settled once, and
\* a function gives the session back however often it finds it expired.
Abstract ==
    INSTANCE RequestReply WITH
        Functions <- {f.asks : f \in Range(OneShot) \cup Range(Session)},
        private <- own,
        asks <- IF op = None THEN <<>> ELSE op.asks,
        results <- [i \in DOMAIN out |-> IF out[i].got = None THEN None ELSE out[i].got.payload]

KeepsPromise == Abstract!Spec
=============================================================================
