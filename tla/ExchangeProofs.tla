--------------------------- MODULE ExchangeProofs ---------------------------
(***************************************************************************)
(* The functions of a socket implement RequestReply, and what they report  *)
(* of fresh and of acknowledged answers, for any bounds.                   *)
(***************************************************************************)
EXTENDS Exchange, SequenceTheorems, TLAPS

-----------------------------------------------------------------------------
(* Datagrams *)

\* The payloads a private socket may meet when a function has these requests.
Private(asks) == Status \cup (UNION {Plain(k) : k \in Text}) \cup (UNION {Asked(asks[i]) : i \in DOMAIN asks})

Requests == {"set", "flow", "freq", "sell", "vpp", "manual", "config", "plan", "plan16", "cluster",
             "override", "mode", "reserve", "ev", "hours"}

\* What the device answers is one of the datagrams.
LEMMA AskedTyped ==
    /\ \A ask \in Requests : Asked(ask) \subseteq Datagrams
    /\ \A k \in Text : Plain(k) \subseteq Datagrams
    /\ Status \subseteq Datagrams /\ Flow \subseteq Datagrams /\ Freq \subseteq Datagrams
<1>1. \A k \in Text : Plain(k) \subseteq Datagrams
  BY DEF Datagrams
<1>2. /\ Flow \subseteq Datagrams /\ Freq \subseteq Datagrams /\ Sell \subseteq Datagrams
      /\ Vpp \subseteq Datagrams /\ Manual \subseteq Datagrams /\ Config \subseteq Datagrams
      /\ Plan \subseteq Datagrams /\ Cluster \subseteq Datagrams /\ Overrides \subseteq Datagrams
      /\ Mode \subseteq Datagrams /\ Ev \subseteq Datagrams /\ EvHours \subseteq Datagrams
      /\ Status \subseteq Datagrams
  BY DEF Datagrams
<1>3. \A ask \in Requests : Asked(ask) \subseteq Datagrams
  BY <1>1, <1>2 DEF Requests, Asked, Text
<1> QED
  BY <1>1, <1>2, <1>3

\* The length, the first bytes and the kind tell the answer to one of these
\* requests from every other datagram.
LEMMA RecognisedOnSession ==
    ASSUME NEW p \in Datagrams, NEW ask \in Recognised(FALSE), Answers(ask, p)
    PROVE  p \in Asked(ask)
<1> USE DEF Datagrams, Flow, Freq, Sell, Vpp, Manual, Config, Plan, Cluster, Overrides, Mode, Ev, EvHours,
        Status, Plain, Text, Payload, Answers, Asked, Decrypted
<1>1. CASE ask = "flow"
  BY <1>1 DEF IsPowerFlow, Reasonable
<1>2. CASE ask = "freq"
  BY <1>2 DEF IsRegulateFrequency
<1>3. CASE ask = "cluster"
  BY <1>3 DEF IsClustering
<1>4. CASE ask = "override"
  BY <1>4 DEF IsOverride
<1>5. CASE ask = "mode"
  BY <1>5 DEF IsScheduleMode
<1>6. CASE ask = "reserve"
  BY <1>6 DEF IsReserveConfig
<1> QED
  BY <1>1, <1>2, <1>3, <1>4, <1>5, <1>6 DEF Recognised

\* A sequence of one request, of two, of none.
LEMMA OneRequest == \A a : /\ Len(<<a>>) = 1 /\ DOMAIN <<a>> = {1} /\ <<a>>[1] = a
                           /\ \A S : a \in S => <<a>> \in Seq(S)
  OBVIOUS

LEMMA TwoRequests == \A a, b : /\ Len(<<a, b>>) = 2 /\ DOMAIN <<a, b>> = {1, 2}
                               /\ <<a, b>>[1] = a /\ <<a, b>>[2] = b
                               /\ \A S : a \in S /\ b \in S => <<a, b>> \in Seq(S)
  OBVIOUS

LEMMA NoRequest == Len(<<>>) = 0 /\ DOMAIN <<>> = {} /\ \A S : <<>> \in Seq(S)
  OBVIOUS

\* On a private socket the short answers are told as well.
LEMMA RecognisedAlone ==
    ASSUME NEW ask \in {"sell", "vpp", "ev"}, NEW p \in Private(<<ask>>), Answers(ask, p)
    PROVE  p \in Asked(ask)
<1>1. CASE p \in Asked(ask)
  BY <1>1
<1>2. CASE p \in Status \/ \E k \in Text : p \in Plain(k)
  <2> USE <1>2 DEF Status, Plain, Text, Payload, Answers, Decrypted
  <2>1. CASE ask = "sell"
    BY <2>1 DEF IsSellingProtection
  <2>2. CASE ask = "vpp"
    BY <2>2 DEF IsVirtualPowerPlant
  <2>3. CASE ask = "ev"
    BY <2>3
  <2> QED
    BY <2>1, <2>2, <2>3
<1>3. UNION {Asked(<<ask>>[i]) : i \in DOMAIN <<ask>>} = Asked(ask)
  BY OneRequest
<1> QED
  BY <1>1, <1>2, <1>3 DEF Private

-----------------------------------------------------------------------------
(* Functions *)

Ops == Range(OneShot) \cup Range(Session)

Names == {"home", "device", "wake", "beat"}

\* What every function has, and what only some have.
Wellformed(o) ==
    /\ o.own \in BOOLEAN /\ o.strict \in BOOLEAN /\ o.clear \in BOOLEAN /\ o.renew \in BOOLEAN
    /\ o.more \in Nat
    /\ o.shake \in Seq(Names) /\ Len(o.shake) > 0
    /\ o.asks \in Seq(Requests) /\ Len(o.asks) \in 0 .. 2
    /\ o.renew => Len(o.asks) = 1
    /\ o.strict => o.own /\ o.asks = <<"set">> /\ o.more = 0
    /\ o.own => Len(o.asks) > 0
    /\ ~o.own => \A i \in DOMAIN o.asks : o.asks[i] = "flow" => o.clear
    /\ o.own => \A i \in DOMAIN o.asks : o.asks[i] \in {"sell", "vpp", "ev"} => o.asks = <<o.asks[i]>>

LEMMA Shakes == /\ Handshake \in Seq(Names) /\ Len(Handshake) > 0
                /\ <<"home", "device", "beat">> \in Seq(Names) /\ Len(<<"home", "device", "beat">>) > 0
<1>1. \A a, b, c, d : \A S : {a, b, c, d} \subseteq S =>
          /\ <<a, b, c, d>> \in Seq(S) /\ Len(<<a, b, c, d>>) = 4
          /\ <<a, b, c>> \in Seq(S) /\ Len(<<a, b, c>>) = 3
  OBVIOUS
<1>2. {"home", "device", "wake", "beat"} \subseteq Names /\ {"home", "device", "beat", "beat"} \subseteq Names
  BY DEF Names
<1> QED
  BY <1>1, <1>2 DEF Handshake

LEMMA OneShotsWellformed == \A f \in DOMAIN OneShot : Wellformed(OneShot[f]) /\ OneShot[f].own
<1>0. {"set", "flow", "freq", "sell", "vpp", "manual", "config", "plan", "plan16", "cluster", "override",
       "mode", "reserve", "ev", "hours"} \subseteq Requests
  BY DEF Requests
<1> USE <1>0, Shakes, ExchangeAssumption DEF Wellformed, RunSession
<1>1. Wellformed(SendOverride) /\ SendOverride.own
  BY OneRequest DEF SendOverride
<1>2. Wellformed(CancelSell) /\ CancelSell.own
  BY OneRequest DEF CancelSell
<1>3. Wellformed(ReadOverrides) /\ ReadOverrides.own
  BY OneRequest DEF ReadOverrides
<1>4. Wellformed(ReadRegulateFrequency) /\ ReadRegulateFrequency.own
  BY OneRequest DEF ReadRegulateFrequency
<1>5. Wellformed(ReadPowerFlow) /\ ReadPowerFlow.own
  BY OneRequest DEF ReadPowerFlow
<1>6. Wellformed(GetManualSelling) /\ GetManualSelling.own
  BY OneRequest DEF GetManualSelling
<1>7. Wellformed(ReadPeakShaving) /\ ReadPeakShaving.own
  BY TwoRequests DEF ReadPeakShaving
<1>8. Wellformed(ReadEvChargingMode) /\ ReadEvChargingMode.own
  BY OneRequest DEF ReadEvChargingMode
<1>9. Wellformed(ReadEvHours) /\ ReadEvHours.own
  BY OneRequest DEF ReadEvHours
<1>10. Wellformed(GetSellingProtection) /\ GetSellingProtection.own
  BY OneRequest DEF GetSellingProtection
<1>11. Wellformed(GetVirtualPowerPlant) /\ GetVirtualPowerPlant.own
  BY OneRequest DEF GetVirtualPowerPlant
<1>12. Wellformed(ReadScheduleMode) /\ ReadScheduleMode.own
  BY OneRequest DEF ReadScheduleMode
<1>13. Wellformed(ReadReserveConfig) /\ ReadReserveConfig.own
  BY OneRequest DEF ReadReserveConfig
<1> HIDE DEF Wellformed, RunSession
<1> QED
  BY <1>1, <1>2, <1>3, <1>4, <1>5, <1>6, <1>7, <1>8, <1>9, <1>10, <1>11, <1>12, <1>13 DEF OneShot

LEMMA MethodsWellformed == \A f \in DOMAIN Session : Wellformed(Session[f]) /\ ~Session[f].own
<1>0. {"set", "flow", "freq", "sell", "vpp", "manual", "config", "plan", "plan16", "cluster", "override",
       "mode", "reserve", "ev", "hours"} \subseteq Requests
  BY DEF Requests
<1> USE <1>0, Shakes, ExchangeAssumption DEF Wellformed, RunSession, Method
<1>1. Wellformed(SessionPowerFlow) /\ ~SessionPowerFlow.own
  BY OneRequest DEF SessionPowerFlow
<1>2. Wellformed(SessionRegulateFrequency) /\ ~SessionRegulateFrequency.own
  BY OneRequest DEF SessionRegulateFrequency
<1>3. Wellformed(SessionSellingProtection) /\ ~SessionSellingProtection.own
  BY OneRequest DEF SessionSellingProtection
<1>4. Wellformed(SessionVirtualPowerPlant) /\ ~SessionVirtualPowerPlant.own
  BY OneRequest DEF SessionVirtualPowerPlant
<1>5. Wellformed(SessionManualSelling) /\ ~SessionManualSelling.own
  BY OneRequest DEF SessionManualSelling
<1>6. Wellformed(SessionPeakShaving) /\ ~SessionPeakShaving.own
  BY TwoRequests DEF SessionPeakShaving
<1>7. Wellformed(SessionClustering) /\ ~SessionClustering.own
  BY OneRequest DEF SessionClustering
<1>8. Wellformed(SessionCommand) /\ ~SessionCommand.own
  BY OneRequest DEF SessionCommand
<1>9. Wellformed(SessionKeepalive) /\ ~SessionKeepalive.own
  BY NoRequest DEF SessionKeepalive
<1> HIDE DEF Wellformed, RunSession, Method
<1> QED
  BY <1>1, <1>2, <1>3, <1>4, <1>5, <1>6, <1>7, <1>8, <1>9 DEF Session

-----------------------------------------------------------------------------
(* The inductive invariant *)

Frames == [payload : Datagrams, at : Nat]
Taken == [ask : Requests, got : Frames \cup {None}]

\* The packets that come before the requests.
Lead == Len(Packets) - Len(op.asks)

Typed ==
    /\ own \in BOOLEAN /\ open \in BOOLEAN /\ busy \in BOOLEAN
    /\ renewed \in BOOLEAN /\ reached \in BOOLEAN
    /\ ops \in Nat /\ ops <= (IF own THEN 1 ELSE MaxOps)
    /\ op # None => Wellformed(op) /\ op.own = own /\ left \in 0 .. 1 + op.more
    /\ busy => op # None /\ open
    /\ left \in Nat /\ (~busy => left = 0)
    /\ pushed \in 0 .. MaxPush
    /\ net \subseteq Datagrams
    /\ box \in Seq(Frames) /\ Len(box) <= MaxBox
    /\ \A i \in DOMAIN box : box[i].at <= ops
    /\ cache \in Datagrams \cup {None}
    /\ out \in Seq(Taken)

\* While a function is under way, its requests before the packet are settled.
Position ==
    op # None =>
        /\ packet \in 1 .. Len(Packets)
        /\ busy => Len(out) = (IF IsAsk THEN packet - Lead - 1 ELSE 0)
        /\ Len(out) <= Len(op.asks)

\* A private socket serves one function, and meets no other kind of datagram.
Alone ==
    own => /\ op = None => ops = 0 /\ net = {} /\ box = <<>>
           /\ op # None => /\ ops = 1
                           /\ net \subseteq Private(op.asks)
                           /\ \A i \in DOMAIN box : box[i].payload \in Private(op.asks)

\* While a power flow is awaited, the buffer holds what came since.
Fresh ==
    ~own /\ busy /\ IsAsk /\ Ask = "flow" /\ left > 0 => \A i \in DOMAIN box : box[i].at = ops

\* A function that insists on an answer to every packet has no more than one
\* datagram on its way, and none once it has been taken.
Insists ==
    op # None /\ op.strict =>
        /\ busy /\ left = 0 => net = {} /\ box = <<>>
        /\ busy /\ ~IsAsk /\ left > 0 =>
               (net = {} /\ Len(box) <= 1) \/ (box = <<>> /\ \E a \in Datagrams : net = {a})
        /\ busy /\ IsAsk /\ left > 0 /\ ~reached => net = {} /\ box = <<>>
        /\ out # <<>> /\ out[1].got # None => reached

IInv == Typed /\ Position /\ Alone /\ Fresh /\ FlowFresh /\ Insists

-----------------------------------------------------------------------------
(* Packets and buffers *)

LEMMA TailFacts ==
    ASSUME NEW S, NEW s \in Seq(S), s # <<>>
    PROVE  /\ Tail(s) \in Seq(S) /\ Len(Tail(s)) = Len(s) - 1 /\ Len(s) > 0
           /\ Head(s) = s[1] /\ Head(s) \in S /\ 1 \in DOMAIN s
           /\ \A i \in DOMAIN Tail(s) : i + 1 \in DOMAIN s /\ Tail(s)[i] = s[i + 1]
  OBVIOUS

LEMMA AppendFacts ==
    ASSUME NEW S, NEW s \in Seq(S), NEW e \in S
    PROVE  /\ Append(s, e) \in Seq(S) /\ Len(Append(s, e)) = Len(s) + 1
           /\ Append(s, e)[Len(s) + 1] = e
           /\ \A i \in DOMAIN s : Append(s, e)[i] = s[i]
           /\ DOMAIN s = 1 .. Len(s) /\ DOMAIN Append(s, e) = 1 .. Len(s) + 1
  OBVIOUS

Sent(o, again) == IF o.own \/ again \/ o.asks = <<>> THEN o.shake \o o.asks ELSE o.asks

\* The requests come last among the packets.
LEMMA SentShape ==
    ASSUME NEW o, Wellformed(o), NEW again
    PROVE  /\ Len(Sent(o, again)) \in Nat /\ Len(o.asks) \in Nat
           /\ Len(Sent(o, again)) - Len(o.asks) \in Nat /\ Len(Sent(o, again)) > 0
           /\ \A i \in 1 .. Len(o.asks) : Sent(o, again)[Len(Sent(o, again)) - Len(o.asks) + i] = o.asks[i]
           /\ o.own \/ again => Len(Sent(o, again)) - Len(o.asks) > 0
<1> DEFINE T == Names \cup Requests
           lead == Len(Sent(o, again)) - Len(o.asks)
<1>1. o.shake \in Seq(T) /\ o.asks \in Seq(T) /\ Len(o.asks) \in Nat /\ Len(o.shake) \in Nat
      /\ Len(o.shake) > 0
  BY DEF Wellformed
<1>2. \A s, t \in Seq(T) : /\ s \o t \in Seq(T) /\ Len(s \o t) = Len(s) + Len(t)
                           /\ \A i \in 1 .. Len(t) : (s \o t)[Len(s) + i] = t[i]
  OBVIOUS
<1> HIDE DEF T, lead
<1>3. CASE o.own \/ again \/ o.asks = <<>>
  <2>1. Sent(o, again) = o.shake \o o.asks
    BY <1>3 DEF Sent
  <2>2. Len(Sent(o, again)) = Len(o.shake) + Len(o.asks)
    BY <1>1, <1>2, <2>1
  <2>3. lead = Len(o.shake)
    BY <1>1, <2>2 DEF lead
  <2>4. \A i \in 1 .. Len(o.asks) : Sent(o, again)[lead + i] = o.asks[i]
    <3>1. \A i \in 1 .. Len(o.asks) : (o.shake \o o.asks)[Len(o.shake) + i] = o.asks[i]
      BY <1>1, <1>2
    <3> QED
      BY <2>1, <2>3, <3>1
  <2>5. lead \in Nat /\ lead > 0
    BY <1>1, <2>3
  <2>6. Len(Sent(o, again)) \in Nat /\ Len(Sent(o, again)) > 0
    <3> DEFINE a == Len(o.shake)
               b == Len(o.asks)
               n == Len(Sent(o, again))
    <3>1. a \in Nat /\ b \in Nat /\ a > 0
      BY <1>1
    <3>2. n = a + b
      BY <2>2
    <3> HIDE DEF a, b, n
    <3>3. n \in Nat /\ n > 0
      BY <3>1, <3>2
    <3> QED
      BY <3>3 DEF n
  <2> QED
    BY <1>1, <2>4, <2>5, <2>6 DEF lead
<1>4. CASE ~(o.own \/ again \/ o.asks = <<>>)
  <2>1. Len(o.asks) > 0
    BY <1>1, <1>4
  <2> QED
    BY <1>1, <1>4, <2>1 DEF Sent
<1> QED
  BY <1>3, <1>4

LEMMA PacketShape ==
    ASSUME Wellformed(op)
    PROVE  /\ Len(Packets) \in Nat /\ Lead \in Nat /\ Len(op.asks) \in Nat
           /\ Len(Packets) = Lead + Len(op.asks) /\ Len(Packets) > 0
           /\ \A i \in 1 .. Len(op.asks) : Packets[Lead + i] = op.asks[i]
           /\ op.own \/ renewed => Lead > 0
<1>1. Packets = Sent(op, renewed)
  BY DEF Packets, Sent
<1>2. Lead \in Nat /\ (op.own \/ renewed => Lead > 0)
  BY <1>1, SentShape DEF Lead
<1>3. /\ Len(Packets) \in Nat /\ Len(op.asks) \in Nat /\ Len(Packets) > 0
      /\ \A i \in 1 .. Len(op.asks) : Packets[Lead + i] = op.asks[i]
  BY <1>1, SentShape DEF Lead
<1>4. Len(Packets) = Lead + Len(op.asks)
  BY <1>3 DEF Lead
<1> QED
  BY <1>2, <1>3, <1>4

\* The request under way is the first that is not settled.
LEMMA AskedNow ==
    ASSUME Typed, Position, busy, IsAsk
    PROVE  /\ Len(out) < Len(op.asks) /\ Len(out) \in Nat
           /\ Ask = op.asks[Len(out) + 1] /\ Ask \in Requests /\ Len(out) + 1 \in DOMAIN op.asks
           /\ packet = Lead + Len(out) + 1
<1>1. op # None /\ Wellformed(op) /\ out \in Seq(Taken) /\ op.asks \in Seq(Requests)
  BY DEF Typed, Wellformed
<1>2. packet = Lead + Len(out) + 1 /\ Len(out) \in Nat /\ packet \in 1 .. Len(Packets)
  BY <1>1, PacketShape DEF Position
<1>3. Len(out) < Len(op.asks) /\ Len(out) + 1 \in 1 .. Len(op.asks)
  BY <1>1, <1>2, PacketShape
<1>4. Ask = op.asks[Len(out) + 1]
  BY <1>1, <1>2, <1>3, PacketShape DEF Ask
<1> QED
  BY <1>1, <1>2, <1>3, <1>4

\* Settling a request moves on to the next, or ends the function.
LEMMA Settling ==
    ASSUME Typed, Position, busy, IsAsk, NEW got \in Frames \cup {None}, Settle(got),
           op' = op, renewed' = renewed
    PROVE  /\ Position' /\ out' \in Seq(Taken) /\ left' = 0
           /\ out' = Append(out, [ask |-> op.asks[Len(out) + 1], got |-> got])
           /\ busy' = (Len(out') < Len(op.asks)) /\ busy' \in BOOLEAN
           /\ busy' => Len(out') < Len(op.asks)
           /\ ~busy' => Len(op.asks) <= Len(out')
<1>1. op # None /\ Wellformed(op) /\ out \in Seq(Taken) /\ packet \in 1 .. Len(Packets)
  BY DEF Typed, Position
<1>2. Packets' = Packets /\ Lead' = Lead
  BY DEF Packets, Lead
<1>3. [ask |-> Ask, got |-> got] \in Taken
  BY AskedNow DEF Taken
<1>4. out' \in Seq(Taken) /\ Len(out') = Len(out) + 1
  BY <1>1, <1>3, AppendFacts DEF Settle
<1>5. busy' = (Len(out') < Len(op.asks))
  <2>1. packet = Len(Packets) <=> ~(Len(out') < Len(op.asks))
    BY <1>1, <1>4, AskedNow, PacketShape
  <2>2. busy = TRUE
    BY DEF Typed
  <2>3. busy' = IF packet = Len(Packets) THEN FALSE ELSE busy
    BY DEF Settle, Onward
  <2> DEFINE last == packet = Len(Packets)
             unsettled == Len(out') < Len(op.asks)
  <2>4. last <=> ~unsettled
    BY <2>1
  <2>5. busy' = IF last THEN FALSE ELSE TRUE
    BY <2>2, <2>3
  <2>6. unsettled \in BOOLEAN
    OBVIOUS
  <2> HIDE DEF last, unsettled
  <2>7. busy' = unsettled
    BY <2>4, <2>5, <2>6
  <2> QED
    BY <2>7 DEF unsettled
<1>6. out' = Append(out, [ask |-> op.asks[Len(out) + 1], got |-> got]) /\ left' = 0
  BY AskedNow DEF Settle, Onward
<1>7. Position'
  <2>1. busy' => packet' = packet + 1 /\ packet' \in 1 .. Len(Packets)
    BY <1>1, PacketShape DEF Settle, Onward
  <2>2. ~busy' => packet' = packet
    BY DEF Settle, Onward
  <2>3. Len(out') <= Len(op.asks)
    BY <1>4, AskedNow, PacketShape, <1>1
  <2>4. busy' => IsAsk' /\ Len(out') = packet' - Lead - 1
    <3>1. packet = Lead + Len(out) + 1 /\ Lead \in Nat /\ Len(out) \in Nat
      BY <1>1, AskedNow, PacketShape
    <3>2. IsAsk' <=> packet' > Lead
      BY <1>2 DEF IsAsk, Lead
    <3> QED
      BY <1>4, <2>1, <3>1, <3>2
  <2> QED
    BY <1>1, <1>2, <2>1, <2>2, <2>3, <2>4 DEF Position
<1>8. busy' \in BOOLEAN /\ (busy' => Len(out') < Len(op.asks))
      /\ (~busy' => Len(op.asks) <= Len(out'))
  <2>1. Len(out') \in Nat /\ Len(op.asks) \in Nat
    BY <1>1, <1>4 DEF Wellformed
  <2>2. packet = Len(Packets) <=> ~(Len(out') < Len(op.asks))
    BY <1>1, <1>4, AskedNow, PacketShape
  <2>3. busy' = (IF packet = Len(Packets) THEN FALSE ELSE busy) /\ busy = TRUE
    BY DEF Settle, Onward, Typed
  <2>4. CASE packet = Len(Packets)
    BY <2>1, <2>2, <2>3, <2>4
  <2>5. CASE packet # Len(Packets)
    BY <2>1, <2>2, <2>3, <2>5
  <2> QED
    BY <2>4, <2>5
<1> QED
  BY <1>4, <1>5, <1>6, <1>7, <1>8

\* A packet of the handshake is followed by another one, or ends a function
\* that has no requests.
LEMMA Shaking ==
    ASSUME Typed, Position, busy, ~IsAsk, Onward, op' = op, renewed' = renewed, out' = out
    PROVE  /\ Position' /\ left' = 0 /\ busy' \in BOOLEAN /\ out = <<>>
           /\ ~busy' => op.asks = <<>>
<1>1. op # None /\ Wellformed(op) /\ out \in Seq(Taken) /\ packet \in 1 .. Len(Packets)
  BY DEF Typed, Position
<1>2. Packets' = Packets /\ Lead' = Lead
  BY DEF Packets, Lead
<1>3. Len(out) = 0 /\ packet <= Lead
  BY <1>1, PacketShape DEF Position, IsAsk, Lead
<1>4. out = <<>>
  BY <1>1, <1>3
<1>5. ~busy' => packet' = packet /\ op.asks = <<>>
  <2>1. ~busy' => packet = Len(Packets) /\ packet' = packet
    BY DEF Onward
  <2>2. ~busy' => Len(op.asks) = 0
    BY <1>1, <1>3, <2>1, PacketShape
  <2> QED
    BY <1>1, <2>1, <2>2 DEF Wellformed
<1>6. busy' => packet' = packet + 1 /\ packet' \in 1 .. Len(Packets)
  BY <1>1, PacketShape DEF Onward
<1>7. busy' => Len(out) = (IF IsAsk' THEN packet' - Lead - 1 ELSE 0)
  BY <1>1, <1>2, <1>3, <1>6, PacketShape DEF IsAsk, Lead
<1>8. Position'
  BY <1>1, <1>2, <1>3, <1>5, <1>6, <1>7, PacketShape DEF Position
<1> QED
  BY <1>4, <1>5, <1>8 DEF Onward

\* Replies are datagrams, and on a private socket those its requests ask for.
LEMMA RepliesTyped ==
    ASSUME Typed, Position, busy, NEW answer \in Replies
    PROVE  answer \subseteq Datagrams /\ (own => answer \subseteq Private(op.asks))
<1>1. Plain("ack") \subseteq Datagrams /\ Plain("expired") \subseteq Datagrams
      /\ Plain("ack") \subseteq Private(op.asks)
  BY AskedTyped DEF Text, Private
<1>2. CASE ~IsAsk
  BY <1>1, <1>2 DEF Replies
<1>3. CASE IsAsk
  <2>1. Asked(Ask) \subseteq Datagrams
    BY <1>3, AskedNow, AskedTyped
  <2>2. Asked(Ask) \subseteq Private(op.asks)
    BY <1>3, AskedNow DEF Private
  <2> QED
    BY <1>1, <1>3, <2>1, <2>2 DEF Replies
<1> QED
  BY <1>2, <1>3

\* A datagram put into the buffer is one more at its end.
LEMMA Putting ==
    ASSUME Typed, NEW p \in Datagrams, Len(box) < MaxBox, Put(p), ops' = ops
    PROVE  /\ box' \in Seq(Frames) /\ Len(box') <= MaxBox /\ Len(box') = Len(box) + 1
           /\ \A i \in DOMAIN box' : box'[i].at <= ops
           /\ \A i \in DOMAIN box' : (i \in DOMAIN box /\ box'[i] = box[i])
                                     \/ box'[i] = [payload |-> p, at |-> ops]
<1>1. [payload |-> p, at |-> ops] \in Frames /\ box \in Seq(Frames) /\ ops \in Nat /\ MaxBox \in Nat
  BY ExchangeAssumption DEF Frames, Typed
<1>2. /\ box' \in Seq(Frames) /\ Len(box') = Len(box) + 1 /\ Len(box') <= MaxBox
      /\ \A i \in DOMAIN box' : (i \in DOMAIN box /\ box'[i] = box[i])
                                \/ box'[i] = [payload |-> p, at |-> ops]
  BY <1>1, AppendFacts DEF Put
<1> QED
  BY <1>1, <1>2 DEF Typed

\* A datagram taken leaves the rest of the buffer.
LEMMA TakingOne ==
    ASSUME Typed, box # <<>>, box' = Tail(box), ops' = ops
    PROVE  /\ box' \in Seq(Frames) /\ Len(box') <= MaxBox /\ Len(box') = Len(box) - 1
           /\ \A i \in DOMAIN box' : box'[i].at <= ops
           /\ \A i \in DOMAIN box' : i + 1 \in DOMAIN box /\ box'[i] = box[i + 1]
           /\ Head(box) \in Frames /\ 1 \in DOMAIN box /\ Head(box) = box[1]
           /\ Datagram \in Datagrams
<1>1. box \in Seq(Frames) /\ Len(box) <= MaxBox /\ MaxBox \in Nat
  BY ExchangeAssumption DEF Typed
<1>2. /\ box' \in Seq(Frames) /\ Len(box') = Len(box) - 1 /\ Head(box) = box[1] /\ 1 \in DOMAIN box
      /\ Head(box) \in Frames
      /\ \A i \in DOMAIN box' : i + 1 \in DOMAIN box /\ box'[i] = box[i + 1]
  BY <1>1, TailFacts
<1>3. \A i \in DOMAIN box' : box'[i].at <= ops
  BY <1>2 DEF Typed
<1> QED
  BY <1>1, <1>2, <1>3 DEF Frames, Datagram

LEMMA Still ==
    ASSUME Position, UNCHANGED <<op, busy, renewed, packet, out>>
    PROVE  Position'
  BY DEF Position, IsAsk, Lead, Packets

-----------------------------------------------------------------------------
(* Every step keeps the types and the positions *)

\* A function that begins has everything before it.
LEMMA Beginning ==
    ASSUME Typed, Begin
    PROVE  /\ Wellformed(op') /\ op'.own = own /\ op' # None /\ op' \in Ops
           /\ Typed' /\ Position'
<1>1. Wellformed(op') /\ op'.own = own /\ op' \in Ops
  <2>1. CASE own
    <3>1. PICK f \in DOMAIN OneShot : op' = OneShot[f]
      BY <2>1 DEF Begin
    <3> QED
      BY <2>1, <3>1, OneShotsWellformed DEF Typed, Ops, Range, Wellformed
  <2>2. CASE ~own
    <3>1. PICK f \in DOMAIN Session : op' = Session[f]
      BY <2>2 DEF Begin
    <3> QED
      BY <2>2, <3>1, MethodsWellformed DEF Typed, Ops, Range, Wellformed
  <2> QED
    BY <2>1, <2>2
<1>2. op' # None
  BY <1>1, NoneAssumption DEF Ops
<1>3. Typed'
  <2>1. left' = 0 /\ op'.more \in Nat
    BY <1>1 DEF Begin, Typed, Wellformed
  <2>2. ops' \in Nat /\ ops' <= (IF own' THEN 1 ELSE MaxOps)
    BY ExchangeAssumption DEF Begin, Typed
  <2>3. \A i \in DOMAIN box' : box'[i].at <= ops'
    <3>1. \A i \in DOMAIN box : box[i] \in Frames
      BY DEF Typed
    <3>2. \A i \in DOMAIN box : box[i].at \in Nat /\ box[i].at <= ops
      BY <3>1 DEF Frames, Typed
    <3>3. box' = box /\ ops' = ops + 1 /\ ops \in Nat
      BY DEF Begin, Typed
    <3> QED
      BY <3>2, <3>3
  <2>4. out' \in Seq(Taken)
    BY NoRequest DEF Begin
  <2>5. /\ busy' = TRUE /\ open /\ renewed' = FALSE /\ reached' = FALSE
        /\ UNCHANGED <<own, open, left, net, box, pushed, cache>>
    BY DEF Begin
  <2>6. left' \in 0 .. 1 + op'.more
    BY <2>1
  <2> QED
    BY <1>1, <1>2, <2>1, <2>2, <2>3, <2>4, <2>5, <2>6 DEF Typed
<1>4. Position'
  <2>1. Packets' = Sent(op', renewed')
    BY DEF Packets, Sent
  <2>2. /\ Len(Packets') \in Nat /\ Len(Packets') > 0
        /\ Len(Packets') - Len(op'.asks) \in Nat /\ Len(op'.asks) \in Nat
    BY <1>1, <2>1, SentShape
  <2>3. packet' = 1 /\ Len(out') = 0
    BY NoRequest DEF Begin
  <2> QED
    BY <2>2, <2>3 DEF Position, IsAsk, Lead
<1> QED
  BY <1>1, <1>2, <1>3, <1>4

LEMMA SendShape ==
    ASSUME Typed, Position, Send
    PROVE  Typed' /\ Position'
<1>1. op # None /\ Wellformed(op) /\ op.more \in Nat
  BY DEF Send, Typed, Wellformed
<1>2. net' \subseteq Datagrams
  BY RepliesTyped DEF Send, Typed
<1>3. box' \in Seq(Frames) /\ Len(box') <= MaxBox /\ \A i \in DOMAIN box' : box'[i].at <= ops
  BY NoRequest, ExchangeAssumption DEF Send, Typed, Cleared
<1>4. left' \in 0 .. 1 + op.more
  BY <1>1 DEF Send
<1>5. reached' \in BOOLEAN
  BY DEF Send
<1> QED
  BY <1>1, <1>2, <1>3, <1>4, <1>5, Still DEF Send, Typed

LEMMA ArriveShape ==
    ASSUME Typed, Position, Arrive
    PROVE  Typed' /\ Position'
<1>1. PICK p \in net : /\ net' = net \ {p}
                       /\ (Len(box) < MaxBox /\ Put(p)) \/ UNCHANGED box
                       /\ UNCHANGED <<own, open, ops, op, busy, renewed, packet, left, pushed, cache,
                                      reached, out>>
  BY DEF Arrive
<1>2. p \in Datagrams /\ net' \subseteq Datagrams
  BY <1>1 DEF Typed
<1>3. box' \in Seq(Frames) /\ Len(box') <= MaxBox /\ \A i \in DOMAIN box' : box'[i].at <= ops
  BY <1>1, <1>2, Putting DEF Typed
<1> QED
  BY <1>1, <1>2, <1>3, Still DEF Typed

LEMMA PushShape ==
    ASSUME Typed, Position, Push
    PROVE  Typed' /\ Position'
<1>1. PICK p \in Flow \cup Freq \cup Status \cup Plain("notice") : Put(p)
  BY DEF Push
<1>2. p \in Datagrams
  BY <1>1, AskedTyped DEF Text
<1>3. box' \in Seq(Frames) /\ Len(box') <= MaxBox /\ \A i \in DOMAIN box' : box'[i].at <= ops
  BY <1>1, <1>2, Putting DEF Push
<1>4. pushed' \in 0 .. MaxPush
  BY ExchangeAssumption DEF Push, Typed
<1> QED
  BY <1>3, <1>4, Still DEF Push, Typed

LEMMA TakeShakeShape ==
    ASSUME Typed, Position, TakeShake
    PROVE  Typed' /\ Position'
<1>1. /\ busy /\ box # <<>> /\ ~IsAsk /\ box' = Tail(box) /\ Onward
      /\ UNCHANGED <<own, open, ops, op, renewed, net, pushed, cache, reached, out>>
  BY DEF TakeShake
<1>2. Position' /\ left' = 0 /\ busy' \in BOOLEAN /\ op # None
  BY <1>1, Shaking DEF Typed
<1>3. box' \in Seq(Frames) /\ Len(box') <= MaxBox /\ \A i \in DOMAIN box' : box'[i].at <= ops
  BY <1>1, TakingOne
<1>4. left' \in 0 .. 1 + op.more
  BY <1>2 DEF Typed, Wellformed
<1> QED
  BY <1>1, <1>2, <1>3, <1>4 DEF Typed

\* Taking a datagram for a request, and settling it.
LEMMA SettlingShape ==
    ASSUME Typed, Position, busy, IsAsk, NEW got \in Frames \cup {None}, Settle(got),
           UNCHANGED <<own, ops, op, renewed, pushed>>, open' \in BOOLEAN, busy' => open',
           reached' \in BOOLEAN, net' \subseteq Datagrams,
           box' \in Seq(Frames) /\ Len(box') <= MaxBox, \A i \in DOMAIN box' : box'[i].at <= ops,
           cache' \in Datagrams \cup {None}
    PROVE  Typed' /\ Position'
<1>1. Position' /\ out' \in Seq(Taken) /\ left' = 0 /\ busy' \in BOOLEAN
  BY Settling
<1>2. op # None /\ left' \in 0 .. 1 + op.more
  BY <1>1 DEF Typed, Wellformed
<1> QED
  BY <1>1, <1>2 DEF Typed

LEMMA TakeRenewingShape ==
    ASSUME Typed, Position, TakeRenewing
    PROVE  Typed' /\ Position'
<1>1. /\ busy /\ IsAsk /\ op.renew /\ ~renewed /\ box' = <<>> /\ net' = {}
      /\ UNCHANGED <<own, ops, op, pushed, cache>>
  BY DEF TakeRenewing, Taking, Renews
<1>2. op # None /\ Wellformed(op) /\ out \in Seq(Taken) /\ Len(op.asks) = 1 /\ open
  BY <1>1 DEF Typed, Wellformed
<1>3. box' \in Seq(Frames) /\ Len(box') <= MaxBox /\ \A i \in DOMAIN box' : box'[i].at <= ops
  BY <1>1, NoRequest, ExchangeAssumption
<1>4. Len(out) = 0 /\ Len(out) < Len(op.asks)
  BY <1>1, <1>2, AskedNow
<1>5. CASE renewed' = TRUE /\ packet' = 1 /\ left' = 0 /\ reached' = FALSE /\ UNCHANGED <<open, busy, out>>
  <2>1. Packets' = Sent(op, TRUE)
    BY <1>1, <1>5 DEF Packets, Sent
  <2>2. Len(Packets') \in Nat /\ Len(Packets') > 0 /\ Len(Packets') - Len(op.asks) \in Nat
        /\ Len(Packets') - Len(op.asks) > 0
    BY <1>2, <2>1, SentShape
  <2>3. ~IsAsk' /\ packet' \in 1 .. Len(Packets')
    BY <1>1, <1>5, <2>2 DEF IsAsk
  <2>4. Position'
    BY <1>1, <1>2, <1>4, <1>5, <2>3 DEF Position
  <2>5. left' \in 0 .. 1 + op.more
    BY <1>2, <1>5 DEF Wellformed
  <2> QED
    BY <1>1, <1>2, <1>3, <1>5, <2>4, <2>5 DEF Typed
<1>6. CASE open' \in BOOLEAN /\ Settle(None) /\ UNCHANGED <<renewed, reached>>
  <2>1. (busy' => Len(out') < Len(op.asks)) /\ busy' \in BOOLEAN /\ Len(out') = 1
    <3>1. out' = Append(out, [ask |-> op.asks[Len(out) + 1], got |-> None])
          /\ (busy' => Len(out') < Len(op.asks)) /\ busy' \in BOOLEAN /\ out' \in Seq(Taken)
      BY <1>1, <1>6, Settling
    <3> QED
      BY <1>2, <1>4, <3>1
  <2>2. busy' = FALSE
    BY <1>2, <2>1
  <2>3. cache' \in Datagrams \cup {None} /\ reached' \in BOOLEAN
    BY <1>1, <1>6 DEF Typed
  <2> QED
    BY <1>1, <1>3, <1>6, <2>2, <2>3, SettlingShape
<1> QED
  BY <1>5, <1>6 DEF TakeRenewing

LEMMA TakeExpiredShape ==
    ASSUME Typed, Position, TakeExpired
    PROVE  Typed' /\ Position'
<1>1. /\ busy /\ IsAsk /\ box # <<>> /\ box' = Tail(box) /\ Settle(None)
      /\ UNCHANGED <<own, open, ops, op, renewed, net, pushed, cache, reached>>
  BY DEF TakeExpired, Taking
<1>2. box' \in Seq(Frames) /\ Len(box') <= MaxBox /\ \A i \in DOMAIN box' : box'[i].at <= ops
  BY <1>1, TakingOne
<1>3. open' \in BOOLEAN /\ open' /\ reached' \in BOOLEAN /\ net' \subseteq Datagrams
      /\ cache' \in Datagrams \cup {None}
  BY <1>1 DEF Typed
<1> QED
  BY <1>1, <1>2, <1>3, SettlingShape

LEMMA TakeAnswerShape ==
    ASSUME Typed, Position, TakeAnswer
    PROVE  Typed' /\ Position'
<1>1. /\ busy /\ IsAsk /\ box # <<>> /\ box' = Tail(box) /\ Settle(Head(box))
      /\ cache' \in {Datagram, cache}
      /\ UNCHANGED <<own, open, ops, op, renewed, net, pushed, reached>>
  BY DEF TakeAnswer, Taking
<1>2. /\ box' \in Seq(Frames) /\ Len(box') <= MaxBox /\ \A i \in DOMAIN box' : box'[i].at <= ops
      /\ Head(box) \in Frames /\ Datagram \in Datagrams
  BY <1>1, TakingOne
<1>3. open' \in BOOLEAN /\ open' /\ reached' \in BOOLEAN /\ net' \subseteq Datagrams
      /\ cache' \in Datagrams \cup {None}
  BY <1>1, <1>2 DEF Typed
<1> QED
  BY <1>1, <1>2, <1>3, SettlingShape

LEMMA TakeOtherShape ==
    ASSUME Typed, Position, TakeOther
    PROVE  Typed' /\ Position'
<1>1. /\ busy /\ IsAsk /\ box # <<>> /\ box' = Tail(box) /\ left > 0
      /\ cache' \in {Datagram, cache}
      /\ UNCHANGED <<own, open, ops, op, renewed, net, pushed, reached>>
  BY DEF TakeOther, Taking
<1>2. /\ box' \in Seq(Frames) /\ Len(box') <= MaxBox /\ \A i \in DOMAIN box' : box'[i].at <= ops
      /\ Datagram \in Datagrams
  BY <1>1, TakingOne
<1>3. open' \in BOOLEAN /\ open' /\ reached' \in BOOLEAN /\ net' \subseteq Datagrams
      /\ cache' \in Datagrams \cup {None}
  BY <1>1, <1>2 DEF Typed
<1>4. CASE Settle(None)
  BY <1>1, <1>2, <1>3, <1>4, SettlingShape
<1>5. CASE left' = left - 1 /\ UNCHANGED <<busy, packet, out>>
  <2>1. op # None /\ left' \in Nat /\ left' \in 0 .. 1 + op.more
    BY <1>1, <1>5 DEF Typed, Wellformed
  <2>2. Position'
    BY <1>1, <1>5, Still
  <2> QED
    BY <1>1, <1>2, <1>3, <1>5, <2>1, <2>2 DEF Typed
<1> QED
  BY <1>4, <1>5 DEF TakeOther

LEMMA SilentShape ==
    ASSUME Typed, Position, Silent
    PROVE  Typed' /\ Position'
<1>1. /\ busy /\ box = <<>> /\ UNCHANGED <<own, open, ops, op, renewed, net, box, pushed, cache, reached>>
  BY DEF Silent
<1>2. open' \in BOOLEAN /\ open' /\ reached' \in BOOLEAN /\ net' \subseteq Datagrams
      /\ cache' \in Datagrams \cup {None} /\ op # None /\ Wellformed(op)
      /\ box' \in Seq(Frames) /\ Len(box') <= MaxBox /\ \A i \in DOMAIN box' : box'[i].at <= ops
  BY <1>1 DEF Typed
<1>3. CASE IsAsk
  <2>1. Settle(None)
    BY <1>3 DEF Silent
  <2> QED
    BY <1>1, <1>2, <1>3, <2>1, SettlingShape
<1>4. CASE ~IsAsk
  <2>1. left' = 0 /\ busy' \in BOOLEAN /\ out' = out
    BY <1>4 DEF Silent, Onward, Typed
  <2>2. Position'
    <3>1. CASE GivesUp
      <4>1. busy' = FALSE /\ UNCHANGED <<packet, op, renewed, out>>
        BY <1>1, <1>4, <3>1 DEF Silent
      <4>2. Packets' = Packets
        BY <4>1 DEF Packets
      <4> QED
        BY <4>1, <4>2 DEF Position
    <3>2. CASE ~GivesUp
      <4>1. Onward
        BY <1>4, <3>2 DEF Silent
      <4> QED
        BY <1>1, <1>4, <2>1, <4>1, Shaking
    <3> QED
      BY <3>1, <3>2
  <2>3. left' \in 0 .. 1 + op.more
    BY <1>2, <2>1 DEF Wellformed
  <2> QED
    BY <1>1, <1>2, <2>1, <2>2, <2>3 DEF Typed
<1> QED
  BY <1>3, <1>4

LEMMA ShapeStep ==
    ASSUME Typed, Position, [Next]_vars
    PROVE  Typed' /\ Position'
<1>1. CASE UNCHANGED vars
  BY <1>1, Still DEF vars, Typed
<1> QED
  BY <1>1, Beginning, SendShape, ArriveShape, PushShape, TakeShakeShape, TakeRenewingShape,
     TakeExpiredShape, TakeAnswerShape, TakeOtherShape, SilentShape DEF Next, Step

-----------------------------------------------------------------------------
(* What a socket holds *)

LEMMA AloneKept ==
    ASSUME Alone, UNCHANGED <<own, ops, op>>, own => net' \subseteq net,
           own => \A i \in DOMAIN box' : \E j \in DOMAIN box : box'[i] = box[j],
           box = <<>> => box' = <<>>
    PROVE  Alone'
  BY DEF Alone

LEMMA AloneStep ==
    ASSUME Typed, Position, Alone, [Next]_vars
    PROVE  Alone'
<1>1. CASE Begin
  <2>1. own => op = None /\ net = {} /\ box = <<>> /\ ops = 0
    BY <1>1 DEF Alone, Begin, Typed
  <2>2. op' # None /\ UNCHANGED <<own, net, box>> /\ ops' = ops + 1
    BY <1>1, Beginning DEF Begin
  <2>3. own => \A i \in DOMAIN box' : FALSE
    BY <2>1, <2>2
  <2> QED
    BY <2>1, <2>2, <2>3 DEF Alone
<1>2. CASE Send
  <2>1. UNCHANGED <<own, ops, op>> /\ op # None /\ busy
    BY <1>2 DEF Send, Typed
  <2>2. own => net' \subseteq Private(op.asks)
    BY <1>2, <2>1, RepliesTyped DEF Send, Alone
  <2>3. own => \A i \in DOMAIN box' : box'[i].payload \in Private(op.asks)
    BY <1>2, <2>1, NoRequest DEF Send, Cleared, Alone
  <2> QED
    BY <2>1, <2>2, <2>3 DEF Alone
<1>3. CASE Arrive
  <2>1. PICK p \in net : /\ net' = net \ {p}
                         /\ (Len(box) < MaxBox /\ Put(p)) \/ UNCHANGED box
                         /\ UNCHANGED <<own, ops, op>>
    BY <1>3 DEF Arrive
  <2>2. p \in Datagrams /\ (own => op # None /\ p \in Private(op.asks))
    BY <2>1 DEF Alone, Typed
  <2>3. CASE UNCHANGED box
    BY <2>1, <2>3 DEF Alone
  <2>4. CASE Len(box) < MaxBox /\ Put(p)
    <3>1. \A i \in DOMAIN box' : (i \in DOMAIN box /\ box'[i] = box[i])
                                 \/ box'[i] = [payload |-> p, at |-> ops]
      BY <2>1, <2>2, <2>4, Putting
    <3>2. own => \A i \in DOMAIN box' : box'[i].payload \in Private(op.asks)
      BY <2>2, <3>1 DEF Alone
    <3> QED
      BY <2>1, <2>2, <3>2 DEF Alone
  <2> QED
    BY <2>1, <2>3, <2>4
<1>4. CASE Push
  <2>1. PICK p \in Flow \cup Freq \cup Status \cup Plain("notice") :
            Put(p) /\ (own => p \in Status \cup Plain("notice"))
    BY <1>4 DEF Push
  <2>2. p \in Datagrams /\ (own => op # None /\ p \in Private(op.asks))
    BY <1>4, <2>1, AskedTyped DEF Text, Private, Push, Typed
  <2>3. UNCHANGED <<own, ops, op, net>> /\ Len(box) < MaxBox
    BY <1>4 DEF Push
  <2>4. \A i \in DOMAIN box' : (i \in DOMAIN box /\ box'[i] = box[i])
                               \/ box'[i] = [payload |-> p, at |-> ops]
    BY <2>1, <2>2, <2>3, Putting
  <2>5. own => \A i \in DOMAIN box' : box'[i].payload \in Private(op.asks)
    BY <2>2, <2>4 DEF Alone
  <2> QED
    BY <2>2, <2>3, <2>5 DEF Alone
<1>5. CASE TakeShake \/ TakeExpired \/ TakeAnswer \/ TakeOther
  <2>1. box' = Tail(box) /\ box # <<>> /\ UNCHANGED <<own, ops, op, net>>
    BY <1>5 DEF TakeShake, TakeExpired, TakeAnswer, TakeOther, Taking
  <2>2. \A i \in DOMAIN box' : \E j \in DOMAIN box : box'[i] = box[j]
    BY <2>1, TakingOne
  <2> QED
    BY <2>1, <2>2, AloneKept
<1>6. CASE TakeRenewing
  <2>1. box' = <<>> /\ net' = {} /\ UNCHANGED <<own, ops, op>>
    BY <1>6 DEF TakeRenewing
  <2>2. \A i \in DOMAIN box' : \E j \in DOMAIN box : box'[i] = box[j]
    BY <2>1, NoRequest
  <2> QED
    BY <2>1, <2>2, AloneKept
<1>7. CASE Silent \/ UNCHANGED vars
  <2>1. UNCHANGED <<own, ops, op, net, box>>
    BY <1>7 DEF Silent, vars
  <2> QED
    BY <2>1 DEF Alone
<1> QED
  BY <1>1, <1>2, <1>3, <1>4, <1>5, <1>6, <1>7 DEF Next, Step

LEMMA FreshStep ==
    ASSUME Typed, Position, Fresh, [Next]_vars
    PROVE  Fresh'
<1>1. CASE left' = 0
  BY <1>1 DEF Fresh
<1>2. CASE left' # 0 /\ Send
  <2>1. UNCHANGED <<own, ops, op, busy, renewed, packet>> /\ busy /\ box' = Cleared
    BY <1>2 DEF Send
  <2>2. IsAsk' = IsAsk /\ Ask' = Ask
    BY <2>1 DEF IsAsk, Ask, Packets
  <2>3. ~own /\ IsAsk /\ Ask = "flow" => op.clear
    BY <2>1, AskedNow DEF Typed, Wellformed
  <2>4. ~own /\ IsAsk /\ Ask = "flow" => \A i \in DOMAIN box' : FALSE
    BY <2>1, <2>3, NoRequest DEF Cleared
  <2> QED
    BY <2>1, <2>2, <2>4 DEF Fresh
<1>3. CASE Arrive \/ Push
  <2>1. UNCHANGED <<own, ops, op, busy, renewed, packet, left>>
    BY <1>3 DEF Arrive, Push
  <2>2. IsAsk' = IsAsk /\ Ask' = Ask
    BY <2>1 DEF IsAsk, Ask, Packets
  <2>3. UNCHANGED box \/ \E p \in Datagrams : Len(box) < MaxBox /\ Put(p)
    <3>1. CASE Arrive
      BY <3>1 DEF Arrive, Typed
    <3>2. CASE Push
      <4>1. PICK p \in Flow \cup Freq \cup Status \cup Plain("notice") : Put(p)
        BY <3>2 DEF Push
      <4>2. p \in Datagrams
        BY <4>1, AskedTyped DEF Text
      <4> QED
        BY <3>2, <4>1, <4>2 DEF Push
    <3> QED
      BY <1>3, <3>1, <3>2
  <2>4. CASE UNCHANGED box
    BY <2>1, <2>2, <2>4 DEF Fresh
  <2>5. CASE \E p \in Datagrams : Len(box) < MaxBox /\ Put(p)
    <3>1. PICK p \in Datagrams : Len(box) < MaxBox /\ Put(p)
      BY <2>5
    <3>2. \A i \in DOMAIN box' : (i \in DOMAIN box /\ box'[i] = box[i])
                                 \/ box'[i] = [payload |-> p, at |-> ops]
      BY <2>1, <3>1, Putting
    <3> QED
      BY <2>1, <2>2, <3>2 DEF Fresh
  <2> QED
    BY <2>3, <2>4, <2>5
<1>4. CASE left' # 0 /\ TakeOther
  <2>1. /\ UNCHANGED <<own, ops, op, busy, renewed, packet>> /\ busy /\ left > 0 /\ IsAsk
        /\ box' = Tail(box) /\ box # <<>>
    BY <1>4 DEF TakeOther, Taking, Settle, Onward
  <2>2. IsAsk' = IsAsk /\ Ask' = Ask
    BY <2>1 DEF IsAsk, Ask, Packets
  <2>3. \A i \in DOMAIN box' : i + 1 \in DOMAIN box /\ box'[i] = box[i + 1]
    BY <2>1, TakingOne
  <2> QED
    BY <2>1, <2>2, <2>3 DEF Fresh
<1>5. CASE UNCHANGED vars
  BY <1>5 DEF vars, Fresh, IsAsk, Ask, Packets
<1>6. Begin => left' = 0
  BY DEF Begin, Typed
<1>7. TakeShake \/ TakeRenewing \/ TakeExpired \/ TakeAnswer \/ Silent => left' = 0
  BY DEF TakeShake, TakeRenewing, TakeExpired, TakeAnswer, Silent, Settle, Onward
<1> QED
  BY <1>1, <1>2, <1>3, <1>4, <1>5, <1>6, <1>7 DEF Next, Step

LEMMA FlowSettling ==
    ASSUME Typed, Position, FlowFresh, busy, IsAsk, NEW got \in Frames \cup {None}, Settle(got),
           UNCHANGED <<own, ops, op, renewed>>,
           ~own /\ Ask = "flow" /\ got # None => got.at = ops
    PROVE  FlowFresh'
<1> DEFINE e == [ask |-> Ask, got |-> got]
<1>1. e \in Taken /\ out \in Seq(Taken) /\ e.ask = Ask /\ e.got = got
  BY AskedNow DEF Taken, Typed
<1>2. out' = Append(out, e)
  BY DEF Settle
<1> HIDE DEF e
<1>3. \A i \in DOMAIN out' : (i \in DOMAIN out /\ out'[i] = out[i]) \/ out'[i] = e
  BY <1>1, <1>2, AppendFacts
<1> QED
  BY <1>1, <1>3 DEF FlowFresh

LEMMA FlowFreshStep ==
    ASSUME Typed, Position, Fresh, FlowFresh, [Next]_vars
    PROVE  FlowFresh'
<1>1. CASE Begin
  BY <1>1, NoRequest DEF Begin, FlowFresh
<1>2. CASE UNCHANGED <<own, ops, out>>
  BY <1>2 DEF FlowFresh
<1>3. CASE TakeAnswer
  <2>1. /\ busy /\ IsAsk /\ left > 0 /\ box # <<>> /\ Settle(Head(box)) /\ box' = Tail(box)
        /\ UNCHANGED <<own, ops, op, renewed>>
    BY <1>3 DEF TakeAnswer, Taking
  <2>2. Head(box) \in Frames /\ 1 \in DOMAIN box /\ Head(box) = box[1]
    BY <2>1, TakingOne
  <2>3. ~own /\ Ask = "flow" => Head(box).at = ops
    BY <2>1, <2>2 DEF Fresh
  <2> QED
    BY <2>1, <2>2, <2>3, FlowSettling
<1>4. CASE TakeExpired \/ TakeRenewing \/ TakeOther \/ Silent
  <2>1. UNCHANGED <<own, ops, op>> /\ busy
    BY <1>4 DEF TakeExpired, TakeRenewing, TakeOther, Silent, Taking
  <2>2. UNCHANGED out \/ (IsAsk /\ Settle(None) /\ UNCHANGED renewed)
    <3>1. CASE TakeExpired
      BY <3>1 DEF TakeExpired, Taking
    <3>2. CASE TakeOther
      BY <3>2 DEF TakeOther, Taking
    <3>3. CASE TakeRenewing
      BY <3>3 DEF TakeRenewing, Taking
    <3>4. CASE Silent
      BY <3>4 DEF Silent
    <3> QED
      BY <1>4, <3>1, <3>2, <3>3, <3>4
  <2> QED
    BY <1>2, <2>1, <2>2, FlowSettling
<1> QED
  BY <1>1, <1>2, <1>3, <1>4 DEF Next, Step, Send, Arrive, Push, TakeShake, vars

\* A function that insists on answers has one request, a command, on a private socket.
LEMMA StrictOps ==
    ASSUME Typed, Position, op # None, op.strict
    PROVE  /\ own /\ Len(op.asks) = 1
           /\ busy => out = <<>>
           /\ busy /\ IsAsk => Ask = "set"
<1>1. own /\ op.asks = <<"set">> /\ Wellformed(op) /\ out \in Seq(Taken)
  BY DEF Typed, Wellformed
<1>2. Len(op.asks) = 1 /\ op.asks[1] = "set"
  BY <1>1, OneRequest
<1>3. CASE busy /\ IsAsk
  <2>1. Len(out) < 1 /\ Len(out) \in Nat /\ Ask = op.asks[Len(out) + 1]
    BY <1>2, <1>3, AskedNow
  <2>2. Len(out) = 0
    BY <2>1
  <2> QED
    BY <1>1, <1>2, <2>1, <2>2
<1>4. CASE busy /\ ~IsAsk
  BY <1>1, <1>2, <1>4 DEF Position
<1> QED
  BY <1>1, <1>2, <1>3, <1>4

LEMMA InsistsStep ==
    ASSUME Typed, Position, Alone, Insists, [Next]_vars
    PROVE  Insists'
<1>1. CASE Begin
  <2>1. own => net = {} /\ box = <<>>
    BY <1>1 DEF Alone, Begin, Typed
  <2>2. left' = 0 /\ out' = <<>> /\ UNCHANGED <<net, box>>
    BY <1>1 DEF Begin, Typed
  <2>3. op'.strict => own
    BY <1>1, Beginning DEF Wellformed
  <2> QED
    BY <2>1, <2>2, <2>3 DEF Insists
<1>2. CASE ~Begin /\ op # None /\ op.strict
  <2>1. op' = op /\ own /\ Len(op.asks) = 1 /\ (busy => out = <<>>) /\ (busy /\ IsAsk => Ask = "set")
    BY <1>2, StrictOps DEF Next, Step, Send, Arrive, Push, TakeShake, TakeRenewing, TakeExpired,
       TakeAnswer, TakeOther, Silent, vars
  <2>2. CASE Send
    <3>1. /\ busy /\ net = {} /\ box = <<>> /\ out = <<>>
          /\ UNCHANGED <<busy, renewed, packet, out>> /\ left' > 0
      BY <1>2, <2>1, <2>2 DEF Send, Insists, Typed, Wellformed
    <3>2. box' = <<>>
      BY <2>2, <3>1 DEF Send, Cleared
    <3>3. IsAsk' = IsAsk
      BY <2>1, <3>1 DEF IsAsk, Packets
    <3>4. net' = {} \/ (reached' /\ \E answer \in Replies : net' = answer)
      BY <2>2, <3>1 DEF Send
    <3>5. ~IsAsk => \A answer \in Replies : \E a \in Datagrams : answer = {a}
      BY <2>1, AskedTyped DEF Replies, Text
    <3>6. ~IsAsk => net' = {} \/ \E a \in Datagrams : net' = {a}
      BY <3>4, <3>5
    <3>7. Len(box') <= 1
      BY <3>2, NoRequest
    <3> QED
      BY <2>1, <3>1, <3>2, <3>3, <3>4, <3>6, <3>7 DEF Insists
  <2>3. CASE Arrive
    <3>1. PICK p \in net : /\ net' = net \ {p}
                           /\ (Len(box) < MaxBox /\ Put(p)) \/ UNCHANGED box
                           /\ UNCHANGED <<own, open, ops, op, busy, renewed, packet, left, reached, out>>
      BY <2>3 DEF Arrive
    <3>2. IsAsk' = IsAsk
      BY <3>1 DEF IsAsk, Packets
    <3>3. busy => left > 0
      BY <1>2, <3>1 DEF Insists, Typed
    <3>4. CASE busy /\ ~IsAsk
      <4>1. box = <<>> /\ net' = {}
        BY <1>2, <3>1, <3>3, <3>4 DEF Insists
      <4>2. Len(box') <= 1
        <5>1. Len(box) = 0
          BY <4>1
        <5>2. p \in Datagrams
          BY <3>1 DEF Typed
        <5>3. CASE UNCHANGED box
          BY <5>1, <5>3
        <5>4. CASE Len(box) < MaxBox /\ Put(p)
          BY <3>1, <5>1, <5>2, <5>4, Putting
        <5> QED
          BY <3>1, <5>3, <5>4
      <4> QED
        BY <1>2, <3>1, <3>2, <3>3, <3>4, <4>1, <4>2 DEF Insists
    <3>5. CASE busy /\ IsAsk
      <4>1. reached
        BY <1>2, <3>1, <3>3, <3>5 DEF Insists
      <4> QED
        BY <1>2, <3>1, <3>2, <3>3, <3>5, <4>1 DEF Insists
    <3>6. CASE ~busy
      BY <1>2, <3>1, <3>6 DEF Insists
    <3> QED
      BY <3>4, <3>5, <3>6
  <2>4. CASE Push
    BY <2>1, <2>4 DEF Push
  <2>5. CASE TakeShake
    <3>1. /\ busy /\ ~IsAsk /\ left > 0 /\ box # <<>> /\ box' = Tail(box) /\ Onward
          /\ UNCHANGED <<ops, op, renewed, net, out>>
      BY <2>5 DEF TakeShake
    <3>2. net = {} /\ Len(box) <= 1
      BY <1>2, <3>1 DEF Insists
    <3>3. box' = <<>>
      <4>1. Len(box') = Len(box) - 1 /\ box' \in Seq(Frames) /\ Len(box) \in Nat /\ Len(box') \in Nat
        BY <3>1, TakingOne DEF Typed
      <4> QED
        BY <3>2, <4>1
    <3>4. left' = 0 /\ out' = <<>>
      BY <2>1, <3>1 DEF Onward
    <3> QED
      BY <3>1, <3>2, <3>3, <3>4 DEF Insists
  <2>6. CASE TakeRenewing \/ TakeExpired
    BY <2>1, <2>6 DEF TakeRenewing, TakeExpired, Renews, Expired
  <2>7. CASE TakeOther
    BY <2>1, <2>7 DEF TakeOther, Taking, Answers
  <2>8. CASE TakeAnswer
    <3>1. /\ busy /\ IsAsk /\ left > 0 /\ box # <<>> /\ Settle(Head(box)) /\ box' = Tail(box)
          /\ UNCHANGED <<own, ops, op, renewed, reached>>
      BY <2>8 DEF TakeAnswer, Taking
    <3>2. reached'
      BY <1>2, <3>1 DEF Insists
    <3>3. Head(box) \in Frames
      BY <3>1, TakingOne
    <3>4. ~busy'
      <4>1. out' = Append(out, [ask |-> op.asks[Len(out) + 1], got |-> Head(box)]) /\ out' \in Seq(Taken)
            /\ (busy' => Len(out') < Len(op.asks))
        BY <3>1, <3>3, Settling
      <4> QED
        BY <2>1, <3>1, <4>1
    <3> QED
      BY <3>1, <3>2, <3>4 DEF Insists
  <2>9. CASE Silent
    <3>1. busy /\ UNCHANGED <<own, ops, op, renewed, reached>>
      BY <2>9 DEF Silent
    <3>2. CASE IsAsk
      <4>1. Settle(None)
        BY <2>9, <3>2 DEF Silent
      <4>2. out' = Append(out, [ask |-> op.asks[Len(out) + 1], got |-> None]) /\ out' \in Seq(Taken)
            /\ (busy' => Len(out') < Len(op.asks))
        BY <3>1, <3>2, <4>1, Settling
      <4>3. ~busy' /\ out'[1].got = None
        BY <2>1, <3>1, <4>2
      <4> QED
        BY <4>3 DEF Insists
    <3>3. CASE ~IsAsk
      <4>1. busy' = FALSE /\ out' = <<>>
        BY <1>2, <2>1, <2>9, <3>1, <3>3 DEF Silent, GivesUp
      <4> QED
        BY <4>1 DEF Insists
    <3> QED
      BY <3>2, <3>3
  <2>10. CASE UNCHANGED vars
    BY <2>10 DEF vars, Insists, IsAsk, Packets
  <2> QED
    BY <1>2, <2>2, <2>3, <2>4, <2>5, <2>6, <2>7, <2>8, <2>9, <2>10 DEF Next, Step
<1>3. CASE ~Begin /\ ~(op # None /\ op.strict)
  <2>1. op' = op
    BY <1>3 DEF Next, Step, Send, Arrive, Push, TakeShake, TakeRenewing, TakeExpired,
       TakeAnswer, TakeOther, Silent, vars
  <2> QED
    BY <1>3, <2>1 DEF Insists
<1> QED
  BY <1>1, <1>2, <1>3

-----------------------------------------------------------------------------
(* The theorems *)

LEMMA InitInv == Init => IInv
<1> SUFFICES ASSUME Init PROVE IInv
  OBVIOUS
<1>1. Typed
  <2>1. /\ own \in BOOLEAN /\ open = TRUE /\ busy = FALSE /\ renewed = FALSE /\ reached = FALSE
        /\ ops = 0 /\ op = None /\ left = 0 /\ net = {} /\ box = <<>> /\ pushed = 0
        /\ cache = None /\ out = <<>>
    BY DEF Init
  <2>2. ops \in Nat /\ ops <= (IF own THEN 1 ELSE MaxOps) /\ pushed \in 0 .. MaxPush
    BY <2>1, ExchangeAssumption
  <2>3. /\ box \in Seq(Frames) /\ Len(box) <= MaxBox /\ out \in Seq(Taken)
        /\ \A i \in DOMAIN box : box[i].at <= ops
    BY <2>1, NoRequest, ExchangeAssumption
  <2> QED
    BY <2>1, <2>2, <2>3 DEF Typed
<1>2. Position /\ Alone /\ Fresh /\ Insists
  BY NoRequest DEF Init, Position, Alone, Fresh, Insists
<1>3. FlowFresh
  BY NoRequest DEF Init, FlowFresh
<1> QED
  BY <1>1, <1>2, <1>3 DEF IInv

LEMMA StepInv == IInv /\ [Next]_vars => IInv'
  BY ShapeStep, AloneStep, FreshStep, FlowFreshStep, InsistsStep DEF IInv

LEMMA Invariance == Spec => []IInv
  BY InitInv, StepInv, PTL DEF Spec

LEMMA TypesKept ==
    ASSUME IInv
    PROVE  TypeOK
<1>1. {own, open, busy, renewed} \subseteq BOOLEAN
  BY DEF IInv, Typed
<1>2. ops \in 0 .. MaxOps + 1 /\ pushed \in 0 .. MaxPush
  BY ExchangeAssumption DEF IInv, Typed
<1>3. op # None => packet \in DOMAIN Packets /\ left \in 0 .. 1 + op.more
  <2> SUFFICES ASSUME op # None PROVE packet \in DOMAIN Packets /\ left \in 0 .. 1 + op.more
    OBVIOUS
  <2>1. op.shake \in Seq(Names \cup Requests) /\ op.asks \in Seq(Names \cup Requests)
    BY DEF IInv, Typed, Wellformed
  <2>2. Packets \in Seq(Names \cup Requests)
    BY <2>1 DEF Packets
  <2>3. packet \in 1 .. Len(Packets) /\ left \in 0 .. 1 + op.more
    BY DEF IInv, Typed, Position
  <2> QED
    BY <2>2, <2>3
<1>4. /\ net \subseteq Datagrams /\ Len(box) <= MaxBox /\ cache \in Datagrams \cup {None}
      /\ op # None => Len(out) <= Len(op.asks)
  BY DEF IInv, Typed, Position
<1>5. \A i \in DOMAIN box : box[i].payload \in Datagrams /\ box[i].at \in 0 .. ops
  <2>1. \A i \in DOMAIN box : box[i] \in Frames /\ box[i].at <= ops
    BY DEF IInv, Typed
  <2>2. ops \in Nat
    BY DEF IInv, Typed
  <2> QED
    BY <2>1, <2>2 DEF Frames
<1> QED
  BY <1>1, <1>2, <1>3, <1>4, <1>5 DEF TypeOK

\* The types hold in every state.
THEOREM TypeCorrect == Spec => []TypeOK
<1>1. IInv => TypeOK
  BY TypesKept
<1> QED
  BY <1>1, Invariance, PTL

\* A power flow that a session's method returns was received after the method
\* had begun: what the relay sent in between reads is not taken for it.
THEOREM FlowsAreFresh == Spec => []FlowFresh
<1>1. IInv => FlowFresh
  BY DEF IInv
<1> QED
  BY <1>1, Invariance, PTL

\* A command that insists on the handshake's answers, and is reported as
\* acknowledged, has reached the relay.
THEOREM StrictIsReal == Spec => []StrictReal
<1>1. IInv => StrictReal
  BY DEF IInv, Insists, StrictReal, Acknowledged
<1> QED
  BY <1>1, Invariance, PTL

-----------------------------------------------------------------------------
(* Refinement: what the functions report is what RequestReply promises *)

Reported(o) == [i \in DOMAIN o |-> IF o[i].got = None THEN None ELSE o[i].got.payload]

LEMMA ReportedEmpty == Reported(<<>>) = <<>>
  BY NoRequest DEF Reported

LEMMA ReportedAppend ==
    ASSUME NEW o \in Seq(Taken), NEW e \in Taken
    PROVE  /\ Reported(Append(o, e)) = Append(Reported(o), IF e.got = None THEN None ELSE e.got.payload)
           /\ Len(Reported(o)) = Len(o) /\ Reported(o) \in Seq(Datagrams \cup {None})
<1> DEFINE S == Datagrams \cup {None}
           G(x) == IF x.got = None THEN None ELSE x.got.payload
<1>1. \A x \in Taken : G(x) \in S
  BY DEF Taken, Frames
<1>2. \A s \in Seq(Taken) : Reported(s) \in Seq(S) /\ Len(Reported(s)) = Len(s)
                            /\ \A i \in 1 .. Len(s) : Reported(s)[i] = G(s[i])
  <2> SUFFICES ASSUME NEW s \in Seq(Taken)
               PROVE  Reported(s) \in Seq(S) /\ Len(Reported(s)) = Len(s)
                      /\ \A i \in 1 .. Len(s) : Reported(s)[i] = G(s[i])
    OBVIOUS
  <2>1. Reported(s) = [i \in 1 .. Len(s) |-> G(s[i])] /\ Len(s) \in Nat
    BY DEF Reported
  <2>2. \A i \in 1 .. Len(s) : G(s[i]) \in S
    BY <1>1
  <2> HIDE DEF G, S
  <2> QED
    BY <2>1, <2>2
<1> HIDE DEF S, G
<1>3. /\ Append(o, e) \in Seq(Taken) /\ Len(Append(o, e)) = Len(o) + 1 /\ Len(o) \in Nat
      /\ \A i \in 1 .. Len(o) : Append(o, e)[i] = o[i]
      /\ Append(o, e)[Len(o) + 1] = e
  BY AppendFacts
<1>4. /\ Reported(Append(o, e)) \in Seq(S) /\ Len(Reported(Append(o, e))) = Len(o) + 1
      /\ \A i \in 1 .. Len(o) : Reported(Append(o, e))[i] = G(o[i])
      /\ Reported(Append(o, e))[Len(o) + 1] = G(e)
  <2>1. \A i \in 1 .. Len(o) + 1 : Reported(Append(o, e))[i] = G(Append(o, e)[i])
    BY <1>2, <1>3
  <2>2. \A i \in 1 .. Len(o) : i \in 1 .. Len(o) + 1
    BY <1>3
  <2>3. Len(o) + 1 \in 1 .. Len(o) + 1
    BY <1>3
  <2>4. \A i \in 1 .. Len(o) : Reported(Append(o, e))[i] = G(o[i])
    BY <1>3, <2>1, <2>2
  <2> QED
    BY <1>2, <1>3, <2>1, <2>3, <2>4
<1>5. /\ Append(Reported(o), G(e)) \in Seq(S) /\ Len(Append(Reported(o), G(e))) = Len(o) + 1
      /\ \A i \in 1 .. Len(o) : Append(Reported(o), G(e))[i] = G(o[i])
      /\ Append(Reported(o), G(e))[Len(o) + 1] = G(e)
  <2>1. Reported(o) \in Seq(S) /\ Len(Reported(o)) = Len(o) /\ G(e) \in S
    BY <1>1, <1>2
  <2>2. DOMAIN Reported(o) = 1 .. Len(o)
    BY <2>1
  <2> QED
    BY <1>2, <2>1, <2>2, AppendFacts
<1>6. Reported(Append(o, e)) = Append(Reported(o), G(e))
  <2>1. \A i \in 1 .. Len(o) + 1 : Reported(Append(o, e))[i] = Append(Reported(o), G(e))[i]
    <3>1. \A i \in 1 .. Len(o) + 1 : i \in 1 .. Len(o) \/ i = Len(o) + 1
      BY <1>3
    <3> QED
      BY <1>4, <1>5, <3>1
  <2> QED
    BY <1>4, <1>5, <2>1, SeqEqual
<1> QED
  BY <1>2, <1>6 DEF S, G

\* An answer that is taken is one the request may have.
LEMMA AnswerPromised ==
    ASSUME Typed, Position, Alone, TakeAnswer
    PROVE  Datagram \in Promised(own, Ask)
<1>1. /\ busy /\ IsAsk /\ box # <<>> /\ box' = Tail(box) /\ ops' = ops /\ Answers(Ask, Datagram)
  BY DEF TakeAnswer, Taking
<1>2. Datagram \in Datagrams /\ Head(box) = box[1] /\ 1 \in DOMAIN box
  BY <1>1, TakingOne
<1>3. CASE Ask \notin Recognised(own)
  BY <1>2, <1>3 DEF Promised
<1>4. CASE Ask \in Recognised(FALSE)
  <2>1. Datagram \in Asked(Ask)
    BY <1>1, <1>2, <1>4, RecognisedOnSession
  <2> QED
    BY <1>4, <2>1 DEF Promised, Recognised
<1>5. CASE own /\ Ask \in {"sell", "vpp", "ev"}
  <2>1. op.asks = <<Ask>> /\ op # None
    <3>1. Ask = op.asks[Len(out) + 1] /\ Len(out) + 1 \in DOMAIN op.asks
      BY <1>1, AskedNow
    <3> QED
      BY <1>1, <1>5, <3>1 DEF Typed, Wellformed
  <2>2. Datagram \in Private(<<Ask>>)
    BY <1>2, <1>5, <2>1 DEF Alone, Datagram
  <2>3. Datagram \in Asked(Ask)
    BY <1>1, <1>5, <2>2, RecognisedAlone
  <2> QED
    BY <1>5, <2>3 DEF Promised, Recognised
<1> QED
  BY <1>3, <1>4, <1>5 DEF Typed, Recognised

\* Settling a request here settles it there.
LEMMA SettlesAbstractly ==
    ASSUME Typed, Position, busy, IsAsk, NEW got \in Frames \cup {None}, Settle(got),
           UNCHANGED <<own, op, renewed>>, open' \in {open, FALSE},
           got # None => open' = open /\ got.payload \in Promised(own, Ask)
    PROVE  Abstract!Settle
<1> DEFINE r == IF got = None THEN None ELSE got.payload
           e == [ask |-> Ask, got |-> got]
<1>1. op # None /\ op.asks \in Seq(Requests) /\ out \in Seq(Taken) /\ e \in Taken
  BY AskedNow DEF Typed, Wellformed, Taken
<1>2. /\ out' = Append(out, e) /\ Ask = op.asks[Len(out) + 1] /\ Len(out) < Len(op.asks)
      /\ busy' = (Len(out') < Len(op.asks)) /\ out' \in Seq(Taken)
  BY AskedNow, Settling
<1>3. r \in Promised(own, op.asks[Len(out) + 1]) \cup {None} /\ (r # None => open' = open)
  BY <1>2
<1>4. e.got = got
  OBVIOUS
<1> HIDE DEF e
<1>5. Reported(out') = Append(Reported(out), r) /\ Len(Reported(out)) = Len(out)
  BY <1>1, <1>2, <1>4, ReportedAppend
<1>6. Len(Reported(out')) = Len(out')
  BY <1>1, <1>2, ReportedAppend
<1> HIDE DEF r
<1>7. /\ busy /\ Len(Reported(out)) < Len(op.asks)
      /\ r \in Promised(own, op.asks[Len(Reported(out)) + 1]) \cup {None}
      /\ Reported(out') = Append(Reported(out), r)
      /\ busy' = (Len(Reported(out')) < Len(op.asks))
  BY <1>2, <1>3, <1>5, <1>6
<1> QED
  BY <1>1, <1>3, <1>7 DEF Abstract!Settle, Reported

\* A function that ends with its handshake has reported nothing.
LEMMA EndsAbstractly ==
    ASSUME busy, out = <<>>, busy' = FALSE, UNCHANGED <<own, open, op, out>>
    PROVE  Abstract!End
  BY ReportedEmpty DEF Abstract!End, Reported

LEMMA AbstractInit == Init => Abstract!Init
  BY ReportedEmpty DEF Init, Abstract!Init, Reported

LEMMA AbstractStep ==
    ASSUME Typed, Position, Alone, [Next]_vars
    PROVE  [Abstract!Next]_(Abstract!vars)
<1>1. CASE Begin
  <2>1. op' \in Ops /\ op' # None /\ ~busy /\ open /\ busy' = TRUE /\ out' = <<>> /\ UNCHANGED <<own, open>>
    BY <1>1, Beginning DEF Begin
  <2>2. op'.asks \in {f.asks : f \in Range(OneShot) \cup Range(Session)}
    BY <2>1 DEF Ops
  <2>3. Abstract!Begin
    BY <2>1, <2>2, ReportedEmpty DEF Abstract!Begin, Reported
  <2> QED
    BY <2>3 DEF Abstract!Next
<1>2. CASE UNCHANGED <<own, open, busy, op, out>>
  BY <1>2 DEF Abstract!vars
<1>3. CASE TakeShake
  <2>1. /\ busy /\ ~IsAsk /\ Onward /\ UNCHANGED <<own, open, op, renewed, out>>
    BY <1>3 DEF TakeShake
  <2>2. out = <<>> /\ busy' \in {FALSE, busy}
    BY <2>1, Shaking DEF Onward
  <2>3. CASE busy' = busy
    BY <1>2, <2>1, <2>3
  <2>4. CASE busy' = FALSE
    BY <2>1, <2>2, <2>4, EndsAbstractly DEF Abstract!Next
  <2> QED
    BY <2>2, <2>3, <2>4
<1>4. CASE TakeRenewing
  <2>1. busy /\ IsAsk /\ UNCHANGED <<own, op>> /\ open = TRUE
    BY <1>4 DEF TakeRenewing, Taking, Typed
  <2>2. CASE UNCHANGED <<open, busy, out>>
    BY <1>2, <2>1, <2>2
  <2>3. CASE open' \in BOOLEAN /\ Settle(None) /\ UNCHANGED renewed
    BY <2>1, <2>3, SettlesAbstractly DEF Abstract!Next
  <2> QED
    BY <1>4, <2>2, <2>3 DEF TakeRenewing
<1>5. CASE TakeExpired
  <2>1. busy /\ IsAsk /\ UNCHANGED <<own, open, op, renewed>> /\ Settle(None)
    BY <1>5 DEF TakeExpired, Taking
  <2> QED
    BY <2>1, SettlesAbstractly DEF Abstract!Next
<1>6. CASE TakeAnswer
  <2>1. /\ busy /\ IsAsk /\ box # <<>> /\ box' = Tail(box) /\ Settle(Head(box))
        /\ UNCHANGED <<own, open, ops, op, renewed>>
    BY <1>6 DEF TakeAnswer, Taking
  <2>2. Head(box) \in Frames /\ Head(box).payload \in Promised(own, Ask)
    BY <1>6, <2>1, TakingOne, AnswerPromised DEF Datagram
  <2> QED
    BY <2>1, <2>2, SettlesAbstractly DEF Abstract!Next
<1>7. CASE TakeOther
  <2>1. busy /\ IsAsk /\ UNCHANGED <<own, open, op, renewed>>
    BY <1>7 DEF TakeOther, Taking
  <2>2. CASE UNCHANGED <<busy, out>>
    BY <1>2, <2>1, <2>2
  <2>3. CASE Settle(None)
    BY <2>1, <2>3, SettlesAbstractly DEF Abstract!Next
  <2> QED
    BY <1>7, <2>2, <2>3 DEF TakeOther
<1>8. CASE Silent
  <2>1. busy /\ UNCHANGED <<own, open, op, renewed>>
    BY <1>8 DEF Silent
  <2>2. CASE IsAsk
    <3>1. Settle(None)
      BY <1>8, <2>2 DEF Silent
    <3> QED
      BY <2>1, <2>2, <3>1, SettlesAbstractly DEF Abstract!Next
  <2>3. CASE ~IsAsk
    <3>1. UNCHANGED out /\ busy' \in {FALSE, busy}
      BY <1>8, <2>3 DEF Silent, Onward
    <3>2. out = <<>>
      <4>1. Len(out) = 0 /\ out \in Seq(Taken)
        BY <2>1, <2>3 DEF Typed, Position
      <4> QED
        BY <4>1
    <3>3. CASE busy' = busy
      BY <1>2, <2>1, <3>1, <3>3
    <3>4. CASE busy' = FALSE
      BY <2>1, <3>1, <3>2, <3>4, EndsAbstractly DEF Abstract!Next
    <3> QED
      BY <3>1, <3>3, <3>4
  <2> QED
    BY <2>2, <2>3
<1>9. Send \/ Arrive \/ Push \/ UNCHANGED vars => UNCHANGED <<own, open, busy, op, out>>
  BY DEF Send, Arrive, Push, vars
<1> QED
  BY <1>1, <1>2, <1>3, <1>4, <1>5, <1>6, <1>7, <1>8, <1>9 DEF Next, Step

\* Every step of a function is one RequestReply allows, or none of its own: the
\* requests are settled in order and once each, a recognised one with its own
\* answer or with none.
THEOREM AnswersAreTheirs == Spec => Abstract!Init /\ [][Abstract!Next]_(Abstract!vars)
<1>1. IInv /\ [Next]_vars => [Abstract!Next]_(Abstract!vars)
  BY AbstractStep DEF IInv
<1>2. Init => Abstract!Init
  BY AbstractInit
<1> QED
  BY <1>1, <1>2, Invariance, PTL DEF Spec

=============================================================================
