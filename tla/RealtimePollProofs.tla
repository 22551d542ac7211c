------------------------- MODULE RealtimePollProofs -------------------------
(***************************************************************************)
(* Theorems about the update of the realtime coordinator: its loop         *)
(* (RealtimePoll), for every tolerance, every ladder of resets and every   *)
(* order of answers, silence, errors and keepalives; and about what the    *)
(* same update asks of the device besides: its settings (DeviceSettings),  *)
(* for any callers, settings and order of the poll, and its battery        *)
(* modules (BatteryScan), for any tiers, cabinets and moves.               *)
(***************************************************************************)
EXTENDS RealtimePoll, DeviceSettings, BatteryScan, SequenceTheorems, FiniteSetTheorems, TLAPS

-----------------------------------------------------------------------------
(* The inductive invariant *)

\* The full resets that are counted towards the fallback stay below it until it
\* comes, and all of them came since the last data.
Earned ==
    /\ ~c.legacy => c.resets < LegacyResets
    /\ c.resets <= past.full

\* In stream mode a session, or having given one up, means that the storm holder
\* has been asked for: the ladder that counts is the home's.
Seeded == stream /\ (session = "open" \/ c.legacy) => c.seeded

\* The count of empty reads started no earlier than the last full reset; a probe
\* is awaited for a read that exhausted the tolerance of poll mode.
Tallied ==
    /\ at = "idle" => c.empty <= past.since
    /\ at = "probe" => ~stream /\ c.empty >= MaxEmpty /\ c.empty <= past.since + 1

\* The polls reported as a success before the first data: an error ends a run of
\* empty reads, and only a stream reset lets one run end without an error.
Potential ==
    IF c.first THEN past.quiet = 0
    ELSE /\ past.quiet <= c.errors * MaxEmpty + c.empty + 1
         /\ c.empty >= MaxEmpty \/ c.errors >= MaxEmpty => past.quiet = 0

Inv == TypeOK /\ Earned /\ Seeded /\ Tallied /\ (stream => Potential)

\* What the two action properties say of one step.
Steady ==
    /\ c'.legacy /\ ~c.legacy => past'.full >= LegacyResets
    /\ past'.since = 0 /\ past.since > 0
         => past.since + 1 >= IF stream THEN Ladder[rung + 1] ELSE MaxEmpty

-----------------------------------------------------------------------------
(* Lemmas about the operators *)

LEMMA Bounds ==
    /\ MaxEmpty \in Nat \ {0} /\ LegacyResets \in Nat \ {0} /\ MaxDeferrals \in Nat \ {0}
    /\ PollResets \in Nat \ {0} /\ Undecryptable \in Nat \ {0} /\ MaxHistory \in Nat
    /\ MaxEmpty < MaxHistory
    /\ Len(Ladder) \in Nat \ {0}
    /\ \A r \in Rungs : Ladder[r + 1] \in Nat /\ Ladder[r + 1] > MaxEmpty
<1>1. /\ MaxEmpty \in Nat \ {0} /\ LegacyResets \in Nat \ {0} /\ MaxDeferrals \in Nat \ {0}
      /\ PollResets \in Nat \ {0} /\ Undecryptable \in Nat \ {0} /\ MaxHistory \in Nat
  BY CountAssumption
<1>2. Len(Ladder) \in Nat \ {0}
  <2>1. Ladder \in Seq(MaxEmpty + 1 .. MaxHistory) /\ Ladder # <<>>
    BY LadderAssumption
  <2>2. Len(Ladder) \in Nat /\ Len(Ladder) # 0
    BY <2>1, EmptySeq
  <2>3. QED
    BY <2>2
<1>3. \A i \in 1 .. Len(Ladder) : Ladder[i] \in MaxEmpty + 1 .. MaxHistory
  BY LadderAssumption, ElementOfSeq
<1>4. Ladder[1] \in MaxEmpty + 1 .. MaxHistory
  BY <1>2, <1>3
<1>5. \A r \in Rungs : r + 1 \in 1 .. Len(Ladder)
  BY <1>2 DEF Rungs
<1>6. QED
  BY <1>1, <1>2, <1>3, <1>4, <1>5

\* A saturating count goes up by one or stays at its top.
LEMMA CappedCounts ==
    ASSUME NEW top \in Nat, NEW n \in 0 .. top
    PROVE  /\ Capped(n, top) \in 0 .. top
           /\ n < top => Capped(n, top) = n + 1
           /\ n <= Capped(n, top) /\ Capped(n, top) <= n + 1
  BY DEF Capped

\* What a read leaves of the counters that the properties are about.
Carried(k) ==
    /\ k \in Counters
    /\ k.legacy = c.legacy /\ k.resets = c.resets /\ k.first = c.first
    /\ c.seeded => k.seeded

LEMMA EnsuredCarries ==
    ASSUME TypeOK
    PROVE  /\ Carried(Ensured(c))
           /\ Ensured(c).empty = c.empty /\ Ensured(c).errors = c.errors
           /\ Ensured(c).reconnects = c.reconnects /\ Ensured(c).deferrals = c.deferrals
           /\ Ensured(c).garbled = c.garbled
           /\ stream /\ ~c.legacy /\ session # "open" => Ensured(c).seeded
  BY DEF TypeOK, Counters, Carried, Ensured

LEMMA EmptyReadCounts ==
    ASSUME TypeOK, NEW unparsed \in BOOLEAN
    PROVE  /\ Carried(EmptyRead(unparsed))
           /\ EmptyRead(unparsed).empty = Capped(c.empty, MaxHistory)
           /\ EmptyRead(unparsed).errors = c.errors
           /\ stream /\ ~c.legacy /\ session # "open" => EmptyRead(unparsed).seeded
<1>1. Capped(c.empty, MaxHistory) \in 0 .. MaxHistory
  BY Bounds, CappedCounts DEF TypeOK, Counters
<1>2. QED
  BY <1>1, EnsuredCarries DEF EmptyRead, Carried, Counters

LEMMA ClassifiedCounts ==
    ASSUME NEW k \in Counters, Carried(k)
    PROVE  /\ Carried(Classified(k))
           /\ Classified(k).empty = k.empty /\ Classified(k).errors = k.errors
<1>1. Capped(k.garbled, Undecryptable) \in 0 .. Undecryptable
  BY Bounds, CappedCounts DEF Counters
<1>2. 0 \in 0 .. Undecryptable
  BY Bounds
<1>3. (IF k.unparsed THEN Capped(k.garbled, Undecryptable) ELSE 0) \in 0 .. Undecryptable
  BY <1>1, <1>2
<1>4. QED
  BY <1>3 DEF Classified, Carried, Counters

\* The report of the last update, and the history.
LEMMA EndType ==
    ASSUME TypeOK, NEW k \in Counters, NEW rep \in {"data", "kept", "failed"},
           NEW full \in BOOLEAN, NEW what \in {"data", "invalid", "auth", "error", "none"},
           End(what, full, k, rep),
           session' \in {"none", "open"}, rung' \in Rungs, keepalive' \in Keepalive,
           UNCHANGED modes
    PROVE  TypeOK'
<1>1. past' \in [since : 0 .. MaxHistory, quiet : 0 .. MaxHistory,
                 full : 0 .. LegacyResets, last : {"data", "invalid", "other"}]
  <2>1. /\ Capped(past.since, MaxHistory) \in 0 .. MaxHistory
        /\ Capped(past.quiet, MaxHistory) \in 0 .. MaxHistory
        /\ Capped(past.full, LegacyResets) \in 0 .. LegacyResets
    BY Bounds, CappedCounts DEF TypeOK
  <2>2. past.full \in 0 .. LegacyResets /\ 0 \in 0 .. LegacyResets /\ 0 \in 0 .. MaxHistory
    BY Bounds DEF TypeOK
  <2>3. QED
    BY <2>1, <2>2 DEF End, Noted
<1>2. QED
  BY <1>1 DEF End, TypeOK, modes

LEMMA KeepLastReports == ASSUME NEW k PROVE KeepLast(k) \in {"kept", "failed"}
  BY DEF KeepLast

-----------------------------------------------------------------------------
(* The potential *)

\* Below the tolerance in both counts the potential is below its square.
LEMMA SquareBound ==
    ASSUME NEW m \in Nat, NEW e \in Nat, NEW n \in Nat, e < m, n < m
    PROVE  e * m + n + 1 <= m * m
<1>1. PICK d \in Nat : m = e + 1 + d
  <2>1. m - e - 1 \in Nat /\ m = e + 1 + (m - e - 1)
    OBVIOUS
  <2>2. QED
    BY <2>1
<1>2. d * m \in Nat
  BY SMT
<1>3. (e + 1 + d) * m = e * m + m + d * m
  BY SMT
<1>4. m * m = e * m + m + d * m
  BY <1>1, <1>3
<1>5. QED
  BY <1>2, <1>4

LEMMA OneMoreError ==
    ASSUME NEW m \in Nat, NEW e \in Nat
    PROVE  (e + 1) * m = e * m + m /\ e * m \in Nat
  OBVIOUS

LEMMA PotentialBounds ==
    ASSUME TypeOK, stream => Potential
    PROVE  FailureSurfacesInStream
<1>1. MaxEmpty \in Nat /\ MaxEmpty * MaxEmpty \in Nat /\ past.quiet \in Nat
        /\ c.errors \in Nat /\ c.empty \in Nat
  BY Bounds DEF TypeOK, Counters
<1>2. CASE ~c.first /\ c.errors < MaxEmpty /\ c.empty < MaxEmpty
  <2>1. c.errors * MaxEmpty + c.empty + 1 <= MaxEmpty * MaxEmpty /\ c.errors * MaxEmpty \in Nat
    BY <1>1, <1>2, SquareBound, OneMoreError
  <2>2. QED
    BY <1>1, <1>2, <2>1 DEF FailureSurfacesInStream, Potential
<1>3. CASE c.first \/ c.errors >= MaxEmpty \/ c.empty >= MaxEmpty
  BY <1>1, <1>3 DEF FailureSurfacesInStream, Potential
<1>4. QED
  BY <1>1, <1>2, <1>3

\* A poll that does not reset counts an empty read or an error, or is not counted.
LEMMA PotentialKept ==
    ASSUME TypeOK, Potential, NEW k \in Counters, k.first = c.first,
           NEW what, NEW full,
           End(what, full, k, KeepLast(k)),
           \/ what = "auth"
           \/ k.errors = c.errors /\ k.empty = Capped(c.empty, MaxHistory)
           \/ k.errors = Capped(c.errors, MaxEmpty) /\ k.empty = 0
           \/ k.errors = c.errors /\ k.empty = 0 /\ c.empty >= MaxEmpty
    PROVE  Potential'
<1>0. MaxEmpty \in Nat \ {0} /\ MaxHistory \in Nat /\ MaxEmpty < MaxHistory
  BY Bounds
<1>1. /\ c' = k /\ past'.quiet = IF c.first \/ KeepLast(k) = "failed" \/ what = "auth" THEN 0
                                 ELSE Capped(past.quiet, MaxHistory)
  BY DEF End, Noted
<1>2. /\ c.empty \in 0 .. MaxHistory /\ c.errors \in 0 .. MaxEmpty /\ past.quiet \in 0 .. MaxHistory
      /\ k.empty \in Nat /\ k.errors \in Nat
  BY <1>0 DEF TypeOK, Counters
<1>3. c.errors * MaxEmpty \in Nat /\ k.errors * MaxEmpty \in Nat
  BY <1>0, <1>2, OneMoreError
<1>4. CASE c.first \/ KeepLast(k) = "failed" \/ what = "auth"
  BY <1>0, <1>1, <1>2, <1>3, <1>4 DEF Potential
<1>5. CASE ~c.first /\ KeepLast(k) # "failed" /\ what # "auth"
  <2>1. k.empty < MaxEmpty /\ k.errors < MaxEmpty
    BY <1>0, <1>2, <1>5 DEF KeepLast
  <2>2. past'.quiet <= past.quiet + 1 /\ past'.quiet \in Nat
    BY <1>0, <1>1, <1>2, <1>5 DEF Capped
  <2>3. CASE k.errors = c.errors /\ k.empty = Capped(c.empty, MaxHistory)
    <3>1. k.empty = c.empty + 1 /\ c.errors < MaxEmpty
      BY <1>0, <1>2, <2>1, <2>3, CappedCounts
    <3>2. QED
      BY <1>0, <1>1, <1>2, <1>3, <1>5, <2>1, <2>2, <2>3, <3>1 DEF Potential
  <2>4. CASE k.errors = Capped(c.errors, MaxEmpty) /\ k.empty = 0
    <3>1. k.errors = c.errors + 1
      BY <1>0, <1>2, <2>1, <2>4 DEF Capped
    <3>2. k.errors * MaxEmpty = c.errors * MaxEmpty + MaxEmpty
      BY <1>0, <1>2, <3>1, OneMoreError
    <3>3. past.quiet <= c.errors * MaxEmpty + MaxEmpty
      BY <1>0, <1>2, <1>3, <1>5 DEF Potential
    <3>4. QED
      BY <1>0, <1>1, <1>2, <1>3, <1>5, <2>1, <2>2, <2>4, <3>2, <3>3 DEF Potential
  <2>5. CASE k.errors = c.errors /\ k.empty = 0 /\ c.empty >= MaxEmpty
    BY <1>0, <1>1, <1>2, <1>3, <1>5, <2>1, <2>2, <2>5 DEF Potential
  <2>6. QED
    BY <1>5, <2>3, <2>4, <2>5
<1>6. QED
  BY <1>4, <1>5

-----------------------------------------------------------------------------
(* The ways an update ends *)

Ends == {"data", "invalid", "auth", "error", "none"}

\* An update without a full reset and without fresh data for the sensors.
LEMMA PlainKeeps ==
    ASSUME Inv, NEW k, Carried(k), NEW what \in Ends,
           End(what, FALSE, k, KeepLast(k)), UNCHANGED <<modes, rung>>,
           session' \in {"none", "open"}, keepalive' \in Keepalive,
           stream /\ session' = "open" => k.seeded,
           k.empty <= past.since + 1,
           stream => \/ what = "auth"
                     \/ k.errors = c.errors /\ k.empty = Capped(c.empty, MaxHistory)
                     \/ k.errors = Capped(c.errors, MaxEmpty) /\ k.empty = 0
    PROVE  Inv' /\ Steady
<1>0. /\ TypeOK /\ k \in Counters /\ k.empty \in 0 .. MaxHistory /\ MaxHistory \in Nat
      /\ past.since \in 0 .. MaxHistory /\ c.resets \in Nat /\ past.full \in Nat
      /\ LegacyResets \in Nat /\ stream' = stream /\ rung' \in Rungs
  BY Bounds DEF Inv, Carried, Counters, TypeOK, modes
<1>1. /\ c' = k /\ at' = "idle" /\ past'.since = Capped(past.since, MaxHistory)
      /\ past'.full = past.full
  BY KeepLastReports DEF End, Noted
<1>2. TypeOK'
  BY <1>0, EndType, KeepLastReports DEF Ends
<1>3. Earned' /\ Seeded' /\ (k.legacy => c.legacy)
  BY <1>0, <1>1 DEF Inv, Earned, Seeded, Carried
<1>4. Tallied'
  BY <1>0, <1>1 DEF Tallied, Capped
<1>5. stream => Potential'
  BY <1>0, PotentialKept DEF Inv, Carried
<1>6. Steady
  BY <1>0, <1>1, <1>3 DEF Steady, Capped
<1>7. QED
  BY <1>0, <1>2, <1>3, <1>4, <1>5, <1>6 DEF Inv

\* An update that resets the login of the REST client: j are the counters before
\* the reset is registered.
LEMMA ResetKeeps ==
    ASSUME Inv, NEW j, Carried(j), j.empty = 0, j.errors = c.errors, stream => j.seeded,
           End("none", TRUE, FullReset(j), KeepLast(FullReset(j))), UNCHANGED modes,
           session' = "none", keepalive' \in Keepalive, rung' \in Rungs,
           stream => c.empty >= MaxEmpty,
           past.since + 1 >= IF stream THEN Ladder[rung + 1] ELSE MaxEmpty
    PROVE  Inv' /\ Steady
<1> DEFINE k == FullReset(j)
<1>0. /\ TypeOK /\ j \in Counters /\ LegacyResets \in Nat \ {0}
      /\ j.resets \in 0 .. LegacyResets /\ past.full \in 0 .. LegacyResets
      /\ stream' = stream /\ past.since \in Nat
  BY Bounds DEF Inv, Carried, Counters, TypeOK, modes
<1>1. /\ k \in Counters /\ k.empty = 0 /\ k.errors = c.errors /\ k.first = c.first
      /\ k.seeded = j.seeded
      /\ c.legacy => k.legacy /\ k.resets = c.resets
      /\ ~c.legacy => /\ k.resets = c.resets + 1
                      /\ k.legacy <=> c.resets + 1 >= LegacyResets
  <2>1. CASE c.legacy
    BY <1>0, <2>1 DEF FullReset, Carried
  <2>2. CASE ~c.legacy
    <3>1. j.resets + 1 \in 0 .. LegacyResets
      BY <1>0, <2>2 DEF Inv, Earned, Carried
    <3>2. (j.resets + 1 >= LegacyResets) \in BOOLEAN
      OBVIOUS
    <3>3. FullReset(j) = [j EXCEPT !.resets = @ + 1, !.legacy = j.resets + 1 >= LegacyResets]
      BY <2>2 DEF FullReset, Carried
    <3>4. QED
      BY <1>0, <2>2, <3>1, <3>2, <3>3 DEF Carried, Counters
  <2>3. QED
    BY <2>1, <2>2
<1> HIDE DEF k
<1>2. /\ End("none", TRUE, k, KeepLast(k)) /\ c' = k /\ at' = "idle" /\ past'.since = 0
      /\ past'.full = Capped(past.full, LegacyResets)
  BY KeepLastReports DEF End, Noted, k
<1>3. TypeOK'
  BY <1>0, <1>1, <1>2, EndType, KeepLastReports
<1>4. c.resets \in Nat /\ c.resets <= past.full /\ (~c.legacy => c.resets < LegacyResets)
  BY <1>0 DEF Inv, Earned, Carried
<1>5. Earned' /\ (c'.legacy /\ ~c.legacy => past'.full >= LegacyResets)
  <2>1. CASE c.legacy
    BY <1>0, <1>1, <1>2, <1>4, <2>1 DEF Earned, Capped
  <2>2. CASE ~c.legacy
    BY <1>0, <1>1, <1>2, <1>4, <2>2 DEF Earned, Capped
  <2>3. QED
    BY <2>1, <2>2
<1>6. Seeded' /\ Tallied'
  BY <1>0, <1>1, <1>2 DEF Seeded, Tallied
<1>7. stream => Potential'
  BY <1>0, <1>1, <1>2, PotentialKept DEF Inv
<1>8. QED
  BY <1>0, <1>3, <1>5, <1>6, <1>7 DEF Inv, Steady

\* What happens beside the updates: the counters keep everything but the mark
\* that asks for fresh credentials.
LEMMA AsideKeeps ==
    ASSUME Inv, c' = c \/ c' = [c EXCEPT !.fresh = TRUE],
           UNCHANGED <<modes, at, report, past>>,
           session' \in {session, "none"}, keepalive' \in Keepalive, rung' \in Rungs
    PROVE  Inv' /\ Steady
<1>1. /\ c' \in Counters
      /\ c'.empty = c.empty /\ c'.errors = c.errors /\ c'.resets = c.resets
      /\ c'.legacy = c.legacy /\ c'.seeded = c.seeded /\ c'.first = c.first
  BY DEF Inv, TypeOK, Counters
<1>2. TypeOK' /\ stream' = stream /\ at' = at /\ past' = past
  BY <1>1 DEF Inv, TypeOK, modes
<1>3. Earned' /\ Seeded' /\ Tallied' /\ (stream => Potential')
  BY <1>1, <1>2 DEF Inv, Earned, Seeded, Tallied, Potential
<1>4. Steady
  BY <1>1, <1>2 DEF Steady, Inv, TypeOK
<1>5. QED
  BY <1>2, <1>3, <1>4 DEF Inv

LEMMA KeepaliveKeepsType ==
    ASSUME TypeOK PROVE KeepaliveEnsured => keepalive' \in Keepalive
<1>1. keepalive \in Keepalive
  BY DEF TypeOK
<1>2. [keepalive EXCEPT !.running = TRUE, !.fails = 0] \in Keepalive
  <2>1. [keepalive EXCEPT !.running = TRUE] \in Keepalive
    BY <1>1 DEF Keepalive
  <2>2. 0 \in 0 .. 1
    OBVIOUS
  <2>3. \A k \in Keepalive : [k EXCEPT !.fails = 0] \in Keepalive
    BY <2>2 DEF Keepalive
  <2>4. [[keepalive EXCEPT !.running = TRUE] EXCEPT !.fails = 0]
          = [keepalive EXCEPT !.running = TRUE, !.fails = 0]
    OBVIOUS
  <2>5. QED
    BY <2>1, <2>3, <2>4
<1>3. QED
  BY <1>1, <1>2 DEF KeepaliveEnsured

LEMMA SessionAfterRead ==
    ASSUME TypeOK, NEW dies \in BOOLEAN
    PROVE  AfterRead(dies) \in {"none", "open"}
  BY DEF TypeOK, AfterRead

\* Whatever a read returns, in stream mode it leaves an open session only with the
\* holder asked for.
LEMMA ReadSeeds ==
    ASSUME Inv, NEW k, c.seeded => k.seeded,
           stream /\ ~c.legacy /\ session # "open" => k.seeded
    PROVE  stream => k.seeded
  BY DEF Inv, Seeded, TypeOK

-----------------------------------------------------------------------------
(* The steps *)

LEMMA ReconnectType ==
    ASSUME TypeOK, NEW k \in Counters
    PROVE  (k.reconnects + 1) % PollResets \in 0 .. PollResets - 1
<1>1. PollResets \in Nat \ {0} /\ k.reconnects \in Nat
  BY Bounds DEF Counters
<1>2. QED
  BY <1>1

\* An empty read is one more than the polls since the last full reset allow.
LEMMA EmptyReadCounted ==
    ASSUME Inv, at = "idle"
    PROVE  Capped(c.empty, MaxHistory) <= past.since + 1 /\ c.empty <= past.since
<1>1. /\ c.empty \in 0 .. MaxHistory /\ past.since \in 0 .. MaxHistory /\ MaxHistory \in Nat
      /\ c.empty <= past.since
  BY Bounds DEF Inv, Tallied, TypeOK, Counters
<1>2. QED
  BY <1>1 DEF Capped

LEMMA NextRungType == ASSUME TypeOK, NEW k PROVE NextRung(k) \in Rungs
<1>1. Len(Ladder) - 1 \in Nat /\ rung \in 0 .. Len(Ladder) - 1
  BY Bounds DEF TypeOK, Rungs
<1>2. QED
  BY <1>1, CappedCounts DEF NextRung, Rungs

\* The read raises.
LEMMA RaisingKeeps ==
    ASSUME Inv, PollAuthExpired \/ PollRaises PROVE Inv' /\ Steady
<1>0. /\ TypeOK /\ c \in Counters /\ keepalive \in Keepalive /\ past.since + 1 >= 0
      /\ 0 \in 0 .. MaxHistory
  BY Bounds DEF Inv, TypeOK
<1>1. CASE PollAuthExpired
  <2> DEFINE k == [c EXCEPT !.empty = 0, !.reconnects = (@ + 1) % PollResets]
  <2>1. Carried(k) /\ k.empty = 0
    BY <1>0, ReconnectType DEF Carried, Counters
  <2>2. /\ End("auth", FALSE, k, KeepLast(k)) /\ session' = "none"
        /\ UNCHANGED <<modes, rung, keepalive>>
    BY <1>1 DEF PollAuthExpired
  <2> HIDE DEF k
  <2>3. QED
    BY <1>0, <2>1, <2>2, PlainKeeps DEF Ends
<1>2. CASE PollRaises
  <2>1. PICK asked \in {c, [Ensured(c) EXCEPT !.seeded = c.seeded], Ensured(c)} :
          LET k == [asked EXCEPT !.empty = 0, !.errors = Capped(@, MaxEmpty)] IN
          /\ session' = "none"
          /\ End("error", FALSE, k, KeepLast(k))
          /\ UNCHANGED <<modes, rung, keepalive>>
    BY <1>2 DEF PollRaises
  <2> DEFINE k == [asked EXCEPT !.empty = 0, !.errors = Capped(@, MaxEmpty)]
  <2>2. Carried(asked) /\ asked.errors = c.errors
    BY <1>0, <2>1, EnsuredCarries DEF Carried, Counters
  <2>3. Capped(c.errors, MaxEmpty) \in 0 .. MaxEmpty
    BY <1>0, Bounds, CappedCounts DEF Counters
  <2>4. Carried(k) /\ k.empty = 0 /\ k.errors = Capped(c.errors, MaxEmpty)
    BY <1>0, <2>2, <2>3 DEF Carried, Counters
  <2>5. End("error", FALSE, k, KeepLast(k)) /\ session' = "none"
          /\ UNCHANGED <<modes, rung, keepalive>>
    BY <2>1
  <2> HIDE DEF k
  <2>6. QED
    BY <1>0, <2>4, <2>5, PlainKeeps DEF Ends
<1>3. QED
  BY <1>1, <1>2

\* An empty read that ends the update.
LEMMA EmptyKeeps ==
    ASSUME Inv,
           \/ \E dies \in BOOLEAN : StreamEmpty(dies)
           \/ \E unparsed, dies \in BOOLEAN : PollEmpty(unparsed, dies) \/ PollDefers(unparsed, dies)
    PROVE  Inv' /\ Steady
<1>0. TypeOK /\ at = "idle"
  BY DEF Inv, StreamEmpty, PollEmpty, PollDefers
<1>1. ASSUME NEW dies \in BOOLEAN, StreamEmpty(dies) PROVE Inv' /\ Steady
  <2> DEFINE k == EmptyRead(FALSE)
  <2>1. Carried(k) /\ k.empty = Capped(c.empty, MaxHistory) /\ k.errors = c.errors
          /\ (stream => k.seeded)
    BY <1>0, EmptyReadCounts, ReadSeeds DEF Carried
  <2>2. /\ End("none", FALSE, k, KeepLast(k)) /\ session' = AfterRead(dies)
        /\ KeepaliveEnsured /\ UNCHANGED <<modes, rung>>
    BY <1>1 DEF StreamEmpty
  <2> HIDE DEF k
  <2>3. QED
    BY <1>0, <2>1, <2>2, PlainKeeps, SessionAfterRead, KeepaliveKeepsType, EmptyReadCounted DEF Ends
<1>2. ASSUME NEW unparsed \in BOOLEAN, NEW dies \in BOOLEAN,
             PollEmpty(unparsed, dies) \/ PollDefers(unparsed, dies)
      PROVE  Inv' /\ Steady
  <2> DEFINE k == Classified(EmptyRead(unparsed))
             put == [k EXCEPT !.deferrals = Capped(@, MaxDeferrals)]
  <2>1. Carried(k) /\ k.empty = Capped(c.empty, MaxHistory)
    <3>1. Carried(EmptyRead(unparsed)) /\ EmptyRead(unparsed).empty = Capped(c.empty, MaxHistory)
      BY <1>0, EmptyReadCounts
    <3>2. QED
      BY <3>1, ClassifiedCounts DEF Carried
  <2>2. Carried(put) /\ put.empty = k.empty
    <3>1. k.deferrals \in 0 .. MaxDeferrals
      BY <2>1 DEF Carried, Counters
    <3>2. Capped(k.deferrals, MaxDeferrals) \in 0 .. MaxDeferrals
      BY <3>1, Bounds, CappedCounts
    <3>3. QED
      BY <2>1, <3>2 DEF Carried, Counters
  <2>3. PICK done \in {k, put} : End("none", FALSE, done, KeepLast(done))
    BY <1>2 DEF PollEmpty, PollDefers
  <2>4. ~stream /\ session' = AfterRead(dies) /\ KeepaliveEnsured /\ UNCHANGED <<modes, rung>>
    BY <1>2 DEF PollEmpty, PollDefers
  <2> HIDE DEF k, put
  <2>5. Carried(done) /\ done.empty <= past.since + 1
    BY <1>0, <2>1, <2>2, <2>3, EmptyReadCounted
  <2>6. QED
    BY <1>0, <2>3, <2>4, <2>5, PlainKeeps, SessionAfterRead, KeepaliveKeepsType DEF Ends
<1>3. QED
  BY <1>1, <1>2

\* The stream is wedged.
LEMMA StreamResetKeeps ==
    ASSUME Inv, NEW signature \in BOOLEAN, StreamReset(signature) PROVE Inv' /\ Steady
<1> DEFINE k == EmptyRead(FALSE)
           j == [Judged(k, signature) EXCEPT !.empty = 0,
                                             !.reconnects = (@ + 1) % PollResets]
<1>0. TypeOK /\ at = "idle" /\ stream /\ rung \in Rungs
  BY DEF Inv, StreamReset, TypeOK
<1>1. /\ Carried(k) /\ k.empty = Capped(c.empty, MaxHistory) /\ k.errors = c.errors /\ k.seeded
  BY <1>0, EmptyReadCounts, ReadSeeds DEF Carried
<1>2. Carried(j) /\ j.empty = 0 /\ j.errors = c.errors /\ j.seeded
  <2>1. /\ Judged(k, signature) \in Counters /\ Judged(k, signature).errors = c.errors
        /\ Judged(k, signature).seeded /\ Carried(Judged(k, signature))
    BY <1>1 DEF Judged, Carried, Counters
  <2>2. 0 \in 0 .. MaxHistory
    BY Bounds
  <2> HIDE DEF k
  <2>3. QED
    BY <1>0, <2>1, <2>2, ReconnectType DEF Carried, Counters
<1>3. /\ k.empty >= StallPolls(k) /\ rung' = NextRung(k) /\ session' = "none"
      /\ End("none", TRUE, FullReset(j), KeepLast(FullReset(j)))
      /\ KeepaliveEnsured /\ UNCHANGED modes
  BY DEF StreamReset
<1> HIDE DEF k, j
<1>4. StallPolls(k) = Ladder[rung + 1] /\ Ladder[rung + 1] \in Nat /\ Ladder[rung + 1] > MaxEmpty
  BY <1>0, <1>1, Bounds DEF StallPolls
<1>5. past.since + 1 >= Ladder[rung + 1] /\ c.empty >= MaxEmpty
  <2>1. /\ k.empty <= past.since + 1 /\ k.empty <= c.empty + 1
        /\ k.empty \in Nat /\ c.empty \in Nat /\ past.since \in Nat /\ MaxEmpty \in Nat
    <3>1. c.empty \in 0 .. MaxHistory /\ past.since \in 0 .. MaxHistory
      BY <1>0 DEF TypeOK, Counters
    <3>2. MaxHistory \in Nat /\ MaxEmpty \in Nat
      BY Bounds
    <3>3. Capped(c.empty, MaxHistory) \in Nat /\ Capped(c.empty, MaxHistory) <= c.empty + 1
      BY <3>1, <3>2 DEF Capped
    <3>4. Capped(c.empty, MaxHistory) <= past.since + 1
      BY <1>0, EmptyReadCounted
    <3>5. c.empty \in Nat /\ past.since \in Nat
      BY <3>1, <3>2
    <3>6. QED
      BY <1>1, <3>2, <3>3, <3>4, <3>5
  <2>2. QED
    BY <1>3, <1>4, <2>1
<1>6. QED
  BY <1>0, <1>2, <1>3, <1>5, ResetKeeps, NextRungType, KeepaliveKeepsType

\* The read is awaited once more.
LEMMA ProbesKeeps ==
    ASSUME Inv, NEW unparsed \in BOOLEAN, NEW dies \in BOOLEAN, PollProbes(unparsed, dies)
    PROVE  Inv' /\ Steady
<1> DEFINE k == Classified(EmptyRead(unparsed))
<1>0. TypeOK /\ at = "idle" /\ ~stream
  BY DEF Inv, PollProbes
<1>1. Carried(k) /\ k.empty = Capped(c.empty, MaxHistory)
  <2>1. Carried(EmptyRead(unparsed)) /\ EmptyRead(unparsed).empty = Capped(c.empty, MaxHistory)
    BY <1>0, EmptyReadCounts
  <2>2. QED
    BY <2>1, ClassifiedCounts DEF Carried
<1>2. /\ k.empty >= MaxEmpty /\ at' = "probe" /\ c' = k /\ session' = AfterRead(dies)
      /\ KeepaliveEnsured /\ UNCHANGED <<modes, rung, report, past>>
  BY DEF PollProbes
<1> HIDE DEF k
<1>3. TypeOK'
  BY <1>0, <1>1, <1>2, SessionAfterRead, KeepaliveKeepsType DEF TypeOK, modes, Carried
<1>4. Earned' /\ Seeded' /\ Tallied' /\ ~stream'
  BY <1>0, <1>1, <1>2, EmptyReadCounted
     DEF Inv, Earned, Seeded, Tallied, modes, Carried
<1>5. Steady
  BY <1>0, <1>1, <1>2 DEF Steady, Carried, TypeOK
<1>6. QED
  BY <1>3, <1>4, <1>5 DEF Inv

\* The probe ends.
LEMMA ProbeKeeps == ASSUME Inv, Probe PROVE Inv' /\ Steady
<1>0. /\ TypeOK /\ at = "probe" /\ ~stream /\ keepalive \in Keepalive
      /\ c.empty >= MaxEmpty /\ c.empty <= past.since + 1
      /\ c.empty \in Nat /\ past.since \in Nat /\ MaxEmpty \in Nat
  <2>1. TypeOK /\ Tallied /\ at = "probe"
    BY DEF Inv, Probe, ProbeAnswered, ProbeFailed, ProbeFailedReset
  <2>2. past.since \in 0 .. MaxHistory /\ c.empty \in 0 .. MaxHistory /\ keepalive \in Keepalive
    BY <2>1 DEF TypeOK, Counters
  <2>3. QED
    BY <2>1, <2>2, Bounds DEF Tallied
<1>1. 0 \in 0 .. MaxHistory /\ 0 \in 0 .. MaxDeferrals /\ 0 \in 0 .. Undecryptable
  BY Bounds
<1>2. Carried(Ensured(c)) /\ Ensured(c).errors = c.errors
  BY <1>0, EnsuredCarries
<1>3. CASE ProbeAnswered
  <2> DEFINE k == [Ensured(c) EXCEPT !.empty = 0, !.deferrals = 0, !.garbled = 0,
                                     !.unparsed = IF c.legacy THEN @ ELSE FALSE]
  <2>1. Carried(k) /\ k.empty <= past.since + 1
    <3>1. Carried(k) /\ k.empty = 0
      BY <1>1, <1>2 DEF Carried, Counters
    <3> HIDE DEF k
    <3>2. QED
      BY <1>0, <3>1
  <2>2. End("data", FALSE, k, KeepLast(k)) /\ session' = AfterRead(FALSE)
          /\ UNCHANGED <<modes, rung, keepalive>>
    BY <1>3 DEF ProbeAnswered
  <2> HIDE DEF k
  <2>3. session' \in {"none", "open"}
    BY <1>0, <2>2, SessionAfterRead
  <2>4. QED
    BY <1>0, <2>1, <2>2, <2>3, PlainKeeps DEF Ends
<1>4. ASSUME NEW unparsed \in BOOLEAN
      PROVE  Carried(Dropped(unparsed)) /\ Dropped(unparsed).errors = c.errors
  BY <1>0, <1>1, <1>2, ReconnectType DEF Dropped, Carried, Counters
<1>5. ASSUME NEW unparsed \in BOOLEAN, ProbeFailed(unparsed) PROVE Inv' /\ Steady
  <2> DEFINE k == [Dropped(unparsed) EXCEPT !.empty = 0]
  <2>1. Carried(k) /\ k.empty <= past.since + 1
    <3>1. Carried(k) /\ k.empty = 0
      BY <1>1, <1>4 DEF Carried, Counters
    <3> HIDE DEF k
    <3>2. QED
      BY <1>0, <3>1
  <2>2. End("none", FALSE, k, KeepLast(k)) /\ session' = "none"
          /\ UNCHANGED <<modes, rung, keepalive>>
    BY <1>5 DEF ProbeFailed
  <2> HIDE DEF k
  <2>3. QED
    BY <1>0, <2>1, <2>2, PlainKeeps DEF Ends
<1>6. ASSUME NEW unparsed \in BOOLEAN, NEW signature \in BOOLEAN,
             ProbeFailedReset(unparsed, signature)
      PROVE  Inv' /\ Steady
  <2> DEFINE k == Dropped(unparsed)
             j == [Judged(k, signature \/ k.garbled >= Undecryptable)
                     EXCEPT !.garbled = 0, !.empty = 0]
  <2>1. Carried(j) /\ j.empty = 0 /\ j.errors = c.errors
    <3>1. (k.fresh \/ signature \/ k.garbled >= Undecryptable) \in BOOLEAN
      OBVIOUS
    <3>2. /\ Carried(Judged(k, signature \/ k.garbled >= Undecryptable))
          /\ Judged(k, signature \/ k.garbled >= Undecryptable).errors = c.errors
      BY <1>4, <3>1 DEF Judged, Carried, Counters
    <3> HIDE DEF k
    <3>3. QED
      BY <1>1, <3>2 DEF Carried, Counters
  <2>2. /\ rung' = NextRung(k) /\ session' = "none"
        /\ End("none", TRUE, FullReset(j), KeepLast(FullReset(j)))
        /\ UNCHANGED <<modes, keepalive>>
    BY <1>6 DEF ProbeFailedReset
  <2> HIDE DEF k, j
  <2>3. past.since + 1 >= IF stream THEN Ladder[rung + 1] ELSE MaxEmpty
    BY <1>0
  <2>4. QED
    BY <1>0, <2>1, <2>2, <2>3, ResetKeeps, NextRungType
<1>7. QED
  BY <1>3, <1>5, <1>6 DEF Probe

\* A reading that the sanity filter rejects.
LEMMA InvalidKeeps == ASSUME Inv, PollInvalid PROVE Inv' /\ Steady
<1> DEFINE k == [Ensured(c) EXCEPT !.empty = Capped(@, MaxHistory)]
           over == ~stream /\ k.empty >= MaxEmpty
           done == IF over THEN [k EXCEPT !.empty = 0, !.deferrals = 0,
                                          !.reconnects = (@ + 1) % PollResets] ELSE k
<1>0. TypeOK /\ at = "idle"
  BY DEF Inv, PollInvalid
<1>1. 0 \in 0 .. MaxHistory /\ 0 \in 0 .. MaxDeferrals
  BY Bounds
<1>2. /\ Carried(k) /\ k.empty = Capped(c.empty, MaxHistory) /\ k.errors = c.errors
      /\ (stream => k.seeded)
  <2>1. Capped(c.empty, MaxHistory) \in 0 .. MaxHistory
    BY <1>0, Bounds, CappedCounts DEF TypeOK, Counters
  <2>2. /\ Carried(Ensured(c)) /\ Ensured(c).empty = c.empty /\ Ensured(c).errors = c.errors
        /\ (stream => Ensured(c).seeded)
    BY <1>0, EnsuredCarries, ReadSeeds DEF Carried
  <2>3. QED
    BY <2>1, <2>2 DEF Carried, Counters
<1>3. /\ session' = IF over THEN "none" ELSE AfterRead(FALSE)
      /\ End("invalid", FALSE, done, KeepLast(done))
      /\ KeepaliveEnsured /\ UNCHANGED <<modes, rung>>
  BY DEF PollInvalid
<1> HIDE DEF k
<1>4. CASE over
  <2>1. Carried(done) /\ done.empty = 0
    BY <1>0, <1>1, <1>2, <1>4, ReconnectType DEF Carried, Counters
  <2>2. past.since + 1 >= 0
    BY <1>0, Bounds DEF TypeOK
  <2>3. ~stream /\ session' = "none"
    BY <1>3, <1>4
  <2> HIDE DEF done, over
  <2>4. QED
    BY <1>0, <1>3, <2>1, <2>2, <2>3, PlainKeeps, KeepaliveKeepsType DEF Ends
<1>5. CASE ~over
  BY <1>0, <1>2, <1>3, <1>5, PlainKeeps, SessionAfterRead, KeepaliveKeepsType, EmptyReadCounted
     DEF Ends
<1>6. QED
  BY <1>4, <1>5

\* A reading for the sensors.
LEMMA DataKeeps == ASSUME Inv, PollData PROVE Inv' /\ Steady
<1> DEFINE j == [Ensured(c) EXCEPT !.unparsed = IF c.legacy THEN @ ELSE FALSE]
           k == Succeeded(j)
<1>0. /\ TypeOK /\ at = "idle" /\ MaxEmpty \in Nat \ {0} /\ LegacyResets \in Nat \ {0}
      /\ MaxHistory \in Nat
  BY Bounds DEF Inv, PollData
<1>1. /\ Carried(j) /\ (stream => j.seeded)
  BY <1>0, EnsuredCarries, ReadSeeds DEF Carried, Counters
<1>2. /\ k \in Counters /\ k.empty = 0 /\ k.resets = 0 /\ k.first /\ k.legacy = c.legacy
      /\ (stream => k.seeded)
  <2>1. /\ 0 \in 0 .. MaxHistory /\ 0 \in 0 .. MaxEmpty /\ 0 \in 0 .. PollResets - 1
        /\ 0 \in 0 .. MaxDeferrals /\ 0 \in 0 .. Undecryptable /\ 0 \in 0 .. LegacyResets
    BY Bounds
  <2> HIDE DEF j
  <2>2. QED
    BY <1>1, <2>1 DEF Succeeded, Carried, Counters
<1>3. /\ End("data", FALSE, k, "data") /\ session' = AfterRead(FALSE)
      /\ KeepaliveEnsured /\ UNCHANGED <<modes, rung>>
  BY DEF PollData
<1> HIDE DEF k
<1>4. TypeOK' /\ stream' = stream
  BY <1>0, <1>2, <1>3, EndType, SessionAfterRead, KeepaliveKeepsType DEF TypeOK, modes
<1>5. /\ c' = k /\ at' = "idle" /\ past'.full = 0 /\ past'.quiet = 0
      /\ past'.since = Capped(past.since, MaxHistory)
  BY <1>2, <1>3 DEF End, Noted
<1>6. past.since \in 0 .. MaxHistory
  BY <1>0 DEF TypeOK
<1>7. Earned' /\ Seeded' /\ Tallied' /\ Potential'
  BY <1>0, <1>2, <1>4, <1>5, <1>6 DEF Earned, Seeded, Tallied, Potential, Capped
<1>8. Steady
  BY <1>0, <1>2, <1>5, <1>6 DEF Steady, Capped
<1>9. QED
  BY <1>4, <1>7, <1>8 DEF Inv

\* The keepalive loop, the other sessions of the home and a failed override.
LEMMA BesideKeeps ==
    ASSUME Inv, KeepaliveLoop \/ HolderMoves \/ OverrideFails PROVE Inv' /\ Steady
<1>0. TypeOK /\ keepalive \in Keepalive /\ rung \in Rungs
  BY DEF Inv, TypeOK
<1>1. CASE KeepaliveLoop
  <2>1. keepalive' \in Keepalive
    <3>1. 0 \in 0 .. 1 /\ 1 \in 0 .. 1
      OBVIOUS
    <3>2. QED
      BY <1>0, <1>1, <3>1 DEF KeepaliveLoop, KeepaliveAnswered, KeepaliveFails, KeepaliveEnds,
                              KeepaliveAges, Keepalive
  <2>2. c' = c /\ session' \in {session, "none"} /\ UNCHANGED <<modes, at, rung, report, past>>
    BY <1>1 DEF KeepaliveLoop, KeepaliveAnswered, KeepaliveFails, KeepaliveEnds, KeepaliveAges
  <2>3. QED
    BY <1>0, <2>1, <2>2, AsideKeeps
<1>2. CASE HolderMoves
  <2>1. rung' \in Rungs
    <3>1. Len(Ladder) - 1 \in Nat /\ rung \in 0 .. Len(Ladder) - 1
      BY <1>0, Bounds DEF Rungs
    <3>2. Capped(rung, Len(Ladder) - 1) \in 0 .. Len(Ladder) - 1
      BY <3>1, CappedCounts
    <3>3. QED
      BY <1>2, <3>1, <3>2 DEF HolderMoves, Rungs
  <2>2. QED
    BY <1>0, <1>2, <2>1, AsideKeeps DEF HolderMoves
<1>3. CASE OverrideFails
  BY <1>0, <1>3, AsideKeeps DEF OverrideFails
<1>4. QED
  BY <1>1, <1>2, <1>3

LEMMA StutterKeeps == ASSUME Inv, UNCHANGED vars PROVE Inv' /\ Steady
<1>1. TypeOK /\ keepalive \in Keepalive /\ rung \in Rungs
  BY DEF Inv, TypeOK
<1>2. QED
  BY <1>1, AsideKeeps DEF vars, modes

LEMMA NextKeeps == ASSUME Inv, [Next]_vars PROVE Inv' /\ Steady
<1>1. CASE Poll
  BY <1>1, RaisingKeeps, EmptyKeeps, StreamResetKeeps, ProbesKeeps, InvalidKeeps, DataKeeps DEF Poll
<1>2. QED
  BY <1>1, ProbeKeeps, BesideKeeps, StutterKeeps DEF Next

-----------------------------------------------------------------------------
(* The theorems *)

LEMMA InvInvariant == Spec => []Inv
<1>1. Init => Inv
  <2>1. NoCounts \in Counters /\ 0 \in Rungs
    BY Bounds DEF NoCounts, Counters, Rungs
  <2>2. /\ MaxEmpty \in Nat \ {0} /\ LegacyResets \in Nat \ {0} /\ MaxHistory \in Nat
    BY Bounds
  <2>3. Init => TypeOK
    BY <2>1, <2>2 DEF Init, TypeOK, Keepalive, NewPast
  <2>4. Init => Earned /\ Seeded /\ Tallied /\ Potential
    BY <2>2 DEF Init, Earned, Seeded, Tallied, Potential, NoCounts, NewPast
  <2>5. QED
    BY <2>3, <2>4 DEF Inv
<1>2. Inv /\ [Next]_vars => Inv'
  BY NextKeeps
<1>3. QED
  BY <1>1, <1>2, PTL DEF Spec

\* Every counter stays within its bound, whatever the reads return.
THEOREM TypeCorrect == Spec => []TypeOK
<1>1. Inv => TypeOK
  BY DEF Inv
<1>2. QED
  BY <1>1, InvInvariant, PTL

\* The persistent session is given up for good only after LegacyResets full
\* resets with no data in between, in both modes.
THEOREM FallbackIsEarned == Spec => FallbackEarned
<1>1. Inv /\ [Next]_vars => [c'.legacy /\ ~c.legacy => past'.full >= LegacyResets]_vars
  BY NextKeeps DEF Steady
<1>2. QED
  BY <1>1, InvInvariant, PTL DEF Spec, FallbackEarned

\* Two full resets of the REST login are as far apart as the ladder of the home
\* says in stream mode, and as the tolerance says in poll mode.
THEOREM ResetsAreSpaced == Spec => ResetsSpaced
<1>1. Inv /\ [Next]_vars
        => [past'.since = 0 /\ past.since > 0
              => past.since + 1 >= IF stream THEN Ladder[rung + 1] ELSE MaxEmpty]_vars
  BY NextKeeps DEF Steady
<1>2. QED
  BY <1>1, InvInvariant, PTL DEF Spec, ResetsSpaced

\* In stream mode a coordinator that never had data is seen to fail within the
\* square of the tolerance, in any order of silence, errors and resets.
THEOREM FailureIsSeen == Spec => []FailureSurfacesInStream
<1>1. Inv => FailureSurfacesInStream
  BY PotentialBounds DEF Inv
<1>2. QED
  BY <1>1, InvInvariant, PTL

-----------------------------------------------------------------------------
(* The settings of the device (DeviceSettings), which the same update asks for *)

\* A call that has not been confirmed has not read back what it asked for; one
\* that the device itself has confirmed has it there, until another hand touches
\* the setting.
CallRight(d, j) ==
    /\ j.pc \in {"write", "read"} => j.polls < MaxPolls /\ j.last # {j.call.on}
    /\ j.pc = "publish" /\ j.call.kind = "switch" /\ j.call.of \in Polled /\ j.own
       /\ j.last = {j.call.on} => d[j.call.of].on = j.call.on

\* The poll has asked for the setting already.
Looked(p, k) == \E i \in 1 .. p.next - 1 : Order[i] = k

\* Some call is or was about the setting.
Called(k) == \E x \in Callers : job[x] # {} /\ J(x).call.of = k

\* What the dict of the poll may lack: a setting that nothing had shown when the
\* poll came to it, and a target staged after that.
PollRight(p) ==
    /\ \A k \in Framed : p.draft[k].on # {}
    /\ \A k \in Polled : Looked(p, k) /\ p.draft[k].on = {} => shown[k].on = {} \/ Called(k)
    /\ p.intended # {} => "selling" \in Polled
    /\ Looked(p, "selling") /\ p.intended = {} /\ intended # {} => p.late \/ p.selling

DeviceInv ==
    /\ device \in [Settings -> Setting]
    /\ frame \in [Framed -> BOOLEAN]
    /\ shown \in [Settings -> Known]
    /\ intended \in Opt(Amounts)
    /\ poll \in Opt(Polls)
    /\ job \in [Callers -> Opt(Jobs)]
    /\ \A x \in Callers : job[x] # {} => CallRight(device, J(x))
    /\ \A p \in poll : PollRight(p)
    /\ intended # {} => "selling" \in Polled

-----------------------------------------------------------------------------

LEMMA DeviceOnly == ASSUME NEW x PROVE Only({x}) = x
  BY DEF Only

LEMMA DeviceOpt ==
    ASSUME NEW S
    PROVE  /\ {} \in Opt(S) /\ \A x \in S : {x} \in Opt(S)
           /\ \A T \in Opt(S) : T # {} => Only(T) \in S /\ T = {Only(T)}
<1>1. ASSUME NEW T \in Opt(S), T # {} PROVE Only(T) \in S /\ T = {Only(T)}
  <2>1. PICK x \in S : T = {x}
    BY <1>1 DEF Opt
  <2>2. QED
    BY <2>1, DeviceOnly
<1>2. QED
  BY <1>1 DEF Opt

LEMMA DeviceOr ==
    ASSUME NEW S, NEW T \in Opt(S), NEW default \in S
    PROVE  Or(T, default) \in S
  BY DeviceOpt DEF Or

LEMMA DeviceJob ==
    ASSUME DeviceInv, NEW x \in Callers, job[x] # {}
    PROVE  /\ J(x) \in Jobs /\ job[x] = {J(x)} /\ CallRight(device, J(x))
           /\ J(x).call \in Calls
<1>1. job[x] \in Opt(Jobs) /\ CallRight(device, J(x))
  BY DEF DeviceInv
<1>2. J(x) \in Jobs /\ job[x] = {J(x)}
  BY <1>1, DeviceOpt DEF J
<1>3. QED
  BY <1>1, <1>2 DEF Jobs

LEMMA DeviceCall ==
    ASSUME DeviceInv, NEW call \in Calls
    PROVE  /\ call.kind \in {"switch", "slider"} /\ call.of \in Settings
           /\ call.on \in BOOLEAN /\ call.amount \in Amounts
           /\ call.kind = "slider" => call.of \in {"limit", "selling"}
<1>1. call \in Switches \/ call \in Sliders
  BY SettingsAssumption DEF DeviceInv
<1>2. 0 \in Amounts
  BY SettingsAssumption DEF DeviceInv
<1>3. QED
  BY <1>1, <1>2 DEF Switches, Sliders

LEMMA DeviceNewJob ==
    ASSUME DeviceInv, NEW call \in Calls, NEW on \in BOOLEAN, NEW amount \in Amounts
    PROVE  NewJob(call, on, amount) \in Jobs
<1>1. 0 \in 0 .. MaxPolls /\ {} \in Opt(BOOLEAN)
  BY DeviceOpt, SettingsAssumption DEF DeviceInv
<1>2. QED
  BY <1>1 DEF NewJob, Jobs

LEMMA DeviceEnded ==
    ASSUME DeviceInv, NEW j \in Jobs
    PROVE  /\ Ended(j) \in Jobs /\ Ended(j).call = j.call
           /\ Ended(j).pc = "done"
<1>1. j.call \in Calls /\ 0 \in Amounts
  BY SettingsAssumption DEF DeviceInv, Jobs
<1>2. NewJob(j.call, FALSE, 0) \in Jobs
  BY <1>1, DeviceNewJob
<1>3. QED
  BY <1>2 DEF Ended, NewJob, Jobs


-----------------------------------------------------------------------------
(* The calls *)

LEMMA DeviceDisturbed ==
    ASSUME DeviceInv, NEW k, NEW x, NEW y \in Callers
    PROVE  LET D == Disturbed(job, k, x)[y] IN
           /\ D \in Opt(Jobs)
           /\ job[y] = {} => D = {}
           /\ job[y] # {} =>
                 \/ D = job[y] /\ (y = x \/ J(y).call.of # k \/ J(y).pc = "done")
                 \/ D = {[J(y) EXCEPT !.own = FALSE]}
<1> DEFINE D == Disturbed(job, k, x)[y]
           touched == y # x /\ job[y] # {} /\ J(y).call.of = k /\ J(y).pc # "done"
<1>1. D = IF touched THEN {[J(y) EXCEPT !.own = FALSE]} ELSE job[y]
  BY DEF Disturbed, J
<1>2. CASE touched
  <2>1. J(y) \in Jobs
    BY <1>2, DeviceJob
  <2>2. [J(y) EXCEPT !.own = FALSE] \in Jobs
    BY <2>1 DEF Jobs
  <2> DEFINE n == [J(y) EXCEPT !.own = FALSE]
  <2> HIDE DEF n
  <2>5. n \in Jobs
    BY <2>2 DEF n
  <2>6. {n} \in Opt(Jobs)
    BY <2>5, DeviceOpt
  <2>3. D \in Opt(Jobs)
    BY <1>1, <1>2, <2>6 DEF n
  <2>4. QED
    BY <1>1, <1>2, <2>3
<1>3. CASE ~touched
  <2>1. job[y] \in Opt(Jobs) /\ D = job[y]
    BY <1>1, <1>3 DEF DeviceInv
  <2>2. QED
    BY <1>3, <2>1
<1>4. QED
  BY <1>2, <1>3

\* A call of another thread is all right whatever is written, because the
\* writer has marked it.
LEMMA DeviceOthers ==
    ASSUME DeviceInv, NEW k, NEW x, NEW y \in Callers, NEW d, job[y] # {},
           \A n \in Settings \ {k} : d[n] = device[n],
           y # x
    PROVE  LET D == Disturbed(job, k, x)[y] IN
           /\ D # {} /\ Only(D) \in Jobs /\ Only(D).call = J(y).call
           /\ CallRight(d, Only(D))
<1> DEFINE D == Disturbed(job, k, x)[y]
<1>1. J(y) \in Jobs /\ job[y] = {J(y)} /\ CallRight(device, J(y))
      /\ J(y).call.of \in Settings
  BY DeviceJob, DeviceCall
<1>2. CASE D = job[y] /\ (J(y).call.of # k \/ J(y).pc = "done")
  <2>1. Only(D) = J(y)
    BY <1>2 DEF J
  <2>2. CallRight(d, J(y))
    BY <1>1, <1>2 DEF CallRight
  <2>3. QED
    BY <1>1, <1>2, <2>1, <2>2
<1>3. CASE D = {[J(y) EXCEPT !.own = FALSE]}
  <2> DEFINE n == [J(y) EXCEPT !.own = FALSE]
  <2>1. Only(D) = n
    BY <1>3, DeviceOnly
  <2>2. n \in Jobs /\ n.call = J(y).call /\ n.pc = J(y).pc
        /\ n.polls = J(y).polls /\ n.last = J(y).last /\ ~n.own
    BY <1>1 DEF Jobs
  <2>3. CallRight(d, n)
    BY <1>1, <2>2 DEF CallRight
  <2>4. QED
    BY <1>3, <2>1, <2>2, <2>3
<1>4. QED
  BY <1>2, <1>3, DeviceDisturbed

\* A step of one thread that touches at most one setting of the device.
LEMMA DeviceCalls ==
    ASSUME DeviceInv, NEW x \in Callers, NEW k, NEW j \in Jobs,
           NEW base,
           \/ base = job /\ \A n \in Settings : device'[n] = device[n]
           \/ base = Disturbed(job, k, x),
           \A n \in Settings \ {k} : device'[n] = device[n],
           job' = [base EXCEPT ![x] = {j}],
           job[x] # {} => j.call.of = J(x).call.of,
           CallRight(device', j)
    PROVE  /\ job' \in [Callers -> Opt(Jobs)]
           /\ \A y \in Callers : job'[y] # {} => CallRight(device', Only(job'[y]))
           /\ \A n : Called(n) => Called(n)'
<1>1. job \in [Callers -> Opt(Jobs)]
  BY DEF DeviceInv
<1>2. DOMAIN base = Callers
  BY <1>1 DEF Disturbed
<1>3. DOMAIN job' = Callers /\ job' = [y \in Callers |-> IF y = x THEN {j} ELSE base[y]]
  BY <1>2
<1>4. job'[x] \in Opt(Jobs) /\ job'[x] # {} /\ Only(job'[x]) = j
  <2>1. job'[x] = {j}
    BY <1>3
  <2>2. QED
    BY <2>1, DeviceOpt, DeviceOnly
<1>5. ASSUME NEW y \in Callers, y # x
      PROVE  /\ job'[y] \in Opt(Jobs)
             /\ job'[y] # {} => CallRight(device', Only(job'[y]))
             /\ job[y] # {} => job'[y] # {} /\ Only(job'[y]).call = J(y).call
  <2>1. job'[y] = base[y]
    BY <1>3, <1>5
  <2>2. CASE base = job /\ \A n \in Settings : device'[n] = device[n]
    <3>1. job'[y] = job[y] /\ Only(job'[y]) = J(y)
      BY <2>1, <2>2 DEF J
    <3>2. job[y] # {} => CallRight(device, J(y)) /\ J(y).call.of \in Settings
      BY DeviceJob, DeviceCall
    <3>3. job[y] # {} => CallRight(device', J(y))
      BY <2>2, <3>2 DEF CallRight
    <3>4. QED
      BY <1>1, <3>1, <3>3
  <2>3. CASE base = Disturbed(job, k, x)
    <3>1. job[y] # {} => /\ job'[y] # {} /\ Only(job'[y]).call = J(y).call
                         /\ CallRight(device', Only(job'[y]))
      BY <1>5, <2>1, <2>3, DeviceOthers
    <3>2. job[y] = {} => job'[y] = {}
      BY <2>1, <2>3, DeviceDisturbed
    <3>3. job'[y] \in Opt(Jobs)
      BY <2>1, <2>3, DeviceDisturbed
    <3>4. QED
      BY <3>1, <3>2, <3>3
  <2>4. QED
    BY <2>2, <2>3
<1>6. job' \in [Callers -> Opt(Jobs)]
  BY <1>3, <1>4, <1>5
<1>7. \A y \in Callers : job'[y] # {} => CallRight(device', Only(job'[y]))
  BY <1>4, <1>5
<1>8. ASSUME NEW n, Called(n) PROVE Called(n)'
  <2>1. PICK y \in Callers : job[y] # {} /\ J(y).call.of = n
    BY <1>8 DEF Called
  <2>2. job'[y] # {} /\ Only(job'[y]).call.of = n
    BY <1>4, <1>5, <2>1
  <2>3. QED
    BY <2>2 DEF Called, J
<1>9. QED
  BY <1>6, <1>7, <1>8

\* What the poll lacks does not depend on the rest of a call.
LEMMA DevicePollStays ==
    ASSUME DeviceInv, UNCHANGED <<shown, intended, poll>>, \A n : Called(n) => Called(n)'
    PROVE  \A p \in poll' : PollRight(p)'
<1>1. TAKE p \in poll'
<1>2. PollRight(p)
  BY DEF DeviceInv
<1>3. QED
  BY <1>2 DEF PollRight, Looked

\* A call writes only values of a setting.
LEMMA DeviceWritten ==
    ASSUME DeviceInv, NEW call \in Calls
    PROVE  WrittenAmount(call) \in Amounts /\ WrittenState(call) \in BOOLEAN
<1>1. /\ call.kind \in {"switch", "slider"} /\ call.of \in Settings
      /\ call.on \in BOOLEAN /\ call.amount \in Amounts
  BY DeviceCall
<1>2. {0, 1} \subseteq Amounts /\ Amounts \subseteq Nat /\ intended \in Opt(Amounts)
      /\ shown \in [Settings -> Known]
  BY SettingsAssumption DEF DeviceInv
<1>3. \A k \in Settings : shown[k].on \in Opt(BOOLEAN)
                                 /\ shown[k].amount \in Opt(Amounts)
  BY <1>2 DEF Known
<1>4. WrittenState(call) \in BOOLEAN
  BY <1>1, <1>3, DeviceOr DEF WrittenState
<1>5. \A k \in Settings, a \in Amounts : Or(shown[k].amount, a) \in Amounts
  BY <1>3, DeviceOr
<1>6. \A a \in Amounts : AtLeastOne(a) \in Amounts /\ Or(intended, a) \in Amounts
  BY <1>2, DeviceOr DEF AtLeastOne
<1>7. WrittenAmount(call) \in Amounts
  BY <1>1, <1>2, <1>5, <1>6 DEF WrittenAmount
<1>8. QED
  BY <1>4, <1>7


-----------------------------------------------------------------------------
(* The steps *)

LEMMA DeviceInit == ASSUME SettingsInit PROVE DeviceInv
<1>1. device \in [Settings -> Setting]
  BY SettingsAssumption DEF SettingsInit
<1>2. ASSUME NEW k \in Framed PROVE device[k].on \in BOOLEAN
  BY <1>1 DEF Settings, Setting
<1>3. frame \in [Framed -> BOOLEAN]
  BY <1>2 DEF SettingsInit
<1>4. Unknown \in Known
  BY DeviceOpt DEF Unknown, Known
<1>5. shown \in [Settings -> Known]
  BY <1>4 DEF SettingsInit
<1>6. intended \in Opt(Amounts) /\ poll \in Opt(Polls)
      /\ job \in [Callers -> Opt(Jobs)]
  BY DeviceOpt DEF SettingsInit
<1>7. QED
  BY <1>1, <1>3, <1>5, <1>6 DEF SettingsInit, DeviceInv

LEMMA DeviceFrame == ASSUME DeviceInv, Frame PROVE DeviceInv'
<1>1. device \in [Settings -> Setting]
  BY DEF DeviceInv
<1>2. ASSUME NEW k \in Framed PROVE device[k].on \in BOOLEAN
  BY <1>1 DEF Settings, Setting
<1>3. frame' \in [Framed -> BOOLEAN]
  BY <1>2 DEF Frame
<1>4. \A n : Called(n) => Called(n)'
  BY DEF Frame, Called, J
<1>5. \A p \in poll' : PollRight(p)'
  BY <1>4, DevicePollStays DEF Frame
<1>6. \A x \in Callers : job'[x] # {} => CallRight(device, J(x))'
  BY DEF DeviceInv, Frame, J, CallRight
<1>7. QED
  BY <1>3, <1>5, <1>6 DEF DeviceInv, Frame

LEMMA DeviceSelling == ASSUME DeviceInv, SellingEnds PROVE DeviceInv'
<1>1. device' \in [Settings -> Setting]
  <2>1. device \in [Settings -> Setting]
    BY DEF DeviceInv
  <2>2. [device["selling"] EXCEPT !.on = FALSE] \in Setting
    BY <2>1 DEF SellingEnds, Setting
  <2>3. QED
    BY <2>1, <2>2 DEF SellingEnds
<1>2. \A n \in Settings \ {"selling"} : device'[n] = device[n]
  BY DEF SellingEnds, DeviceInv
<1>3. job' = Disturbed(job, "selling", "device") /\ DOMAIN job' = Callers
  BY DEF SellingEnds, Disturbed
<1>4. ASSUME NEW y \in Callers
      PROVE  /\ job'[y] \in Opt(Jobs)
             /\ job[y] = {} => job'[y] = {}
             /\ job[y] # {} => /\ job'[y] # {} /\ Only(job'[y]).call = J(y).call
                               /\ CallRight(device', Only(job'[y]))
  <2>1. y # "device"
    BY SettingsAssumption DEF DeviceInv
  <2>2. QED
    BY <1>2, <1>3, <2>1, DeviceDisturbed, DeviceOthers
<1>5. job' \in [Callers -> Opt(Jobs)]
  <2>1. job' = [y \in Callers |-> job'[y]]
    BY <1>3 DEF Disturbed
  <2>2. QED
    BY <1>4, <2>1
<1>6. \A x \in Callers : job'[x] # {} => CallRight(device, J(x))'
  BY <1>4 DEF J
<1>7. \A n : Called(n) => Called(n)'
  BY <1>4 DEF Called, J
<1>8. \A p \in poll' : PollRight(p)'
  BY <1>7, DevicePollStays DEF SellingEnds
<1>9. QED
  BY <1>1, <1>5, <1>6, <1>8 DEF DeviceInv, SellingEnds

LEMMA DeviceBegin ==
    ASSUME DeviceInv, NEW x \in Callers, NEW call \in Calls, Begin(x, call)
    PROVE  DeviceInv'
<1> DEFINE j == NewJob(call, WrittenState(call), WrittenAmount(call))
<1>1. j \in Jobs
  BY DeviceWritten, DeviceNewJob
<1>2. CallRight(device, j)
  <2>1. j.pc = "write" /\ j.polls = 0 /\ j.last = {}
    BY DEF NewJob
  <2>2. 0 < MaxPolls
    BY SettingsAssumption DEF DeviceInv
  <2> HIDE DEF j
  <2>3. {} # {j.call.on}
    OBVIOUS
  <2>4. QED
    BY <2>1, <2>2, <2>3 DEF CallRight
<1>3. /\ job' = [job EXCEPT ![x] = {j}]
      /\ job[x] = {} /\ UNCHANGED <<device, frame, shown, intended, poll>>
  BY DEF Begin, Set
<1> HIDE DEF j
<1>4. CallRight(device', j)
  BY <1>2, <1>3
<1>5. /\ job' \in [Callers -> Opt(Jobs)]
      /\ \A y \in Callers : job'[y] # {} => CallRight(device', Only(job'[y]))
      /\ \A n : Called(n) => Called(n)'
  BY <1>1, <1>3, <1>4, DeviceCalls
<1>6. \A p \in poll' : PollRight(p)'
  BY <1>3, <1>5, DevicePollStays
<1>7. \A y \in Callers : job'[y] # {} => CallRight(device, J(y))'
  BY <1>5 DEF J
<1>8. QED
  BY <1>3, <1>5, <1>6, <1>7 DEF DeviceInv

LEMMA DeviceWrite ==
    ASSUME DeviceInv, NEW x \in Callers, NEW applied \in BOOLEAN, Write(x, applied)
    PROVE  DeviceInv'
<1> DEFINE j == J(x)
           n == [j EXCEPT !.pc = IF j.call.kind = "switch" THEN "read" ELSE "publish"]
<1>1. /\ job[x] # {} /\ j.pc = "write" /\ j \in Jobs /\ CallRight(device, j)
      /\ j.call.kind \in {"switch", "slider"} /\ j.call.of \in Settings
      /\ [on |-> j.on, amount |-> j.amount] \in Setting
  <2>1. job[x] # {} /\ j.pc = "write"
    BY DEF Write, Busy, J
  <2>2. j \in Jobs /\ CallRight(device, j) /\ j.call \in Calls
    BY <2>1, DeviceJob
  <2>3. QED
    BY <2>1, <2>2, DeviceCall DEF Jobs, Setting
<1>2. /\ n \in Jobs /\ n.call = j.call /\ n.polls = j.polls /\ n.last = j.last
      /\ n.pc = IF j.call.kind = "switch" THEN "read" ELSE "publish"
  BY <1>1 DEF Jobs
<1>3. /\ device' = IF applied THEN [device EXCEPT ![j.call.of] = [on |-> j.on, amount |-> j.amount]]
                   ELSE device
      /\ job' = [(IF applied THEN Disturbed(job, j.call.of, x) ELSE job) EXCEPT ![x] = {n}]
      /\ UNCHANGED <<frame, shown, intended, poll>>
  BY DEF Write
<1>4. CallRight(device', n)
  BY <1>1, <1>2 DEF CallRight
<1> HIDE DEF n
<1>5. device' \in [Settings -> Setting]
      /\ \A k \in Settings \ {j.call.of} : device'[k] = device[k]
  BY <1>1, <1>3 DEF DeviceInv
<1>6. /\ job' \in [Callers -> Opt(Jobs)]
      /\ \A y \in Callers : job'[y] # {} => CallRight(device', Only(job'[y]))
      /\ \A k : Called(k) => Called(k)'
  <2> DEFINE base == IF applied THEN Disturbed(job, j.call.of, x) ELSE job
  <2>1. \/ base = job /\ \A k \in Settings : device'[k] = device[k]
        \/ base = Disturbed(job, j.call.of, x)
    BY <1>3
  <2>2. job' = [base EXCEPT ![x] = {n}] /\ n.call.of = j.call.of
    BY <1>2, <1>3
  <2> HIDE DEF base
  <2>3. QED
    BY <1>1, <1>2, <1>4, <1>5, <2>1, <2>2, DeviceCalls
<1>7. \A p \in poll' : PollRight(p)'
  BY <1>3, <1>6, DevicePollStays
<1>8. \A y \in Callers : job'[y] # {} => CallRight(device, J(y))'
  BY <1>6 DEF J
<1>9. QED
  BY <1>3, <1>5, <1>6, <1>7, <1>8 DEF DeviceInv

LEMMA DeviceRaise ==
    ASSUME DeviceInv, NEW x \in Callers, NEW applied \in BOOLEAN, Raise(x, applied)
    PROVE  DeviceInv'
<1> DEFINE j == J(x)
           n == Ended(j)
<1>1. /\ job[x] # {} /\ j \in Jobs /\ j.call.of \in Settings
      /\ [on |-> j.on, amount |-> j.amount] \in Setting
  <2>1. job[x] # {}
    BY DEF Raise, Busy, J
  <2>2. j \in Jobs /\ j.call \in Calls
    BY <2>1, DeviceJob
  <2>3. QED
    BY <2>1, <2>2, DeviceCall DEF Jobs, Setting
<1>2. n \in Jobs /\ n.call = j.call /\ n.pc = "done"
  BY <1>1, DeviceEnded
<1>3. /\ device' = IF applied THEN [device EXCEPT ![j.call.of] = [on |-> j.on, amount |-> j.amount]]
                   ELSE device
      /\ job' = [(IF applied THEN Disturbed(job, j.call.of, x) ELSE job) EXCEPT ![x] = {n}]
      /\ UNCHANGED <<frame, shown, intended, poll>>
  BY DEF Raise
<1>4. CallRight(device', n)
  BY <1>2 DEF CallRight
<1> HIDE DEF n
<1>5. device' \in [Settings -> Setting]
      /\ \A k \in Settings \ {j.call.of} : device'[k] = device[k]
  BY <1>1, <1>3 DEF DeviceInv
<1>6. /\ job' \in [Callers -> Opt(Jobs)]
      /\ \A y \in Callers : job'[y] # {} => CallRight(device', Only(job'[y]))
      /\ \A k : Called(k) => Called(k)'
  <2> DEFINE base == IF applied THEN Disturbed(job, j.call.of, x) ELSE job
  <2>1. \/ base = job /\ \A k \in Settings : device'[k] = device[k]
        \/ base = Disturbed(job, j.call.of, x)
    BY <1>3
  <2>2. job' = [base EXCEPT ![x] = {n}] /\ n.call.of = j.call.of
    BY <1>2, <1>3
  <2> HIDE DEF base
  <2>3. QED
    BY <1>1, <1>2, <1>4, <1>5, <2>1, <2>2, DeviceCalls
<1>7. \A p \in poll' : PollRight(p)'
  BY <1>3, <1>6, DevicePollStays
<1>8. \A y \in Callers : job'[y] # {} => CallRight(device, J(y))'
  BY <1>6 DEF J
<1>9. QED
  BY <1>3, <1>5, <1>6, <1>7, <1>8 DEF DeviceInv

\* What a read-back makes of a call: it keeps the last answer, takes the
\* device's own, which says what the device has, or another one.
LEMMA DeviceAnswered ==
    ASSUME DeviceInv, NEW j \in Jobs, j.call.of \in Settings, NEW n \in Answered(j)
    PROVE  /\ n \in Jobs /\ n.call = j.call /\ n.polls = j.polls
           /\ \/ n.last = j.last
              \/ ~n.own
              \/ j.call.of \in Polled => n.last = {device[j.call.of].on}
<1> DEFINE k == j.call.of
<1>1. ReadBack(k) \in BOOLEAN /\ (k \in Polled => ReadBack(k) = device[k].on)
  <2>1. k \in Framed => frame[k] \in BOOLEAN /\ k \notin Polled
    BY SettingsAssumption DEF DeviceInv
  <2>2. device[k].on \in BOOLEAN
    BY DEF DeviceInv, Setting
  <2>3. QED
    BY <2>1, <2>2 DEF ReadBack
<1>2. ASSUME NEW last \in BOOLEAN, NEW own \in BOOLEAN
      PROVE  LET m == [j EXCEPT !.last = {last}, !.own = own] IN
             m \in Jobs /\ m.call = j.call /\ m.polls = j.polls /\ m.last = {last} /\ m.own = own
  <2>1. {last} \in Opt(BOOLEAN)
    BY DeviceOpt
  <2>2. QED
    BY <2>1 DEF Jobs
<1>3. CASE n = j
  BY <1>3
<1>4. CASE n = [j EXCEPT !.last = {ReadBack(k)}, !.own = TRUE]
  BY <1>1, <1>2, <1>4
<1>5. CASE \E on \in BOOLEAN : n = [j EXCEPT !.last = {on}, !.own = FALSE]
  BY <1>2, <1>5
<1>6. n = j \/ n = [j EXCEPT !.last = {ReadBack(k)}, !.own = TRUE]
      \/ \E on \in BOOLEAN : n = [j EXCEPT !.last = {on}, !.own = FALSE]
  <2>1. ASSUME k \in Polled, NEW stray \in Strays[k] PROVE stray.on \in BOOLEAN
    BY <2>1, SettingsAssumption DEF DeviceInv, Setting
  <2>2. QED
    BY <2>1 DEF Answered
<1>7. QED
  BY <1>3, <1>4, <1>5, <1>6

\* The device's own read-back confirms what the device has.
LEMMA DeviceReadBack ==
    ASSUME DeviceInv, NEW x \in Callers, ReadBackState(x)
    PROVE  DeviceInv'
<1> DEFINE j == J(x)
           k == j.call.of
<1>1. job[x] # {} /\ j.pc = "read" /\ j \in Jobs /\ CallRight(device, j) /\ k \in Settings
      /\ j.polls \in Nat /\ j.polls < MaxPolls /\ j.last # {j.call.on}
  <2>1. job[x] # {} /\ j.pc = "read"
    BY DEF ReadBackState, Busy, J
  <2>2. j \in Jobs /\ CallRight(device, j) /\ j.call \in Calls
    BY <2>1, DeviceJob
  <2>3. QED
    BY <2>1, <2>2, DeviceCall DEF Jobs, CallRight
<1>2. MaxPolls \in Nat
  BY SettingsAssumption DEF DeviceInv
<1> DEFINE r == [j EXCEPT !.polls = @ + 1]
<1>3. PICK m \in Answered(r) :
        Set(x, [m EXCEPT !.pc = IF Confirmed(m) THEN "publish" ELSE "write"])
  BY DEF ReadBackState
<1> DEFINE n == [m EXCEPT !.pc = IF Confirmed(m) THEN "publish" ELSE "write"]
<1>5. r \in Jobs /\ r.call = j.call /\ r.polls = j.polls + 1 /\ r.last = j.last
  <2>1. j.polls + 1 \in 0 .. MaxPolls
    BY <1>1, <1>2
  <2>2. QED
    BY <1>1, <2>1 DEF Jobs
<1> HIDE DEF r
<1>6. /\ m \in Jobs /\ m.call = j.call /\ m.polls = j.polls + 1
      /\ \/ m.last = j.last
         \/ ~m.own
         \/ k \in Polled => m.last = {device[k].on}
  BY <1>1, <1>3, <1>5, DeviceAnswered
<1>7. /\ n \in Jobs /\ n.call = j.call /\ n.polls = m.polls /\ n.last = m.last /\ n.own = m.own
      /\ n.pc = IF Confirmed(m) THEN "publish" ELSE "write"
  BY <1>6 DEF Jobs
<1>8. job' = [job EXCEPT ![x] = {n}] /\ UNCHANGED <<device, frame, shown, intended, poll>>
  BY <1>3 DEF Set, ReadBackState
<1> HIDE DEF n
<1>9. CallRight(device', n)
  <2>1. n.pc = "write" => n.polls < MaxPolls /\ n.last # {n.call.on}
    <3>1. n.pc = "write" => m.last # {m.call.on} /\ m.polls # MaxPolls
      BY <1>7 DEF Confirmed
    <3>2. QED
      BY <1>1, <1>2, <1>6, <1>7, <3>1
  <2>2. k \in Polled /\ n.own /\ n.last = {n.call.on} => device[k].on = n.call.on
    BY <1>1, <1>6, <1>7
  <2>3. QED
    BY <1>7, <1>8, <2>1, <2>2 DEF CallRight
<1>10. /\ job' \in [Callers -> Opt(Jobs)]
       /\ \A y \in Callers : job'[y] # {} => CallRight(device', Only(job'[y]))
       /\ \A i : Called(i) => Called(i)'
  BY <1>1, <1>7, <1>8, <1>9, DeviceCalls
<1>11. \A p \in poll' : PollRight(p)'
  BY <1>8, <1>10, DevicePollStays
<1>12. \A y \in Callers : job'[y] # {} => CallRight(device, J(y))'
  BY <1>10 DEF J
<1>13. QED
  BY <1>8, <1>10, <1>11, <1>12 DEF DeviceInv


-----------------------------------------------------------------------------
(* The poll *)

LEMMA DevicePoll ==
    ASSUME DeviceInv, NEW p \in poll
    PROVE  /\ p \in Polls /\ poll = {p} /\ PollRight(p)
           /\ p = [draft |-> p.draft, intended |-> p.intended, next |-> p.next, got |-> p.got,
                   late |-> p.late, selling |-> p.selling]
           /\ p.next \in 1 .. Len(Order) /\ Order[p.next] \in Polled
           /\ p.draft \in [Settings -> Known] /\ p.intended \in Opt(Amounts)
           /\ p.got \in Opt(Opt(Setting))
<1>1. poll \in Opt(Polls) /\ poll # {} /\ PollRight(p)
  BY DEF DeviceInv
<1>2. poll = {p} /\ p \in Polls
  <2>1. PICK q \in Polls : poll = {q}
    BY <1>1 DEF Opt
  <2>2. QED
    BY <2>1
<1>3. p.next \in DOMAIN Order /\ DOMAIN Order = 1 .. Len(Order)
  BY <1>2, SettingsAssumption DEF Polls, DeviceInv
<1>4. Order[p.next] \in Polled
  BY <1>3 DEF Polled
<1>5. p = [draft |-> p.draft, intended |-> p.intended, next |-> p.next, got |-> p.got,
           late |-> p.late, selling |-> p.selling]
  BY <1>2 DEF Polls
<1>6. /\ p.draft \in [Settings -> Known] /\ p.intended \in Opt(Amounts)
      /\ p.got \in Opt(Opt(Setting))
  BY <1>2 DEF Polls
<1>7. QED
  BY <1>1, <1>2, <1>3, <1>4, <1>5, <1>6

\* A target is staged or written while the poll is under way.
LEMMA DeviceTarget ==
    ASSUME DeviceInv, NEW amount \in Amounts, "selling" \in Polled, Target(amount),
           \A n : Called(n) => Called(n)'
    PROVE  /\ shown' \in [Settings -> Known]
           /\ intended' \in Opt(Amounts)
           /\ poll' \in Opt(Polls)
           /\ \A p \in poll' : PollRight(p)'
<1>1. /\ shown \in [Settings -> Known] /\ poll \in Opt(Polls)
      /\ "selling" \in Settings
  BY DEF DeviceInv, Settings
<1>2. {amount} \in Opt(Amounts)
  BY DeviceOpt
<1>3. shown' = [shown EXCEPT !["selling"].amount = {amount}] /\ intended' = {amount}
      /\ poll' = {[p EXCEPT !.late = TRUE] : p \in poll}
  BY DEF Target
<1>4. shown' \in [Settings -> Known]
      /\ \A k \in Settings : shown'[k].on = shown[k].on
  BY <1>1, <1>2, <1>3 DEF Known
<1>5. CASE poll = {}
  <2>1. poll' = {}
    BY <1>3, <1>5
  <2>2. {} \in Opt(Polls)
    BY DeviceOpt
  <2>3. QED
    BY <1>2, <1>3, <1>4, <2>1, <2>2
<1>6. ASSUME NEW p \in poll
      PROVE  poll' \in Opt(Polls) /\ \A q \in poll' : PollRight(q)'
  <2>1. p \in Polls /\ poll = {p} /\ PollRight(p)
    BY DevicePoll
  <2> DEFINE n == [p EXCEPT !.late = TRUE]
  <2>2. n \in Polls
    BY <2>1 DEF Polls
  <2>3. /\ n.draft = p.draft /\ n.intended = p.intended /\ n.next = p.next /\ n.late
        /\ n.selling = p.selling
    BY <2>1 DEF Polls
  <2>4. poll' = {n}
    BY <1>3, <2>1
  <2> HIDE DEF n
  <2>5. poll' \in Opt(Polls)
    BY <2>2, <2>4, DeviceOpt
  <2>6. ASSUME NEW q, q = n PROVE PollRight(q)'
    <3>1. Polled \subseteq Settings
      BY DEF Settings
    <3>2. QED
      BY <1>4, <2>1, <2>3, <2>6, <3>1 DEF PollRight, Looked
  <2>7. QED
    BY <2>4, <2>5, <2>6
<1>7. QED
  BY <1>2, <1>3, <1>4, <1>5, <1>6

LEMMA DeviceStage ==
    ASSUME DeviceInv, NEW x \in Callers, NEW call \in Calls, StageTarget(x, call)
    PROVE  DeviceInv'
<1> DEFINE j == Ended(NewJob(call, FALSE, call.amount))
<1>1. call.amount \in Amounts /\ call.of = "selling" /\ "selling" \in Polled
  <2>1. call.of \in Settings /\ call.amount \in Amounts /\ call.of = "selling"
    BY DeviceCall DEF StageTarget
  <2>2. QED
    BY <2>1, SettingsAssumption DEF Settings, DeviceInv
<1>2. j \in Jobs /\ j.pc = "done"
  BY <1>1, DeviceNewJob, DeviceEnded
<1>3. /\ job[x] = {} /\ job' = [job EXCEPT ![x] = {j}]
      /\ Target(call.amount) \/ UNCHANGED <<shown, intended, poll>>
      /\ UNCHANGED <<device, frame>>
  BY DEF StageTarget, Set
<1> HIDE DEF j
<1>4. CallRight(device', j)
  BY <1>2 DEF CallRight
<1>5. /\ job' \in [Callers -> Opt(Jobs)]
      /\ \A y \in Callers : job'[y] # {} => CallRight(device', Only(job'[y]))
      /\ \A k : Called(k) => Called(k)'
  BY <1>2, <1>3, <1>4, DeviceCalls
<1>6. /\ shown' \in [Settings -> Known]
      /\ intended' \in Opt(Amounts)
      /\ poll' \in Opt(Polls)
      /\ \A p \in poll' : PollRight(p)'
  <2>1. CASE Target(call.amount)
    BY <1>1, <1>5, <2>1, DeviceTarget
  <2>2. CASE UNCHANGED <<shown, intended, poll>>
    BY <1>5, <2>2, DevicePollStays DEF DeviceInv
  <2>3. QED
    BY <1>3, <2>1, <2>2
<1>7. \A y \in Callers : job'[y] # {} => CallRight(device, J(y))'
  BY <1>5 DEF J
<1>8. QED
  BY <1>1, <1>3, <1>5, <1>6, <1>7 DEF DeviceInv

\* What a call shows: a target, an amount, or the state it read back.
LEMMA DevicePublished ==
    ASSUME DeviceInv, NEW x \in Callers, Publish(x)
    PROVE  LET j == J(x) IN
           /\ job[x] # {} /\ j \in Jobs /\ j.call.of \in Settings
           /\ job' = [job EXCEPT ![x] = {Ended(j)}] /\ UNCHANGED <<device, frame>>
           /\ \/ j.call.of = "selling" /\ "selling" \in Polled /\ Target(j.amount)
              \/ UNCHANGED <<intended, poll>> /\ shown' = [shown EXCEPT ![j.call.of].amount = {j.amount}]
              \/ UNCHANGED <<intended, poll>> /\ shown' = shown
              \/ /\ UNCHANGED <<intended, poll>> /\ j.last # {}
                 /\ shown' = [shown EXCEPT ![j.call.of].on = j.last]
<1> DEFINE j == J(x)
<1>1. job[x] # {} /\ job' = [job EXCEPT ![x] = {Ended(j)}] /\ UNCHANGED <<device, frame>>
  BY DEF Publish, Busy, Set
<1>2. /\ j \in Jobs /\ j.call.kind \in {"switch", "slider"} /\ j.call.of \in Settings
      /\ j.call.kind = "slider" => j.call.of \in {"limit", "selling"}
  BY <1>1, DeviceJob, DeviceCall
<1>3. CASE HasData /\ j.call.kind = "slider" /\ j.call.of = "selling"
  <2>1. Target(j.amount)
    BY <1>3 DEF Publish
  <2>2. "selling" \in Polled
    BY <1>2, <1>3, SettingsAssumption DEF Settings, DeviceInv
  <2>3. QED
    BY <1>1, <1>2, <1>3, <2>1, <2>2
<1>4. CASE HasData /\ j.call.kind = "slider" /\ j.call.of = "limit"
  <2>1. shown' = [shown EXCEPT ![j.call.of].amount = {j.amount}] /\ UNCHANGED <<intended, poll>>
    BY <1>4 DEF Publish
  <2>2. QED
    BY <1>1, <1>2, <2>1
<1>5. CASE HasData /\ j.call.kind = "switch"
  <2>1. /\ shown' = IF j.last = {} THEN shown ELSE [shown EXCEPT ![j.call.of].on = j.last]
        /\ UNCHANGED <<intended, poll>>
    BY <1>5 DEF Publish
  <2>2. QED
    BY <1>1, <1>2, <2>1
<1>6. CASE ~HasData
  <2>1. UNCHANGED <<shown, intended, poll>>
    BY <1>6 DEF Publish
  <2>2. QED
    BY <1>1, <1>2, <2>1
<1>7. QED
  BY <1>2, <1>3, <1>4, <1>5, <1>6

\* What is shown keeps its type, and no state goes back to unknown.
LEMMA DeviceShown ==
    ASSUME DeviceInv, NEW k \in Settings, NEW j \in Jobs,
           \/ shown' = [shown EXCEPT ![k].amount = {j.amount}]
           \/ shown' = shown
           \/ j.last # {} /\ shown' = [shown EXCEPT ![k].on = j.last]
    PROVE  /\ shown' \in [Settings -> Known]
           /\ \A n \in Settings : shown'[n].on = {} => shown[n].on = {}
<1>1. shown \in [Settings -> Known]
  BY DEF DeviceInv
<1>2. j.last \in Opt(BOOLEAN) /\ {j.amount} \in Opt(Amounts)
  BY DeviceOpt DEF Jobs
<1>3. CASE shown' = [shown EXCEPT ![k].amount = {j.amount}]
  BY <1>1, <1>2, <1>3 DEF Known
<1>4. CASE j.last # {} /\ shown' = [shown EXCEPT ![k].on = j.last]
  BY <1>1, <1>2, <1>4 DEF Known
<1>5. QED
  BY <1>1, <1>3, <1>4

LEMMA DevicePublish ==
    ASSUME DeviceInv, NEW x \in Callers, Publish(x)
    PROVE  DeviceInv'
<1> DEFINE j == J(x)
           n == Ended(j)
<1>1. /\ job[x] # {} /\ j \in Jobs /\ j.call.of \in Settings
      /\ job' = [job EXCEPT ![x] = {n}] /\ UNCHANGED <<device, frame>>
  BY DevicePublished
<1>2. n \in Jobs /\ n.call = j.call /\ n.pc = "done"
  BY <1>1, DeviceEnded
<1> HIDE DEF n
<1>3. CallRight(device', n)
  BY <1>2 DEF CallRight
<1>4. /\ job' \in [Callers -> Opt(Jobs)]
      /\ \A y \in Callers : job'[y] # {} => CallRight(device', Only(job'[y]))
      /\ \A k : Called(k) => Called(k)'
  BY <1>1, <1>2, <1>3, DeviceCalls
<1>5. /\ shown' \in [Settings -> Known]
      /\ intended' \in Opt(Amounts)
      /\ poll' \in Opt(Polls)
      /\ \A p \in poll' : PollRight(p)'
      /\ intended' # {} => "selling" \in Polled
  <2>1. CASE "selling" \in Polled /\ Target(j.amount)
    <3>1. j.amount \in Amounts
      BY <1>1 DEF Jobs
    <3>2. QED
      BY <1>4, <2>1, <3>1, DeviceTarget
  <2>2. CASE /\ UNCHANGED <<intended, poll>>
             /\ \/ shown' = [shown EXCEPT ![j.call.of].amount = {j.amount}]
                \/ shown' = shown
                \/ j.last # {} /\ shown' = [shown EXCEPT ![j.call.of].on = j.last]
    <3>1. /\ shown' \in [Settings -> Known]
          /\ \A k \in Settings : shown'[k].on = {} => shown[k].on = {}
      BY <1>1, <2>2, DeviceShown
    <3>2. ASSUME NEW p \in poll' PROVE PollRight(p)'
      <4>1. PollRight(p)
        BY <2>2, DevicePoll
      <4>2. ASSUME NEW k \in Polled, Looked(p, k)', p.draft[k].on = {}
            PROVE  shown'[k].on = {} \/ Called(k)'
        <5>1. shown[k].on = {} \/ Called(k)
          BY <4>1, <4>2 DEF PollRight, Looked
        <5>2. CASE Called(k)
          BY <1>4, <5>2
        <5>3. CASE shown[k].on = {} /\ k # j.call.of
          <6>1. shown'[k].on = shown[k].on
            BY <2>2, <4>2, <5>3 DEF DeviceInv, Settings
          <6>2. QED
            BY <5>3, <6>1
        <5>4. CASE k = j.call.of
          BY <1>1, <1>4, <5>4 DEF Called
        <5>5. QED
          BY <5>1, <5>2, <5>3, <5>4
      <4>3. QED
        BY <2>2, <4>1, <4>2 DEF PollRight, Looked
    <3>3. QED
      BY <2>2, <3>1, <3>2 DEF DeviceInv
  <2>3. QED
    BY <2>1, <2>2, DevicePublished
<1>6. \A y \in Callers : job'[y] # {} => CallRight(device, J(y))'
  BY <1>4 DEF J
<1>7. QED
  BY <1>1, <1>4, <1>5, <1>6 DEF DeviceInv


LEMMA DevicePollFrame == ASSUME DeviceInv, PollFrame PROVE DeviceInv'
<1> DEFINE draft == [k \in Settings |->
                        IF k \in Framed THEN [on |-> {frame[k]}, amount |-> {}] ELSE Unknown]
           p == [draft |-> draft, intended |-> {}, next |-> 1, got |-> {}, late |-> FALSE,
                 selling |-> FALSE]
<1>1. ASSUME NEW k \in Settings PROVE draft[k] \in Known
  <2>1. CASE k \in Framed
    <3>1. frame[k] \in BOOLEAN
      BY <2>1 DEF DeviceInv
    <3>2. {frame[k]} \in Opt(BOOLEAN) /\ {} \in Opt(Amounts)
      BY <3>1, DeviceOpt
    <3>3. QED
      BY <2>1, <3>2 DEF Known
  <2>2. CASE k \notin Framed
    <3>1. {} \in Opt(BOOLEAN) /\ {} \in Opt(Amounts)
      BY DeviceOpt
    <3>2. QED
      BY <2>2, <3>1 DEF Known, Unknown
  <2>3. QED
    BY <2>1, <2>2
<1>2. \A k \in Framed : draft[k].on # {}
  BY DEF Settings
<1>3. draft \in [Settings -> Known]
  BY <1>1
<1>4. poll' = {p} /\ UNCHANGED <<device, frame, shown, intended, job>>
  BY DEF PollFrame
<1> HIDE DEF draft
<1>5. p \in Polls
  <2>1. 1 \in DOMAIN Order /\ {} \in Opt(Amounts)
        /\ {} \in Opt(Opt(Setting))
    BY DeviceOpt, SettingsAssumption DEF DeviceInv
  <2>2. QED
    BY <1>3, <2>1 DEF Polls
<1>6. p.draft = draft /\ p.intended = {} /\ p.next = 1
  OBVIOUS
<1> HIDE DEF p
<1>7. poll' \in Opt(Polls)
  BY <1>4, <1>5, DeviceOpt
<1>8. ASSUME NEW q \in poll' PROVE PollRight(q)'
  <2>1. q = p
    BY <1>4
  <2>2. \A k : ~Looked(q, k)'
    BY <1>6, <2>1 DEF Looked
  <2>3. QED
    BY <1>2, <1>6, <2>1, <2>2 DEF PollRight
<1>9. \A x \in Callers : job'[x] # {} => CallRight(device, J(x))'
  BY <1>4 DEF DeviceInv, J, CallRight
<1>10. QED
  BY <1>4, <1>7, <1>8, <1>9 DEF DeviceInv

LEMMA DevicePollPlain ==
    ASSUME DeviceInv, PollPlain
    PROVE  DeviceInv' /\ \A k \in Settings : shown[k].on # {} => shown'[k].on # {}
<1>1. PICK p \in poll :
        shown' = [k \in Settings |-> IF k \in Framed THEN p.draft[k] ELSE shown[k]]
  BY DEF PollPlain
<1>2. p.draft \in [Settings -> Known] /\ PollRight(p)
  BY DevicePoll
<1>3. poll' = {} /\ UNCHANGED <<device, frame, intended, job>>
  BY DEF PollPlain
<1>4. shown' \in [Settings -> Known]
  BY <1>1, <1>2 DEF DeviceInv
<1>5. \A x \in Callers : job'[x] # {} => CallRight(device, J(x))'
  BY <1>3 DEF DeviceInv, J, CallRight
<1>6. poll' \in Opt(Polls) /\ \A q \in poll' : PollRight(q)'
  <2>1. {} \in Opt(Polls)
    BY DeviceOpt
  <2>2. QED
    BY <1>3, <2>1
<1>7. DeviceInv'
  BY <1>3, <1>4, <1>5, <1>6 DEF DeviceInv
<1>8. \A k \in Settings : shown[k].on # {} => shown'[k].on # {}
  BY <1>1, <1>2 DEF PollRight
<1>9. QED
  BY <1>7, <1>8

LEMMA DevicePollRead ==
    ASSUME DeviceInv, NEW answer, PollRead(answer)
    PROVE  DeviceInv'
<1>1. PICK p \in poll : /\ \/ answer \in {{}, {device[Order[p.next]]}}
                           \/ answer \in {{stray} : stray \in Strays[Order[p.next]]}
                        /\ poll' = {[p EXCEPT !.got = {answer}]}
  BY DEF PollRead
<1>2. /\ p \in Polls /\ PollRight(p) /\ Order[p.next] \in Polled
      /\ UNCHANGED <<device, frame, shown, intended, job>>
  BY DevicePoll DEF PollRead
<1>3. device[Order[p.next]] \in Setting
  BY <1>2 DEF DeviceInv, Settings
<1>4. answer \in Opt(Setting)
  <2>1. {} \in Opt(Setting) /\ {device[Order[p.next]]} \in Opt(Setting)
    BY <1>3, DeviceOpt
  <2>2. ASSUME NEW stray \in Strays[Order[p.next]] PROVE {stray} \in Opt(Setting)
    <3>1. stray \in Setting
      BY <1>2, SettingsAssumption DEF DeviceInv
    <3>2. QED
      BY <3>1, DeviceOpt
  <2>3. QED
    BY <1>1, <2>1, <2>2
<1>5. {answer} \in Opt(Opt(Setting))
  BY <1>4, DeviceOpt
<1> DEFINE n == [p EXCEPT !.got = {answer}]
<1>6. n \in Polls
  BY <1>2, <1>5 DEF Polls
<1>7. /\ n.draft = p.draft /\ n.intended = p.intended /\ n.next = p.next /\ n.late = p.late
      /\ n.selling = p.selling
  BY <1>2 DEF Polls
<1>8. poll' = {n}
  BY <1>1
<1> HIDE DEF n
<1>9. poll' \in Opt(Polls)
  BY <1>6, <1>8, DeviceOpt
<1>10. ASSUME NEW q, q = n PROVE PollRight(q)'
  BY <1>2, <1>7, <1>10 DEF PollRight, Looked, Called, J
<1>11. \A x \in Callers : job'[x] # {} => CallRight(device, J(x))'
  BY <1>2 DEF DeviceInv, J, CallRight
<1>12. \A q \in poll' : PollRight(q)'
  BY <1>8, <1>10
<1>13. QED
  BY <1>2, <1>9, <1>11, <1>12 DEF DeviceInv


\* The poll has seen, with this answer, the device selling.
SeenSelling(p) == Order[p.next] = "selling" /\ p.got # {{}} /\ Only(Only(p.got)).on

\* The dict after an answer: it lacks only what nothing had shown, or what a
\* call has shown; the target in it is gone only for a reason.
LEMMA DeviceKept ==
    ASSUME DeviceInv, NEW p \in poll, p.got # {},
           NEW k, k = Order[p.next], NEW answer, answer = Only(p.got),
           NEW draft, draft = [p.draft EXCEPT ![k] = Kept(k, answer)],
           NEW target, target = IF k = "selling" THEN KeptTarget(answer) ELSE p.intended
    PROVE  /\ draft \in [Settings -> Known] /\ target \in Opt(Amounts)
           /\ \A n \in Framed : draft[n].on # {}
           /\ \A n \in Polled :
                 (\E i \in 1 .. p.next : Order[i] = n) /\ draft[n].on = {}
                    => shown[n].on = {} \/ Called(n)
           /\ (\E i \in 1 .. p.next : Order[i] = "selling") /\ target = {} /\ intended # {}
                 => SeenSelling(p) \/ ((p.selling \/ p.late) /\ k # "selling")
           /\ target # {} => "selling" \in Polled
<1>1. /\ p \in Polls /\ PollRight(p) /\ k \in Polled /\ p.next \in 1 .. Len(Order)
      /\ p.draft \in [Settings -> Known] /\ p.intended \in Opt(Amounts)
      /\ p.got \in Opt(Opt(Setting))
  BY DevicePoll
<1>2. /\ Len(Order) \in Nat /\ Polled \cap Framed = {} /\ k \in Settings
      /\ shown \in [Settings -> Known] /\ intended \in Opt(Amounts)
      /\ intended # {} => "selling" \in Polled
  BY <1>1, SettingsAssumption DEF DeviceInv, Settings
<1>3. answer \in Opt(Setting) /\ p.got = {answer}
  BY <1>1, DeviceOpt
<1>4. Kept(k, answer) \in Known
      /\ (Kept(k, answer).on = {} => shown[k].on = {})
  <2>1. CASE answer = {}
    BY <1>2, <2>1 DEF Kept
  <2>2. CASE answer # {}
    <3> DEFINE s == Only(answer)
    <3>1. s \in Setting
      BY <1>3, <2>2, DeviceOpt
    <3>2. s.on \in BOOLEAN /\ s.amount \in Amounts
      BY <3>1 DEF Setting
    <3>3. Kept(k, answer) = [on |-> {s.on}, amount |-> {s.amount}]
      BY <2>2 DEF Kept
    <3> HIDE DEF s
    <3>4. {s.on} \in Opt(BOOLEAN) /\ {s.amount} \in Opt(Amounts)
      BY <3>2, DeviceOpt
    <3>5. QED
      BY <3>3, <3>4 DEF Known
  <2>3. QED
    BY <2>1, <2>2
<1>5. draft \in [Settings -> Known]
  BY <1>1, <1>2, <1>4
<1>6. KeptTarget(answer) \in Opt(Amounts) /\ target \in Opt(Amounts)
  <2>1. {} \in Opt(Amounts)
    BY DeviceOpt
  <2>2. QED
    BY <1>1, <1>2, <2>1 DEF KeptTarget
<1>7. ASSUME NEW n \in Framed PROVE draft[n].on # {}
  <2>1. n # k /\ n \in Settings
    BY <1>1, <1>2 DEF Settings
  <2>2. draft[n] = p.draft[n]
    BY <1>1, <2>1
  <2>3. QED
    BY <1>1, <2>2 DEF PollRight
<1>8. ASSUME NEW n \in Polled, NEW i \in 1 .. p.next, Order[i] = n, draft[n].on = {}
      PROVE  shown[n].on = {} \/ Called(n)
  <2>1. n \in Settings
    BY DEF Settings
  <2>2. CASE n = k
    <3>1. draft[n] = Kept(k, answer)
      BY <1>1, <2>1, <2>2
    <3>2. QED
      BY <1>4, <1>8, <2>2, <3>1
  <2>3. CASE n # k
    <3>1. draft[n] = p.draft[n]
      BY <1>1, <2>1, <2>3
    <3>2. i \in 1 .. p.next - 1
      BY <1>1, <1>8, <2>3
    <3>3. Looked(p, n)
      BY <1>8, <3>2 DEF Looked
    <3>4. QED
      BY <1>1, <1>8, <3>1, <3>3 DEF PollRight
  <2>4. QED
    BY <2>2, <2>3
<1>9. ASSUME NEW i \in 1 .. p.next, Order[i] = "selling", target = {}, intended # {}
      PROVE  SeenSelling(p) \/ ((p.selling \/ p.late) /\ k # "selling")
  <2>1. CASE k = "selling"
    <3>1. KeptTarget(answer) = {}
      BY <1>9, <2>1
    <3>2. answer # {} /\ Only(answer).on
      BY <1>9, <3>1 DEF KeptTarget
    <3>3. p.got # {{}}
      BY <1>3, <3>2
    <3>4. Order[p.next] = "selling" /\ Only(Only(p.got)).on
      BY <2>1, <3>2
    <3>5. QED
      BY <3>3, <3>4 DEF SeenSelling
  <2>2. CASE k # "selling"
    <3>1. i \in 1 .. p.next - 1
      BY <1>1, <1>9, <2>2
    <3>2. Looked(p, "selling") /\ p.intended = {}
      BY <1>9, <2>2, <3>1 DEF Looked
    <3>3. QED
      BY <1>1, <1>9, <2>2, <3>2 DEF PollRight
  <2>3. QED
    BY <2>1, <2>2
<1>10. target # {} => "selling" \in Polled
  BY <1>1 DEF PollRight
<1>11. QED
  BY <1>5, <1>6, <1>7, <1>8, <1>9, <1>10

\* The last answer publishes the dict.
LEMMA DevicePollLast ==
    ASSUME DeviceInv, PollKeep, \E p \in poll : p.next = Len(Order)
    PROVE  /\ DeviceInv'
           /\ \A k \in Settings : shown[k].on # {} /\ ~Called(k) => shown'[k].on # {}
           /\ intended # {} /\ intended' = {} =>
                 \E p \in poll : p.late \/ p.selling \/ SeenSelling(p)
<1>1. PICK p \in poll : p.next = Len(Order)
  OBVIOUS
<1>2. poll = {p} /\ p.next \in 1 .. Len(Order)
  BY DevicePoll
<1> DEFINE k == Order[p.next]
           answer == Only(p.got)
           draft == [p.draft EXCEPT ![k] = Kept(k, answer)]
           target == IF k = "selling" THEN KeptTarget(answer) ELSE p.intended
<1>3. /\ p.got # {} /\ shown' = draft /\ intended' = target /\ poll' = {}
      /\ UNCHANGED <<device, frame, job>>
  BY <1>1, <1>2 DEF PollKeep
<1>4. /\ draft \in [Settings -> Known] /\ target \in Opt(Amounts)
      /\ \A n \in Framed : draft[n].on # {}
      /\ \A n \in Polled :
            (\E i \in 1 .. p.next : Order[i] = n) /\ draft[n].on = {}
               => shown[n].on = {} \/ Called(n)
      /\ (\E i \in 1 .. p.next : Order[i] = "selling") /\ target = {} /\ intended # {}
            => SeenSelling(p) \/ ((p.selling \/ p.late) /\ k # "selling")
      /\ target # {} => "selling" \in Polled
  <2>1. k = Order[p.next] /\ answer = Only(p.got)
        /\ draft = [p.draft EXCEPT ![k] = Kept(k, answer)]
        /\ target = IF k = "selling" THEN KeptTarget(answer) ELSE p.intended
    OBVIOUS
  <2> HIDE DEF k, answer, draft, target
  <2>2. QED
    BY <1>3, <2>1, DeviceKept
<1> HIDE DEF draft, target
<1>5. \A n \in Polled : \E i \in 1 .. p.next : Order[i] = n
  BY <1>1, SettingsAssumption DEF Polled, DeviceInv
<1>6. DeviceInv'
  <2>1. {} \in Opt(Polls)
    BY DeviceOpt
  <2>2. poll' \in Opt(Polls) /\ \A q \in poll' : PollRight(q)'
    BY <1>3, <2>1
  <2>3. \A x \in Callers : job'[x] # {} => CallRight(device, J(x))'
    BY <1>3 DEF DeviceInv, J, CallRight
  <2>4. QED
    BY <1>3, <1>4, <2>2, <2>3 DEF DeviceInv
<1>7. \A n \in Settings : shown[n].on # {} /\ ~Called(n) => shown'[n].on # {}
  BY <1>3, <1>4, <1>5 DEF Settings
<1>8. intended # {} /\ intended' = {} => p.late \/ p.selling \/ SeenSelling(p)
  <2>1. intended # {} => "selling" \in Polled
    BY DEF DeviceInv
  <2>2. QED
    BY <1>3, <1>4, <1>5, <2>1
<1>9. QED
  BY <1>6, <1>7, <1>8

\* Any other answer goes on to the next setting.
LEMMA DevicePollMore ==
    ASSUME DeviceInv, PollKeep, NEW p \in poll, p.next # Len(Order)
    PROVE  DeviceInv' /\ UNCHANGED <<shown, intended>>
<1>1. /\ poll = {p} /\ p.next \in 1 .. Len(Order) /\ p \in Polls /\ PollRight(p)
      /\ p = [draft |-> p.draft, intended |-> p.intended, next |-> p.next, got |-> p.got,
              late |-> p.late, selling |-> p.selling]
  BY DevicePoll
<1> DEFINE k == Order[p.next]
           answer == Only(p.got)
           draft == [p.draft EXCEPT ![k] = Kept(k, answer)]
           target == IF k = "selling" THEN KeptTarget(answer) ELSE p.intended
           later == IF k = "selling" THEN FALSE ELSE p.late
           selling == p.selling \/ (k = "selling" /\ answer # {} /\ Only(answer).on)
           n == [p EXCEPT !.draft = draft, !.intended = target, !.next = @ + 1, !.got = {},
                          !.late = later, !.selling = selling]
<1>2. /\ p.got # {} /\ UNCHANGED <<device, frame, job, shown, intended>>
      /\ poll' = {n}
  BY <1>1 DEF PollKeep
<1>4. /\ draft \in [Settings -> Known] /\ target \in Opt(Amounts)
      /\ \A m \in Framed : draft[m].on # {}
      /\ \A m \in Polled :
            (\E i \in 1 .. p.next : Order[i] = m) /\ draft[m].on = {}
               => shown[m].on = {} \/ Called(m)
      /\ (\E i \in 1 .. p.next : Order[i] = "selling") /\ target = {} /\ intended # {}
            => SeenSelling(p) \/ ((p.selling \/ p.late) /\ k # "selling")
      /\ target # {} => "selling" \in Polled
  <2>1. k = Order[p.next] /\ answer = Only(p.got)
        /\ draft = [p.draft EXCEPT ![k] = Kept(k, answer)]
        /\ target = IF k = "selling" THEN KeptTarget(answer) ELSE p.intended
    OBVIOUS
  <2> HIDE DEF k, answer, draft, target
  <2>2. QED
    BY <1>2, <2>1, DeviceKept
<1>5. later \in BOOLEAN /\ selling \in BOOLEAN
  <2>1. p.late \in BOOLEAN /\ p.selling \in BOOLEAN
    BY <1>1 DEF Polls
  <2>2. QED
    BY <2>1
<1>6. p.next + 1 \in DOMAIN Order /\ p.next \in Nat
  BY <1>1, SettingsAssumption DEF DeviceInv
<1>7. (SeenSelling(p) => selling) /\ (p.selling => selling) /\ (k # "selling" => later = p.late)
  <2>1. ASSUME SeenSelling(p) PROVE selling
    <3>1. p.got = {answer}
      BY <1>2, DevicePoll, DeviceOpt
    <3>2. QED
      BY <2>1, <3>1 DEF SeenSelling
  <2>2. QED
    BY <2>1
<1> HIDE DEF draft, target, later, selling, k
<1>8. n \in Polls
  <2> DEFINE r == [p EXCEPT !.draft = draft, !.intended = target, !.next = @ + 1, !.got = {}]
  <2>1. {} \in Opt(Opt(Setting))
    BY DeviceOpt
  <2>2. r \in Polls
    BY <1>1, <1>4, <1>6, <2>1 DEF Polls
  <2>3. n = [r EXCEPT !.late = later, !.selling = selling]
    OBVIOUS
  <2> HIDE DEF r
  <2>4. QED
    BY <1>5, <2>2, <2>3 DEF Polls
<1>9. /\ n.draft = draft /\ n.intended = target /\ n.next = p.next + 1
      /\ n.late = later /\ n.selling = selling
  BY <1>1 DEF Polls
<1> HIDE DEF n
<1>10. poll' \in Opt(Polls)
  BY <1>2, <1>8, DeviceOpt
<1>11. 1 .. n.next - 1 = 1 .. p.next
  BY <1>6, <1>9
<1>12. ASSUME NEW q, q = n PROVE PollRight(q)'
  <2>1. ASSUME NEW m \in Polled, Looked(q, m)', q.draft[m].on = {}
        PROVE  shown'[m].on = {} \/ Called(m)'
    <3>1. shown[m].on = {} \/ Called(m)
      BY <1>4, <1>9, <1>11, <1>12, <2>1 DEF Looked
    <3>2. QED
      BY <1>2, <3>1 DEF Called, J
  <2>2. ASSUME Looked(q, "selling")', q.intended = {}, intended' # {}
        PROVE  q.late \/ q.selling
    <3>1. \E i \in 1 .. p.next : Order[i] = "selling"
      BY <1>11, <1>12, <2>2 DEF Looked
    <3>2. SeenSelling(p) \/ ((p.selling \/ p.late) /\ k # "selling")
      BY <1>2, <1>4, <1>9, <1>12, <2>2, <3>1
    <3>3. QED
      BY <1>7, <1>9, <1>12, <3>2
  <2>3. (\A m \in Framed : q.draft[m].on # {}) /\ (q.intended # {} => "selling" \in Polled)
    BY <1>4, <1>9, <1>12
  <2>4. QED
    BY <2>1, <2>2, <2>3 DEF PollRight
<1>13. \A x \in Callers : job'[x] # {} => CallRight(device, J(x))'
  BY <1>2 DEF DeviceInv, J, CallRight
<1>14. \A q \in poll' : PollRight(q)'
  BY <1>2, <1>12
<1>15. QED
  BY <1>2, <1>10, <1>13, <1>14 DEF DeviceInv


-----------------------------------------------------------------------------
(* The invariant and the theorems *)

LEMMA DeviceStep == ASSUME DeviceInv, SettingsNext PROVE DeviceInv'
<1>1. CASE Frame
  BY <1>1, DeviceFrame
<1>2. CASE SellingEnds
  BY <1>2, DeviceSelling
<1>3. CASE PollFrame
  BY <1>3, DevicePollFrame
<1>4. CASE PollPlain
  BY <1>4, DevicePollPlain
<1>5. CASE PollKeep
  BY <1>5, DevicePollLast, DevicePollMore DEF PollKeep
<1>6. CASE \E answer \in Opt(Setting) : PollRead(answer)
  BY <1>6, DevicePollRead
<1>7. ASSUME NEW x \in Callers, NEW call \in Calls,
             Begin(x, call) \/ StageTarget(x, call)
      PROVE  DeviceInv'
  BY <1>7, DeviceBegin, DeviceStage
<1>8. ASSUME NEW x \in Callers, Call(x) PROVE DeviceInv'
  BY <1>8, DeviceWrite, DeviceRaise, DeviceReadBack, DevicePublish DEF Call
<1>9. QED
  BY <1>1, <1>2, <1>3, <1>4, <1>5, <1>6, <1>7, <1>8 DEF SettingsNext, SettingsPoll

LEMMA DeviceStutter == ASSUME DeviceInv, UNCHANGED settingsVars PROVE DeviceInv'
<1>1. UNCHANGED <<device, frame, shown, intended, poll, job>>
  BY DEF settingsVars
<1>2. \A n : Called(n) => Called(n)'
  BY <1>1 DEF Called, J
<1>3. \A p \in poll' : PollRight(p)'
  BY <1>1, <1>2, DevicePollStays
<1>4. \A x \in Callers : job'[x] # {} => CallRight(device, J(x))'
  BY <1>1 DEF DeviceInv, J, CallRight
<1>5. QED
  BY <1>1, <1>3, <1>4 DEF DeviceInv

\* The invariant holds, whatever settings, callers and bounds.
THEOREM DeviceInvariance == SettingsSpec => []DeviceInv
<1>1. SettingsInit => DeviceInv
  BY DeviceInit
<1>2. DeviceInv /\ [SettingsNext]_settingsVars => DeviceInv'
  BY DeviceStep, DeviceStutter
<1>3. QED
  BY <1>1, <1>2, PTL DEF SettingsSpec

LEMMA DeviceOptType ==
    ASSUME NEW S, NEW T \in Opt(S)
    PROVE  T \subseteq S /\ Cardinality(T) <= 1
<1>1. CASE T = {}
  BY <1>1, FS_EmptySet
<1>2. CASE \E x \in S : T = {x}
  <2>1. PICK x \in S : T = {x}
    BY <1>2
  <2>2. Cardinality({x}) = 1
    BY FS_Singleton
  <2>3. QED
    BY <2>1, <2>2
<1>3. QED
  BY <1>1, <1>2 DEF Opt

\* Types: the device, what is shown of it, one poll, one call a caller.
THEOREM DeviceTypes == SettingsSpec => []SettingsTypeOK
<1>1. DeviceInv => SettingsTypeOK
  <2>1. SUFFICES ASSUME DeviceInv PROVE SettingsTypeOK
    OBVIOUS
  <2>2. /\ device \in [Settings -> Setting] /\ frame \in [Framed -> BOOLEAN]
        /\ shown \in [Settings -> Known] /\ intended \in Opt(Amounts)
    BY <2>1 DEF DeviceInv
  <2>3. poll \subseteq Polls /\ Cardinality(poll) <= 1
    BY <2>1, DeviceOptType DEF DeviceInv
  <2>4. DOMAIN job = Callers /\ \A x \in Callers : job[x] \in Opt(Jobs)
    BY <2>1 DEF DeviceInv
  <2>5. \A x \in Callers : job[x] \subseteq Jobs /\ Cardinality(job[x]) <= 1
    BY <2>4, DeviceOptType
  <2>6. QED
    BY <2>2, <2>3, <2>4, <2>5 DEF SettingsTypeOK
<1>2. QED
  BY <1>1, DeviceInvariance, PTL

\* A switch that reports the asked state from the device's own answer has it on
\* the device when it reports, whatever was lost before and whoever wrote until
\* then, unless something else changed the setting after that answer.
THEOREM ConfirmedStateHolds == SettingsSpec => []ConfirmedHolds
<1>1. DeviceInv => ConfirmedHolds
  <2>1. SUFFICES ASSUME DeviceInv, NEW x \in Callers, Reports(x), J(x).own
                 PROVE  device[J(x).call.of].on = J(x).call.on
    BY DEF ConfirmedHolds
  <2>2. job[x] # {} /\ J(x).pc = "publish"
    BY <2>1 DEF Reports, Busy, J
  <2>3. CallRight(device, J(x))
    BY <2>1, <2>2, DeviceJob
  <2>4. QED
    BY <2>1, <2>2, <2>3 DEF CallRight, Reports
<1>2. QED
  BY <1>1, DeviceInvariance, PTL

\* A setting that polls have shown stays shown, whatever reads fail
\* (_async_update_data); only one that a call has shown before the first
\* answer to a poll may vanish again.
THEOREM ShownStaysShown == SettingsSpec => KnownStaysKnown
<1>1. DeviceInv /\ [SettingsNext]_settingsVars => [~Forgotten]_settingsVars
  <2>1. SUFFICES ASSUME DeviceInv, SettingsNext, NEW k \in Settings, shown[k].on # {},
                        \A x \in Callers : job[x] # {} => J(x).call.of # k
                 PROVE  shown'[k].on # {}
    BY DEF Forgotten
  <2>2. ~Called(k)
    BY <2>1 DEF Called
  <2>3. CASE UNCHANGED shown
    BY <2>1, <2>3
  <2>4. CASE PollPlain
    BY <2>1, <2>4, DevicePollPlain
  <2>5. CASE PollKeep
    BY <2>1, <2>2, <2>5, DevicePollLast, DevicePollMore DEF PollKeep
  <2>6. ASSUME NEW amount, Target(amount) PROVE shown'[k].on # {}
    <3>1. shown \in [Settings -> Known]
          /\ shown' = [shown EXCEPT !["selling"].amount = {amount}]
      BY <2>1, <2>6 DEF DeviceInv, Target
    <3>2. shown'[k].on = shown[k].on
      BY <3>1 DEF Known
    <3>3. QED
      BY <2>1, <3>2
  <2>7. ASSUME NEW x \in Callers, NEW call \in Calls, StageTarget(x, call)
        PROVE  shown'[k].on # {}
    BY <2>3, <2>6, <2>7 DEF StageTarget
  <2>8. ASSUME NEW x \in Callers, Publish(x) PROVE shown'[k].on # {}
    <3>1. CASE Target(J(x).amount)
      BY <2>6, <3>1
    <3>2. CASE ~Target(J(x).amount)
      BY <2>1, <2>8, <3>2, DevicePublished, DeviceShown
    <3>3. QED
      BY <3>1, <3>2
  <2>9. ASSUME NEW x \in Callers, Call(x) PROVE shown'[k].on # {}
    BY <2>3, <2>8, <2>9 DEF Call, Write, Raise, ReadBackState
  <2>10. ASSUME NEW x \in Callers, NEW call \in Calls, Begin(x, call)
         PROVE  UNCHANGED shown
    BY <2>10 DEF Begin
  <2>11. CASE Frame \/ SellingEnds \/ PollFrame
              \/ \E answer \in Opt(Setting) : PollRead(answer)
    BY <2>3, <2>11 DEF Frame, SellingEnds, PollFrame, PollRead
  <2>12. QED
    BY <2>1, <2>3, <2>4, <2>5, <2>7, <2>9, <2>10, <2>11 DEF SettingsNext, SettingsPoll
<1>2. QED
  BY <1>1, DeviceInvariance, PTL DEF SettingsSpec, KnownStaysKnown

\* A staged target is lost only to a poll that was told the device sells, or that
\* had looked for a target before this one was staged (#42).
THEOREM TargetLoss == SettingsSpec => TargetLostOnlyLate
<1> DEFINE Lost == intended # {} /\ intended' = {} =>
                     \E p \in poll : p.late \/ p.selling
                         \/ (Order[p.next] = "selling" /\ p.got # {{}}
                             /\ Only(Only(p.got)).on)
<1>1. DeviceInv /\ [SettingsNext]_settingsVars => [Lost]_settingsVars
  <2>1. SUFFICES ASSUME DeviceInv, SettingsNext, intended # {}, intended' = {}
                 PROVE  \E p \in poll : p.late \/ p.selling \/ SeenSelling(p)
    BY DEF SeenSelling
  <2>2. intended' # intended
    BY <2>1
  <2>3. ~Frame /\ ~SellingEnds /\ ~PollFrame /\ ~PollPlain
        /\ \A answer : ~PollRead(answer)
    BY <2>2 DEF Frame, SellingEnds, PollFrame, PollPlain,
                PollRead
  <2>4. \A amount : ~Target(amount)
    BY <2>1 DEF Target
  <2>5. ASSUME NEW x \in Callers, NEW call \in Calls
        PROVE  ~Begin(x, call) /\ ~StageTarget(x, call)
    BY <2>2, <2>4 DEF Begin, StageTarget
  <2>6. ASSUME NEW x \in Callers PROVE ~Call(x)
    <3>1. ~Publish(x)
      BY <2>1, <2>2, <2>4, DevicePublished
    <3>2. QED
      BY <2>2, <3>1 DEF Call, Write, Raise, ReadBackState
  <2>7. PollKeep
    BY <2>1, <2>3, <2>5, <2>6 DEF SettingsNext, SettingsPoll
  <2>8. QED
    BY <2>1, <2>2, <2>7, DevicePollLast, DevicePollMore DEF PollKeep
<1>2. QED
  BY <1>1, DeviceInvariance, PTL DEF SettingsSpec, TargetLostOnlyLate

-----------------------------------------------------------------------------
(* The battery modules (BatteryScan), which the same update scans *)

\* Whatever is known of a module was said by one that was there: in its cabinet
\* a module has been, and it is in its slot until something is moved.
Right(f) ==
    /\ f \in Infos /\ f.cabinet \in held
    /\ changes = 0 => installed[f.index] = f.serial

\* A slot map, in memory or on disk, files every module under its own slot.
SlotsRight(s) == \A i \in DOMAIN s : i \in Slots /\ Right(s[i]) /\ s[i].index = i

\* The slot is still to be asked.
InRest(rest, i) == \E t \in 1 .. Len(rest) : \E n \in 1 .. Len(rest[t]) : rest[t][n] = i

\* The scan is at slot n of tier t, with all that follows; a timeout it counts
\* is that of the slot before.
Place(rest, timeouts, quiet, t, n) ==
    /\ t \in 1 .. Len(Tiers) /\ n \in 1 .. Len(Tiers[t])
    /\ Len(rest) = Len(Tiers) - t + 1
    /\ \A u \in 2 .. Len(rest) : rest[u] = Tiers[t + u - 1]
    /\ Len(rest[1]) = Len(Tiers[t]) - n + 1
    /\ \A k \in 1 .. Len(rest[1]) : rest[1][k] = Tiers[t][n + k - 1]
    /\ timeouts # 0 => timeouts = 1 /\ n > 1 /\ Tiers[t][n - 1] \in quiet

\* A module is found, missed or cut off, or its slot is still to be asked.
Accounted(record, i) ==
    \/ InRest(record.rest, i)
    \/ \E f \in record.found : f.serial = installed[i]
    \/ i \in record.missed
    \/ CutOff(record.quiet, i)

\* A full scan accounts for every module; nothing is known of what a later scan
\* has to ask.
ScanRight ==
    /\ scan \in [full : BOOLEAN, rest : {scan.rest}, timeouts : Nat,
                 found : SUBSET Infos, quiet : SUBSET Slots, missed : SUBSET Slots]
    /\ \A f \in scan.found : Right(f)
    /\ scan.full => scan.rest \in Seq(Seq(Slots) \ {<<>>})
    /\ changes = 0 /\ scan.full =>
         /\ scan.rest # <<>> => \E t, n \in Nat : Place(scan.rest, scan.timeouts, scan.quiet, t, n)
         /\ \A i \in Filled : Accounted(scan, i)

BatteryInv ==
    /\ installed \in [Slots -> Modules \cup {None}]
    /\ changes \in 0 .. MaxChanges /\ counter \in 0 .. Gate - 1 /\ full_done \in BOOLEAN
    /\ Occupied \subseteq held /\ held \subseteq Cabinets
    /\ water \subseteq Cabinets /\ water \ {0} \subseteq held
    /\ \A f \in late : Right(f)
    /\ SlotsRight(slots)
    /\ store # None => SlotsRight(store)
    /\ scan # None => ScanRight /\ scan.full = ~full_done
    /\ excused \subseteq Slots /\ LeftOutForSilence

-----------------------------------------------------------------------------

\* The reply of a module that is there.
LEMMA BatteryInfo ==
    ASSUME BatteryInv, NEW i \in Filled
    PROVE  /\ Right(Info(i)) /\ Info(i).serial = installed[i]
           /\ Info(i) \notin {Ack, Short}
<1>1. i \in Slots /\ installed[i] # None /\ installed[i] \in Modules
  BY DEF Filled, BatteryInv
<1>2. Cabinet[i] \in Cabinets /\ Cabinet[i] \in held
  BY <1>1, BatteryAssumption DEF BatteryInv, Occupied
<1>3. Right(Info(i)) /\ Info(i).serial = installed[i]
  BY <1>1, <1>2 DEF Right, Info, Infos
<1>4. Info(i) \notin {Ack, Short}
  <2>1. "serial" \in DOMAIN Info(i)
    BY DEF Info
  <2>2. "serial" \notin DOMAIN Ack /\ "serial" \notin DOMAIN Short
    BY DEF Ack, Short
  <2>3. QED
    BY <2>1, <2>2
<1>5. QED
  BY <1>3, <1>4

LEMMA BatteryOwn ==
    ASSUME BatteryInv
    PROVE  \A f \in Own : Right(f)
  BY BatteryInfo DEF Own

\* The tiers of a full scan.
LEMMA BatteryTiers ==
    ASSUME BatteryInv
    PROVE  /\ Tiers \in Seq(Seq(Slots) \ {<<>>})
           /\ \A i \in Slots : InRest(Tiers, i)
<1>1. Tiers \in Seq(Seq(Nat) \ {<<>>})
  BY BatteryAssumption DEF BatteryInv
<1>2. ASSUME NEW t \in 1 .. Len(Tiers)
      PROVE  Tiers[t] \in Seq(Slots) \ {<<>>}
  <2>1. Tiers[t] \in Seq(Nat) /\ Tiers[t] # <<>>
    BY <1>1
  <2>2. ASSUME NEW n \in 1 .. Len(Tiers[t]) PROVE Tiers[t][n] \in Slots
    BY <1>1, <2>1 DEF Slots, ToSet
  <2>3. QED
    BY <2>1, <2>2
<1>3. Tiers \in Seq(Seq(Slots) \ {<<>>})
  BY <1>1, <1>2
<1>4. ASSUME NEW i \in Slots PROVE InRest(Tiers, i)
  <2>1. PICK t \in DOMAIN Tiers : i \in ToSet(Tiers[t])
    BY DEF Slots
  <2>2. t \in 1 .. Len(Tiers) /\ Tiers[t] \in Seq(Nat)
    BY <1>1, <2>1
  <2>3. QED
    BY <2>1, <2>2 DEF ToSet, InRest
<1>5. QED
  BY <1>3, <1>4

\* The rest without the slot at its head, or without the tier at its head.
Stays(rest, next) ==
    /\ Len(rest[1]) > 1
    /\ Len(next) = Len(rest) /\ Len(next[1]) = Len(rest[1]) - 1
    /\ \A k \in 1 .. Len(next[1]) : next[1][k] = rest[1][k + 1]
    /\ \A u \in 2 .. Len(next) : next[u] = rest[u]

Leaves(rest, next) ==
    /\ Len(next) = Len(rest) - 1
    /\ \A u \in 1 .. Len(next) : next[u] = rest[u + 1]

\* What is left behind the first slot, and behind the first tier.
LEMMA BatteryTails ==
    ASSUME NEW S, NEW rest \in Seq(Seq(S) \ {<<>>}), rest # <<>>
    PROVE  /\ Len(rest) \in Nat /\ Head(rest) = rest[1]
           /\ rest[1] \in Seq(S) /\ Len(rest[1]) \in Nat /\ Len(rest[1]) > 0
           /\ Head(rest[1]) = rest[1][1] /\ rest[1][1] \in S
           /\ (Tail(rest[1]) = <<>>) <=> (Len(rest[1]) = 1)
           /\ Tail(rest) \in Seq(Seq(S) \ {<<>>})
           /\ Leaves(rest, Tail(rest))
           /\ Tail(rest[1]) # <<>> =>
                /\ <<Tail(rest[1])>> \o Tail(rest) \in Seq(Seq(S) \ {<<>>})
                /\ Stays(rest, <<Tail(rest[1])>> \o Tail(rest))
<1> DEFINE first == rest[1]
           more == Tail(first)
           others == Tail(rest)
           next == <<more>> \o others
<1>1. Len(rest) \in Nat /\ Len(rest) > 0 /\ Head(rest) = first /\ first \in Seq(S) /\ first # <<>>
  OBVIOUS
<1>2. others \in Seq(Seq(S) \ {<<>>}) /\ Len(others) = Len(rest) - 1
      /\ \A u \in 1 .. Len(others) : others[u] = rest[u + 1]
  OBVIOUS
<1> HIDE DEF first
<1>3. Len(first) \in Nat /\ Len(first) > 0 /\ Head(first) = first[1] /\ first[1] \in S
  BY <1>1
<1>4. more \in Seq(S) /\ Len(more) = Len(first) - 1
      /\ \A k \in 1 .. Len(more) : more[k] = first[k + 1]
  BY <1>1
<1>5. (more = <<>>) <=> (Len(first) = 1)
  BY <1>1, <1>3, <1>4
<1> HIDE DEF more, others
<1>6. ASSUME more # <<>>
      PROVE  next \in Seq(Seq(S) \ {<<>>}) /\ Stays(rest, next)
  <2>1. next \in Seq(Seq(S) \ {<<>>}) /\ Len(next) = Len(rest) /\ next[1] = more
        /\ \A u \in 2 .. Len(next) : next[u] = others[u - 1]
    BY <1>1, <1>2, <1>4, <1>6
  <2>2. ASSUME NEW u \in 2 .. Len(next) PROVE others[u - 1] = rest[u]
    <3>1. u - 1 \in 1 .. Len(others) /\ u - 1 + 1 = u
      BY <1>1, <1>2, <2>1
    <3>2. QED
      BY <1>2, <3>1
  <2>3. Len(next[1]) = Len(first) - 1 /\ \A k \in 1 .. Len(next[1]) : next[1][k] = first[k + 1]
    BY <1>4, <2>1
  <2>4. Len(first) > 1
    <3>1. \A m \in Nat : m > 0 /\ m # 1 => m > 1
      OBVIOUS
    <3>2. QED
      BY <1>3, <1>5, <1>6, <3>1, Zenon
  <2> HIDE DEF next
  <2>5. QED
    BY <2>1, <2>2, <2>3, <2>4 DEF Stays, first
<1>7. Leaves(rest, others)
  BY <1>2 DEF Leaves
<1>8. QED
  BY <1>1, <1>2, <1>3, <1>5, <1>6, <1>7 DEF first, more, others

\* A probe asks the next slot of the tier, and stays in it unless it was the
\* last one, or the second timeout.
LEMMA BatteryRest ==
    ASSUME scan.rest \in Seq(Seq(Slots) \ {<<>>}), scan.rest # <<>>, scan.full,
           scan.timeouts \in Nat, NEW got
    PROVE  /\ Rest(got) \in Seq(Seq(Slots) \ {<<>>}) /\ Asked = scan.rest[1][1] /\ Asked \in Slots
           /\ \/ /\ Stays(scan.rest, Rest(got))
                 /\ Timeouts(got) < 2 /\ Counted(got) = Timeouts(got)
              \/ /\ Leaves(scan.rest, Rest(got))
                 /\ Len(scan.rest[1]) = 1 \/ Timeouts(got) >= 2
                 /\ Counted(got) = 0
<1>1. PICK rest : rest = scan.rest
  OBVIOUS
<1>2. PICK timeouts \in Nat : timeouts = Timeouts(got)
  BY DEF Timeouts
<1>3. /\ Len(rest) \in Nat /\ Head(rest) = rest[1] /\ Len(rest[1]) \in Nat /\ Len(rest[1]) > 0
      /\ Head(rest[1]) = rest[1][1] /\ rest[1][1] \in Slots
      /\ (Tail(rest[1]) = <<>>) <=> (Len(rest[1]) = 1)
      /\ Tail(rest) \in Seq(Seq(Slots) \ {<<>>})
      /\ Leaves(rest, Tail(rest))
      /\ Tail(rest[1]) # <<>> =>
            /\ <<Tail(rest[1])>> \o Tail(rest) \in Seq(Seq(Slots) \ {<<>>})
            /\ Stays(rest, <<Tail(rest[1])>> \o Tail(rest))
  <2>1. rest \in Seq(Seq(Slots) \ {<<>>}) /\ rest # <<>>
    BY <1>1
  <2> HIDE <1>1
  <2>2. QED
    BY <2>1, BatteryTails
<1>4. Asked = rest[1][1]
  BY <1>1, <1>3 DEF Asked
<1>5. Rest(got) = IF Tail(rest[1]) = <<>> \/ timeouts >= 2
                     THEN Tail(rest) ELSE <<Tail(rest[1])>> \o Tail(rest)
  BY <1>1, <1>2, <1>3 DEF Rest
<1>6. Len(scan.rest) \in Nat
  BY <1>1, <1>3
<1>7. CASE Tail(rest[1]) = <<>> \/ timeouts >= 2
  <2>1. Rest(got) = Tail(rest)
    BY <1>5, <1>7
  <2>2. Counted(got) = 0
    <3>1. Len(Rest(got)) = Len(scan.rest) - 1
      BY <1>1, <1>3, <2>1 DEF Leaves
    <3>2. QED
      BY <1>6, <3>1 DEF Counted
  <2>3. QED
    BY <1>1, <1>2, <1>3, <1>4, <1>7, <2>1, <2>2
<1>8. CASE ~(Tail(rest[1]) = <<>> \/ timeouts >= 2)
  <2>1. Rest(got) = <<Tail(rest[1])>> \o Tail(rest)
    BY <1>5, <1>8
  <2>2. Len(rest[1]) > 1
    BY <1>3, <1>8
  <2>3. Rest(got) \in Seq(Seq(Slots) \ {<<>>}) /\ Stays(rest, Rest(got))
    BY <1>3, <1>8, <2>1, <2>2
  <2>4. Counted(got) = timeouts
    <3>1. Len(Rest(got)) = Len(scan.rest)
      BY <1>1, <2>3 DEF Stays
    <3>2. QED
      BY <1>2, <1>6, <3>1 DEF Counted
  <2>5. timeouts < 2
    BY <1>8
  <2>6. QED
    BY <1>1, <1>2, <1>3, <1>4, <2>3, <2>4, <2>5
<1>9. QED
  BY <1>7, <1>8

-----------------------------------------------------------------------------
(* The steps *)

LEMMA BatteryInit == ASSUME ScanInit PROVE BatteryInv
<1>1. /\ installed \in [Slots -> Modules \cup {None}]
      /\ changes = 0 /\ scan = None /\ late = {} /\ slots = Empty /\ full_done = FALSE
      /\ counter = Gate - 1 /\ store = None /\ water = {0} /\ held = Occupied /\ excused = {}
  BY DEF ScanInit
<1>2. /\ Gate \in Nat \ {0} /\ MaxChanges \in Nat /\ 0 \in Cabinets
      /\ Cabinet \in [Slots -> Cabinets]
  BY BatteryAssumption
<1>3. held \subseteq Cabinets
  BY <1>1, <1>2 DEF Occupied, Filled
<1>4. changes \in 0 .. MaxChanges /\ counter \in 0 .. Gate - 1
  BY <1>1, <1>2
<1>5. SlotsRight(slots)
  BY <1>1 DEF SlotsRight, Empty
<1>6. QED
  BY <1>1, <1>2, <1>3, <1>4, <1>5 DEF BatteryInv, LeftOutForSilence

\* What is right stays right while the modules stay where they are.
LEMMA BatteryStays ==
    ASSUME UNCHANGED <<installed, changes, held>>
    PROVE  /\ \A f : Right(f) => Right(f)'
           /\ \A s : SlotsRight(s) => SlotsRight(s)'
           /\ ScanRight /\ UNCHANGED scan => ScanRight'
           /\ LeftOutForSilence /\ UNCHANGED <<slots, full_done, excused>> => LeftOutForSilence'
<1>1. \A f : Right(f) => Right(f)'
  BY DEF Right
<1>2. \A s : SlotsRight(s) => SlotsRight(s)'
  BY <1>1 DEF SlotsRight
<1>3. ASSUME ScanRight, UNCHANGED scan PROVE ScanRight'
  <2>1. Filled' = Filled
    BY DEF Filled
  <2>2. \A i : Accounted(scan, i) => Accounted(scan, i)'
    BY <1>3 DEF Accounted, InRest, CutOff
  <2>3. QED
    BY <1>1, <1>3, <2>1, <2>2 DEF ScanRight, Place
<1>4. ASSUME LeftOutForSilence, UNCHANGED <<slots, full_done, excused>> PROVE LeftOutForSilence'
  BY <1>4 DEF LeftOutForSilence, Unseen, Filled, Shown
<1>5. QED
  BY <1>1, <1>2, <1>3, <1>4

LEMMA BatteryBegun ==
    ASSUME BatteryInv, scan' = Begun, UNCHANGED <<installed, changes, held, full_done>>
    PROVE  ScanRight' /\ scan'.full = ~full_done'
<1> DEFINE rest == IF full_done THEN <<SetToSortSeq(DOMAIN slots, <)>> ELSE Tiers
<1>1. scan' = [full |-> ~full_done, rest |-> rest, timeouts |-> 0, found |-> {},
               quiet |-> {}, missed |-> {}]
  BY DEF Begun
<1>2. ~full_done => rest = Tiers
  OBVIOUS
<1> HIDE DEF rest
<1>3. /\ scan'.full = ~full_done /\ scan'.rest = rest /\ scan'.timeouts = 0 /\ scan'.found = {}
  BY <1>1
<1>4. scan' \in [full : BOOLEAN, rest : {scan'.rest}, timeouts : Nat,
                 found : SUBSET Infos, quiet : SUBSET Slots, missed : SUBSET Slots]
  BY <1>1, <1>3
<1>5. scan'.full => rest = Tiers
  BY <1>2, <1>3
<1>6. Filled' \subseteq Slots
  BY DEF Filled
<1>7. scan'.full => scan'.rest \in Seq(Seq(Slots) \ {<<>>})
                    /\ \A i \in Filled' : InRest(scan'.rest, i)
  BY <1>3, <1>5, <1>6, BatteryTiers
<1>8. \A f \in scan'.found : Right(f)'
  BY <1>3
<1>9. ASSUME scan'.full, scan'.rest # <<>>
      PROVE  Place(scan'.rest, scan'.timeouts, scan'.quiet, 1, 1)
  <2>1. Tiers \in Seq(Seq(Slots) \ {<<>>}) /\ Tiers # <<>> /\ scan'.rest = Tiers
        /\ scan'.timeouts = 0
    BY <1>3, <1>5, <1>9, BatteryTiers
  <2>2. 1 \in 1 .. Len(Tiers) /\ Tiers[1] \in Seq(Slots) \ {<<>>}
    BY <2>1
  <2>3. 1 \in 1 .. Len(Tiers[1]) /\ Len(Tiers[1]) \in Nat /\ Len(Tiers) \in Nat
    BY <2>1, <2>2
  <2>4. QED
    BY <2>1, <2>2, <2>3 DEF Place
<1>10. \A i : InRest(scan'.rest, i) => Accounted(scan, i)'
  BY DEF Accounted, InRest
<1>11. QED
  BY <1>3, <1>4, <1>7, <1>8, <1>9, <1>10 DEF ScanRight, Place

LEMMA BatteryPoll == ASSUME BatteryInv, PollScan PROVE BatteryInv'
<1>1. /\ UNCHANGED <<installed, changes, slots, full_done, store, water, held, excused>>
      /\ counter' = (counter + 1) % Gate
  BY DEF PollScan
<1>2. (scan' = Begun /\ late' = {}) \/ UNCHANGED <<scan, late>>
  BY DEF PollScan
<1>3. counter' \in 0 .. Gate - 1
  <2>1. counter \in Nat /\ Gate \in Nat \ {0}
    BY BatteryAssumption DEF BatteryInv
  <2>2. QED
    BY <1>1, <2>1
<1>4. (\A f \in late' : Right(f)') /\ (scan' # None => ScanRight' /\ scan'.full = ~full_done')
  <2>1. CASE UNCHANGED <<scan, late>>
    BY <1>1, <2>1, BatteryStays DEF BatteryInv
  <2>2. CASE scan' = Begun /\ late' = {}
    BY <1>1, <2>2, BatteryBegun
  <2>3. QED
    BY <1>2, <2>1, <2>2
<1>5. SlotsRight(slots)' /\ (store' # None => SlotsRight(store)')
  <2>1. SlotsRight(slots) /\ (store # None => SlotsRight(store))
    BY DEF BatteryInv
  <2>2. QED
    BY <1>1, <2>1, BatteryStays DEF SlotsRight, Right
<1>6. Occupied' \subseteq held'
  BY <1>1 DEF BatteryInv, Occupied, Filled
<1>7. LeftOutForSilence'
  BY <1>1, BatteryStays DEF BatteryInv
<1>8. QED
  BY <1>1, <1>3, <1>4, <1>5, <1>6, <1>7 DEF BatteryInv


\* What a probe reports is right, and with the asked slot's own reply among
\* what came the module of the slot is found.
LEMMA BatteryReported ==
    ASSUME BatteryInv, ScanRight, NEW pending \in SUBSET late, NEW got,
           ToSet(got) \subseteq pending \cup Own \cup {Ack, Short}
    PROVE  /\ Reported(got) \subseteq Infos
           /\ \A f \in Reported(got) : Right(f)
           /\ \A i \in Filled :
                 i = Asked /\ Own \subseteq ToSet(got)
                    => \E f \in scan.found \cup Reported(got) : f.serial = installed[i]
<1>1. ASSUME NEW r \in ToSet(got) \ {Ack, Short}
      PROVE  Right(r) /\ [r EXCEPT !.index = ScanIndex(r)] = r
  <2>1. Right(r)
    BY BatteryOwn DEF BatteryInv
  <2>2. r \in Infos
    BY <2>1 DEF Right
  <2>3. QED
    BY <2>1, <2>2 DEF Infos, ScanIndex
<1>2. Reported(got) = {x \in ToSet(got) \ {Ack, Short} :
                                  \A f \in scan.found : f.serial # x.serial}
  BY <1>1 DEF Reported
<1>3. \A f \in Reported(got) : Right(f)
  BY <1>1, <1>2
<1>4. Reported(got) \subseteq Infos
  BY <1>3 DEF Right
<1>5. ASSUME NEW i \in Filled, i = Asked, Own \subseteq ToSet(got)
      PROVE  \E f \in scan.found \cup Reported(got) : f.serial = installed[i]
  <2>1. Info(i) \in Own
    BY <1>5 DEF Own
  <2>2. Info(i) \in ToSet(got) \ {Ack, Short}
        /\ Info(i).serial = installed[i]
    BY <1>5, <2>1, BatteryInfo
  <2>3. CASE \A f \in scan.found : f.serial # installed[i]
    BY <1>2, <2>2, <2>3
  <2>4. CASE \E f \in scan.found : f.serial = installed[i]
    BY <2>4
  <2>5. QED
    BY <2>3, <2>4
<1>6. QED
  BY <1>3, <1>4, <1>5

\* The lists of a sequence of non-empty lists.
LEMMA ListOfLists ==
    ASSUME NEW S, NEW lists \in Seq(Seq(S) \ {<<>>})
    PROVE  /\ Len(lists) \in Nat
           /\ \A u \in 1 .. Len(lists) :
                lists[u] \in Seq(S) \ {<<>>} /\ Len(lists[u]) \in Nat /\ Len(lists[u]) > 0
<1>1. Len(lists) \in Nat
  OBVIOUS
<1>2. ASSUME NEW u \in 1 .. Len(lists)
      PROVE  lists[u] \in Seq(S) \ {<<>>} /\ Len(lists[u]) \in Nat /\ Len(lists[u]) > 0
  <2>1. lists[u] \in Seq(S) /\ lists[u] # <<>>
    OBVIOUS
  <2>2. QED
    BY <2>1
<1>3. QED
  BY <1>1, <1>2

\* A probe leaves the scan at the next slot, or at the next tier.
LEMMA BatteryPlace ==
    ASSUME BatteryInv, ScanRight, scan.full, changes = 0, scan.rest # <<>>, NEW got,
           NEW t \in Nat, NEW n \in Nat, Place(scan.rest, scan.timeouts, scan.quiet, t, n),
           NEW quiet, scan.quiet \subseteq quiet, got = <<>> => Asked \in quiet
    PROVE  /\ Rest(got) # <<>> =>
                 \E tt, nn \in Nat : Place(Rest(got), Counted(got), quiet, tt, nn)
           /\ \A i : InRest(scan.rest, i) /\ i # Asked
                     => InRest(Rest(got), i) \/ CutOff(quiet, i)
<1> DEFINE rest == scan.rest
           next == Rest(got)
           first == rest[1]
           timeouts == Timeouts(got)
           counted == Counted(got)
<1>1. /\ Tiers \in Seq(Seq(Slots) \ {<<>>}) /\ t \in 1 .. Len(Tiers) /\ n \in 1 .. Len(Tiers[t])
      /\ Len(rest) = Len(Tiers) - t + 1
      /\ \A u \in 2 .. Len(rest) : rest[u] = Tiers[t + u - 1]
      /\ Len(first) = Len(Tiers[t]) - n + 1
      /\ \A k \in 1 .. Len(first) : first[k] = Tiers[t][n + k - 1]
      /\ scan.timeouts # 0 => scan.timeouts = 1 /\ n > 1 /\ Tiers[t][n - 1] \in quiet
  BY BatteryTiers DEF Place
<1>2. Len(Tiers) \in Nat /\ \A tt \in 1 .. Len(Tiers) :
         Tiers[tt] \in Seq(Slots) \ {<<>>} /\ Len(Tiers[tt]) \in Nat /\ Len(Tiers[tt]) > 0
  <2>1. Tiers \in Seq(Seq(Slots) \ {<<>>})
    BY <1>1
  <2>2. QED
    BY <2>1, ListOfLists
<1>3. /\ next \in Seq(Seq(Slots) \ {<<>>}) /\ Asked = first[1]
      /\ \/ Stays(rest, next) /\ timeouts < 2 /\ counted = timeouts
         \/ Leaves(rest, next) /\ (Len(first) = 1 \/ timeouts >= 2) /\ counted = 0
  <2>1. scan.rest \in Seq(Seq(Slots) \ {<<>>}) /\ scan.timeouts \in Nat
    BY DEF ScanRight
  <2>2. QED
    BY <2>1, BatteryRest
<1>4. /\ got = <<>> => Asked \in quiet /\ timeouts = scan.timeouts + 1
      /\ got # <<>> => timeouts = 0
      /\ timeouts \in Nat
  BY DEF Timeouts, ScanRight
<1>5a. /\ Len(Tiers[t]) \in Nat /\ Len(first) \in Nat /\ n \in 1 .. Len(Tiers[t])
       /\ Len(first) = Len(Tiers[t]) - n + 1
       /\ \A k \in 1 .. Len(first) : first[k] = Tiers[t][n + k - 1]
       /\ DOMAIN Tiers[t] = 1 .. Len(Tiers[t])
  BY <1>1, <1>2
<1>5b. t \in Nat /\ Len(Tiers) \in Nat /\ t <= Len(Tiers) /\ Len(rest) \in Nat
       /\ Len(rest) = Len(Tiers) - t + 1 /\ \A u \in 2 .. Len(rest) : rest[u] = Tiers[t + u - 1]
  BY <1>1, <1>2
<1>5. Asked = Tiers[t][n]
  <2>1. 1 \in 1 .. Len(first) /\ n + 1 - 1 = n
    BY <1>5a
  <2>2. first[1] = Tiers[t][n + 1 - 1]
    BY <1>5a, <2>1
  <2>3. QED
    BY <1>3, <2>1, <2>2
<1> HIDE DEF rest, next, first, timeouts, counted
<1>6. ASSUME Stays(rest, next), timeouts < 2, counted = timeouts
      PROVE  /\ \E tt, nn \in Nat : Place(next, counted, quiet, tt, nn)
             /\ \A i : InRest(rest, i) /\ i # Asked => InRest(next, i)
  <2>0. /\ Len(first) > 1 /\ Len(next) = Len(rest) /\ Len(next[1]) = Len(first) - 1
        /\ \A k \in 1 .. Len(next[1]) : next[1][k] = first[k + 1]
        /\ \A u \in 2 .. Len(next) : next[u] = rest[u]
    BY <1>6 DEF Stays, first
  <2>1. Place(next, counted, quiet, t, n + 1)
    <3>1. n + 1 \in 1 .. Len(Tiers[t])
      <4>1. Len(first) > 1
        BY <2>0
      <4>2. QED
        BY <1>5a, <4>1
    <3>2. \A k \in 1 .. Len(next[1]) : next[1][k] = Tiers[t][n + 1 + k - 1]
      <4>1. SUFFICES ASSUME NEW k \in 1 .. Len(next[1])
                     PROVE  next[1][k] = Tiers[t][n + 1 + k - 1]
        OBVIOUS
      <4>1a. k \in Nat /\ k >= 1 /\ k <= Len(first) - 1
        BY <1>5a, <2>0
      <4>2. k + 1 \in 1 .. Len(first) /\ n + (k + 1) - 1 = n + 1 + k - 1
        BY <1>5a, <4>1a
      <4>3. QED
        BY <1>1, <1>6, <2>0, <4>2
    <3>3. counted # 0 => counted = 1 /\ n + 1 > 1 /\ Tiers[t][n + 1 - 1] \in quiet
      <4>1. n + 1 - 1 = n /\ n + 1 > 1
        BY <1>1
      <4>2. counted # 0 => got = <<>> /\ counted = 1
        BY <1>1, <1>4, <1>6, <2>0
      <4>3. QED
        BY <1>4, <1>5, <4>1, <4>2
    <3>4. Len(next) = Len(Tiers) - t + 1 /\ Len(next[1]) = Len(Tiers[t]) - (n + 1) + 1
      BY <1>1, <1>2, <1>6, <2>0
    <3>5. \A u \in 2 .. Len(next) : next[u] = Tiers[t + u - 1]
      BY <1>1, <1>6, <2>0
    <3>6. QED
      BY <1>1, <3>1, <3>2, <3>3, <3>4, <3>5 DEF Place
  <2>2. ASSUME NEW i, InRest(rest, i), i # Asked PROVE InRest(next, i)
    <3>1. PICK u \in 1 .. Len(rest) : \E k \in 1 .. Len(rest[u]) : rest[u][k] = i
      BY <2>2 DEF InRest
    <3>2. PICK k \in 1 .. Len(rest[u]) : rest[u][k] = i
      BY <3>1
    <3>3. CASE u = 1
      <4>0. k \in 1 .. Len(first) /\ first[k] = i
        BY <3>2, <3>3 DEF first
      <4>0a. k # 1
        BY <1>3, <2>2, <4>0
      <4>1. k - 1 \in 1 .. Len(next[1]) /\ next[1][k - 1] = first[k - 1 + 1]
        BY <2>0, <4>0, <4>0a, <1>5a
      <4>2. next[1][k - 1] = i /\ 1 \in 1 .. Len(next)
        BY <1>1, <1>2, <1>6, <2>0, <3>1, <3>2, <3>3, <4>1 DEF first
      <4>3. QED
        BY <4>1, <4>2 DEF InRest
    <3>4. CASE u # 1
      <4>1. u \in 1 .. Len(next) /\ next[u] = rest[u]
        BY <1>1, <1>2, <1>6, <2>0, <3>1, <3>4
      <4>2. QED
        BY <3>2, <4>1 DEF InRest
    <3>5. QED
      BY <3>3, <3>4
  <2>3. n + 1 \in Nat
    OBVIOUS
  <2>4. QED
    BY <2>1, <2>2, <2>3
<1>7. ASSUME Leaves(rest, next), Len(first) = 1 \/ timeouts >= 2, counted = 0
      PROVE  /\ next # <<>> => \E tt, nn \in Nat : Place(next, counted, quiet, tt, nn)
             /\ \A i : InRest(rest, i) /\ i # Asked => InRest(next, i) \/ CutOff(quiet, i)
  <2>0. /\ Len(next) = Len(rest) - 1
        /\ \A u \in 1 .. Len(next) : next[u] = rest[u + 1]
    BY <1>7 DEF Leaves
  <2>1. ASSUME next # <<>> PROVE Place(next, counted, quiet, t + 1, 1)
    <3>1. Len(next) > 0
      BY <1>3, <2>1 DEF next
    <3>2. t + 1 \in 1 .. Len(Tiers) /\ Len(next) = Len(Tiers) - (t + 1) + 1
      BY <1>1, <1>2, <1>7, <2>0, <3>1
    <3>3. \A u \in 1 .. Len(next) : next[u] = Tiers[t + 1 + u - 1]
      <4>1. SUFFICES ASSUME NEW u \in 1 .. Len(next) PROVE next[u] = Tiers[t + 1 + u - 1]
        OBVIOUS
      <4>1a. u \in Nat /\ u >= 1 /\ u <= Len(rest) - 1
        BY <1>5b, <2>0
      <4>2. u + 1 \in 2 .. Len(rest) /\ t + (u + 1) - 1 = t + 1 + u - 1
        BY <1>5b, <4>1a
      <4>3. QED
        BY <1>1, <1>7, <2>0, <4>2
    <3>4. 1 \in 1 .. Len(next) /\ t + 1 + 1 - 1 = t + 1
      BY <1>1, <1>2, <1>7, <2>0, <3>1
    <3>5. next[1] = Tiers[t + 1]
      BY <3>3, <3>4
    <3>6. 1 \in 1 .. Len(Tiers[t + 1]) /\ Len(next[1]) = Len(Tiers[t + 1]) - 1 + 1
      BY <1>2, <3>2, <3>5
    <3>7. \A k \in 1 .. Len(next[1]) : next[1][k] = Tiers[t + 1][1 + k - 1]
      BY <1>2, <3>2, <3>5
    <3>8. \A u \in 2 .. Len(next) : next[u] = Tiers[t + 1 + u - 1]
      BY <3>3
    <3>9. QED
      BY <1>7, <2>0, <3>2, <3>6, <3>7, <3>8 DEF Place
  <2>2. ASSUME NEW i, InRest(rest, i), i # Asked
        PROVE  InRest(next, i) \/ CutOff(quiet, i)
    <3>1. PICK u \in 1 .. Len(rest) : \E k \in 1 .. Len(rest[u]) : rest[u][k] = i
      BY <2>2 DEF InRest
    <3>2. PICK k \in 1 .. Len(rest[u]) : rest[u][k] = i
      BY <3>1
    <3>3. CASE u = 1
      <4>0. k \in 1 .. Len(first) /\ first[k] = i
        BY <3>2, <3>3 DEF first
      <4>0a. k # 1
        BY <1>3, <2>2, <4>0
      <4>1. k \in 2 .. Len(first) /\ first[k] = i
        BY <1>5a, <4>0, <4>0a
      <4>2. ~(timeouts < 2)
        BY <1>4, <1>5a, <1>7, <4>1
      <4>3. got = <<>> /\ scan.timeouts = 1
        BY <1>1, <1>4, <4>2
      <4>4. n > 1 /\ Tiers[t][n - 1] \in quiet /\ Tiers[t][n] \in quiet
        BY <1>1, <1>4, <1>5, <4>3
      <4>4a. k \in Nat /\ n \in Nat /\ k >= 2 /\ k <= Len(Tiers[t]) - n + 1
        BY <1>5a, <4>1
      <4>4b. n + k - 1 \in 1 .. Len(Tiers[t])
        BY <1>5a, <4>4a
      <4>4c. Tiers[t][n + k - 1] = first[k]
        BY <1>5a, <4>0
      <4>5. n + k - 1 \in DOMAIN Tiers[t] /\ Tiers[t][n + k - 1] = i
        BY <1>5a, <4>1, <4>4b, <4>4c
      <4>6. n - 1 \in 1 .. (n + k - 1) - 2 /\ n - 1 + 1 = n
        BY <4>1, <4>4
      <4>7. t \in DOMAIN Tiers
        BY <1>1
      <4>8. \E m \in 1 .. (n + k - 1) - 2 : Tiers[t][m] \in quiet /\ Tiers[t][m + 1] \in quiet
        BY <4>4, <4>6
      <4>9. CutOff(quiet, i)
        BY <4>5, <4>7, <4>8 DEF CutOff
      <4>10. QED
        BY <4>9
    <3>4. CASE u # 1
      <4>0. u \in Nat /\ u >= 2 /\ u <= Len(rest) /\ Len(next) = Len(rest) - 1
        BY <1>5b, <2>0, <3>1, <3>4
      <4>1. u - 1 \in 1 .. Len(next) /\ u - 1 + 1 = u
        BY <1>5b, <4>0
      <4>2. next[u - 1] = rest[u]
        BY <1>7, <2>0, <4>1
      <4>3. QED
        BY <3>2, <4>1, <4>2 DEF InRest
    <3>5. QED
      BY <3>3, <3>4
  <2>3. t + 1 \in Nat /\ 1 \in Nat
    OBVIOUS
  <2>4. QED
    BY <2>1, <2>2, <2>3
<1>8. QED
  BY <1>3, <1>6, <1>7 DEF rest, next, counted

LEMMA BatteryProbe == ASSUME BatteryInv, ProbeSlot PROVE BatteryInv'
<1>1. /\ scan # None /\ scan.rest # <<>> /\ ScanRight /\ scan.full = ~full_done
      /\ UNCHANGED <<installed, changes, slots, full_done, counter, store, water, held, excused>>
  BY DEF ProbeSlot, BatteryInv
<1>2. PICK pending \in SUBSET late, got \in Received(late \cup Own) :
        /\ ToSet(got) \subseteq pending \cup Own \cup {Ack, Short}
        /\ late' \in {(pending \cup coming) \ ToSet(got) : coming \in {{}, Own}}
        /\ scan' = [scan EXCEPT
                       !.rest = Rest(got),
                       !.timeouts = Counted(got),
                       !.found = @ \cup Reported(got),
                       !.quiet = @ \cup AskedIf(got = <<>>),
                       !.missed = @ \cup AskedIf(~Own \subseteq ToSet(got))]
  BY DEF ProbeSlot
<1>3. /\ Reported(got) \subseteq Infos
      /\ \A f \in Reported(got) : Right(f)
      /\ \A i \in Filled :
            i = Asked /\ Own \subseteq ToSet(got)
               => \E f \in scan.found \cup Reported(got) : f.serial = installed[i]
  BY <1>1, <1>2, BatteryReported
<1> DEFINE rest == Rest(got)
           timeouts == Counted(got)
           found == scan.found \cup Reported(got)
           quiet == scan.quiet \cup AskedIf(got = <<>>)
           missed == scan.missed \cup AskedIf(~Own \subseteq ToSet(got))
<1>4. scan' = [scan EXCEPT !.rest = rest, !.timeouts = timeouts, !.found = found,
                           !.quiet = quiet, !.missed = missed]
  BY <1>2
<1>5. scan.full \in BOOLEAN /\ quiet \in SUBSET Slots /\ missed \in SUBSET Slots
      /\ found \in SUBSET Infos
  <2>1. scan.full => Asked \in Slots
    BY <1>1, BatteryRest DEF ScanRight
  <2>2. AskedIf(got = <<>>) \subseteq Slots /\ AskedIf(~Own \subseteq ToSet(got)) \subseteq Slots
    BY <2>1 DEF AskedIf
  <2>3. QED
    BY <1>1, <1>3, <2>2 DEF ScanRight
<1>6. ASSUME scan.full, changes = 0
      PROVE  (got = <<>> => Asked \in quiet) /\ (~Own \subseteq ToSet(got) => Asked \in missed)
  BY <1>6 DEF AskedIf
<1>7. scan.full => rest \in Seq(Seq(Slots) \ {<<>>})
  BY <1>1, BatteryRest DEF ScanRight
<1>8. \A f \in found : Right(f)
  BY <1>1, <1>3 DEF ScanRight
<1>9. ASSUME changes = 0, scan.full
      PROVE  /\ rest # <<>> => \E t, n \in Nat : Place(rest, timeouts, quiet, t, n)
             /\ \A i \in Filled :
                  \/ InRest(rest, i)
                  \/ \E f \in found : f.serial = installed[i]
                  \/ i \in missed
                  \/ CutOff(quiet, i)
  <2>1. PICK t \in Nat, n \in Nat : Place(scan.rest, scan.timeouts, scan.quiet, t, n)
    BY <1>1, <1>9 DEF ScanRight
  <2>2. scan.quiet \subseteq quiet /\ scan.missed \subseteq missed /\ scan.found \subseteq found
    OBVIOUS
  <2>3. /\ rest # <<>> => \E tt, nn \in Nat : Place(rest, timeouts, quiet, tt, nn)
        /\ \A i : InRest(scan.rest, i) /\ i # Asked => InRest(rest, i) \/ CutOff(quiet, i)
    <3> HIDE DEF quiet
    <3>1. QED
      BY <1>1, <1>6, <1>9, <2>1, <2>2, BatteryPlace
  <2>4. ASSUME NEW i \in Filled
        PROVE  \/ InRest(rest, i)
               \/ \E f \in found : f.serial = installed[i]
               \/ i \in missed
               \/ CutOff(quiet, i)
    <3> HIDE DEF rest, found, quiet, missed
    <3>1. Accounted(scan, i)
      BY <1>1, <1>9 DEF ScanRight
    <3>2. CutOff(scan.quiet, i) => CutOff(quiet, i)
      BY <2>2 DEF CutOff
    <3>3. i = Asked => i \in missed \/ \E f \in found : f.serial = installed[i]
      BY <1>3, <1>6, <1>9 DEF found
    <3>4. QED
      BY <2>2, <2>3, <3>1, <3>2, <3>3 DEF Accounted
  <2> HIDE DEF rest, timeouts, found, quiet, missed
  <2>5. QED
    BY <2>3, <2>4
<1>9a. scan.timeouts \in Nat /\ timeouts \in Nat
  BY <1>1 DEF ScanRight, Counted, Timeouts
<1> HIDE DEF rest, timeouts, found, quiet, missed
<1>10. /\ scan'.full = scan.full /\ scan'.rest = rest /\ scan'.timeouts = timeouts
       /\ scan'.found = found /\ scan'.quiet = quiet /\ scan'.missed = missed
       /\ scan' \in [full : BOOLEAN, rest : {rest}, timeouts : Nat,
                     found : SUBSET Infos, quiet : SUBSET Slots, missed : SUBSET Slots]
  <2>1. scan \in [full : BOOLEAN, rest : {scan.rest}, timeouts : Nat,
                  found : SUBSET Infos, quiet : SUBSET Slots, missed : SUBSET Slots]
    BY <1>1 DEF ScanRight
  <2>2. QED
    BY <1>4, <1>5, <1>9a, <2>1
<1>11. \A f : Right(f) => Right(f)'
  BY <1>1, BatteryStays
<1>12. ScanRight' /\ scan'.full = ~full_done'
  <2>1. scan' \in [full : BOOLEAN, rest : {scan'.rest}, timeouts : Nat,
                   found : SUBSET Infos, quiet : SUBSET Slots, missed : SUBSET Slots]
    BY <1>10
  <2>2. \A f \in scan'.found : Right(f)'
    BY <1>8, <1>10, <1>11
  <2>3. scan'.full => scan'.rest \in Seq(Seq(Slots) \ {<<>>})
    BY <1>7, <1>10
  <2>4. Filled' = Filled
    BY <1>1 DEF Filled
  <2>5. ASSUME changes' = 0, scan'.full
        PROVE  /\ scan'.rest # <<>> =>
                     \E t, n \in Nat : Place(scan'.rest, scan'.timeouts, scan'.quiet, t, n)
               /\ \A i \in Filled : Accounted(scan, i)'
    BY <1>1, <1>9, <1>10, <2>5 DEF Accounted, InRest, CutOff
  <2>6. QED
    BY <1>1, <1>10, <2>1, <2>2, <2>3, <2>4, <2>5 DEF ScanRight, Place
<1>13. \A f \in late' : Right(f)'
  <2>1. late' \subseteq late \cup Own
    BY <1>2
  <2>2. \A f \in late : Right(f)
    BY DEF BatteryInv
  <2>3. QED
    BY <1>11, <2>1, <2>2, BatteryOwn
<1>14. SlotsRight(slots)' /\ (store' # None => SlotsRight(store)')
  <2>1. SlotsRight(slots) /\ (store # None => SlotsRight(store))
    BY DEF BatteryInv
  <2>2. QED
    BY <1>1, <2>1, BatteryStays DEF SlotsRight, Right
<1>15. Occupied' \subseteq held'
  BY <1>1 DEF BatteryInv, Occupied, Filled
<1>16. LeftOutForSilence'
  BY <1>1, BatteryStays DEF BatteryInv
<1>17. QED
  BY <1>1, <1>12, <1>13, <1>14, <1>15, <1>16 DEF BatteryInv

\* What a scan has found goes under the slots the modules said.
LEMMA BatteryMerged ==
    ASSUME SlotsRight(slots), NEW found, \A f \in found : Right(f)
    PROVE  SlotsRight(Merged(found))
<1> DEFINE m == Merged(found)
<1>1. m = [i \in DOMAIN slots \cup {f.index : f \in found} |->
             IF \E f \in found : f.index = i THEN CHOOSE f \in found : f.index = i ELSE slots[i]]
  BY DEF Merged
<1> HIDE DEF m
<1>2. ASSUME NEW i \in DOMAIN m
      PROVE  i \in Slots /\ Right(m[i]) /\ m[i].index = i
  <2>1. CASE \E f \in found : f.index = i
    <3>1. m[i] \in found /\ m[i].index = i
      BY <1>1, <1>2, <2>1
    <3>2. Right(m[i])
      BY <3>1
    <3>3. m[i].index \in Slots
      BY <3>2 DEF Right, Infos
    <3>4. QED
      BY <3>1, <3>2, <3>3
  <2>2. CASE ~\E f \in found : f.index = i
    <3>1. i \in DOMAIN slots /\ m[i] = slots[i]
      BY <1>1, <1>2, <2>2
    <3>2. QED
      BY <3>1 DEF SlotsRight
  <2>3. QED
    BY <2>1, <2>2
<1>3. QED
  BY <1>2 DEF SlotsRight, m

\* As long as the modules stay where they are, a scan that lands takes no module
\* out of the map and brings in all it has found.
LEMMA BatteryShows ==
    ASSUME BatteryInv, NEW found, \A f \in found : Right(f), changes = 0, slots' = Merged(found)
    PROVE  /\ \A f \in found : \E j \in DOMAIN slots' : slots'[j].serial = f.serial
           /\ \A i \in DOMAIN slots : \E j \in DOMAIN slots' : slots'[j].serial = slots[i].serial
<1>1. slots' = [i \in DOMAIN slots \cup {f.index : f \in found} |->
                  IF \E f \in found : f.index = i THEN CHOOSE f \in found : f.index = i
                                                  ELSE slots[i]]
  BY DEF Merged
<1>2. ASSUME NEW f, Right(f) PROVE installed[f.index] = f.serial
  BY <1>2 DEF Right
<1>3. ASSUME NEW f \in found PROVE slots'[f.index].serial = f.serial
  <2>1. slots'[f.index] \in found /\ slots'[f.index].index = f.index
    BY <1>1
  <2>2. QED
    BY <1>2, <2>1
<1>4. ASSUME NEW i \in DOMAIN slots PROVE slots'[i].serial = slots[i].serial
  <2>1. Right(slots[i]) /\ slots[i].index = i
    BY DEF BatteryInv, SlotsRight
  <2>2. CASE \E f \in found : f.index = i
    BY <1>2, <1>3, <2>1, <2>2
  <2>3. CASE ~\E f \in found : f.index = i
    BY <1>1, <2>3
  <2>4. QED
    BY <2>2, <2>3
<1>5. \A f \in found : f.index \in DOMAIN slots'
  BY <1>1
<1>6. \A i \in DOMAIN slots : i \in DOMAIN slots'
  BY <1>1
<1>7. QED
  BY <1>3, <1>4, <1>5, <1>6

LEMMA BatteryLand == ASSUME BatteryInv, Land PROVE BatteryInv'
<1>1. /\ scan # None /\ scan.rest = <<>> /\ slots' = Merged(scan.found) /\ full_done' = TRUE
      /\ store' \in {slots', store} /\ scan' = None /\ late' = {}
      /\ excused' = IF scan.full /\ changes = 0 THEN Excuses ELSE excused
      /\ UNCHANGED <<installed, changes, counter, water, held>>
  BY DEF Land
<1>2. ScanRight /\ scan.full = ~full_done /\ LeftOutForSilence /\ excused \subseteq Slots
      /\ full_done \in BOOLEAN
  BY <1>1 DEF BatteryInv
<1>3. SlotsRight(slots')
  <2>1. SlotsRight(slots) /\ \A f \in scan.found : Right(f)
    BY <1>2 DEF BatteryInv, ScanRight
  <2>2. QED
    BY <1>1, <2>1, BatteryMerged
<1>4. store' # None => SlotsRight(store')
  <2>1. store # None => SlotsRight(store)
    BY DEF BatteryInv
  <2>2. QED
    BY <1>1, <1>3, <2>1
<1>5. SlotsRight(slots)' /\ (store' # None => SlotsRight(store)')
  BY <1>1, <1>3, <1>4, BatteryStays DEF SlotsRight, Right
<1>6. Occupied' \subseteq held'
  BY <1>1 DEF BatteryInv, Occupied, Filled
<1>7. Filled' = Filled /\ Filled \subseteq Slots
  BY <1>1 DEF Filled
<1>8. excused' \subseteq Slots
  BY <1>1, <1>2, <1>7 DEF Excuses
<1>9. ASSUME changes = 0, NEW i \in Filled, \A j \in DOMAIN slots' : slots'[j].serial # installed[i]
      PROVE  i \in excused'
  <2>1. /\ \A f \in scan.found : f.serial # installed[i]
        /\ \A j \in DOMAIN slots : slots[j].serial # installed[i]
    BY <1>1, <1>2, <1>9, BatteryShows DEF ScanRight
  <2>2. CASE scan.full
    <3>1. Accounted(scan, i) /\ ~InRest(scan.rest, i)
      BY <1>1, <1>2, <1>9, <2>2 DEF ScanRight, InRest
    <3>2. QED
      BY <1>1, <1>9, <2>1, <2>2, <3>1 DEF Accounted, Excuses
  <2>3. CASE ~scan.full
    BY <1>1, <1>2, <1>9, <2>1, <2>3 DEF LeftOutForSilence, Unseen, Shown
  <2>4. QED
    BY <2>2, <2>3
<1>10. LeftOutForSilence'
  <2>1. ASSUME changes' = 0, NEW i \in Unseen' PROVE i \in excused'
    <3>1. changes = 0 /\ i \in Filled
          /\ \A j \in DOMAIN slots' : slots'[j].serial # installed[i]
      BY <1>1, <1>7, <2>1 DEF Unseen, Shown
    <3>2. QED
      BY <1>9, <3>1
  <2>2. QED
    BY <2>1 DEF LeftOutForSilence
<1>11. QED
  BY <1>1, <1>5, <1>6, <1>8, <1>10 DEF BatteryInv

LEMMA BatteryFail == ASSUME BatteryInv, Fail PROVE BatteryInv'
<1>1. /\ counter' = Gate - 1 /\ scan' = None /\ late' = {}
      /\ UNCHANGED <<installed, changes, slots, full_done, store, water, held, excused>>
  BY DEF Fail
<1>2. counter' \in 0 .. Gate - 1
  BY <1>1, BatteryAssumption DEF BatteryInv
<1>3. SlotsRight(slots)' /\ (store' # None => SlotsRight(store)')
  <2>1. SlotsRight(slots) /\ (store # None => SlotsRight(store))
    BY DEF BatteryInv
  <2>2. QED
    BY <1>1, <2>1, BatteryStays DEF SlotsRight, Right
<1>4. Occupied' \subseteq held'
  BY <1>1 DEF BatteryInv, Occupied, Filled
<1>5. LeftOutForSilence'
  BY <1>1, BatteryStays DEF BatteryInv
<1>6. QED
  BY <1>1, <1>2, <1>3, <1>4, <1>5 DEF BatteryInv

LEMMA BatteryReload == ASSUME BatteryInv, Reload PROVE BatteryInv'
<1>1. /\ slots' \in {IF store = None THEN Empty ELSE store, Empty}
      /\ full_done' = FALSE /\ counter' = Gate - 1 /\ scan' = None /\ late' = {} /\ water' = {0}
      /\ UNCHANGED <<installed, changes, store, held, excused>>
  BY DEF Reload
<1>2. counter' \in 0 .. Gate - 1 /\ 0 \in Cabinets
  BY <1>1, BatteryAssumption DEF BatteryInv
<1>3. SlotsRight(Empty)
  BY DEF SlotsRight, Empty
<1>4. SlotsRight(slots') /\ (store' # None => SlotsRight(store'))
  BY <1>1, <1>3 DEF BatteryInv
<1>5. SlotsRight(slots)' /\ (store' # None => SlotsRight(store)')
  BY <1>1, <1>4, BatteryStays DEF SlotsRight, Right
<1>6. Occupied' \subseteq held'
  BY <1>1 DEF BatteryInv, Occupied, Filled
<1>7. QED
  BY <1>1, <1>2, <1>5, <1>6 DEF BatteryInv, LeftOutForSilence


\* When something is moved nothing is said any more of where a module is, but
\* the cabinets it was in stay held.
LEMMA BatteryChange == ASSUME BatteryInv, Change PROVE BatteryInv'
<1>1. /\ changes < MaxChanges /\ changes' = changes + 1 /\ held' = held \cup Occupied' /\ excused' = {}
      /\ UNCHANGED <<scan, late, slots, full_done, counter, store, water>>
  BY DEF Change
<1>2. changes' \in 0 .. MaxChanges /\ changes' # 0
  BY <1>1, BatteryAssumption DEF BatteryInv
<1>3. installed' \in [Slots -> Modules \cup {None}]
  <2>1. installed \in [Slots -> Modules \cup {None}]
    BY DEF BatteryInv
  <2>2. CASE \E i \in Slots, m \in Modules : installed' = [installed EXCEPT ![i] = m]
    BY <2>1, <2>2
  <2>3. CASE \E i \in Slots : installed' = [installed EXCEPT ![i] = None]
    BY <2>1, <2>3
  <2>4. CASE \E i, j \in Slots :
               installed' = [installed EXCEPT ![i] = None, ![j] = installed[i]]
    BY <2>1, <2>4
  <2>5. QED
    BY <2>2, <2>3, <2>4 DEF Change
<1>4. Occupied' \subseteq Cabinets
  BY BatteryAssumption DEF Occupied, Filled, BatteryInv
<1>5. ASSUME NEW f, Right(f) PROVE Right(f)'
  BY <1>1, <1>2, <1>5 DEF Right
<1>6. SlotsRight(slots)' /\ (store' # None => SlotsRight(store)')
  BY <1>1, <1>5 DEF SlotsRight, BatteryInv
<1>7. (\A f \in late' : Right(f)') /\ (scan' # None => ScanRight' /\ scan'.full = ~full_done')
  BY <1>1, <1>2, <1>5 DEF BatteryInv, ScanRight
<1>8. held' \subseteq Cabinets /\ Occupied' \subseteq held' /\ held \subseteq held'
  BY <1>1, <1>4 DEF BatteryInv
<1>9. QED
  BY <1>1, <1>2, <1>3, <1>6, <1>7, <1>8 DEF BatteryInv, LeftOutForSilence

\* A cabinet counts only with a module that said it is in it.
LEMMA BatteryAccessories == ASSUME BatteryInv, ScanAccessories PROVE BatteryInv'
<1>1. UNCHANGED <<installed, changes, scan, late, slots, full_done, counter, store, held, excused>>
  BY DEF ScanAccessories
<1>2. PICK answer : water' = water \cup ConfirmedCabinets(answer)
  BY DEF ScanAccessories
<1>3. ConfirmedCabinets(answer) \subseteq held
  BY DEF ConfirmedCabinets, BatteryInv, SlotsRight, Right
<1>4. water' \subseteq Cabinets /\ water' \ {0} \subseteq held
  BY <1>2, <1>3 DEF BatteryInv
<1>5. SlotsRight(slots)' /\ (store' # None => SlotsRight(store)')
  BY <1>1, BatteryStays DEF BatteryInv, SlotsRight, Right
<1>6. (\A f \in late' : Right(f)') /\ (scan' # None => ScanRight' /\ scan'.full = ~full_done')
  BY <1>1, BatteryStays DEF BatteryInv
<1>7. Occupied' \subseteq held'
  BY <1>1 DEF BatteryInv, Occupied, Filled
<1>8. LeftOutForSilence'
  BY <1>1, BatteryStays DEF BatteryInv
<1>9. QED
  BY <1>1, <1>4, <1>5, <1>6, <1>7, <1>8 DEF BatteryInv

LEMMA BatteryStutter == ASSUME BatteryInv, UNCHANGED scanVars PROVE BatteryInv'
<1>1. UNCHANGED <<installed, changes, scan, late, slots, full_done, counter, store, water, held, excused>>
  BY DEF scanVars
<1>2. SlotsRight(slots)' /\ (store' # None => SlotsRight(store)')
  BY <1>1, BatteryStays DEF BatteryInv, SlotsRight, Right
<1>3. (\A f \in late' : Right(f)') /\ (scan' # None => ScanRight' /\ scan'.full = ~full_done')
  BY <1>1, BatteryStays DEF BatteryInv
<1>4. Occupied' \subseteq held'
  BY <1>1 DEF BatteryInv, Occupied, Filled
<1>5. LeftOutForSilence'
  BY <1>1, BatteryStays DEF BatteryInv
<1>6. QED
  BY <1>1, <1>2, <1>3, <1>4, <1>5 DEF BatteryInv

-----------------------------------------------------------------------------
(* The invariant and the theorems *)

\* The invariant holds, whatever tiers, cabinets, modules and moves.
THEOREM BatteryInvariance == ScanSpec => []BatteryInv
<1>1. ScanInit => BatteryInv
  BY BatteryInit
<1>2. BatteryInv /\ [ScanNext]_scanVars => BatteryInv'
  BY BatteryPoll, BatteryProbe, BatteryLand, BatteryFail, BatteryReload, BatteryChange,
     BatteryAccessories, BatteryStutter DEF ScanNext
<1>3. QED
  BY <1>1, <1>2, PTL DEF ScanSpec

\* Types: replies, slots and what a scan has found are of modules; every
\* cabinet that is known is one an accessory scan asks about.
THEOREM BatteryTypes == ScanSpec => []ScanTypeOK
<1>1. BatteryInv => ScanTypeOK
  <2>1. SUFFICES ASSUME BatteryInv PROVE ScanTypeOK
    OBVIOUS
  <2>2. late \subseteq Infos
    BY <2>1 DEF BatteryInv, Right
  <2>3. Range(slots) \subseteq Infos /\ DOMAIN slots \subseteq Slots
    BY <2>1 DEF BatteryInv, SlotsRight, Right, Range
  <2>4. scan # None => scan.found \subseteq Infos /\ scan.quiet \cup scan.missed \subseteq Slots
    BY <2>1 DEF BatteryInv, ScanRight
  <2>5. QED
    BY <2>1, <2>2, <2>3, <2>4 DEF BatteryInv, ScanTypeOK
<1>2. QED
  BY <1>1, BatteryInvariance, PTL

\* As long as the modules stay where they are, every slot shows the one that is
\* in it, however late the replies come (read_battery_info).
THEOREM ModulesInPlace == ScanSpec => []ModuleInPlace
<1>1. BatteryInv => ModuleInPlace
  BY DEF BatteryInv, SlotsRight, Right, ModuleInPlace, Shown
<1>2. QED
  BY <1>1, BatteryInvariance, PTL

\* The first scan that finds a module ends discovery: from then on, as long as
\* the modules stay where they are, none is left out but one whose own reply did
\* not come while its slot was asked, or before whose slot two in a row of its
\* tier were silent (_async_scan_battery_modules, read_battery_info).
THEOREM LeftOut == ScanSpec => []LeftOutForSilence
<1>1. BatteryInv => LeftOutForSilence
  BY DEF BatteryInv
<1>2. QED
  BY <1>1, BatteryInvariance, PTL

\* A further cabinet has a water sensor only if a module has been in it
\* (_async_scan_accessories).
THEOREM CabinetsProven == ScanSpec => []CabinetProven
<1>1. BatteryInv => CabinetProven
  BY DEF BatteryInv, CabinetProven
<1>2. QED
  BY <1>1, BatteryInvariance, PTL

=============================================================================
