------------------------ MODULE StreamSessionProofs ------------------------
(***************************************************************************)
(* Theorems about StreamSession, for every set of session objects and      *)
(* every value of the intervals.                                           *)
(***************************************************************************)
EXTENDS StreamSession, TLAPS

-----------------------------------------------------------------------------
(* The inductive invariant, session by session *)

\* The stall episode stays within its quota: a pending long_stall rebuild, which
\* will be counted, was flagged with quota left.
EpisodeInv(r) ==
    /\ r.episode <= Quota
    /\ r.needsReconnect /\ r.reason = "long_stall" => r.episode < Quota
    /\ r.at \in {"refresh1", "shake1", "refresh2", "shake2"} => r.needsReconnect

\* A forced rotation is asked for with a cause or by a stream that has decrypted.
CauseInv(r, p) ==
    /\ r.gateOn => r.ever
    /\ r.needsCreds => r.ever \/ p.cause
    /\ r.force => r.at \in {"refresh1", "refresh2"} /\ (r.ever \/ p.cause)

\* The pause owed to the relay is never longer than the one the streak stands
\* for, and the time since the last attempt and the wait still to come make it up.
BackoffInv(r, p) ==
    /\ r.pause >= BackoffBase /\ r.pause >= p.owed
    /\ r.unseen => p.owed = 0
    /\ r.waiting => r.needsReconnect /\ ~r.unseen
    /\ r.at \in {"refresh1", "shake1", "refresh2", "shake2"} => ~r.waiting /\ ~r.unseen
    /\ r.waiting => /\ p.owed = 0 \/ p.attempt + r.wait >= p.owed
                    /\ r.pause >= Doubled(IF p.owed = 0 THEN BackoffBase ELSE p.owed)

\* What every session satisfies; the recorded time of the last subscribe is
\* never older than the subscribe the wire saw last.
SessionInv(r, p) ==
    /\ r \in Session /\ p \in Past
    /\ EpisodeInv(r) /\ CauseInv(r, p) /\ BackoffInv(r, p)
    /\ r.sub <= p.sent

HolderInv == holder \in Holder /\ holder.pause >= BackoffBase

Inv ==
    /\ session \in [Sessions -> Session] /\ past \in [Sessions -> Past]
    /\ HolderInv
    /\ \A s \in Sessions : SessionInv(session[s], past[s])

-----------------------------------------------------------------------------
(* Helpers *)

\* A streak's pause grows up to the ceiling, and keeps the order of pauses.
LEMMA DoubledPause ==
    ASSUME NEW p \in Pause
    PROVE  /\ Doubled(p) \in Pause /\ Doubled(p) >= p
           /\ \A q \in Pause : p <= q => Doubled(p) <= Doubled(q)
  BY BackoffAssumption DEF Doubled, Smaller, Pause

LEMMA OlderAge ==
    ASSUME NEW a \in Age
    PROVE  /\ Older(a) \in Age /\ a <= Older(a) /\ (Older(a) = a + 1 \/ Older(a) = Horizon)
           /\ \A b \in Age : a <= b => Older(a) <= Older(b)
  BY HorizonAssumption DEF Older, Smaller, Age

LEMMA BaseAge == 0 \in Age /\ Horizon \in Age
  BY HorizonAssumption DEF Age

LEMMA BasePause == BackoffBase \in Pause /\ 0 \in Pause
  BY BackoffAssumption DEF Pause

\* A session object starts within the invariant.
LEMMA NewSessionInv ==
    ASSUME NEW place \in {"new", "loop"}, NEW open \in BOOLEAN, NEW ever \in BOOLEAN,
           NEW pause \in Pause, pause >= BackoffBase
    PROVE  SessionInv(SessionObject(place, open, ever, pause), NewPast)
<1> DEFINE r == SessionObject(place, open, ever, pause)
<1>1. r \in Session
  BY BaseAge, BasePause DEF SessionObject, Session, Places, Reasons
<1>2. NewPast \in Past
  BY BaseAge, BasePause DEF Past, NewPast
<1>3. /\ r.episode = 0 /\ ~r.needsReconnect /\ r.at \in {"new", "loop"} /\ ~r.gateOn
      /\ ~r.needsCreds /\ ~r.force /\ r.pause = pause /\ ~r.unseen /\ ~r.waiting
      /\ r.sub = Horizon /\ NewPast.owed = 0 /\ NewPast.sent = Horizon
  BY DEF SessionObject, NewPast
<1> HIDE DEF r
<1>4. EpisodeInv(r) /\ CauseInv(r, NewPast)
  BY <1>3, QuotaAssumption DEF EpisodeInv, CauseInv
<1>5. BackoffInv(r, NewPast)
  BY <1>3, BackoffAssumption DEF BackoffInv, Pause
<1>6. SessionInv(r, NewPast)
  BY <1>1, <1>2, <1>3, <1>4, <1>5, HorizonAssumption DEF SessionInv
<1>7. QED
  BY <1>6 DEF r

-----------------------------------------------------------------------------
(* One iteration *)

\* What an iteration keeps while it runs: no reconnect is being waited for, and
\* credentials are wanted only with a cause.
Iterating(r, cause) ==
    /\ r \in Session /\ r.at = "loop" /\ ~r.waiting /\ ~r.force
    /\ r.episode <= Quota
    /\ r.needsReconnect /\ r.reason = "long_stall" => r.episode < Quota
    /\ r.gateOn => r.ever
    /\ r.needsCreds => r.ever \/ cause

LEMMA FlagIterates ==
    ASSUME NEW cause \in BOOLEAN, NEW r, Iterating(r, cause), NEW why \in Reasons,
           why = "long_stall" => r.episode < Quota
    PROVE  /\ Iterating(Flag(r, why), cause \/ why = "session_expired_21204")
           /\ Flag(r, why).sub = r.sub /\ Flag(r, why).pause = r.pause
           /\ Flag(r, why).unseen = r.unseen /\ Flag(r, why).ever = r.ever
           /\ Flag(r, why).episode = r.episode
  BY DEF Iterating, Flag, Session, Reasons

LEMMA WatchdogIterates ==
    ASSUME NEW cause \in BOOLEAN, NEW r, Iterating(r, cause)
    PROVE  /\ Iterating(Watchdog(r), cause)
           /\ Watchdog(r).sub = r.sub /\ Watchdog(r).pause = r.pause
           /\ Watchdog(r).unseen = r.unseen
<1>1. CASE GateExpired(r)
  <2> DEFINE f == Flag(r, "decrypt_gate_no_frame")
  <2>1. /\ Iterating(f, cause) /\ f.sub = r.sub /\ f.pause = r.pause /\ f.unseen = r.unseen
        /\ f.ever = r.ever
    BY FlagIterates DEF Reasons
  <2>2. Watchdog(r) = [f EXCEPT !.gateOn = FALSE, !.gate = 0, !.needsCreds = TRUE]
    BY <1>1 DEF Watchdog
  <2>3. r.ever
    BY <1>1 DEF GateExpired, Iterating
  <2> HIDE DEF f
  <2>4. [f EXCEPT !.gateOn = FALSE, !.gate = 0, !.needsCreds = TRUE] \in Session
    BY <2>1, BaseAge DEF Iterating, Session
  <2> DEFINE g == [f EXCEPT !.gateOn = FALSE, !.gate = 0, !.needsCreds = TRUE]
  <2>5. /\ g.at = f.at /\ g.waiting = f.waiting /\ g.force = f.force
        /\ g.episode = f.episode /\ g.needsReconnect = f.needsReconnect
        /\ g.reason = f.reason /\ g.ever = f.ever /\ g.gateOn = FALSE
        /\ g.sub = f.sub /\ g.pause = f.pause /\ g.unseen = f.unseen
    BY <2>1 DEF Iterating, Session
  <2> HIDE DEF g
  <2>6. QED
    BY <2>1, <2>2, <2>3, <2>4, <2>5 DEF Iterating, g
<1>2. CASE ~GateExpired(r) /\ StallDue(r)
  <2>1. "long_stall" \in Reasons /\ r.episode < Quota
    BY <1>2 DEF StallDue, Reasons
  <2>2. QED
    BY <1>2, <2>1, FlagIterates DEF Watchdog
<1>3. CASE ~GateExpired(r) /\ ~StallDue(r)
  BY <1>3 DEF Watchdog
<1>4. QED
  BY <1>1, <1>2, <1>3

LEMMA SubscribeIterates ==
    ASSUME NEW cause \in BOOLEAN, NEW r, Iterating(r, cause), NEW ok \in BOOLEAN
    PROVE  /\ Iterating(MaybeSubscribe(r, ok), cause)
           /\ MaybeSubscribe(r, ok).sub = IF SubscribeDue(r) /\ ok THEN 0 ELSE r.sub
           /\ MaybeSubscribe(r, ok).pause = r.pause
           /\ MaybeSubscribe(r, ok).unseen = r.unseen
<1>1. CASE SubscribeDue(r) /\ ok
  BY <1>1, HorizonAssumption DEF MaybeSubscribe, Iterating, Session, Age
<1>2. CASE SubscribeDue(r) /\ ~ok
  <2>1. "error" \in Reasons
    BY DEF Reasons
  <2>2. QED
    BY <1>2, <2>1, FlagIterates DEF MaybeSubscribe
<1>3. CASE ~SubscribeDue(r)
  BY <1>3 DEF MaybeSubscribe
<1>4. QED
  BY <1>1, <1>2, <1>3

LEMMA KeepaliveIterates ==
    ASSUME NEW cause \in BOOLEAN, NEW r, Iterating(r, cause), NEW ok \in BOOLEAN
    PROVE  /\ Iterating(MaybeKeepalive(r, ok), cause)
           /\ MaybeKeepalive(r, ok).sub = r.sub
           /\ MaybeKeepalive(r, ok).pause = r.pause
           /\ MaybeKeepalive(r, ok).unseen = r.unseen
<1>1. "error" \in Reasons
  BY DEF Reasons
<1>2. QED
  BY <1>1, FlagIterates DEF MaybeKeepalive

LEMMA DrainIterates ==
    ASSUME NEW cause \in BOOLEAN, NEW r, Iterating(r, cause), NEW frame \in BOOLEAN,
           NEW ending \in Endings
    PROVE  /\ Iterating(Drain(r, frame, ending),
                        cause \/ ending \in {"session_expired_21204", "force_logout"})
           /\ Drain(r, frame, ending).sub = r.sub
           /\ Drain(r, frame, ending).pause = r.pause
           /\ Drain(r, frame, ending).unseen => frame \/ r.unseen
<1> DEFINE read == IF frame THEN Decrypted(r) ELSE r
<1>1. /\ Iterating(read, cause)
      /\ read.sub = r.sub /\ read.pause = r.pause /\ (read.unseen => frame \/ r.unseen)
  <2>1. CASE frame
    <3>1. Decrypted(r) \in Session
      BY BaseAge DEF Iterating, Decrypted, Session
    <3>2. QED
      BY <2>1, <3>1, QuotaAssumption DEF Iterating, Decrypted, Session
  <2>2. CASE ~frame
    BY <2>2
  <2>3. QED
    BY <2>1, <2>2
<1>2. Drain(r, frame, ending) =
        CASE ending = "quiet"        -> read
          [] ending = "force_logout" -> [Flag(read, ending) EXCEPT !.needsCreds = TRUE]
          [] OTHER                   -> Flag(read, ending)
  BY DEF Drain
<1> HIDE DEF read
<1>3. CASE ending = "quiet"
  BY <1>1, <1>2, <1>3 DEF Iterating
<1>4. CASE ending = "force_logout"
  <2> DEFINE f == Flag(read, "force_logout")
  <2>1. Iterating(f, cause) /\ f.sub = r.sub /\ f.pause = r.pause /\ f.unseen = read.unseen
    BY <1>1, FlagIterates DEF Reasons
  <2>2. Drain(r, frame, ending) = [f EXCEPT !.needsCreds = TRUE]
    BY <1>2, <1>4
  <2> HIDE DEF f
  <2>3. [f EXCEPT !.needsCreds = TRUE] \in Session
    BY <2>1 DEF Iterating, Session
  <2>4. QED
    BY <1>1, <1>4, <2>1, <2>2, <2>3 DEF Iterating, Session
<1>5. CASE ending \in {"session_expired_21204", "error"}
  <2>1. ending \in Reasons /\ ending # "long_stall"
    BY <1>5 DEF Reasons
  <2>2. QED
    BY <1>1, <1>2, <1>5, <2>1, FlagIterates
<1>6. QED
  BY <1>3, <1>4, <1>5 DEF Endings

LEMMA IterateInv ==
    ASSUME NEW r, NEW p, SessionInv(r, p), Looping(r), ~r.needsReconnect,
           NEW subOk \in BOOLEAN, NEW aliveOk \in BOOLEAN, NEW frame \in BOOLEAN,
           NEW ending \in Endings, NEW q \in Past,
           q.sent = IF SubscribeDue(Watchdog(r)) /\ subOk THEN 0 ELSE p.sent,
           q.attempt = p.attempt, q.owed = IF frame THEN 0 ELSE p.owed,
           p.cause \/ ending \in {"session_expired_21204", "force_logout"} => q.cause
    PROVE  SessionInv(Drain(MaybeKeepalive(MaybeSubscribe(Watchdog(r), subOk), aliveOk),
                            frame, ending), q)
<1> DEFINE w == Watchdog(r)
           m == MaybeSubscribe(w, subOk)
           k == MaybeKeepalive(m, aliveOk)
           d == Drain(k, frame, ending)
<1> HIDE DEF w, m, k, d
<1>1. p.cause \in BOOLEAN /\ Iterating(r, p.cause)
  BY DEF SessionInv, Past, EpisodeInv, CauseInv, BackoffInv, Looping, Iterating
<1>2. /\ Iterating(w, p.cause)
      /\ w.sub = r.sub /\ w.pause = r.pause /\ w.unseen = r.unseen
  BY <1>1, WatchdogIterates DEF w
<1>3. /\ Iterating(m, p.cause)
      /\ m.sub = (IF SubscribeDue(w) /\ subOk THEN 0 ELSE r.sub)
      /\ m.pause = r.pause /\ m.unseen = r.unseen
  BY <1>1, <1>2, SubscribeIterates, ZenonT(60) DEF m
<1>4. /\ Iterating(k, p.cause)
      /\ k.sub = m.sub /\ k.pause = r.pause /\ k.unseen = r.unseen
  BY <1>1, <1>3, KeepaliveIterates DEF k
<1>5. /\ Iterating(d, p.cause \/ ending \in {"session_expired_21204", "force_logout"})
      /\ d.sub = m.sub /\ d.pause = r.pause /\ (d.unseen => frame \/ r.unseen)
  BY <1>1, <1>4, DrainIterates DEF d
<1>6. q.sent = (IF SubscribeDue(w) /\ subOk THEN 0 ELSE p.sent)
  BY DEF w
<1>7. d.sub <= q.sent
  BY <1>3, <1>5, <1>6 DEF SessionInv
<1>8. EpisodeInv(d) /\ CauseInv(d, q)
  <2>1. d.needsCreds => d.ever \/ q.cause
    BY <1>5 DEF Iterating
  <2>2. QED
    BY <1>5, <2>1 DEF Iterating, EpisodeInv, CauseInv, Session
<1>9. BackoffInv(d, q)
  BY <1>5, BackoffAssumption DEF Iterating, BackoffInv, SessionInv, Session, Past, Pause
<1>10. SessionInv(d, q)
  BY <1>5, <1>7, <1>8, <1>9 DEF SessionInv, Iterating
<1>11. QED
  BY <1>10 DEF d, k, m, w

-----------------------------------------------------------------------------
(* The other steps of a session *)

LEMMA AgedInv ==
    ASSUME NEW r, NEW p, SessionInv(r, p)
    PROVE  SessionInv(Aged(r), AgedPast(p))
<1> DEFINE a == Aged(r)
           q == AgedPast(p)
<1>1. r \in Session /\ p \in Past
  BY DEF SessionInv
<1>2. \A w \in Pause : (IF w > 0 THEN w - 1 ELSE 0) \in Pause
  BY BackoffAssumption DEF Pause
<1>3. a \in Session
  BY <1>1, <1>2, OlderAge DEF Aged, Session
<1>4. q \in Past
  BY <1>1, OlderAge DEF AgedPast, Past
<1>5. /\ a.episode = r.episode /\ a.needsReconnect = r.needsReconnect /\ a.reason = r.reason
      /\ a.at = r.at /\ a.gateOn = r.gateOn /\ a.ever = r.ever /\ a.needsCreds = r.needsCreds
      /\ a.force = r.force /\ a.pause = r.pause /\ a.unseen = r.unseen /\ a.waiting = r.waiting
      /\ a.sub = Older(r.sub) /\ a.wait = (IF r.wait > 0 THEN r.wait - 1 ELSE 0)
  BY <1>1 DEF Aged, Session
<1>6. /\ q.sent = Older(p.sent) /\ q.attempt = Older(p.attempt)
      /\ q.owed = p.owed /\ q.cause = p.cause
  BY <1>1 DEF AgedPast, Past
<1>7. r.sub \in Age /\ p.sent \in Age /\ p.attempt \in Age /\ r.wait \in Pause /\ p.owed \in Pause
  BY <1>1 DEF Session, Past
<1> HIDE DEF a, q
<1>8. a.sub <= q.sent
  BY <1>5, <1>6, <1>7, OlderAge DEF SessionInv
<1>9. EpisodeInv(a) /\ CauseInv(a, q)
  BY <1>5, <1>6 DEF SessionInv, EpisodeInv, CauseInv
<1>10. p.attempt + r.wait >= p.owed => q.attempt + a.wait >= p.owed
  BY <1>5, <1>6, <1>7, OlderAge, HorizonAssumption, BackoffAssumption DEF Age, Pause
<1>11. BackoffInv(a, q)
  BY <1>5, <1>6, <1>10 DEF SessionInv, BackoffInv
<1>12. SessionInv(a, q)
  BY <1>3, <1>4, <1>8, <1>9, <1>11 DEF SessionInv
<1>13. QED
  BY <1>12 DEF a, q

\* The backoff before an attempt starts from the base after a frame.
LEMMA ScheduleInv ==
    ASSUME NEW r, NEW p, SessionInv(r, p), r.needsReconnect, r.at = "loop",
           NEW base, base = IF r.unseen THEN BackoffBase ELSE r.pause
    PROVE  /\ SessionInv([r EXCEPT !.waiting = TRUE, !.wait = base,
                                   !.pause = Doubled(base), !.unseen = FALSE], p)
           /\ Doubled(base) \in Pause /\ Doubled(base) >= BackoffBase
<1> DEFINE a == [r EXCEPT !.waiting = TRUE, !.wait = base,
                          !.pause = Doubled(base), !.unseen = FALSE]
<1>1. r \in Session /\ p \in Past /\ p.owed \in Pause /\ p.attempt \in Nat
  BY HorizonAssumption DEF SessionInv, Session, Past, Age
<1>2. base \in Pause /\ base >= BackoffBase /\ base >= p.owed
  BY <1>1, BasePause DEF SessionInv, BackoffInv, Session, Pause
<1>3. Doubled(base) \in Pause /\ Doubled(base) >= base
        /\ Doubled(base) >= Doubled(BackoffBase) /\ Doubled(base) >= Doubled(p.owed)
  BY <1>1, <1>2, BasePause, DoubledPause
<1>4. a \in Session
  BY <1>1, <1>2, <1>3 DEF Session
<1>5. /\ a.episode = r.episode /\ a.needsReconnect = r.needsReconnect /\ a.reason = r.reason
      /\ a.at = r.at /\ a.gateOn = r.gateOn /\ a.ever = r.ever /\ a.needsCreds = r.needsCreds
      /\ a.force = r.force /\ a.sub = r.sub
      /\ a.pause = Doubled(base) /\ a.unseen = FALSE /\ a.waiting = TRUE /\ a.wait = base
  BY <1>1 DEF Session
<1> HIDE DEF a
<1>6. EpisodeInv(a) /\ CauseInv(a, p) /\ a.sub <= p.sent
  BY <1>5 DEF SessionInv, EpisodeInv, CauseInv
<1>7. BackoffInv(a, p)
  BY <1>1, <1>2, <1>3, <1>5, BackoffAssumption DEF BackoffInv, Pause
<1>8. SessionInv(a, p)
  BY <1>1, <1>4, <1>6, <1>7 DEF SessionInv
<1>9. QED
  BY <1>2, <1>3, <1>8, BackoffAssumption DEF a, Pause

\* A step that leaves the escalation, the episode and the subscribe alone and
\* puts the thread at another place with a reconnect pending, owing the relay no
\* more than the streak's pause.
LEMMA PlacedInv ==
    ASSUME NEW r, NEW p, SessionInv(r, p), r.needsReconnect,
           NEW a \in Session,
           a.at \in {"loop", "refresh1", "shake1", "refresh2", "shake2"},
           a.needsReconnect, ~a.waiting, ~a.unseen,
           a.episode = r.episode, a.reason = r.reason, a.gateOn = r.gateOn, a.ever = r.ever,
           a.pause = r.pause, a.sub = r.sub,
           NEW q \in Past, q.sent = p.sent, r.pause >= q.owed,
           p.cause => q.cause,
           a.needsCreds => r.ever \/ q.cause,
           a.force => a.at \in {"refresh1", "refresh2"} /\ (r.ever \/ q.cause)
    PROVE  SessionInv(a, q)
<1>1. EpisodeInv(a) /\ CauseInv(a, q) /\ a.sub <= q.sent
  BY DEF SessionInv, EpisodeInv, CauseInv
<1>2. BackoffInv(a, q)
  BY DEF SessionInv, BackoffInv
<1>3. QED
  BY <1>1, <1>2 DEF SessionInv

LEMMA RefreshingType ==
    ASSUME NEW r \in Session, NEW place \in {"refresh1", "refresh2"}
    PROVE  LET a == Refreshing(r, place) IN
           /\ a \in Session /\ a.at = place /\ a.force = r.needsCreds /\ ~a.needsCreds
           /\ a.needsReconnect = r.needsReconnect /\ a.waiting = r.waiting
           /\ a.unseen = r.unseen /\ a.episode = r.episode /\ a.reason = r.reason
           /\ a.gateOn = r.gateOn /\ a.ever = r.ever /\ a.pause = r.pause /\ a.sub = r.sub
<1>1. place \in Places
  BY DEF Places
<1>2. QED
  BY <1>1 DEF Refreshing, Session

LEMMA HandshakingType ==
    ASSUME NEW r \in Session, NEW place \in {"shake1", "shake2"}
    PROVE  LET a == Handshaking(r, place) IN
           /\ a \in Session /\ a.at = place /\ ~a.force /\ a.needsCreds = r.needsCreds
           /\ a.needsReconnect = r.needsReconnect /\ a.waiting = r.waiting
           /\ a.unseen = r.unseen /\ a.episode = r.episode /\ a.reason = r.reason
           /\ a.gateOn = r.gateOn /\ a.ever = r.ever /\ a.pause = r.pause /\ a.sub = r.sub
<1>1. place \in Places
  BY DEF Places
<1>2. QED
  BY <1>1 DEF Handshaking, Session

\* A rebuild counts a long stall, re-anchors the backoff and arms the gate.
LEMMA RebuiltInv ==
    ASSUME NEW r, NEW p, SessionInv(r, p), r.at \in {"shake1", "shake2"}
    PROVE  SessionInv(Rebuilt(r), [p EXCEPT !.cause = FALSE])
<1> DEFINE a == Rebuilt(r)
           q == [p EXCEPT !.cause = FALSE]
<1>1. r \in Session /\ p \in Past /\ r.sub \in Age /\ p.sent \in Age /\ r.episode \in Nat
  BY DEF SessionInv, Session, Past
<1>2. q \in Past /\ q.sent = p.sent /\ q.owed = p.owed /\ q.attempt = p.attempt
  BY <1>1 DEF Past
<1>3. r.needsReconnect /\ ~r.waiting /\ ~r.unseen /\ ~r.force
  BY DEF SessionInv, EpisodeInv, CauseInv, BackoffInv
<1>4. a \in Session
  <2> DEFINE sub == IF r.sub > SubscribeInterval THEN 0 ELSE r.sub
             ref == IF r.hasFrame THEN r.ref ELSE 0
             episode == IF r.reason = "long_stall" THEN r.episode + 1 ELSE r.episode
  <2>1. "loop" \in Places
    BY DEF Places
  <2>2. sub \in Age /\ ref \in Age
    BY <1>1, BaseAge DEF Session
  <2>3. episode \in Nat
    BY <1>1
  <2>4. a = [r EXCEPT !.at = "loop", !.needsCreds = FALSE, !.needsReconnect = FALSE,
                      !.sub = sub, !.ref = ref, !.rebuild = 0, !.episode = episode,
                      !.unseen = FALSE, !.gateOn = r.ever, !.gate = 0]
    BY <1>1 DEF Rebuilt, Session
  <2> HIDE DEF sub, ref, episode, a
  <2>5. r.ever \in BOOLEAN
    BY <1>1 DEF Session
  <2>6. QED
    BY <1>1, <2>1, <2>2, <2>3, <2>4, <2>5, BaseAge DEF Session
<1>5. /\ a.at = "loop" /\ ~a.needsCreds /\ ~a.needsReconnect /\ ~a.unseen
      /\ a.gateOn = r.ever /\ a.ever = r.ever /\ a.force = r.force
      /\ a.waiting = r.waiting /\ a.pause = r.pause
      /\ a.sub = (IF r.sub > SubscribeInterval THEN 0 ELSE r.sub)
      /\ a.episode = (IF r.reason = "long_stall" THEN r.episode + 1 ELSE r.episode)
  BY <1>1 DEF Rebuilt, Session
<1> HIDE DEF a, q
<1>6. a.sub <= q.sent
  BY <1>1, <1>2, <1>5, HorizonAssumption DEF SessionInv, Age
<1>7. EpisodeInv(a)
  BY <1>1, <1>3, <1>5, QuotaAssumption DEF SessionInv, EpisodeInv
<1>8. CauseInv(a, q)
  BY <1>3, <1>5 DEF CauseInv
<1>9. BackoffInv(a, q)
  BY <1>2, <1>3, <1>5 DEF SessionInv, BackoffInv
<1>10. SessionInv(a, q)
  BY <1>2, <1>4, <1>6, <1>7, <1>8, <1>9 DEF SessionInv
<1>11. QED
  BY <1>10 DEF a, q

\* Stopping, closing and the end of the thread leave all the invariant is about.
LEMMA EndingInv ==
    ASSUME NEW r, NEW p, SessionInv(r, p), NEW a \in Session,
           a.at = r.at \/ (r.at = "loop" /\ a.at = "done"),
           a.needsReconnect = r.needsReconnect, a.needsCreds = r.needsCreds,
           a.force = r.force, a.reason = r.reason, a.ever = r.ever, a.unseen = r.unseen,
           a.sub = r.sub, a.gateOn = r.gateOn, a.waiting = r.waiting, a.wait = r.wait,
           a.pause = r.pause, a.episode = r.episode
    PROVE  SessionInv(a, p)
<1>1. EpisodeInv(a) /\ CauseInv(a, p) /\ a.sub <= p.sent
  BY DEF SessionInv, EpisodeInv, CauseInv
<1>2. BackoffInv(a, p)
  BY DEF SessionInv, BackoffInv
<1>3. QED
  BY <1>1, <1>2 DEF SessionInv

-----------------------------------------------------------------------------
(* The steps of the specification *)

\* A step of one session.
LEMMA OneSession ==
    ASSUME Inv, NEW s \in Sessions, NEW a, NEW q, SessionInv(a, q),
           session' = [session EXCEPT ![s] = a], past' = [past EXCEPT ![s] = q],
           HolderInv'
    PROVE  Inv'
<1>1. a \in Session /\ q \in Past
  BY DEF SessionInv
<1>2. session' \in [Sessions -> Session] /\ past' \in [Sessions -> Past]
  BY <1>1 DEF Inv
<1>3. ASSUME NEW t \in Sessions
      PROVE  SessionInv(session'[t], past'[t])
  <2>1. CASE t = s
    BY <2>1 DEF Inv
  <2>2. CASE t # s
    BY <2>2 DEF Inv
  <2>3. QED
    BY <2>1, <2>2
<1>4. QED
  BY <1>2, <1>3 DEF Inv

\* The same for a step that adds nothing to the history.
LEMMA OneSessionOnly ==
    ASSUME Inv, NEW s \in Sessions, NEW a, SessionInv(a, past[s]),
           session' = [session EXCEPT ![s] = a], past' = past, HolderInv'
    PROVE  Inv'
<1>1. past' = [past EXCEPT ![s] = past[s]]
  BY DEF Inv
<1>2. QED
  BY <1>1, OneSession

LEMMA TickStep ==
    ASSUME Inv, Tick
    PROVE  Inv'
<1>1. HolderInv'
  BY DEF Inv, Tick, HolderInv
<1>2. ASSUME NEW s \in Sessions
      PROVE  SessionInv(session'[s], past'[s])
  <2>1. SessionInv(session[s], past[s]) /\ SessionInv(Aged(session[s]), AgedPast(past[s]))
    BY AgedInv DEF Inv
  <2>2. QED
    BY <2>1 DEF Tick
<1>3. session' \in [Sessions -> Session] /\ past' \in [Sessions -> Past]
  <2>1. \A s \in Sessions : session'[s] \in Session /\ past'[s] \in Past
    BY <1>2 DEF SessionInv
  <2>2. /\ session' = [s \in Sessions |-> session'[s]]
        /\ past' = [s \in Sessions |-> past'[s]]
    BY DEF Tick
  <2>3. QED
    BY <2>1, <2>2
<1>4. QED
  BY <1>1, <1>2, <1>3 DEF Inv

LEMMA StartStep ==
    ASSUME Inv, NEW s \in Sessions, Start(s)
    PROVE  Inv'
<1>1. HolderInv'
  BY DEF Inv, Start, HolderInv
<1>2. holder.ever \in BOOLEAN /\ holder.pause \in Pause /\ holder.pause >= BackoffBase
  BY DEF Inv, HolderInv, Holder
<1>3. SessionInv(SessionObject("loop", TRUE, holder.ever, holder.pause), NewPast)
  BY <1>2, NewSessionInv
<1>4. QED
  BY <1>1, <1>3, OneSession DEF Start

LEMMA IterateStep ==
    ASSUME Inv, NEW s \in Sessions, Iterate(s)
    PROVE  Inv'
<1> DEFINE r == session[s]
           p == past[s]
           N(subOk, frame, ending) ==
             Noted(p, SubscribeDue(Watchdog(r)) /\ subOk, frame, Logout(ending), GateExpired(r))
           D(subOk, aliveOk, frame, ending) ==
             Drain(MaybeKeepalive(MaybeSubscribe(Watchdog(r), subOk), aliveOk), frame, ending)
<1>1. PICK subOk, aliveOk, frame \in BOOLEAN, ending \in Endings :
        /\ Looping(r) /\ ~r.needsReconnect
        /\ session' = [session EXCEPT ![s] = D(subOk, aliveOk, frame, ending)]
        /\ holder' = [holder EXCEPT !.ever = @ \/ frame]
        /\ past' = [past EXCEPT ![s] = N(subOk, frame, ending)]
  BY DEF Iterate
<1>2. SessionInv(r, p) /\ p \in Past
  BY DEF Inv
<1>3. Logout(ending) \in BOOLEAN
  BY DEF Logout
<1> DEFINE q == N(subOk, frame, ending)
<1>4. /\ q \in Past /\ q.sent = (IF SubscribeDue(Watchdog(r)) /\ subOk THEN 0 ELSE p.sent)
      /\ q.attempt = p.attempt /\ q.owed = (IF frame THEN 0 ELSE p.owed)
      /\ p.cause \/ Logout(ending) => q.cause
  <2>1. /\ q.sent = (IF SubscribeDue(Watchdog(r)) /\ subOk THEN 0 ELSE p.sent)
        /\ q.attempt = p.attempt /\ q.owed = (IF frame THEN 0 ELSE p.owed)
        /\ p.cause \/ Logout(ending) => q.cause
    BY DEF Noted
  <2>2. q.sent \in Age /\ q.attempt \in Age /\ q.owed \in Pause
    BY <1>2, <2>1, BaseAge, BasePause DEF Past
  <2>3. q.cause \in BOOLEAN
    BY DEF Noted
  <2>4. q.gates \in 0 .. 2
    BY <1>2 DEF Noted, Past, Smaller
  <2>5. q = [sent |-> q.sent, attempt |-> q.attempt, owed |-> q.owed, cause |-> q.cause,
             gates |-> q.gates]
    BY DEF Noted
  <2> HIDE DEF q
  <2>6. q \in Past
    BY <2>2, <2>3, <2>4, <2>5 DEF Past
  <2>7. QED
    BY <2>1, <2>6
<1>5. HolderInv'
  BY <1>1 DEF Inv, HolderInv, Holder
<1>6. SessionInv(D(subOk, aliveOk, frame, ending), q)
  <2> HIDE DEF q
  <2>1. QED
    BY <1>1, <1>2, <1>4, IterateInv DEF Logout
<1>7. QED
  BY <1>1, <1>5, <1>6, OneSession

LEMMA ScheduleStep ==
    ASSUME Inv, NEW s \in Sessions, Schedule(s)
    PROVE  Inv'
<1> DEFINE r == session[s]
           base == IF r.unseen THEN BackoffBase ELSE r.pause
           resets == IF r.unseen THEN 0 ELSE holder.resets
           a == [r EXCEPT !.waiting = TRUE, !.wait = base,
                          !.pause = Doubled(base), !.unseen = FALSE]
<1>1. SessionInv(r, past[s]) /\ r.needsReconnect /\ r.at = "loop"
  BY DEF Inv, Schedule, Looping
<1>2. SessionInv(a, past[s]) /\ Doubled(base) \in Pause /\ Doubled(base) >= BackoffBase
  BY <1>1, ScheduleInv
<1>3. /\ session' = [session EXCEPT ![s] = a] /\ past' = past
      /\ holder' = [holder EXCEPT !.pause = Doubled(base), !.resets = resets]
  BY DEF Schedule
<1>4. HolderInv'
  <2>1. resets \in 0 .. LadderTop
    BY DEF Inv, HolderInv, Holder, LadderTop
  <2> HIDE DEF base, resets
  <2>2. QED
    BY <1>2, <1>3, <2>1 DEF Inv, HolderInv, Holder
<1> HIDE DEF a, base, resets
<1>5. QED
  BY <1>2, <1>3, <1>4, OneSessionOnly

LEMMA AttemptStep ==
    ASSUME Inv, NEW s \in Sessions, Attempt(s)
    PROVE  Inv'
<1> DEFINE r == [session[s] EXCEPT !.waiting = FALSE]
           p == past[s]
           a == IF r.needsCreds /\ r.reason # "session_expired_21204"
                THEN Refreshing(r, "refresh1") ELSE Handshaking(r, "shake1")
           owed == IF p.owed = 0 THEN Doubled(BackoffBase) ELSE Doubled(p.owed)
           q == Attempted(p)
<1>1. /\ SessionInv(session[s], p) /\ session[s].needsReconnect /\ session[s].at = "loop"
      /\ session[s].waiting /\ p \in Past /\ session[s] \in Session
  BY DEF Inv, Attempt, Looping
<1>2. /\ r \in Session /\ ~r.waiting /\ r.needsReconnect /\ ~r.unseen
      /\ r.needsCreds = session[s].needsCreds /\ r.episode = session[s].episode
      /\ r.reason = session[s].reason /\ r.gateOn = session[s].gateOn
      /\ r.ever = session[s].ever /\ r.pause = session[s].pause /\ r.sub = session[s].sub
  BY <1>1 DEF Session, SessionInv, BackoffInv
<1>3. owed \in Pause /\ r.pause >= owed
  BY <1>1, <1>2, BasePause, DoubledPause DEF SessionInv, BackoffInv, Past, Pause
<1>4. q \in Past /\ q.sent = p.sent /\ q.owed = owed /\ q.cause = p.cause
  <2>1. q = [p EXCEPT !.attempt = 0, !.owed = owed]
    BY DEF Attempted
  <2> HIDE DEF owed, q
  <2>2. QED
    BY <1>1, <1>3, <2>1, BaseAge DEF Past
<1>5. session' = [session EXCEPT ![s] = a] /\ past' = [past EXCEPT ![s] = q]
  BY DEF Attempt
<1>6. HolderInv'
  BY DEF Inv, Attempt, HolderInv
<1>7. p.cause \in BOOLEAN /\ (r.needsCreds => r.ever \/ p.cause)
  BY <1>1, <1>2 DEF SessionInv, CauseInv, Past
<1> HIDE DEF r, owed, q
<1>8. CASE r.needsCreds /\ r.reason # "session_expired_21204"
  <2> DEFINE b == Refreshing(r, "refresh1")
  <2>1. a = b
    BY <1>8
  <2>2. /\ b \in Session /\ b.at = "refresh1" /\ b.force = r.needsCreds /\ ~b.needsCreds
        /\ b.needsReconnect = r.needsReconnect /\ b.waiting = r.waiting
        /\ b.unseen = r.unseen /\ b.episode = r.episode /\ b.reason = r.reason
        /\ b.gateOn = r.gateOn /\ b.ever = r.ever /\ b.pause = r.pause /\ b.sub = r.sub
    BY <1>2, RefreshingType
  <2> HIDE DEF a, b
  <2>3. /\ b.needsCreds => session[s].ever \/ q.cause
        /\ b.force => b.at \in {"refresh1", "refresh2"} /\ (session[s].ever \/ q.cause)
    BY <1>2, <1>4, <1>7, <2>2
  <2>4. /\ b \in Session /\ b.at = "refresh1" /\ b.needsReconnect /\ ~b.waiting /\ ~b.unseen
        /\ b.episode = session[s].episode /\ b.reason = session[s].reason
        /\ b.gateOn = session[s].gateOn /\ b.ever = session[s].ever
        /\ b.pause = session[s].pause /\ b.sub = session[s].sub
        /\ session[s].pause >= q.owed
    BY <1>2, <1>3, <1>4, <2>2
  <2>5. SessionInv(b, q)
    BY <1>1, <1>4, <2>3, <2>4, PlacedInv
  <2>6. QED
    BY <1>5, <1>6, <2>1, <2>5, OneSession
<1>9. CASE ~(r.needsCreds /\ r.reason # "session_expired_21204")
  <2> DEFINE b == Handshaking(r, "shake1")
  <2>1. a = b
    BY <1>9
  <2>2. /\ b \in Session /\ b.at = "shake1" /\ ~b.force /\ b.needsCreds = r.needsCreds
        /\ b.needsReconnect = r.needsReconnect /\ b.waiting = r.waiting
        /\ b.unseen = r.unseen /\ b.episode = r.episode /\ b.reason = r.reason
        /\ b.gateOn = r.gateOn /\ b.ever = r.ever /\ b.pause = r.pause /\ b.sub = r.sub
    BY <1>2, HandshakingType
  <2> HIDE DEF a, b
  <2>3. SessionInv(b, q)
    BY <1>1, <1>2, <1>3, <1>4, <1>7, <2>2, PlacedInv
  <2>4. QED
    BY <1>5, <1>6, <2>1, <2>3, OneSession
<1>10. QED
  BY <1>8, <1>9

\* What holds of a session that is being rebuilt.
LEMMA Rebuilding ==
    ASSUME NEW r, NEW p, SessionInv(r, p), r.at \in {"refresh1", "shake1", "refresh2", "shake2"}
    PROVE  /\ r \in Session /\ p \in Past /\ r.needsReconnect /\ ~r.waiting /\ ~r.unseen
           /\ r.pause >= p.owed /\ (r.needsCreds => r.ever \/ p.cause)
           /\ (r.force => r.at \in {"refresh1", "refresh2"} /\ (r.ever \/ p.cause))
  BY DEF SessionInv, EpisodeInv, CauseInv, BackoffInv

LEMMA RefreshEndsStep ==
    ASSUME Inv, NEW s \in Sessions, NEW ok \in BOOLEAN, RefreshEnds(s, ok)
    PROVE  Inv'
<1> DEFINE r == session[s]
           p == past[s]
           wanted == r.needsCreds \/ (~ok /\ ~r.closed /\ r.force)
           b == [r EXCEPT !.needsCreds = wanted]
           place == IF r.at = "refresh1" THEN "shake1" ELSE "shake2"
           a == Handshaking(b, place)
<1>1. SessionInv(r, p) /\ r.at \in {"refresh1", "refresh2"}
  BY DEF Inv, RefreshEnds
<1>2. /\ r \in Session /\ p \in Past /\ r.needsReconnect /\ ~r.waiting /\ ~r.unseen
      /\ r.pause >= p.owed /\ (r.needsCreds => r.ever \/ p.cause)
      /\ (r.force => r.at \in {"refresh1", "refresh2"} /\ (r.ever \/ p.cause))
  BY <1>1, Rebuilding
<1>3. session' = [session EXCEPT ![s] = a] /\ past' = past
  BY DEF RefreshEnds
<1>4. HolderInv'
  BY DEF Inv, RefreshEnds, HolderInv
<1>5. wanted \in BOOLEAN /\ (wanted => r.ever \/ p.cause)
  BY <1>2
<1>6. place \in {"shake1", "shake2"}
  OBVIOUS
<1> HIDE DEF wanted, place
<1>7. /\ b \in Session /\ b.needsCreds = wanted /\ b.needsReconnect = r.needsReconnect
      /\ b.waiting = r.waiting /\ b.unseen = r.unseen /\ b.episode = r.episode
      /\ b.reason = r.reason /\ b.gateOn = r.gateOn /\ b.ever = r.ever
      /\ b.pause = r.pause /\ b.sub = r.sub
  BY <1>2, <1>5 DEF Session
<1> HIDE DEF b
<1>8. /\ a \in Session /\ a.at = place /\ ~a.force /\ a.needsCreds = b.needsCreds
      /\ a.needsReconnect = b.needsReconnect /\ a.waiting = b.waiting
      /\ a.unseen = b.unseen /\ a.episode = b.episode /\ a.reason = b.reason
      /\ a.gateOn = b.gateOn /\ a.ever = b.ever /\ a.pause = b.pause /\ a.sub = b.sub
  BY <1>6, <1>7, HandshakingType
<1> HIDE DEF a
<1>9. SessionInv(a, p)
  BY <1>1, <1>2, <1>5, <1>6, <1>7, <1>8, PlacedInv
<1>10. QED
  BY <1>3, <1>4, <1>9, OneSessionOnly

LEMMA HandshakeOkStep ==
    ASSUME Inv, NEW s \in Sessions, HandshakeOk(s)
    PROVE  Inv'
<1>1. SessionInv(session[s], past[s]) /\ session[s].at \in {"shake1", "shake2"}
  BY DEF Inv, HandshakeOk
<1>2. SessionInv(Rebuilt(session[s]), [past[s] EXCEPT !.cause = FALSE])
  BY <1>1, RebuiltInv
<1>3. HolderInv'
  BY DEF Inv, HandshakeOk, HolderInv
<1>4. QED
  BY <1>2, <1>3, OneSession DEF HandshakeOk

LEMMA HandshakeRejectedStep ==
    ASSUME Inv, NEW s \in Sessions, HandshakeRejected(s)
    PROVE  Inv'
<1> DEFINE r == session[s]
           p == past[s]
           a == IF r.at = "shake1" THEN Refreshing(r, "refresh2")
                ELSE [r EXCEPT !.at = "loop", !.needsCreds = TRUE]
           q == [p EXCEPT !.cause = TRUE]
<1>1. SessionInv(r, p) /\ r.at \in {"shake1", "shake2"}
  BY DEF Inv, HandshakeRejected
<1>2. /\ r \in Session /\ p \in Past /\ r.needsReconnect /\ ~r.waiting /\ ~r.unseen
      /\ r.pause >= p.owed /\ ~r.force
  BY <1>1, Rebuilding
<1>3. session' = [session EXCEPT ![s] = a] /\ past' = [past EXCEPT ![s] = q]
  BY DEF HandshakeRejected
<1>4. HolderInv'
  BY DEF Inv, HandshakeRejected, HolderInv
<1>5. q \in Past /\ q.sent = p.sent /\ q.owed = p.owed /\ q.cause
  BY <1>2 DEF Past
<1>6. /\ a \in Session /\ a.at \in {"loop", "refresh2"} /\ (a.force => a.at = "refresh2")
      /\ a.needsReconnect = r.needsReconnect /\ a.waiting = r.waiting
      /\ a.unseen = r.unseen /\ a.episode = r.episode /\ a.reason = r.reason
      /\ a.gateOn = r.gateOn /\ a.ever = r.ever /\ a.pause = r.pause /\ a.sub = r.sub
  <2>1. CASE r.at = "shake1"
    BY <1>2, <2>1, RefreshingType
  <2>2. CASE r.at # "shake1"
    BY <1>2, <2>2 DEF Session, Places
  <2>3. QED
    BY <2>1, <2>2
<1> HIDE DEF a, q
<1>7. SessionInv(a, q)
  BY <1>1, <1>2, <1>5, <1>6, PlacedInv
<1>8. QED
  BY <1>3, <1>4, <1>7, OneSession

LEMMA HandshakeRaisesStep ==
    ASSUME Inv, NEW s \in Sessions, NEW sock \in BOOLEAN, HandshakeRaises(s, sock)
    PROVE  Inv'
<1> DEFINE r == session[s]
           p == past[s]
           a == [r EXCEPT !.at = "loop", !.sock = sock]
<1>1. SessionInv(r, p) /\ r.at \in {"shake1", "shake2"}
  BY DEF Inv, HandshakeRaises
<1>2. /\ r \in Session /\ p \in Past /\ r.needsReconnect /\ ~r.waiting /\ ~r.unseen
      /\ r.pause >= p.owed /\ (r.needsCreds => r.ever \/ p.cause) /\ ~r.force
  BY <1>1, Rebuilding
<1>3. session' = [session EXCEPT ![s] = a] /\ past' = past
  BY DEF HandshakeRaises
<1>4. HolderInv'
  BY DEF Inv, HandshakeRaises, HolderInv
<1>5. /\ a \in Session /\ a.at = "loop" /\ a.force = r.force /\ a.needsCreds = r.needsCreds
      /\ a.needsReconnect = r.needsReconnect /\ a.waiting = r.waiting
      /\ a.unseen = r.unseen /\ a.episode = r.episode /\ a.reason = r.reason
      /\ a.gateOn = r.gateOn /\ a.ever = r.ever /\ a.pause = r.pause /\ a.sub = r.sub
  BY <1>2 DEF Session, Places
<1> HIDE DEF a
<1>6. SessionInv(a, p)
  BY <1>1, <1>2, <1>5, PlacedInv
<1>7. QED
  BY <1>3, <1>4, <1>6, OneSessionOnly

LEMMA LoopEndsStep ==
    ASSUME Inv, NEW s \in Sessions, LoopEnds(s)
    PROVE  Inv'
<1> DEFINE r == session[s]
           a == [r EXCEPT !.at = "done"]
<1>1. SessionInv(r, past[s]) /\ r \in Session /\ r.at = "loop"
  BY DEF Inv, LoopEnds
<1>2. session' = [session EXCEPT ![s] = a] /\ past' = past
  BY DEF LoopEnds
<1>3. HolderInv'
  BY DEF Inv, LoopEnds, HolderInv
<1>4. /\ a \in Session /\ a.at = "done"
      /\ a.needsReconnect = r.needsReconnect /\ a.needsCreds = r.needsCreds
      /\ a.force = r.force /\ a.reason = r.reason /\ a.ever = r.ever /\ a.unseen = r.unseen
      /\ a.sub = r.sub /\ a.gateOn = r.gateOn /\ a.waiting = r.waiting /\ a.wait = r.wait
      /\ a.pause = r.pause /\ a.episode = r.episode
  BY <1>1 DEF Session, Places
<1> HIDE DEF a
<1>5. SessionInv(a, past[s])
  BY <1>1, <1>4, EndingInv
<1>6. QED
  BY <1>2, <1>3, <1>5, OneSessionOnly

LEMMA StopStep ==
    ASSUME Inv, NEW s \in Sessions, NEW frameless \in BOOLEAN, Stop(s, frameless)
    PROVE  Inv'
<1> DEFINE r == session[s]
           a == [r EXCEPT !.stop = TRUE]
           resets == IF frameless THEN Smaller(holder.resets + 1, LadderTop)
                     ELSE holder.resets
<1>1. SessionInv(r, past[s]) /\ r \in Session
  BY DEF Inv
<1>2. /\ session' = [session EXCEPT ![s] = a] /\ past' = past
      /\ holder' = [holder EXCEPT !.resets = resets]
  BY DEF Stop
<1>3. HolderInv'
  <2>1. resets \in 0 .. LadderTop
    BY DEF Inv, HolderInv, Holder, LadderTop, Smaller
  <2> HIDE DEF resets
  <2>2. QED
    BY <1>2, <2>1 DEF Inv, HolderInv, Holder
<1>4. /\ a \in Session /\ a.at = r.at
      /\ a.needsReconnect = r.needsReconnect /\ a.needsCreds = r.needsCreds
      /\ a.force = r.force /\ a.reason = r.reason /\ a.ever = r.ever /\ a.unseen = r.unseen
      /\ a.sub = r.sub /\ a.gateOn = r.gateOn /\ a.waiting = r.waiting /\ a.wait = r.wait
      /\ a.pause = r.pause /\ a.episode = r.episode
  BY <1>1 DEF Session
<1> HIDE DEF a, resets
<1>5. SessionInv(a, past[s])
  BY <1>1, <1>4, EndingInv
<1>6. QED
  BY <1>2, <1>3, <1>5, OneSessionOnly

LEMMA CloseLockedStep ==
    ASSUME Inv, NEW s \in Sessions, CloseLocked(s)
    PROVE  Inv'
<1> DEFINE r == session[s]
           a == [r EXCEPT !.closed = TRUE, !.sock = FALSE]
<1>1. SessionInv(r, past[s]) /\ r \in Session
  BY DEF Inv
<1>2. /\ session' = [session EXCEPT ![s] = a] /\ past' = past
      /\ holder' = [holder EXCEPT !.pause = r.pause, !.ever = r.ever]
  BY DEF CloseLocked
<1>3. HolderInv'
  <2>1. r.pause \in Pause /\ r.pause >= BackoffBase /\ r.ever \in BOOLEAN
    BY <1>1 DEF SessionInv, BackoffInv, Session
  <2>2. QED
    BY <1>2, <2>1 DEF Inv, HolderInv, Holder
<1>4. /\ a \in Session /\ a.at = r.at
      /\ a.needsReconnect = r.needsReconnect /\ a.needsCreds = r.needsCreds
      /\ a.force = r.force /\ a.reason = r.reason /\ a.ever = r.ever /\ a.unseen = r.unseen
      /\ a.sub = r.sub /\ a.gateOn = r.gateOn /\ a.waiting = r.waiting /\ a.wait = r.wait
      /\ a.pause = r.pause /\ a.episode = r.episode
  BY <1>1 DEF Session
<1> HIDE DEF a
<1>5. SessionInv(a, past[s])
  BY <1>1, <1>4, EndingInv
<1>6. QED
  BY <1>2, <1>3, <1>5, OneSessionOnly

-----------------------------------------------------------------------------
(* The theorems *)

LEMMA InitInv == Init => Inv
<1> SUFFICES ASSUME Init PROVE Inv
  OBVIOUS
<1>1. SessionInv(SessionObject("new", FALSE, FALSE, BackoffBase), NewPast)
  <2>1. "new" \in {"new", "loop"} /\ FALSE \in BOOLEAN
    OBVIOUS
  <2>2. BackoffBase \in Pause /\ BackoffBase >= BackoffBase
    BY BasePause, BackoffAssumption
  <2>3. QED
    BY <2>1, <2>2, NewSessionInv, Zenon
<1>2. \A s \in Sessions : SessionInv(session[s], past[s])
  BY <1>1 DEF Init
<1>3. session \in [Sessions -> Session] /\ past \in [Sessions -> Past]
  BY <1>1 DEF Init, SessionInv
<1>4. HolderInv
  BY BasePause, BackoffAssumption DEF Init, HolderInv, Holder, LadderTop
<1>5. QED
  BY <1>2, <1>3, <1>4 DEF Inv

LEMMA NextInv == Inv /\ [Next]_vars => Inv'
<1> SUFFICES ASSUME Inv, [Next]_vars PROVE Inv'
  OBVIOUS
<1>1. CASE Tick
  BY <1>1, TickStep
<1>2. ASSUME NEW s \in Sessions, Start(s) PROVE Inv'
  BY <1>2, StartStep
<1>3. ASSUME NEW s \in Sessions, Iterate(s) PROVE Inv'
  BY <1>3, IterateStep
<1>4. ASSUME NEW s \in Sessions, Schedule(s) PROVE Inv'
  BY <1>4, ScheduleStep
<1>5. ASSUME NEW s \in Sessions, Attempt(s) PROVE Inv'
  BY <1>5, AttemptStep
<1>6. ASSUME NEW s \in Sessions, NEW ok \in BOOLEAN, RefreshEnds(s, ok) PROVE Inv'
  BY <1>6, RefreshEndsStep
<1>7. ASSUME NEW s \in Sessions, HandshakeOk(s) PROVE Inv'
  BY <1>7, HandshakeOkStep
<1>8. ASSUME NEW s \in Sessions, HandshakeRejected(s) PROVE Inv'
  BY <1>8, HandshakeRejectedStep
<1>9. ASSUME NEW s \in Sessions, NEW sock \in BOOLEAN, HandshakeRaises(s, sock) PROVE Inv'
  BY <1>9, HandshakeRaisesStep
<1>10. ASSUME NEW s \in Sessions, LoopEnds(s) PROVE Inv'
  BY <1>10, LoopEndsStep
<1>11. ASSUME NEW s \in Sessions, NEW frameless \in BOOLEAN, Stop(s, frameless) PROVE Inv'
  BY <1>11, StopStep
<1>12. ASSUME NEW s \in Sessions, CloseLocked(s) PROVE Inv'
  BY <1>12, CloseLockedStep
<1>13. CASE UNCHANGED vars
  BY <1>13 DEF vars, Inv, HolderInv
<1>14. QED
  BY <1>1, <1>2, <1>3, <1>4, <1>5, <1>6, <1>7, <1>8, <1>9, <1>10, <1>11, <1>12, <1>13
  DEF Next, Thread

\* Every reachable state satisfies the inductive invariant.
THEOREM Invariance == Spec => []Inv
<1>1. Init => Inv
  BY InitInv
<1>2. Inv /\ [Next]_vars => Inv'
  BY NextInv
<1>3. QED
  BY <1>1, <1>2, PTL DEF Spec

\* The state of PersistentE2ESession and HomeStormState keeps its types.
THEOREM TypeCorrect == Spec => []TypeOK
<1>1. Inv => TypeOK
  BY DEF Inv, HolderInv, TypeOK
<1>2. QED
  BY <1>1, Invariance, PTL

\* _stream_watchdog_locked never exceeds the quota of in-place rebuilds of a
\* stall, for every quota and interval and any number of sessions.
THEOREM QuotaInvariant == Spec => []QuotaHolds
<1>1. Inv => QuotaHolds
  BY DEF Inv, SessionInv, EpisodeInv, QuotaHolds
<1>2. QED
  BY <1>1, Invariance, PTL

\* A cold-start stream is not made to rotate its credentials without a cause
\* (_stream_flag_reconnect).
THEOREM ColdStart == Spec => []ColdStartUnpunished
<1>1. Inv => ColdStartUnpunished
  BY DEF Inv, SessionInv, CauseInv, ColdStartUnpunished
<1>2. QED
  BY <1>1, Invariance, PTL

\* The wire sees a subscribe of a session only SubscribeInterval after the last
\* one: its recorded time, which spaces them, is never older than the wire's.
LEMMA SubscribeStep ==
    ASSUME Inv, [Next]_vars, NEW s \in Sessions, past[s].sent # 0, past'[s].sent = 0
    PROVE  past[s].sent >= SubscribeInterval
<1>1. SessionInv(session[s], past[s]) /\ past[s] \in Past /\ past[s].sent \in Age
  BY DEF Inv, Past
<1>2. past \in [Sessions -> Past]
  BY DEF Inv
<1>3. \/ Tick
      \/ Start(s)
      \/ Iterate(s)
      \/ past'[s].sent = past[s].sent
  <2>1. ASSUME NEW t \in Sessions, Start(t) \/ Iterate(t), t # s
        PROVE  past'[s] = past[s]
    BY <1>2, <2>1 DEF Start, Iterate
  <2>2. ASSUME NEW t \in Sessions, Attempt(t) \/ HandshakeOk(t) \/ HandshakeRejected(t)
        PROVE  past'[s].sent = past[s].sent
    <3>1. CASE t # s
      BY <1>2, <2>2, <3>1 DEF Attempt, HandshakeOk, HandshakeRejected
    <3>2. CASE t = s
      <4>1. \/ past'[s] = Attempted(past[s])
            \/ past'[s] = [past[s] EXCEPT !.cause = FALSE]
            \/ past'[s] = [past[s] EXCEPT !.cause = TRUE]
        BY <1>2, <2>2, <3>2 DEF Attempt, HandshakeOk, HandshakeRejected
      <4>2. QED
        BY <1>1, <4>1 DEF Attempted, Past
    <3>3. QED
      BY <3>1, <3>2
  <2>3. ASSUME NEW t \in Sessions,
               \/ Schedule(t) \/ \E ok \in BOOLEAN : RefreshEnds(t, ok)
               \/ \E sock \in BOOLEAN : HandshakeRaises(t, sock)
               \/ LoopEnds(t) \/ \E frameless \in BOOLEAN : Stop(t, frameless)
               \/ CloseLocked(t)
        PROVE  past' = past
    BY <2>3 DEF Schedule, RefreshEnds, HandshakeRaises, LoopEnds, Stop, CloseLocked
  <2>4. CASE UNCHANGED vars
    BY <2>4 DEF vars
  <2>5. QED
    BY <2>1, <2>2, <2>3, <2>4 DEF Next, Thread
<1>4. CASE Tick
  <2>1. past'[s] = AgedPast(past[s]) \/ past'[s] = past[s]
    BY <1>4 DEF Tick
  <2>2. past'[s].sent = Older(past[s].sent) \/ past'[s].sent = past[s].sent
    BY <1>1, <2>1 DEF AgedPast, Past
  <2>3. QED
    BY <1>1, <2>2, OlderAge DEF Age
<1>5. CASE Start(s)
  BY <1>2, <1>5, HorizonAssumption DEF Start, NewPast
<1>6. CASE Iterate(s)
  <2>1. Looping(session[s]) /\ ~session[s].needsReconnect
    BY <1>6 DEF Iterate
  <2>2. SubscribeDue(Watchdog(session[s]))
    BY <1>2, <1>6 DEF Iterate, Noted
  <2>3. Iterating(session[s], past[s].cause) /\ past[s].cause \in BOOLEAN
    BY <1>1, <2>1 DEF SessionInv, Past, EpisodeInv, CauseInv, BackoffInv, Looping, Iterating
  <2>4. Watchdog(session[s]).sub = session[s].sub /\ session[s].sub \in Age
    BY <2>3, WatchdogIterates DEF Iterating, Session
  <2>5. QED
    BY <1>1, <2>2, <2>4, HorizonAssumption DEF SubscribeDue, SessionInv, Age
<1>7. QED
  BY <1>3, <1>4, <1>5, <1>6

\* Subscribes keep RESUBSCRIBE_INTERVAL on the wire, whatever rebuilds happen in
\* between (_stream_maybe_subscribe_locked, _stream_reconnect_locked).
THEOREM SubscribeSpacing == Spec => SubscribeSpaced
<1>1. Inv /\ [Next]_vars
        => [\A s \in Sessions :
              past[s].sent # 0 /\ past'[s].sent = 0 => past[s].sent >= SubscribeInterval]_vars
  BY SubscribeStep
<1>2. QED
  BY <1>1, Invariance, PTL DEF Spec, SubscribeSpaced

\* A session stops waiting for its backoff only when the pause it owes is over.
LEMMA BackoffStep ==
    ASSUME Inv, [Next]_vars, NEW s \in Sessions,
           session[s].waiting, ~session'[s].waiting, session'[s].at # "loop"
    PROVE  past[s].attempt >= past[s].owed
<1>1. /\ SessionInv(session[s], past[s]) /\ session[s] \in Session /\ past[s] \in Past
      /\ session \in [Sessions -> Session]
  BY DEF Inv
<1>2. /\ session[s].needsReconnect
      /\ session[s].at \notin {"refresh1", "shake1", "refresh2", "shake2"}
  BY <1>1 DEF SessionInv, BackoffInv
<1>3. Attempt(s)
  <2>1. ASSUME NEW t \in Sessions, Thread(t) \/ CloseLocked(t) \/ Start(t)
                 \/ (\E frameless \in BOOLEAN : Stop(t, frameless)), t # s
        PROVE  FALSE
    <3>1. session'[s] = session[s]
      BY <1>1, <2>1 DEF Thread, Start, Iterate, Schedule, Attempt, RefreshEnds, HandshakeOk,
           HandshakeRejected, HandshakeRaises, LoopEnds, Stop, CloseLocked
    <3>2. QED
      BY <3>1
  <2>2. ~Tick
    <3>1. SUFFICES ASSUME Tick PROVE FALSE
      OBVIOUS
    <3>2. session'[s] = Aged(session[s]) \/ session'[s] = session[s]
      BY <3>1 DEF Tick
    <3>3. session'[s].waiting = session[s].waiting
      BY <1>1, <3>2 DEF Aged, Session
    <3>4. QED
      BY <3>3
  <2>3. ~Start(s)
    BY <1>1 DEF Start, SessionObject
  <2>4. ~Iterate(s)
    BY <1>2 DEF Iterate
  <2>5. ~Schedule(s)
    BY DEF Schedule
  <2>6. /\ \A ok \in BOOLEAN : ~RefreshEnds(s, ok)
        /\ \A sock \in BOOLEAN : ~HandshakeRaises(s, sock)
        /\ ~HandshakeOk(s) /\ ~HandshakeRejected(s)
    BY <1>2 DEF RefreshEnds, HandshakeRaises, HandshakeOk, HandshakeRejected
  <2>7. ~LoopEnds(s) /\ ~CloseLocked(s) /\ \A frameless \in BOOLEAN : ~Stop(s, frameless)
    BY <1>1 DEF LoopEnds, CloseLocked, Stop, Session
  <2>8. ~UNCHANGED vars
    BY DEF vars
  <2>9. QED
    BY <2>1, <2>2, <2>3, <2>4, <2>5, <2>6, <2>7, <2>8 DEF Next, Thread
<1>4. session[s].wait = 0
  BY <1>1, <1>3 DEF Attempt, Session
<1>5. QED
  BY <1>1, <1>4, HorizonAssumption DEF SessionInv, BackoffInv, Past, Age, Pause

\* The backoff of rebuilds without a frame in between grows up to its ceiling and
\* is kept, however the handshakes end (_stream_reconnect_locked).
THEOREM BackoffSpacing == Spec => BackoffHolds
<1>1. Inv /\ [Next]_vars
        => [\A s \in Sessions :
              session[s].waiting /\ ~session'[s].waiting /\ session'[s].at # "loop"
                => past[s].attempt >= past[s].owed]_vars
  BY BackoffStep
<1>2. QED
  BY <1>1, Invariance, PTL DEF Spec, BackoffHolds

=============================================================================
