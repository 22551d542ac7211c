---------------------------- MODULE StreamSession ----------------------------
(***************************************************************************)
(* The stream receiver of PersistentE2ESession (emaldo_lib/e2e.py): one    *)
(* thread per session that subscribes, drains pushed frames, watches for   *)
(* stalls and rebuilds the session in place, and the per-home storm holder *)
(* (storm_state.py) the sessions of a home share.                          *)
(*                                                                         *)
(* Everything the thread does it does under the session lock, one loop     *)
(* iteration at a time, except the call of the credentials provider, for   *)
(* which it gives the lock back.  A timestamp is represented by its age,   *)
(* saturated at Horizon; a timestamp that is None is as old as Horizon.    *)
(* reconnect_streak is represented by the pause it stands for,             *)
(* min(2.0 * 2 ** streak, 30): nothing else is read from it.               *)
(***************************************************************************)
EXTENDS Integers

CONSTANTS
    Sessions,           \* the session objects of one home
    SubscribeInterval,  \* RESUBSCRIBE_INTERVAL, 12 s
    SubscribeGap,       \* STREAM_MIN_RESUBSCRIBE_GAP, 11 s
    LongStall,          \* STREAM_LONG_STALL_RECONNECT, 45 s
    GateWindow,         \* _stream_decrypt_gate_window, 30 s
    BackoffBase,        \* RECONNECT_BACKOFF_SECONDS, 2 s
    BackoffMax,         \* _stream_reconnect_backoff_max, 30 s
    Quota,              \* STREAM_STALL_EPISODE_MAX_RECONNECTS, 3
    Horizon             \* bound on the modelled ages

ASSUME QuotaAssumption == Quota \in Nat \ {0}
ASSUME BackoffAssumption ==
    /\ BackoffBase \in Nat \ {0} /\ BackoffMax \in Nat
    /\ BackoffBase <= BackoffMax
ASSUME HorizonAssumption ==
    /\ SubscribeInterval \in Nat /\ SubscribeGap \in Nat
    /\ LongStall \in Nat /\ GateWindow \in Nat /\ Horizon \in Nat
    /\ Horizon > SubscribeInterval /\ Horizon > SubscribeGap
    /\ Horizon > LongStall /\ Horizon > GateWindow
    /\ Horizon >= BackoffMax

VARIABLES
    session,  \* the state of each session object
    holder,   \* the home's HomeStormState
    past      \* history: what the wire has seen of each session

vars == <<session, holder, past>>

-----------------------------------------------------------------------------
(* Types *)

Age == 0 .. Horizon

Pause == 0 .. BackoffMax

Reasons == {"none", "session_expired_21204", "long_stall", "decrypt_gate_no_frame",
            "force_logout", "error"}

\* How the drain of one iteration ends.
Endings == {"quiet", "session_expired_21204", "force_logout", "error"}

\* Where the thread is; it holds the lock in "shake1" and "shake2" and has given
\* it back for the provider in "refresh1" and "refresh2".
Places == {"new", "loop", "refresh1", "shake1", "refresh2", "shake2", "done"}

Session == [
    at : Places,
    stop : BOOLEAN,            \* _stream_stop
    closed : BOOLEAN,          \* _closed
    sock : BOOLEAN,            \* _sock is open
    needsReconnect : BOOLEAN,  \* _stream_needs_reconnect
    needsCreds : BOOLEAN,      \* _stream_needs_creds_refresh
    force : BOOLEAN,           \* needs_force, the local of _refresh_creds_locked
    reason : Reasons,          \* _stream_last_reconnect_reason
    ever : BOOLEAN,            \* _stream_ever_decrypted
    hasFrame : BOOLEAN,        \* a frame is cached
    unseen : BOOLEAN,          \* frames received # the backoff anchor
    sub : Age,                 \* _last_subscribe_monotonic
    ref : Age,                 \* the newest frame, else _stream_started_monotonic
    rebuild : Age,             \* _stream_last_rebuild_monotonic
    gateOn : BOOLEAN,          \* a decrypt-gate deadline is set ...
    gate : Age,                \* ... and how long ago
    waiting : BOOLEAN,         \* _stream_reconnect_not_before is set ...
    wait : Pause,              \* ... and how far away it is
    pause : Pause,             \* what _stream_reconnect_streak stands for
    episode : Nat]             \* _stream_stall_episode_reconnects

\* The frameless resets that move STALL_RESET_LADDER (three rungs).
LadderTop == 2

Holder == [pause : Pause, ever : BOOLEAN, resets : 0 .. LadderTop]

\* History of a session: the age of the last subscribe on the wire, the age of
\* the last rebuild attempt, the pause owed before the next one, and whether the
\* relay or a handshake has given cause for new credentials since the last
\* rebuild; gates counts the gates that expired since the last frame.
Past == [sent : Age, attempt : Age, owed : Pause, cause : BOOLEAN, gates : 0 .. 2]

TypeOK ==
    /\ session \in [Sessions -> Session]
    /\ holder \in Holder
    /\ past \in [Sessions -> Past]

-----------------------------------------------------------------------------
(* Helpers *)

Smaller(a, b) == IF a <= b THEN a ELSE b

Older(age) == Smaller(age + 1, Horizon)

\* The pause of the next streak.
Doubled(p) == Smaller(2 * p, BackoffMax)

LockFree(r) == r.at \in {"loop", "refresh1", "refresh2", "done"}

\* The thread is about to run an iteration of _stream_loop.
Looping(r) == r.at = "loop" /\ ~r.stop /\ ~r.closed /\ r.sock

\* A session object; a started one takes the escalation over from the holder.
SessionObject(place, open, ever, pause) == [
    at |-> place, stop |-> FALSE, closed |-> FALSE, sock |-> open,
    needsReconnect |-> FALSE, needsCreds |-> FALSE, force |-> FALSE, reason |-> "none",
    ever |-> ever, hasFrame |-> FALSE, unseen |-> FALSE, sub |-> Horizon, ref |-> 0,
    rebuild |-> Horizon, gateOn |-> FALSE, gate |-> 0, waiting |-> FALSE, wait |-> 0,
    pause |-> pause, episode |-> 0]

NewPast == [sent |-> Horizon, attempt |-> Horizon, owed |-> 0, cause |-> FALSE, gates |-> 0]

-----------------------------------------------------------------------------
(* The methods of one loop iteration, as functions of the session *)

\* Mutant: a stall of a session that never decrypted rotates credentials too.
FlagColdStart(r, why) ==
    [r EXCEPT !.reason = why, !.needsReconnect = TRUE,
              !.needsCreds = @ \/ why \in {"session_expired_21204", "long_stall"}]

\* _stream_flag_reconnect
Flag(r, why) ==
    [r EXCEPT !.reason = why, !.needsReconnect = TRUE,
              !.needsCreds = @ \/ why = "session_expired_21204"
                               \/ (why = "long_stall" /\ r.ever)]

GateExpired(r) == r.gateOn /\ r.gate > GateWindow

\* Mutant: the quota of in-place rebuilds is off by one.
StallDueOnceMore(r) == r.rebuild >= LongStall /\ r.ref > LongStall /\ r.episode <= Quota

\* No grace left after the last rebuild, the frames are late, quota not used up.
StallDue(r) == r.rebuild >= LongStall /\ r.ref > LongStall /\ r.episode < Quota

\* _stream_watchdog_locked
Watchdog(r) ==
    IF GateExpired(r)
    THEN [Flag(r, "decrypt_gate_no_frame") EXCEPT !.gateOn = FALSE, !.gate = 0,
                                                  !.needsCreds = TRUE]
    ELSE IF StallDue(r) THEN Flag(r, "long_stall") ELSE r

SubscribeDue(r) == r.sub >= SubscribeGap /\ r.sub >= SubscribeInterval

\* _stream_maybe_subscribe_locked
MaybeSubscribe(r, sendOk) ==
    IF ~SubscribeDue(r) THEN r
    ELSE IF sendOk THEN [r EXCEPT !.sub = 0] ELSE Flag(r, "error")

\* _stream_maybe_keepalive_locked: the packets of the keepalive cadence only
\* matter when one of them cannot be sent.
MaybeKeepalive(r, sendOk) == IF sendOk THEN r ELSE Flag(r, "error")

\* A power-flow frame was decrypted.
Decrypted(r) == [r EXCEPT !.hasFrame = TRUE, !.ref = 0, !.unseen = TRUE, !.episode = 0,
                          !.ever = TRUE, !.gateOn = FALSE, !.gate = 0]

\* _stream_drain_locked: frames, then the datagram that ends the drain.
Drain(r, frame, ending) ==
    LET read == IF frame THEN Decrypted(r) ELSE r IN
    CASE ending = "quiet"        -> read
      [] ending = "force_logout" -> [Flag(read, ending) EXCEPT !.needsCreds = TRUE]
      [] OTHER                   -> Flag(read, ending)

\* Mutant: a handshake answered "ok" clears the time of the last subscribe.
RebuiltResubscribes(r) ==
    [r EXCEPT !.at = "loop", !.needsCreds = FALSE, !.needsReconnect = FALSE,
              !.sub = Horizon, !.ref = IF r.hasFrame THEN @ ELSE 0,
              !.rebuild = 0, !.episode = IF r.reason = "long_stall" THEN @ + 1 ELSE @,
              !.unseen = FALSE, !.gateOn = r.ever, !.gate = 0]

\* Mutant: a rebuild does not arm the decrypt gate.
RebuiltUngated(r) ==
    [r EXCEPT !.at = "loop", !.needsCreds = FALSE, !.needsReconnect = FALSE,
              !.sub = IF @ > SubscribeInterval THEN 0 ELSE @,
              !.ref = IF r.hasFrame THEN @ ELSE 0,
              !.rebuild = 0, !.episode = IF r.reason = "long_stall" THEN @ + 1 ELSE @,
              !.unseen = FALSE, !.gateOn = FALSE, !.gate = 0]

\* The success branch of _stream_reconnect_locked.
Rebuilt(r) ==
    [r EXCEPT !.at = "loop", !.needsCreds = FALSE, !.needsReconnect = FALSE,
              !.sub = IF @ > SubscribeInterval THEN 0 ELSE @,
              !.ref = IF r.hasFrame THEN @ ELSE 0,
              !.rebuild = 0, !.episode = IF r.reason = "long_stall" THEN @ + 1 ELSE @,
              !.unseen = FALSE, !.gateOn = r.ever, !.gate = 0]

\* The entry of _refresh_creds_locked, which then gives the lock back.
Refreshing(r, place) ==
    [r EXCEPT !.at = place, !.force = r.needsCreds, !.needsCreds = FALSE]

\* The entry of _reconnect: a new socket, then the handshake.
Handshaking(r, place) == [r EXCEPT !.at = place, !.sock = TRUE, !.force = FALSE]

\* The relay gave cause for new credentials.
Logout(ending) == ending \in {"session_expired_21204", "force_logout"}

\* What an iteration adds to the history.
Noted(p, subscribed, frame, logout, expired) ==
    [sent |-> IF subscribed THEN 0 ELSE p.sent,
     attempt |-> p.attempt,
     owed |-> IF frame THEN 0 ELSE p.owed,
     cause |-> p.cause \/ logout,
     gates |-> IF frame THEN 0 ELSE IF expired THEN Smaller(p.gates + 1, 2) ELSE p.gates]

\* What a rebuild attempt adds to it: the next one is owed twice the pause.
Attempted(p) ==
    [p EXCEPT !.attempt = 0, !.owed = IF @ = 0 THEN Doubled(BackoffBase) ELSE Doubled(@)]

-----------------------------------------------------------------------------
(* The thread *)

Init ==
    /\ session = [s \in Sessions |-> SessionObject("new", FALSE, FALSE, BackoffBase)]
    /\ holder = [pause |-> BackoffBase, ever |-> FALSE, resets |-> 0]
    /\ past = [s \in Sessions |-> NewPast]

\* A running session grows older, and the backoff it waits for runs down.
Aged(r) ==
    [r EXCEPT !.sub = Older(@), !.ref = Older(@), !.rebuild = Older(@),
              !.gate = IF r.gateOn THEN Older(@) ELSE @,
              !.wait = IF @ > 0 THEN @ - 1 ELSE 0]

AgedPast(p) == [p EXCEPT !.sent = Older(@), !.attempt = Older(@)]

\* Time passes for every running session.
Tick ==
    LET Running(s) == session[s].at \notin {"new", "done"} IN
    /\ session' = [s \in Sessions |-> IF Running(s) THEN Aged(session[s]) ELSE session[s]]
    /\ past' = [s \in Sessions |-> IF Running(s) THEN AgedPast(past[s]) ELSE past[s]]
    /\ UNCHANGED holder

\* The coordinator connects a new session object and starts its stream, which
\* takes the escalation over from the holder.  A closed object whose thread has
\* ended stands for the next new one.
Start(s) ==
    /\ session[s].at = "new" \/ (session[s].at = "done" /\ session[s].closed)
    /\ session' = [session EXCEPT ![s] = SessionObject("loop", TRUE, holder.ever, holder.pause)]
    /\ past' = [past EXCEPT ![s] = NewPast]
    /\ UNCHANGED holder

\* One iteration without a pending reconnect.
Iterate(s) ==
    \E subOk, aliveOk, frame \in BOOLEAN, ending \in Endings :
      LET r == session[s]
          watched == Watchdog(r)
          kept == MaybeKeepalive(MaybeSubscribe(watched, subOk), aliveOk)
      IN
      /\ Looping(r) /\ ~r.needsReconnect
      /\ session' = [session EXCEPT ![s] = Drain(kept, frame, ending)]
      /\ holder' = [holder EXCEPT !.ever = @ \/ frame]
      /\ past' = [past EXCEPT ![s] =
           Noted(@, SubscribeDue(watched) /\ subOk, frame, Logout(ending), GateExpired(r))]

\* Mutant: the deadline is set anew by every iteration.
ScheduleAgain(s) ==
    LET r == session[s]
        base == IF r.unseen THEN BackoffBase ELSE r.pause
    IN
    /\ Looping(r) /\ r.needsReconnect
    /\ session' = [session EXCEPT ![s] = [r EXCEPT !.waiting = TRUE, !.wait = base,
                                                   !.pause = Doubled(base), !.unseen = FALSE]]
    /\ holder' = [holder EXCEPT !.pause = Doubled(base),
                                !.resets = IF r.unseen THEN 0 ELSE @]
    /\ UNCHANGED past

\* The first iteration with the flag set: put the rebuild off.
Schedule(s) ==
    LET r == session[s]
        base == IF r.unseen THEN BackoffBase ELSE r.pause
    IN
    /\ Looping(r) /\ r.needsReconnect /\ ~r.waiting
    /\ session' = [session EXCEPT ![s] = [r EXCEPT !.waiting = TRUE, !.wait = base,
                                                   !.pause = Doubled(base), !.unseen = FALSE]]
    /\ holder' = [holder EXCEPT !.pause = Doubled(base),
                                !.resets = IF r.unseen THEN 0 ELSE @]
    /\ UNCHANGED past

\* The deadline has passed: new credentials first, unless the reason is a plain
\* 21204, then a new socket and a handshake.
Attempt(s) ==
    LET r == [session[s] EXCEPT !.waiting = FALSE] IN
    /\ Looping(r) /\ r.needsReconnect
    /\ session[s].waiting /\ r.wait = 0
    /\ session' = [session EXCEPT ![s] =
         IF r.needsCreds /\ r.reason # "session_expired_21204"
         THEN Refreshing(r, "refresh1") ELSE Handshaking(r, "shake1")]
    /\ past' = [past EXCEPT ![s] = Attempted(@)]
    /\ UNCHANGED holder

\* The provider has answered or failed; the lock is taken again.  A session that
\* was closed meanwhile keeps its credentials and goes on like the others.
RefreshEnds(s, ok) ==
    LET r == session[s] IN
    /\ r.at \in {"refresh1", "refresh2"}
    /\ session' = [session EXCEPT ![s] =
         Handshaking([r EXCEPT !.needsCreds = @ \/ (~ok /\ ~r.closed /\ r.force)],
                     IF r.at = "refresh1" THEN "shake1" ELSE "shake2")]
    /\ UNCHANGED <<holder, past>>

\* Mutant: an answered handshake counts as recovery and ends the escalation.
HandshakeOkResets(s) ==
    /\ session[s].at \in {"shake1", "shake2"}
    /\ session' = [session EXCEPT ![s] = [Rebuilt(@) EXCEPT !.pause = BackoffBase]]
    /\ past' = [past EXCEPT ![s].cause = FALSE]
    /\ UNCHANGED holder

HandshakeOk(s) ==
    /\ session[s].at \in {"shake1", "shake2"}
    /\ session' = [session EXCEPT ![s] = Rebuilt(@)]
    /\ past' = [past EXCEPT ![s].cause = FALSE]
    /\ UNCHANGED holder

\* No answer, or a 21204: with fresh credentials once more, then give up until
\* the next backoff.
HandshakeRejected(s) ==
    LET r == session[s] IN
    /\ r.at \in {"shake1", "shake2"}
    /\ session' = [session EXCEPT ![s] =
         IF r.at = "shake1" THEN Refreshing(r, "refresh2")
                            ELSE [r EXCEPT !.at = "loop", !.needsCreds = TRUE]]
    /\ past' = [past EXCEPT ![s].cause = TRUE]
    /\ UNCHANGED holder

\* _reconnect raises, from sendto or (no socket then) from socket.socket.
HandshakeRaises(s, sock) ==
    LET r == session[s] IN
    /\ r.at \in {"shake1", "shake2"}
    /\ session' = [session EXCEPT ![s] = [r EXCEPT !.at = "loop", !.sock = sock]]
    /\ UNCHANGED <<holder, past>>

\* The thread finds itself stopped, closed or without a socket.
LoopEnds(s) ==
    LET r == session[s] IN
    /\ r.at = "loop" /\ ~Looping(r)
    /\ session' = [session EXCEPT ![s].at = "done"]
    /\ UNCHANGED <<holder, past>>

-----------------------------------------------------------------------------
(* close(), called by the coordinator, by a shutdown or by a stall reset *)

Stop(s, frameless) ==
    /\ session[s].at # "new" /\ ~session[s].stop
    /\ session' = [session EXCEPT ![s].stop = TRUE]
    /\ holder' = [holder EXCEPT !.resets = IF frameless THEN Smaller(@ + 1, LadderTop) ELSE @]
    /\ UNCHANGED past

CloseLocked(s) ==
    LET r == session[s] IN
    /\ r.stop /\ ~r.closed /\ LockFree(r)
    /\ session' = [session EXCEPT ![s] = [r EXCEPT !.closed = TRUE, !.sock = FALSE]]
    /\ holder' = [holder EXCEPT !.pause = r.pause, !.ever = r.ever]
    /\ UNCHANGED past

-----------------------------------------------------------------------------

Thread(s) ==
    \/ Iterate(s) \/ Schedule(s) \/ Attempt(s)
    \/ \E ok \in BOOLEAN : RefreshEnds(s, ok)
    \/ HandshakeOk(s) \/ HandshakeRejected(s)
    \/ \E sock \in BOOLEAN : HandshakeRaises(s, sock)
    \/ LoopEnds(s)

Next ==
    \/ Tick
    \/ \E s \in Sessions :
         \/ Start(s)
         \/ Thread(s)
         \/ \E frameless \in BOOLEAN : Stop(s, frameless)
         \/ CloseLocked(s)

Spec == Init /\ [][Next]_vars

\* The thread is scheduled, the provider and the handshake end (they have
\* timeouts) and time passes.
FairSpec == Spec /\ WF_vars(Tick) /\ \A s \in Sessions : WF_vars(Thread(s))

-----------------------------------------------------------------------------
(* Properties *)

\* In-place rebuilds of one stall stop at the quota (_stream_watchdog_locked,
\* "stop hammering the relay"), whatever flags, fails or rebuilds in between.
QuotaHolds == \A s \in Sessions : session[s].episode <= Quota

\* A stream that has not decrypted a frame yet, in its home's memory, asks for
\* a forced rotation only after the relay or a handshake gave cause for it since
\* the last rebuild: an idle relay is not punished (_stream_flag_reconnect).
ColdStartUnpunished ==
    \A s \in Sessions :
        session[s].at \in {"refresh1", "refresh2"} /\ session[s].force
            => session[s].ever \/ past[s].cause

\* Two subscribes of a session are never closer on the wire than the interval,
\* across every rebuild in between: the relay answers a tighter spacing with
\* 21204 (_stream_maybe_subscribe_locked).
SubscribeSpaced ==
    [][\A s \in Sessions :
         past[s].sent # 0 /\ past'[s].sent = 0 => past[s].sent >= SubscribeInterval]_vars

\* As long as no frame arrives, each rebuild attempt keeps at least twice the
\* distance of the one before, up to the ceiling, however the handshakes end
\* (CHANGES.md, "21204 reconnect-storm backoff escalation").
BackoffHolds ==
    [][\A s \in Sessions :
         session[s].waiting /\ ~session'[s].waiting /\ session'[s].at # "loop"
             => past[s].attempt >= past[s].owed]_vars

\* A pending reconnect is attempted, unless the stream ends first.
PendingReconnectRuns ==
    \A s \in Sessions :
        session[s].at = "loop" /\ session[s].needsReconnect ~> session[s].at # "loop"

\* The silence of a stream that has decrypted before never goes unnoticed: a
\* frame, a rebuild or the end of the stream follows (the 6 h wedge of #53).
SilenceIsActedOn ==
    \A s \in Sessions :
        session[s].at = "loop" /\ session[s].ever
            ~> session[s].at # "loop" \/ session[s].ref = 0

\* Documented, and contradicted by the code (README, Findings):
\* close(): "Close the socket and mark the session closed".
ClosedHasNoSocket == \A s \in Sessions : session[s].closed => ~session[s].sock

\* Documented, and contradicted by the code (README, Findings):
\* HomeStormState keeps its memory across session teardowns: a home that has
\* decrypted a frame stays one that has.
EverDecryptedSurvives == [][holder.ever => holder'.ever]_vars

\* Documented, and contradicted by the code (README, Findings):
\* "restored to base by the first decrypted frame" (storm_state.py).
FrameRestoresLadder ==
    [][\A s \in Sessions : session'[s].unseen /\ ~session[s].unseen
         => holder'.resets = 0]_vars

\* Documented, and contradicted by the code (README, Findings):
\* "The streak resets when a frame arrives OR when a handshake succeeds".
SuccessResetsStreak ==
    [][\A s \in Sessions :
         session[s].at \in {"shake1", "shake2"} /\ ~session'[s].needsReconnect
             => session'[s].pause = BackoffBase]_vars

\* Documented, and contradicted by the code (README, Findings):
\* "This fires at most once per reconnect episode ... so it cannot spam
\* force-refresh": no second gate before a frame.
GateFiresOnce == \A s \in Sessions : past[s].gates <= 1

=============================================================================
