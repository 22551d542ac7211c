---------------------------- MODULE RealtimePoll ----------------------------
(***************************************************************************)
(* The update loop of EmaldoRealtimeCoordinator (coordinator.py): one read *)
(* of the device per poll, what the coordinator does about silence, errors *)
(* and undecryptable answers, and the keepalive loop beside it.            *)
(*                                                                         *)
(* The loop counts failures in several counters which different branches   *)
(* raise, clear and compare: empty reads and read errors (the failure is   *)
(* reported), reconnects and undecryptable answers (the REST client is     *)
(* reset), full resets (the persistent session is given up for good).      *)
(* What a read returns is up to the environment.  Time is counted in       *)
(* polls.                                                                  *)
(***************************************************************************)
EXTENDS Integers, Sequences

CONSTANTS
    MaxEmpty,          \* _MAX_EMPTY_READS, 3
    Ladder,            \* STALL_RESET_LADDER in polls: 120, 300, 900 s of 5 s polls
    LegacyResets,      \* _LEGACY_FALLBACK_RESETS, 3
    MaxDeferrals,      \* _MAX_EMPTY_RECONNECT_DEFERRALS, 3
    PollResets,        \* _POLL_STALL_RESET_RECONNECTS, 3
    Undecryptable,     \* _UNDECRYPTABLE_RESET_STREAK, 6
    MaxHistory         \* where the history counters saturate

ASSUME CountAssumption ==
    /\ {MaxEmpty, LegacyResets, MaxDeferrals, PollResets, Undecryptable} \subseteq Nat \ {0}
    /\ MaxHistory \in Nat
ASSUME LadderAssumption ==
    /\ Ladder \in Seq(MaxEmpty + 1 .. MaxHistory) /\ Ladder # <<>>
    /\ MaxEmpty * MaxEmpty < MaxHistory

VARIABLES
    primary,    \* _is_primary
    stream,     \* _stream_mode, an option of the entry
    at,         \* "idle", or "probe" while the final probe is awaited
    session,    \* "none" or "open": _session and the registered device session
    c,          \* the counters and latches of the coordinator
    rung,       \* resets_without_frame of the home's storm holder, saturated
    keepalive,  \* the keepalive loop of poll mode
    report,     \* how the last update ended: "data", "kept" or "failed"
    past        \* history, see NewPast

vars == <<primary, stream, at, session, c, rung, keepalive, report, past>>

modes == <<primary, stream>>

-----------------------------------------------------------------------------
(* Types *)

Rungs == 0 .. Len(Ladder) - 1

Counters == [
    empty      : 0 .. MaxHistory,        \* _empty_reads, saturated
    errors     : 0 .. MaxEmpty,          \* _consecutive_read_errors, saturated
    reconnects : 0 .. PollResets - 1,    \* _consecutive_reconnects, modulo PollResets
    deferrals  : 0 .. MaxDeferrals,      \* _empty_reconnect_deferral_streak
    garbled    : 0 .. Undecryptable,     \* _undecryptable_streak, saturated
    unparsed   : BOOLEAN,                \* what stats_powerflow_last_diag says
    resets     : 0 .. LegacyResets,      \* _stall_resets_without_success
    legacy     : BOOLEAN,                \* _legacy_fallback_active
    fresh      : BOOLEAN,                \* _needs_fresh_creds
    seeded     : BOOLEAN,                \* _storm_state is not None
    first      : BOOLEAN]                \* _successful_first_refresh; data is not None

Keepalive == [running : BOOLEAN, fails : 0 .. 1, recent : BOOLEAN]

TypeOK ==
    /\ primary \in BOOLEAN /\ stream \in BOOLEAN
    /\ at \in {"idle", "probe"}
    /\ session \in {"none", "open"}
    /\ c \in Counters
    /\ rung \in Rungs
    /\ keepalive \in Keepalive
    /\ report \in {"data", "kept", "failed"}
    /\ past \in [since : 0 .. MaxHistory, quiet : 0 .. MaxHistory,
                 full : 0 .. LegacyResets, last : {"data", "invalid", "other"}]

-----------------------------------------------------------------------------
(* Helpers *)

Capped(n, top) == IF n < top THEN n + 1 ELSE top

NoCounts == [empty |-> 0, errors |-> 0, reconnects |-> 0, deferrals |-> 0, garbled |-> 0,
             unparsed |-> FALSE, resets |-> 0, legacy |-> FALSE, fresh |-> FALSE,
             seeded |-> FALSE, first |-> FALSE]

\* Polls since the last full reset, polls in a row that ended "kept" before the
\* first data, full resets since the last data, what the last read returned.
NewPast == [since |-> 0, quiet |-> 0, full |-> 0, last |-> "other"]

\* Mutant: a failing session is reported only through the empty reads.
KeepLastEmptyOnly(k) == IF ~k.first /\ k.empty >= MaxEmpty THEN "failed" ELSE "kept"

\* _keep_last_or_fail
KeepLast(k) ==
    IF ~k.first /\ (k.empty >= MaxEmpty \/ k.errors >= MaxEmpty) THEN "failed" ELSE "kept"

\* _ensure_session as part of a read: a session that has to be made asks for
\* credentials (forced ones if they are needed) and, in stream mode, seeds the
\* storm holder.
Ensured(k) ==
    IF k.legacy \/ session = "open" THEN k
    ELSE [k EXCEPT !.fresh = FALSE, !.seeded = @ \/ stream]

\* The session after a read that found it usable; it may die in the read.
AfterRead(dies) == IF c.legacy THEN session ELSE IF dies THEN "none" ELSE "open"

\* The secondary of a home does not read in the legacy way (_read_power_flow).
CanAnswer == ~c.legacy \/ primary

\* _stall_reset_polls
StallPolls(k) == Ladder[IF k.seeded THEN rung + 1 ELSE 1]

\* _register_stall_reset_and_maybe_fallback
FullReset(k) ==
    IF k.legacy THEN k
    ELSE [k EXCEPT !.resets = @ + 1,
                   !.legacy = k.resets + 1 >= LegacyResets]

\* note_frameless_reset, with a holder
NextRung(k) == IF k.seeded THEN Capped(rung, Len(Ladder) - 1) ELSE rung

\* stall_reset_needs_fresh_creds is left open: the receiver's diagnostics may
\* or may not carry the signature of rejected secrets.
Judged(k, signature) == [k EXCEPT !.fresh = @ \/ signature]

\* The classification of an empty read of poll mode.
Classified(k) ==
    [k EXCEPT !.garbled = IF k.unparsed THEN Capped(@, Undecryptable) ELSE 0]

\* Mutant: a usable reading does not clear the count of full resets.
SucceededKeepsResets(k) ==
    [k EXCEPT !.empty = 0, !.errors = 0, !.reconnects = 0, !.deferrals = 0, !.garbled = 0,
              !.first = TRUE]

\* The counters after a usable reading.
Succeeded(k) ==
    [k EXCEPT !.empty = 0, !.errors = 0, !.reconnects = 0, !.deferrals = 0, !.garbled = 0,
              !.resets = 0, !.first = TRUE]

\* History: one poll with this end, after a full reset or not.
Noted(what, full, rep, first) ==
    [since |-> IF full THEN 0 ELSE Capped(past.since, MaxHistory),
     quiet |-> IF first \/ rep = "failed" \/ what = "auth" THEN 0
               ELSE Capped(past.quiet, MaxHistory),
     full |-> IF rep = "data" THEN 0 ELSE IF full THEN Capped(past.full, LegacyResets)
              ELSE past.full,
     last |-> IF what \in {"data", "invalid"} THEN what ELSE "other"]

\* The update ends: new counters, and its report.
End(what, full, k, rep) ==
    /\ at' = "idle"
    /\ c' = k
    /\ report' = rep
    /\ past' = Noted(what, full, rep, k.first)

-----------------------------------------------------------------------------
(* Init and the environment *)

Init ==
    /\ primary \in BOOLEAN /\ stream \in BOOLEAN
    /\ at = "idle"
    /\ session = "none"
    /\ c = NoCounts
    /\ rung \in IF stream THEN Rungs ELSE {0}
    /\ keepalive = [running |-> FALSE, fails |-> 0, recent |-> FALSE]
    /\ report = "kept"
    /\ past = NewPast

\* The sessions of the home share the holder: a reconnect scheduled after a
\* frame restores the ladder, a stall of another device climbs it.  Poll mode
\* never has the holder (_storm_state stays None).
HolderMoves ==
    /\ stream
    /\ rung' \in {0, Capped(rung, Len(Ladder) - 1)} \ {rung}
    /\ UNCHANGED <<modes, at, session, c, keepalive, report, past>>

\* _send_override_via_stream failed: its session is dropped, the next one logs
\* in afresh.
OverrideFails ==
    /\ session = "open"
    /\ session' = "none"
    /\ c' = [c EXCEPT !.fresh = TRUE]
    /\ UNCHANGED <<modes, at, rung, keepalive, report, past>>

-----------------------------------------------------------------------------
(* The keepalive loop *)

\* An update that got an answer or silence, but no exception, sees to it that
\* the loop runs.
KeepaliveEnsured ==
    keepalive' = IF primary /\ ~stream /\ ~keepalive.running
                 THEN [keepalive EXCEPT !.running = TRUE, !.fails = 0] ELSE keepalive

KeepaliveAnswered ==
    /\ keepalive.running /\ session = "open"
    /\ keepalive' = [keepalive EXCEPT !.fails = 0, !.recent = TRUE]
    /\ UNCHANGED <<modes, at, session, c, rung, report, past>>

\* The second failure in a row closes the session and ends the loop.
KeepaliveFails ==
    /\ keepalive.running /\ session = "open"
    /\ IF keepalive.fails = 0
       THEN keepalive' = [keepalive EXCEPT !.fails = 1] /\ UNCHANGED session
       ELSE keepalive' = [keepalive EXCEPT !.running = FALSE] /\ session' = "none"
    /\ UNCHANGED <<modes, at, c, rung, report, past>>

KeepaliveEnds ==
    /\ keepalive.running /\ session = "none"
    /\ keepalive' = [keepalive EXCEPT !.running = FALSE]
    /\ UNCHANGED <<modes, at, session, c, rung, report, past>>

\* 2.5 keepalive intervals pass without an answer.
KeepaliveAges ==
    /\ keepalive.recent
    /\ keepalive' = [keepalive EXCEPT !.recent = FALSE]
    /\ UNCHANGED <<modes, at, session, c, rung, report, past>>

-----------------------------------------------------------------------------
(* _async_update_data: the read raises *)

\* EmaldoAuthError: the client is reset, the session closed.
PollAuthExpired ==
    LET k == [c EXCEPT !.empty = 0, !.reconnects = (@ + 1) % PollResets] IN
    /\ at = "idle" /\ CanAnswer
    /\ session' = "none"
    /\ End("auth", FALSE, k, KeepLast(k))
    /\ UNCHANGED <<modes, rung, keepalive>>

\* Any other exception, before, in or after the making of a session.
PollRaises ==
    \E asked \in {c, [Ensured(c) EXCEPT !.seeded = c.seeded], Ensured(c)} :
      LET k == [asked EXCEPT !.empty = 0, !.errors = Capped(@, MaxEmpty)] IN
      /\ at = "idle" /\ CanAnswer
      /\ session' = "none"
      /\ End("error", FALSE, k, KeepLast(k))
      /\ UNCHANGED <<modes, rung, keepalive>>

-----------------------------------------------------------------------------
(* _async_update_data: the read returns nothing *)

\* The read of this poll: an empty one is counted; a persistent session leaves
\* the diagnostics of its exchange.
EmptyRead(unparsed) ==
    [Ensured(c) EXCEPT !.empty = Capped(@, MaxHistory),
                       !.unparsed = IF c.legacy \/ (stream /\ primary) THEN @ ELSE unparsed]

\* Stream mode: the receiver thread recovers by itself, for a while.
StreamEmpty(dies) ==
    LET k == EmptyRead(FALSE) IN
    /\ at = "idle" /\ stream
    /\ k.empty < StallPolls(k)
    /\ session' = AfterRead(dies)
    /\ End("none", FALSE, k, KeepLast(k))
    /\ KeepaliveEnsured
    /\ UNCHANGED <<modes, rung>>

\* Mutant: the stream reset does not restart the count of empty reads.
StreamResetKeepsCount(signature) ==
    LET k == EmptyRead(FALSE)
        done == FullReset([Judged(k, signature) EXCEPT !.reconnects = (@ + 1) % PollResets])
    IN
    /\ at = "idle" /\ stream
    /\ k.empty >= StallPolls(k)
    /\ rung' = NextRung(k)
    /\ session' = "none"
    /\ End("none", TRUE, done, KeepLast(done))
    /\ KeepaliveEnsured
    /\ UNCHANGED modes

\* The stream is wedged: reset the client's login, rebuild the session.
StreamReset(signature) ==
    LET k == EmptyRead(FALSE)
        done == FullReset([Judged(k, signature) EXCEPT !.empty = 0,
                                                       !.reconnects = (@ + 1) % PollResets])
    IN
    /\ at = "idle" /\ stream
    /\ k.empty >= StallPolls(k)
    /\ rung' = NextRung(k)
    /\ session' = "none"
    /\ End("none", TRUE, done, KeepLast(done))
    /\ KeepaliveEnsured
    /\ UNCHANGED modes

\* Poll mode: below the tolerance.
PollEmpty(unparsed, dies) ==
    LET k == Classified(EmptyRead(unparsed)) IN
    /\ at = "idle" /\ ~stream
    /\ k.empty < MaxEmpty
    /\ session' = AfterRead(dies)
    /\ End("none", FALSE, k, KeepLast(k))
    /\ KeepaliveEnsured
    /\ UNCHANGED <<modes, rung>>

\* Mutant: a healthy keepalive defers the reconnect without limit.
MayDeferAlways(k) == keepalive.recent /\ k.errors = 0

\* The keepalive is healthy and no read has failed: not yet.
MayDefer(k) == keepalive.recent /\ k.errors = 0 /\ k.deferrals < MaxDeferrals

PollDefers(unparsed, dies) ==
    LET k == Classified(EmptyRead(unparsed))
        put == [k EXCEPT !.deferrals = Capped(@, MaxDeferrals)]
    IN
    /\ at = "idle" /\ ~stream
    /\ k.empty >= MaxEmpty
    /\ MayDefer(k)
    /\ session' = AfterRead(dies)
    /\ End("none", FALSE, put, KeepLast(put))
    /\ KeepaliveEnsured
    /\ UNCHANGED <<modes, rung>>

\* One more read before the session is torn down; it is awaited.
PollProbes(unparsed, dies) ==
    LET k == Classified(EmptyRead(unparsed)) IN
    /\ at = "idle" /\ ~stream
    /\ k.empty >= MaxEmpty
    /\ ~MayDefer(k)
    /\ at' = "probe"
    /\ c' = k
    /\ session' = AfterRead(dies)
    /\ KeepaliveEnsured
    /\ UNCHANGED <<modes, rung, report, past>>

\* _async_final_probe_before_reconnect has data: the counters are cleared, and
\* the update ends like one without data.
ProbeAnswered ==
    LET k == [Ensured(c) EXCEPT !.empty = 0, !.deferrals = 0, !.garbled = 0,
                                !.unparsed = IF c.legacy THEN @ ELSE FALSE]
    IN
    /\ at = "probe" /\ CanAnswer
    /\ session' = AfterRead(FALSE)
    /\ End("data", FALSE, k, KeepLast(k))
    /\ UNCHANGED <<modes, rung, keepalive>>

\* The probe returned nothing, something insane, or raised.
Dropped(unparsed) ==
    [Ensured(c) EXCEPT !.reconnects = (@ + 1) % PollResets, !.deferrals = 0,
                       !.unparsed = IF c.legacy THEN @ ELSE unparsed]

\* The reconnect is a full reset on every PollResets-th time and after a run of
\* undecryptable answers.
NeedsFullReset(k) == k.reconnects = 0 \/ k.garbled >= Undecryptable

ProbeFailed(unparsed) ==
    LET k == [Dropped(unparsed) EXCEPT !.empty = 0] IN
    /\ at = "probe"
    /\ ~NeedsFullReset(k)
    /\ session' = "none"
    /\ End("none", FALSE, k, KeepLast(k))
    /\ UNCHANGED <<modes, rung, keepalive>>

ProbeFailedReset(unparsed, signature) ==
    LET k == Dropped(unparsed)
        done == FullReset([Judged(k, signature \/ k.garbled >= Undecryptable)
                             EXCEPT !.garbled = 0, !.empty = 0])
    IN
    /\ at = "probe"
    /\ NeedsFullReset(k)
    /\ rung' = NextRung(k)
    /\ session' = "none"
    /\ End("none", TRUE, done, KeepLast(done))
    /\ UNCHANGED <<modes, keepalive>>

-----------------------------------------------------------------------------
(* _async_update_data: the read returns a reading *)

\* The sanity filter rejects it; only poll mode reconnects over that.
PollInvalid ==
    LET k == [Ensured(c) EXCEPT !.empty = Capped(@, MaxHistory)]
        over == ~stream /\ k.empty >= MaxEmpty
        done == IF over THEN [k EXCEPT !.empty = 0, !.deferrals = 0,
                                       !.reconnects = (@ + 1) % PollResets] ELSE k
    IN
    /\ at = "idle" /\ CanAnswer
    /\ session' = IF over THEN "none" ELSE AfterRead(FALSE)
    /\ End("invalid", FALSE, done, KeepLast(done))
    /\ KeepaliveEnsured
    /\ UNCHANGED <<modes, rung>>

PollData ==
    LET k == Succeeded([Ensured(c) EXCEPT !.unparsed = IF c.legacy THEN @ ELSE FALSE]) IN
    /\ at = "idle" /\ CanAnswer
    /\ session' = AfterRead(FALSE)
    /\ End("data", FALSE, k, "data")
    /\ KeepaliveEnsured
    /\ UNCHANGED <<modes, rung>>

-----------------------------------------------------------------------------

Poll ==
    \/ PollAuthExpired \/ PollRaises
    \/ \E dies \in BOOLEAN : StreamEmpty(dies)
    \/ \E signature \in BOOLEAN : StreamReset(signature)
    \/ \E unparsed, dies \in BOOLEAN :
         \/ PollEmpty(unparsed, dies)
         \/ PollDefers(unparsed, dies)
         \/ PollProbes(unparsed, dies)
    \/ PollInvalid \/ PollData

Probe ==
    \/ ProbeAnswered
    \/ \E unparsed \in BOOLEAN :
         \/ ProbeFailed(unparsed)
         \/ \E signature \in BOOLEAN : ProbeFailedReset(unparsed, signature)

KeepaliveLoop == KeepaliveAnswered \/ KeepaliveFails \/ KeepaliveEnds \/ KeepaliveAges

Next == Poll \/ Probe \/ KeepaliveLoop \/ HolderMoves \/ OverrideFails

Spec == Init /\ [][Next]_vars

\* Home Assistant polls, and a probe ends (its socket has a timeout).  Nothing
\* is assumed of what a read returns.
FairSpec == Spec /\ WF_vars(Poll \/ Probe)

-----------------------------------------------------------------------------
(* Properties *)

\* The persistent session is given up for good only after LegacyResets full
\* resets with no data in between (_register_stall_reset_and_maybe_fallback,
\* "with no successful read in between").
FallbackEarned ==
    [][c'.legacy /\ ~c.legacy => past'.full >= LegacyResets]_vars

\* Two full resets of the REST login are as far apart as the ladder says in
\* stream mode, and as the tolerance says in poll mode, whatever errors, odd
\* readings and keepalives come in between (the reset storm of #47).
ResetsSpaced ==
    [][past'.since = 0 /\ past.since > 0
         => past.since + 1 >= IF stream THEN Ladder[rung + 1] ELSE MaxEmpty]_vars

\* In stream mode a coordinator that never had data cannot look healthy for
\* long: no more than MaxEmpty ^ 2 failing polls in a row are reported as a
\* success, in any order of silence, errors, rejected readings and resets
\* (_keep_last_or_fail).  An expired login is reported as a success each time
\* and starts the count again.
FailureSurfacesInStream == stream => past.quiet <= MaxEmpty * MaxEmpty

\* Documented, and contradicted by the code (README, Findings):
\* The same in every mode: "when NO successful read has ever happened and the
\* failures have passed the tolerance threshold [...] Raise instead".
FailureSurfaces == past.quiet <= MaxEmpty * MaxEmpty

\* Silence is never sat out: the count of empty reads ends again and again, in
\* data, in an error or in a teardown.  In stream mode readings that the sanity
\* filter rejects count as empty but never trigger the reset.
SilenceEscalates ==
    <>[](past.last # "invalid") => []<>(c.empty = 0)

\* Documented, and contradicted by the code (README, Findings):
\* A reading that passes the sanity filter reaches the sensors ("fall through
\* and process recovered probe_data as a normal success").
ReadingIsUsed == past.last = "data" => report = "data"

=============================================================================
