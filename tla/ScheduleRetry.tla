---------------------------- MODULE ScheduleRetry ----------------------------
(***************************************************************************)
(* The timers of the schedule coordinator (schedule_coordinator.py): the   *)
(* interval poll and the slot tick, the backoff retry of a failed fetch,   *)
(* and the retries of the overrides alone; they are set and cancelled by   *)
(* fetches that run in threads, by the options and by the shutdown.        *)
(*                                                                         *)
(* A timer is known to the coordinator by a handle only (_unsub_...); one  *)
(* whose handle is overwritten cannot be cancelled any more.               *)
(***************************************************************************)
EXTENDS Naturals

CONSTANTS MaxRetry,   \* bound of _retry_count
          MaxLive     \* bound of the timers of one kind
ASSUME RetryAssumption == MaxRetry \in Nat /\ MaxLive \in Nat \ {0}

VARIABLES
    phase,      \* of the entry: up, closing (async_shutdown is done), down
    live,       \* how many timers of each kind Home Assistant will fire
    handle,     \* kinds whose handle is that of a timer that will fire
    fetch,      \* fetches under way, full ("full") or of the overrides ("e2e")
    asked,      \* a refresh was requested while one is under way
    known,      \* what self.data has: nothing, the schedule, the overrides too
    failures,   \* _retry_count
    attempts,   \* _e2e_retry_count
    clean       \* history: nothing was under way at the shutdown

timersVars == <<phase, live, handle, fetch, asked, known, failures, attempts, clean>>

Kinds == {"interval", "slot", "retry", "e2e"}

TimersTypeOK ==
    /\ phase \in {"up", "closing", "down"}
    /\ live \in [Kinds -> 0 .. MaxLive] /\ handle \subseteq Kinds
    /\ fetch \in [full : BOOLEAN, e2e : 0 .. 2] /\ asked \in BOOLEAN
    /\ known \in {"nothing", "schedule", "overrides"}
    /\ failures \in 0 .. MaxRetry /\ attempts \in 0 .. 3
    /\ clean \in BOOLEAN

-----------------------------------------------------------------------------
(* Timers; a step takes live and handle through them in the order of the code *)

Timers == [live : [Kinds -> Nat], handle : SUBSET Kinds]

\* _cancel_retry, _cancel_e2e_retry, and each part of _cancel_listeners
Cancel(t, kind) ==
    IF kind \in t.handle
    THEN [live |-> [t.live EXCEPT ![kind] = @ - 1], handle |-> t.handle \ {kind}]
    ELSE t

\* async_call_later, async_track_time_interval
SetTimer(t, kind) == [live |-> [t.live EXCEPT ![kind] = @ + 1], handle |-> t.handle \cup {kind}]

\* Mutant: a timer is set over the one that waits.
RearmedOver(t, kind) == SetTimer(t, kind)

Rearmed(t, kind) == SetTimer(Cancel(t, kind), kind)

\* _cancel_listeners
NoListeners(t) == Cancel(Cancel(t, "interval"), "slot")

\* Mutant: the shutdown forgets the backoff retry.
NoTimersButRetry(t) == Cancel(NoListeners(t), "e2e")

\* async_shutdown
NoTimers(t) == Cancel(Cancel(NoListeners(t), "e2e"), "retry")

Now == [live |-> live, handle |-> handle]
Become(t) ==
    /\ \A k \in Kinds : t.live[k] <= MaxLive
    /\ live' = t.live /\ handle' = t.handle

\* A timer fires: a one-shot is gone, though its handle may be kept.
Fires(kind) ==
    /\ live[kind] > 0
    /\ IF kind \in {"interval", "slot"} THEN Become(Now)
       ELSE Become([live |-> [live EXCEPT ![kind] = @ - 1],
                    handle |-> IF live[kind] = 1 THEN handle \ {kind} ELSE handle])

-----------------------------------------------------------------------------

\* The entry is set up: the first fetch is under way and the listeners are set.
TimersInit ==
    /\ phase = "up"
    /\ live = [k \in Kinds |-> IF k \in {"interval", "slot"} THEN 1 ELSE 0]
    /\ handle = {"interval", "slot"}
    /\ fetch = [full |-> TRUE, e2e |-> 0] /\ asked = FALSE
    /\ known = "nothing" /\ failures = 0 /\ attempts = 0
    /\ clean = FALSE

\* async_request_refresh: one fetch at a time, another one after it.
Request ==
    IF fetch.full THEN asked' = TRUE /\ UNCHANGED fetch
    ELSE fetch' = [fetch EXCEPT !.full = TRUE] /\ UNCHANGED asked

\* _on_interval, _retry_callback, or the service refresh_schedule
Poll(kind) ==
    /\ Fires(kind) /\ Request
    /\ UNCHANGED <<phase, known, failures, attempts, clean>>
Refresh ==
    /\ phase = "up" /\ Request
    /\ UNCHANGED <<phase, live, handle, known, failures, attempts, clean>>

\* What follows a full fetch: the one asked for meanwhile.
FetchOver == fetch' = [fetch EXCEPT !.full = asked] /\ asked' = FALSE

\* Mutant: a failed fetch is not tried again once there are data.
FailsFirst ==
    /\ fetch.full /\ FetchOver
    /\ failures' = IF failures < MaxRetry THEN failures + 1 ELSE failures
    /\ Become(IF known = "nothing" THEN Rearmed(Now, "retry") ELSE Cancel(Now, "retry"))
    /\ UNCHANGED <<phase, known, attempts, clean>>

\* _handle_fetch_failure, _schedule_retry: also for a coordinator shut down.
Fails ==
    /\ fetch.full /\ FetchOver
    /\ failures' = IF failures < MaxRetry THEN failures + 1 ELSE failures
    /\ Become(Rearmed(Now, "retry"))
    /\ UNCHANGED <<phase, known, attempts, clean>>

\* One more retry of the overrides: three at most.
More == attempts < 3

\* _async_update_data: a fetch with or without overrides; known ones are kept.
Succeeds(overrides) ==
    LET t == Cancel(Now, "retry")
        has == overrides \/ known = "overrides"
    IN
    /\ fetch.full /\ FetchOver
    /\ failures' = 0
    /\ known' = IF has THEN "overrides" ELSE "schedule"
    /\ attempts' = IF has THEN 0 ELSE IF More THEN attempts + 1 ELSE attempts
    /\ Become(CASE has -> Cancel(t, "e2e")
                [] ~has /\ More -> Rearmed(t, "e2e")
                [] OTHER -> t)
    /\ UNCHANGED <<phase, clean>>

\* _e2e_retry_callback
RetryOverrides ==
    /\ Fires("e2e") /\ fetch.e2e < 2
    /\ fetch' = [fetch EXCEPT !.e2e = @ + 1]
    /\ UNCHANGED <<phase, asked, known, failures, attempts, clean>>

\* The rest of it, when its fetch ends.
RetriedOverrides(overrides) ==
    LET got == overrides /\ known # "nothing" IN
    /\ fetch.e2e > 0 /\ fetch' = [fetch EXCEPT !.e2e = @ - 1]
    /\ known' = IF got THEN "overrides" ELSE known
    /\ attempts' = IF got THEN 0 ELSE IF More THEN attempts + 1 ELSE attempts
    /\ Become(CASE got -> Cancel(Now, "e2e")
                [] ~got /\ More -> Rearmed(Now, "e2e")
                [] OTHER -> Now)
    /\ UNCHANGED <<phase, asked, failures, clean>>

\* _async_options_updated: async_setup_listeners.
Options ==
    /\ phase = "up"
    /\ Become(SetTimer(SetTimer(NoListeners(Now), "interval"), "slot"))
    /\ UNCHANGED <<phase, fetch, asked, known, failures, attempts, clean>>

\* async_shutdown, by the unload or when Home Assistant stops.
Shutdown ==
    /\ phase = "up" /\ phase' = "closing"
    /\ Become(NoTimers(Now))
    /\ clean' = (~fetch.full /\ fetch.e2e = 0)
    /\ UNCHANGED <<fetch, asked, known, failures, attempts>>

\* The unload ends; Home Assistant cancels the tasks of the entry, and what
\* the others, of services, have under way goes on.
Closed(kept) ==
    /\ phase = "closing" /\ phase' = "down"
    /\ fetch' = IF kept THEN fetch ELSE [full |-> FALSE, e2e |-> 0]
    /\ asked' = (asked /\ kept)
    /\ UNCHANGED <<live, handle, known, failures, attempts, clean>>

FetchEnds == Fails \/ \E overrides \in BOOLEAN : Succeeds(overrides)
TimersNext ==
    \/ Poll("interval") \/ Poll("retry") \/ Refresh
    \/ FetchEnds \/ RetryOverrides \/ \E overrides \in BOOLEAN : RetriedOverrides(overrides)
    \/ Options \/ Shutdown \/ \E kept \in BOOLEAN : Closed(kept)

TimersSpec == TimersInit /\ [][TimersNext]_timersVars

\* Fetches end and retry timers fire; the interval, of up to a day, need not.
FairSpec ==
    /\ TimersSpec
    /\ WF_timersVars(FetchEnds) /\ WF_timersVars(Poll("retry"))
    /\ WF_timersVars(RetryOverrides) /\ WF_timersVars(\E overrides \in BOOLEAN : RetriedOverrides(overrides))

-----------------------------------------------------------------------------
(* Properties *)

\* Every timer that will fire can be cancelled: whichever of polls, retries,
\* options and the shutdown set and cancel timers around each other.
NoOrphan == \A k \in Kinds : live[k] = IF k \in handle THEN 1 ELSE 0

\* A shutdown with nothing under way is final: no timer, no fetch after it.
ShutdownFinal == clean => /\ \A k \in Kinds : live[k] = 0
                          /\ ~fetch.full /\ fetch.e2e = 0

\* Documented, and contradicted by the code (README, Findings):
\* "Cancel listeners on shutdown": no timer is left once the unload is over.
NoTimerWhenDown == phase = "down" => \A k \in Kinds : live[k] = 0

\* While the fetch fails, it is tried again without the interval poll.
RetriesUntilSuccess == (failures > 0 /\ ~fetch.full) ~> (fetch.full \/ phase # "up")

=============================================================================
