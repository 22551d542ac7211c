--------------------------- MODULE EmergencyCharge ---------------------------
(***************************************************************************)
(* Emergency charge: a window of time sent to a device, which charges in   *)
(* it and stops by itself.  The device cannot be asked whether it charges, *)
(* so the power coordinator keeps the window (coordinator.py), shows the   *)
(* switch on while the clock is inside it (#79), saves it and loads it     *)
(* again after a restart of Home Assistant.                                *)
(*                                                                         *)
(* The Store is the config entry's, which has one device: its first        *)
(* refresh binds it (_async_persist_device_binding).                       *)
(*                                                                         *)
(* A call of the switch runs on an executor thread up to the assignments   *)
(* of the window, one by one, then on the event loop: the save, and after  *)
(* its await the publication.  Calls of one switch may overlap.            *)
(***************************************************************************)
EXTENDS Naturals, FiniteSets

CONSTANTS
    Callers,     \* threads
    Day, Hour,   \* in units of the clock
    Settings,    \* what the start and the end time entity are set to
    MaxTime      \* bound of the clock

ASSUME EmergencyAssumption ==
    /\ Day \in Nat \ {0} /\ Hour \in 1 .. Day /\ MaxTime \in Nat
    /\ Settings \subseteq (SUBSET (0 .. Day - 1)) \X (SUBSET (0 .. Day - 1))
    /\ \A s \in Settings : Cardinality(s[1]) <= 1 /\ Cardinality(s[2]) <= 1

VARIABLES
    now,        \* the clock
    armed,      \* _emergency_charge_active, _start_unix, _end_unix
    loaded,     \* _emergency_cache_loaded
    shown,      \* data["emergency_charge_active"]: what the switch shows
    store,      \* the file
    job,        \* the calls under way
    acked,      \* history: the earliest start and the latest end acknowledged
    saved       \* history: since the window was last assigned, it was saved

vars == <<now, armed, loaded, shown, store, job, acked, saved>>

Time   == 0 .. MaxTime + 2 * Day
Window == {w \in [start : Time, end : Time] : w.start < w.end}
Opt(S) == {{}} \cup {{x} : x \in S}
Only(S) == CHOOSE x \in S : TRUE

Armed  == [active : BOOLEAN, start : Opt(Time), end : Opt(Time)]
Stored == [start : Opt(Time), end : Time]

\* window: what is asked, {} for off; pc: the next step.
Jobs == [window : Opt(Window),
         pc : {"stream", "legacy", "active", "start", "end", "save", "publish"}]

TypeOK ==
    /\ now \in 0 .. MaxTime
    /\ armed \in Armed
    /\ loaded \in BOOLEAN
    /\ shown \in Opt(BOOLEAN)
    /\ store \in Opt(Stored)
    /\ job \in [Callers -> Opt(Jobs)]
    /\ acked \in [start : Opt(Time), end : Opt(Time)]
    /\ saved \in BOOLEAN

-----------------------------------------------------------------------------
(* The window *)

\* Today at a time of the day.
Today(t) == (now \div Day) * Day + t

\* A time already past is tomorrow's.
Start(startT) ==
    CASE startT = {} -> now
      [] startT # {} /\ Today(Only(startT)) < now -> Today(Only(startT)) + Day
      [] OTHER -> Today(Only(startT))

\* Mutant: an end before the start is not moved to the next day.
EndSameDay(start, endT) ==
    IF endT = {} THEN start + Hour ELSE (start \div Day) * Day + Only(endT)

\* An end at or before the start is the next day's; no end is an hour later.
End(start, endT) ==
    LET end == (start \div Day) * Day + Only(endT)
    IN IF endT = {} THEN start + Hour ELSE IF end <= start THEN end + Day ELSE end

\* Mutant: a window is active before its start.
ActiveEarly(a) == a.active /\ (a.end = {} \/ now <= Only(a.end))

\* emergency_charge_active_now: without an end, the flag alone counts.
ActiveNow(a) ==
    /\ a.active
    /\ \/ a.end = {}
       \/ (a.start = {} \/ now >= Only(a.start)) /\ now <= Only(a.end)

\* What is saved: the window, or nothing when none is armed.
Payload(a) ==
    IF a.active /\ a.end # {} THEN {[start |-> a.start, end |-> Only(a.end)]} ELSE {}

-----------------------------------------------------------------------------

Off == [active |-> FALSE, start |-> {}, end |-> {}]

Init ==
    /\ now = 0
    /\ armed = Off
    /\ loaded = FALSE
    /\ shown = {}
    /\ store = {}
    /\ job = [c \in Callers |-> {}]
    /\ acked = [start |-> {}, end |-> {}]
    /\ saved = TRUE

Tick ==
    /\ now < MaxTime /\ now' = now + 1
    /\ UNCHANGED <<armed, loaded, shown, store, job, acked, saved>>

\* Home Assistant stops or crashes, and starts again.
Restart ==
    /\ armed' = Off
    /\ loaded' = FALSE
    /\ shown' = {}
    /\ job' = [c \in Callers |-> {}]
    /\ UNCHANGED <<now, store, acked, saved>>

\* _load_emergency_charge_cache: a window that has ended is dropped.
Restored ==
    IF store = {} \/ Only(store).end < now THEN armed
    ELSE [active |-> TRUE, start |-> Only(store).start, end |-> {Only(store).end}]

\* A poll of the power coordinator; the first one loads the file, or fails to.
\* A poll that cannot reach the cloud changes nothing.
Poll(read) ==
    /\ armed' = IF read /\ ~loaded THEN Restored ELSE armed
    /\ loaded' = TRUE
    /\ shown' = {ActiveNow(armed')}
    /\ saved' = (saved /\ (read \/ loaded))
    /\ UNCHANGED <<now, store, job, acked>>

-----------------------------------------------------------------------------
(* The switch *)

J(c) == Only(job[c])
At(c, pc) == job[c] # {} /\ J(c).pc = pc
Goto(c, pc) == job' = [job EXCEPT ![c] = {[J(c) EXCEPT !.pc = pc]}]

\* async_turn_on, async_turn_off; the entities exist once there are data.
Begin(c, window) ==
    /\ job[c] = {} /\ shown # {}
    /\ job' = [job EXCEPT ![c] = {[window |-> window, pc |-> "stream"]}]
    /\ UNCHANGED <<now, armed, loaded, shown, store, acked, saved>>

TurnOn(c) ==
    \E s \in Settings :
        LET start == Start(s[1]) IN Begin(c, {[start |-> start, end |-> End(start, s[2])]})

TurnOff(c) == Begin(c, {})

Widened(window) ==
    LET starts == acked.start \cup {w.start : w \in window}
        ends == acked.end \cup {w.end : w \in window}
    IN [start |-> {t \in starts : \A u \in starts : t <= u},
        end |-> {t \in ends : \A u \in ends : t >= u}]

\* One attempt: any reply counts as an acknowledgement.
Send(c, from, failed, ok) ==
    /\ At(c, from)
    /\ acked' = IF ok THEN Widened(J(c).window) ELSE acked
    /\ job' = [job EXCEPT ![c] = IF ok THEN {[J(c) EXCEPT !.pc = "active"]} ELSE failed]
    /\ UNCHANGED <<now, armed, loaded, shown, store, saved>>

\* _send_emergency_charge_via_stream; the legacy command comes after it.
Stream(c, ok) == Send(c, "stream", {[window |-> J(c).window, pc |-> "legacy"]}, ok)

\* emergency_charge_window, emergency_charge_off; a failure raises.
Legacy(c, ok) == Send(c, "legacy", {}, ok)

\* The three assignments.
Assign(c) ==
    LET w == J(c).window IN
    /\ \/ /\ At(c, "active") /\ Goto(c, "start")
          /\ armed' = [armed EXCEPT !.active = w # {}]
       \/ /\ At(c, "start") /\ Goto(c, "end")
          /\ armed' = [armed EXCEPT !.start = {x.start : x \in w}]
       \/ /\ At(c, "end") /\ Goto(c, "save")
          /\ armed' = [armed EXCEPT !.end = {x.end : x \in w}]
    /\ saved' = FALSE
    /\ UNCHANGED <<now, loaded, shown, store, acked>>

\* Mutant: a call saves its own window.
SaveOwn(c, written) ==
    /\ At(c, "save") /\ Goto(c, "publish")
    /\ store' = IF written THEN {[start |-> {w.start}, end |-> w.end] : w \in J(c).window} ELSE store
    /\ saved' = (saved \/ written)
    /\ UNCHANGED <<now, armed, loaded, shown, acked>>

\* _save_emergency_charge_cache; an error is ignored.
Save(c, written) ==
    /\ At(c, "save") /\ Goto(c, "publish")
    /\ store' = IF written THEN Payload(armed) ELSE store
    /\ saved' = (saved \/ written)
    /\ UNCHANGED <<now, armed, loaded, shown, acked>>

\* On shows what the session is, off shows off.
Publish(c) ==
    /\ At(c, "publish")
    /\ shown' = {J(c).window # {} /\ ActiveNow(armed)}
    /\ job' = [job EXCEPT ![c] = {}]
    /\ UNCHANGED <<now, armed, loaded, store, acked, saved>>

Call(c) ==
    \/ \E ok \in BOOLEAN : Stream(c, ok) \/ Legacy(c, ok)
    \/ Assign(c)
    \/ \E written \in BOOLEAN : Save(c, written)
    \/ Publish(c)

Next ==
    \/ Tick \/ Restart
    \/ \E read \in BOOLEAN : Poll(read)
    \/ \E c \in Callers : Call(c) \/ TurnOn(c) \/ TurnOff(c)

Spec == Init /\ [][Next]_vars

-----------------------------------------------------------------------------
(* Properties *)

\* The window that is sent is the next one with the wanted times of the day:
\* it has not begun, begins within a day, and ends within a day of its
\* beginning, on the wanted times, also over midnight (async_turn_on).
NextWindow ==
    \A startT, endT \in Opt(0 .. Day - 1) :
        LET start == Start(startT)
            end == End(start, endT)
        IN /\ start \in now .. now + Day - 1 /\ end \in start + 1 .. start + Day
           /\ startT # {} => start % Day = Only(startT)
           /\ endT # {} => end % Day = Only(endT)

\* The switch comes on only after the beginning of a window the device
\* acknowledged and before the end of one, whatever was saved, lost and
\* restored in between; calls whose assignments mix may leave no window.
ShownInWindow ==
    [][/\ shown' = {TRUE} /\ shown # {TRUE}
       /\ armed'.start # {} /\ armed'.end # {}
       => acked.start # {} /\ Only(acked.start) <= now' /\ now' <= Only(acked.end)]_vars

\* Once its window is saved, what a restart would restore is what is armed: "a
\* restart in the middle of a session keeps the switch on".
Live(windows) == {w \in windows : w.end >= now}
RestartKeeps ==
    loaded /\ saved => Live(store) = Live(Payload(armed))

\* Documented, and contradicted by the code (README, Findings):
\* "the switch state has to expire locally": an armed coordinator has an end,
\* between the assignments of a call excepted.
HasAnEnd ==
    armed.active /\ armed.end = {} => \E c \in Callers : At(c, "start") \/ At(c, "end")

=============================================================================
