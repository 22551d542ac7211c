---------------------------- MODULE OverrideEdit ----------------------------
(***************************************************************************)
(* The day's override slots of one device and everybody who edits them.    *)
(*                                                                         *)
(* The device keeps a slot vector and a header (the two battery markers    *)
(* and the battery-range flag) and takes both in one write.  So every      *)
(* editor is a read-modify-write: the services patch slots and keep the    *)
(* header (services.py), the sliders, the switch and the range service     *)
(* change the header and keep the slots (number.py, switch.py, client.py). *)
(* What they keep comes from a read of their own or from the snapshot of   *)
(* the schedule coordinator, whose polls run beside them.                  *)
(*                                                                         *)
(* One exchange with the device (a read or a write) is one step: the       *)
(* device lock or the session lock covers it, and nothing more.            *)
(***************************************************************************)
EXTENDS Naturals, FiniteSets

CONSTANTS
    Editors,       \* threads, one edit each
    Slots,         \* the slots of the day, 96
    Values,        \* encoded slot actions
    None,          \* SLOT_NO_OVERRIDE
    Fields,        \* "high", "low": the markers; "on": battery_range_override
    Marks,         \* what a header field may hold
    Default,       \* DEFAULT_MARKER_HIGH, DEFAULT_MARKER_LOW, off
    Refused,       \* headers with the emergency marker above the smart one
    Initial,       \* what the device may hold at first
    Noise,         \* headers of frames that parse without being the device's
    Edits,         \* the edits the editors may be asked for
    MaxTries,      \* attempts of a service, 3
    MaxReads       \* bound on the reads of the coordinator

Vectors == [Slots -> Values \cup {None}]
Headers == [Fields -> Marks]
States  == [slots : Vectors, header : Headers]
Given   == UNION {[F -> Marks] : F \in SUBSET Fields}

Patches == UNION {[T -> Values \cup {None}] : T \in SUBSET Slots}

Asks(kinds, patches, given) == [kind : kinds, patch : patches, given : given]
NoPatch == [s \in {} |-> None]

\* set_slot_range gives a range of slots one action; it may give header fields.
SetSlotRange == {r \in Asks({"slots"}, Patches, Given) :
                   \E v \in Values : \A s \in DOMAIN r.patch : r.patch[s] = v}
\* apply_bulk_schedule gives all slots.
ApplyBulk == Asks({"bulk"}, Vectors, Given)
\* reset_to_internal clears a range or everything.
ResetToInternal == {r \in Asks({"reset"}, Patches, Given) :
                      \A s \in DOMAIN r.patch : r.patch[s] = None}
\* A slider gives one marker, the switch the flag, set_battery_range all.
Slider == {r \in Asks({"marker"}, {NoPatch}, Given) : Cardinality(DOMAIN r.given) = 1}
Switch == {r \in Asks({"switch"}, {NoPatch}, Given) : DOMAIN r.given = {"on"}}
SetBatteryRange == Asks({"range"}, {NoPatch}, Headers)

Requests == SetSlotRange \cup ApplyBulk \cup ResetToInternal
            \cup Slider \cup Switch \cup SetBatteryRange

\* The services that write through the realtime session, with attempts.
Streams == {"slots", "bulk", "reset"}

ASSUME EditAssumption ==
    /\ None \notin Values
    /\ Default \in Headers /\ Refused \subseteq Headers
    /\ Initial \subseteq States /\ Noise \subseteq Headers /\ Edits \subseteq Requests
    /\ MaxTries \in Nat \ {0} /\ MaxReads \in Nat

VARIABLES
    device,      \* the slots and the header the device holds
    snapshot,    \* data["overrides"] of the schedule coordinator: at most one state
    reader,      \* reads of the poll and of the E2E retry under way: what each has read
    reads,       \* how many they have begun, for the bound
    job,         \* the edits
    past         \* history: slot vectors and headers the device had, and the
                 \* headers that were published in the snapshot

Readers == {"poll", "retry"}

vars == <<device, snapshot, reader, reads, job, past>>

AtMostOne(S) == {{}} \cup {{x} : x \in S}

\* pc: where the edit is; fields: the header fields it has settled (nonlocal
\* across attempts); cached: the slots it took from the snapshot; plan: what it
\* will write; src, over: history, where the plan's slots come from and whether
\* the device was written by another since; known: history, a read had
\* reached the snapshot when the fields were settled; shown: history, the device has shown
\* the plan since the last write; ok: what the editor reports.
Jobs == [edit : Edits, pc : {"try", "send", "confirm", "fresh", "slots", "oneshot", "done"},
         tries : 0 .. MaxTries, fields : Given, cached : AtMostOne(Vectors),
         plan : AtMostOne(States), src : {"fresh", "cache", "nothing"}, over : BOOLEAN,
         known : BOOLEAN, shown : {"no", "yes", "unknown"}, ok : BOOLEAN]

TypeOK ==
    /\ device \in States
    /\ snapshot \in AtMostOne(States)
    /\ reader \in [Readers -> AtMostOne(States)]
    /\ reads \in 0 .. MaxReads
    /\ DOMAIN job = Editors
    /\ \A e \in Editors : job[e] \subseteq Jobs /\ Cardinality(job[e]) <= 1
    /\ past \in [slots : SUBSET Vectors, headers : SUBSET Headers, published : SUBSET Headers]

-----------------------------------------------------------------------------
(* Helpers *)

Only(S) == CHOOSE x \in S : TRUE
Empty == [s \in Slots |-> None]
Busy(e, pc) == job[e] # {} /\ Only(job[e]).pc = pc
J(e) == Only(job[e])
Set(e, j) == job' = [job EXCEPT ![e] = {j}]

\* What a read may bring, whoever reads: the device's state, or a frame that parses
\* and has valid markers but not the device's (parse_override_state).
Frames == {[device EXCEPT !.header = h] : h \in Noise \cup {device.header}}

\* Mutant: an omitted field comes from the edit's own read first.
SettledByRead(fields, current) ==
    [f \in Fields |->
        CASE f \in DOMAIN fields -> fields[f]
          [] f \notin DOMAIN fields /\ current # {} -> Only(current).header[f]
          [] OTHER -> IF snapshot # {} THEN Only(snapshot).header[f] ELSE Default[f]]

\* _resolve_markers: an omitted field comes from the snapshot, then from the
\* edit's own read, then it is the default.
Settled(fields, current) ==
    [f \in Fields |->
        CASE f \in DOMAIN fields -> fields[f]
          [] f \notin DOMAIN fields /\ snapshot # {} -> Only(snapshot).header[f]
          [] OTHER -> IF current # {} THEN Only(current).header[f] ELSE Default[f]]

\* Mutant: the slots to patch come from the snapshot first, like the header.
BaseFromSnapshot(current) ==
    IF snapshot # {} THEN Only(snapshot).slots
    ELSE IF current # {} THEN Only(current).slots ELSE Empty

\* The slots to patch: the ones just read (or the snapshot, if the read gave
\* nothing), else no override at all.
Base(current) == IF current # {} THEN Only(current).slots ELSE Empty

\* build_override_payload refuses markers in the wrong order.
Sendable(e) == Only(J(e).plan).header \notin Refused

Patched(base, patch) == [s \in Slots |-> IF s \in DOMAIN patch THEN patch[s] ELSE base[s]]

IsStream(e) == J(e).edit.kind \in Streams

\* An attempt of a service failed: sleep and try again, or the one-shot fallback.
Failed(j) ==
    [j EXCEPT !.tries = @ + 1, !.pc = IF j.tries + 1 = MaxTries THEN "oneshot" ELSE "try"]

NewJob(edit) ==
    [edit |-> edit, pc |-> "try", tries |-> 0, fields |-> edit.given, cached |-> {},
     plan |-> {}, src |-> "nothing", over |-> FALSE, known |-> FALSE, shown |-> "no",
     ok |-> FALSE]

\* The edit is over; of a reset, its report and its tries are left.
Ended(j, ok) ==
    IF j.edit.kind = "reset"
    THEN [NewJob(j.edit) EXCEPT !.pc = "done", !.ok = ok, !.tries = j.tries, !.shown = j.shown]
    ELSE [NewJob(j.edit) EXCEPT !.pc = "done"]

WithPast(state) ==
    [past EXCEPT !.slots = @ \cup {state.slots}, !.headers = @ \cup {state.header}]

\* A write by e that becomes j, and reaches the device or not.
Write(e, j, applied) ==
    /\ device' = IF applied THEN Only(J(e).plan) ELSE device
    /\ past' = IF applied THEN WithPast(Only(J(e).plan)) ELSE past
    /\ job' = [o \in Editors |->
                 IF o = e THEN {j}
                 ELSE IF applied /\ job[o] # {} THEN {[J(o) EXCEPT !.over = TRUE]}
                 ELSE job[o]]
    /\ UNCHANGED <<snapshot, reader, reads>>

Local == UNCHANGED <<device, snapshot, reader, reads, past>>

-----------------------------------------------------------------------------
(* The schedule coordinator *)

Init ==
    /\ device \in Initial
    /\ snapshot = {}
    /\ reader = [r \in Readers |-> {}]
    /\ reads = 0
    /\ job = [e \in Editors |-> {}]
    /\ past = [slots |-> {device.slots}, headers |-> {device.header}, published |-> {}]

Fetch(r) ==
    /\ reader[r] = {} /\ reads < MaxReads
    /\ reads' = reads + 1
    /\ \E frame \in Frames : reader' = [reader EXCEPT ![r] = {frame}]
    /\ UNCHANGED <<device, snapshot, job, past>>

\* _fetch_schedule_data
StartRead == Fetch("poll")

\* _fetch_e2e_only: its timer was armed while there were no overrides, but a poll may
\* have brought some by the time it fires.
StartRetry == Fetch("retry")

\* The overrides published from now on; a read that failed publishes none.
Publishes(found) ==
    /\ snapshot' = found
    /\ past' = [past EXCEPT !.published = @ \cup {s.header : s \in found}]

\* Mutant: a read that failed clears the snapshot.
DeliverClears(r) ==
    /\ reader[r] # {}
    /\ Publishes({}) \/ Publishes(reader[r])
    /\ reader' = [reader EXCEPT ![r] = {}]
    /\ UNCHANGED <<device, reads, job>>

\* The result of a read arrives on the loop; when the read failed, the last
\* overrides stay.
Deliver(r) ==
    /\ reader[r] # {}
    /\ Publishes(reader[r]) \/ UNCHANGED <<snapshot, past>>
    /\ reader' = [reader EXCEPT ![r] = {}]
    /\ UNCHANGED <<device, reads, job>>

\* _e2e_retry_callback: however late, what the retry read is the snapshot.
DeliverRetry == Deliver("retry")

-----------------------------------------------------------------------------
(* The services: set_slot_range, apply_bulk_schedule, reset_to_internal *)

BeginStream(e, edit) ==
    /\ job[e] = {} /\ edit.kind \in Streams
    /\ Set(e, NewJob(edit))
    /\ Local

\* The read of an attempt gave current; from says where it came from.
Planned(e, current, from) ==
    LET j == J(e)
        header == Settled(j.fields, current)
    IN [j EXCEPT !.pc = "send", !.fields = header,
                 !.plan = {[slots |-> Patched(Base(current), j.edit.patch), header |-> header]},
                 !.src = from, !.over = FALSE,
                 !.known = @ \/ (j.plan = {} /\ past.published # {})]

AttemptReads(e) ==
    /\ Busy(e, "try")
    /\ \E frame \in Frames : Set(e, Planned(e, {frame}, "fresh"))
    /\ Local

\* The read returns None: the snapshot stands in.
AttemptUsesSnapshot(e) ==
    /\ Busy(e, "try")
    /\ Set(e, Planned(e, snapshot, IF snapshot = {} THEN "nothing" ELSE "cache"))
    /\ Local

\* The login or the read raises.  When the first attempt has no client, two of the
\* handlers stumble over the unbound coord and the service ends.
AttemptRaises(e) ==
    LET j == J(e) IN
    /\ Busy(e, "try")
    /\ \/ Set(e, Failed(j))
       \/ j.tries = 0 /\ j.edit.kind # "bulk" /\ Set(e, Ended(j, FALSE))
    /\ Local

\* _send_override_via_stream is acknowledged; the device may have ignored it.
StreamAcked(e, applied) ==
    LET j == J(e) IN
    /\ Busy(e, "send") /\ Sendable(e)
    /\ Write(e, IF j.edit.kind = "reset" THEN [j EXCEPT !.pc = "confirm"] ELSE Ended(j, TRUE), applied)

\* No answer, a refusal, or no session; the write may have arrived.
StreamUnacked(e, applied) ==
    /\ Busy(e, "send") /\ (applied => Sendable(e))
    /\ Write(e, Failed(J(e)), applied)

\* Mutant: an acknowledged reset is not read back.
ConfirmTrusting(e) ==
    /\ Busy(e, "confirm")
    /\ Set(e, Ended(J(e), TRUE))
    /\ Local

\* _override_readback_ok: only a readable, different state fails the reset.
Confirm(e) ==
    LET j == J(e)
        same == device.slots = Only(j.plan).slots
    IN
    /\ Busy(e, "confirm")
    /\ \/ Set(e, Ended([j EXCEPT !.shown = "unknown"], TRUE))
       \/ same /\ Set(e, Ended([j EXCEPT !.shown = "yes"], TRUE))
       \/ ~same /\ Set(e, Failed(j))
    /\ Local

-----------------------------------------------------------------------------
(* The sliders, the switch and set_battery_range *)

\* cached_slots
Cached == {s.slots : s \in snapshot}

\* The header and the slots are captured when the value is set.
BeginRange(e, edit) ==
    /\ job[e] = {} /\ edit.kind \notin Streams
    /\ Settled(edit.given, {}) \notin Refused
    /\ Set(e, [NewJob(edit) EXCEPT !.pc = IF edit.kind = "marker" THEN "fresh" ELSE "slots",
                                   !.fields = Settled(edit.given, {}), !.cached = Cached,
                                   !.known = past.published # {}])
    /\ Local

\* A slider takes the other fields from a fresh read if that succeeds (#72).
FreshHeader(e) ==
    LET j == J(e) IN
    /\ Busy(e, "fresh")
    /\ \/ Set(e, [j EXCEPT !.pc = "slots"])
       \/ \E frame \in Frames :
            Set(e, [j EXCEPT !.pc = "slots",
                             !.fields = [f \in Fields |-> IF f \in DOMAIN j.edit.given
                                                          THEN j.edit.given[f]
                                                          ELSE frame.header[f]]])
    /\ Local

\* set_battery_range: the cached slots, or a read of its own; a read that gives
\* nothing means no override.
ChooseSlots(e) ==
    LET j == J(e)
        With(slots, from) == Set(e, [j EXCEPT !.pc = "oneshot", !.src = from, !.over = FALSE,
                                              !.plan = {[slots |-> slots, header |-> j.fields]}])
    IN
    /\ Busy(e, "slots") /\ j.fields \notin Refused
    /\ IF j.cached # {} THEN With(Only(j.cached), "cache")
       ELSE With(device.slots, "fresh") \/ With(Empty, "nothing")
    /\ Local

\* The login or a read raises for the second time, or set_battery_range refuses
\* the markers.
RangeRaises(e) ==
    /\ Busy(e, "fresh") \/ Busy(e, "slots")
    /\ Set(e, Ended(J(e), FALSE))
    /\ Local

\* set_override on a one-shot session: the range edits, and the services once
\* their attempts are used up.
OneShot(e, acked, applied) ==
    /\ Busy(e, "oneshot") /\ J(e).plan # {} /\ ((acked \/ applied) => Sendable(e))
    /\ Write(e, Ended(J(e), acked), applied)

\* No attempt got as far as a plan.
NothingToFallBackOn(e) ==
    /\ Busy(e, "oneshot") /\ J(e).plan = {}
    /\ Set(e, Ended(J(e), FALSE))
    /\ Local

-----------------------------------------------------------------------------

Edit(e) ==
    \/ AttemptReads(e) \/ AttemptUsesSnapshot(e) \/ AttemptRaises(e)
    \/ \E applied \in BOOLEAN : StreamAcked(e, applied) \/ StreamUnacked(e, applied)
    \/ Confirm(e)
    \/ FreshHeader(e) \/ ChooseSlots(e) \/ RangeRaises(e)
    \/ \E acked, applied \in BOOLEAN : OneShot(e, acked, applied)
    \/ NothingToFallBackOn(e)

Begin(e) == \E edit \in Edits : BeginStream(e, edit) \/ BeginRange(e, edit)

Next ==
    \/ StartRead \/ StartRetry \/ Deliver("poll") \/ DeliverRetry
    \/ \E e \in Editors : Begin(e) \/ Edit(e)

Spec == Init /\ [][Next]_vars

-----------------------------------------------------------------------------
(* Properties *)

Written(e) == Only(J(e).plan)

\* e has just written its plan (a write that changes nothing is not looked at).
Writes(e) == device' # device /\ \E pc \in {"send", "oneshot"} : Busy(e, pc) /\ Only(job'[e]).pc # pc

\* The fields the caller of e left out are those of one of these headers.
Echoes(e, headers) ==
    \E h \in headers : \A f \in Fields \ DOMAIN J(e).edit.given : device'.header[f] = h[f]

\* Over all attempts and the fallback, a service that had a snapshot when it settled
\* its fields writes, for those the caller left out, the markers of one published
\* snapshot: never what only its own reads brought, and never a mixture of two
\* snapshots, however often it reads again and whatever is published in between
\* (_resolve_markers, #72).
PublishedEchoed ==
    [][\A e \in Editors :
         Writes(e) /\ IsStream(e) /\ J(e).known => Echoes(e, past.published)]_vars

\* Documented, and contradicted by the code (README, Findings):
\* A garbage frame is not echoed back as a write: the fields are those of a header the
\* device had (services.py, _resolve_markers: "last validated snapshot").  The polls
\* read with the same tests as the services, so one of theirs can be the garbage.
GarbageNotEchoed ==
    [][\A e \in Editors :
         Writes(e) /\ IsStream(e) /\ J(e).known => Echoes(e, past.headers)]_vars

\* A service loses another editor's slot only if its own read failed or the
\* other wrote between that read and its write.
LostSlotsNeedOverlap ==
    [][\A e \in Editors :
         Writes(e) /\ IsStream(e) =>
            \/ J(e).src # "fresh" \/ J(e).over
            \/ \A s \in Slots \ DOMAIN J(e).edit.patch : device'.slots[s] = device.slots[s]]_vars

\* A slider, the switch and the range service never make up slots once the
\* overrides were read: they write a vector the device had, whatever their own
\* reads and later polls return ("a transient E2E read failure cannot accidentally
\* wipe slots"; _async_update_data, "preserve the last-known-good overrides").
RangeNeverWipes ==
    [][\A e \in Editors :
         Writes(e) /\ ~IsStream(e) /\ J(e).known =>
            device'.slots \in past.slots]_vars

\* A reset that reports success without the fallback has seen the cleared
\* slots on the device, unless the read-back itself failed (_reset_one_device,
\* "a relay ACK that didn't actually clear state is caught").
ResetConfirmed ==
    \A e \in Editors : Busy(e, "done") /\ J(e).ok /\ J(e).edit.kind = "reset" /\ J(e).tries < MaxTries
                         => J(e).shown # "no"

\* Documented, and contradicted by the code (README, Findings):
\* "setting the range must not wipe slot overrides" (set_battery_range).
RangeKeepsSlots ==
    [][\A e \in Editors :
         Writes(e) /\ ~IsStream(e) => device'.slots = device.slots]_vars

=============================================================================
