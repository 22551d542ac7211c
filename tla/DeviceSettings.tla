--------------------------- MODULE DeviceSettings ---------------------------
(***************************************************************************)
(* The settings of one device that switches and sliders change: sell-back, *)
(* sell limit, manual selling, peak shaving (asked for by the realtime     *)
(* coordinator's poll every few cycles) and third-party PV (part of every  *)
(* power-flow frame).                                                      *)
(*                                                                         *)
(* A switch writes, waits, reads back and writes again until the device    *)
(* shows what was asked (_write_verified); a slider writes once.  Both run *)
(* on executor threads and publish on the event loop when they return.     *)
(* A setting that is asked for is read on the session's socket, where any  *)
(* late or pushed datagram of a fitting length passes for the answer.      *)
(* The poll reads the settings one by one into a dict of its own, between  *)
(* awaits, and publishes the dict at its end: what was published meanwhile *)
(* is replaced by what the poll had read before.                           *)
(***************************************************************************)
EXTENDS Naturals, Sequences, FiniteSets

CONSTANTS
    Callers,     \* threads, one call each
    Order,       \* the settings the poll asks for, in its order
    Framed,      \* the settings that come with the frames
    Amounts,     \* sell-back thresholds and selling targets, in kWh
    Calls,       \* the calls the callers may make
    Initial,     \* what the device may hold at first
    Strays,      \* what datagrams that pass for the answer of a setting are read as
    MaxPolls     \* _WRITE_VERIFY_MAX_POLLS, 20

Polled   == {Order[i] : i \in DOMAIN Order}
Settings == Polled \cup Framed
Setting  == [on : BOOLEAN, amount : Amounts]
Opt(S)   == {{}} \cup {{x} : x \in S}

\* Entities: a switch asks for a state, a slider for an amount.
Switches == [kind : {"switch"}, of : Settings, on : BOOLEAN, amount : {0}]
Sliders  == [kind : {"slider"}, of : {"limit", "selling"} \cap Settings, on : {FALSE},
             amount : Amounts \ {0}]

ASSUME SettingsAssumption ==
    /\ Len(Order) \in Nat \ {0} /\ DOMAIN Order = 1 .. Len(Order)
    /\ Polled \cap Framed = {} /\ {"limit", "selling"} \cap Framed = {}
    /\ Framed # {}
    /\ "device" \notin Callers
    /\ Amounts \subseteq Nat /\ {0, 1} \subseteq Amounts
    /\ Calls \subseteq Switches \cup Sliders
    /\ Initial \subseteq [Settings -> Setting] /\ Strays \in [Polled -> SUBSET Setting]
    /\ MaxPolls \in Nat \ {0}

VARIABLES
    device,     \* what the device has
    frame,      \* the framed settings in the last power-flow frame
    shown,      \* coordinator.data: what is known of every setting
    intended,   \* data["manual_selling_intended_target"]
    poll,       \* the poll under way
    job         \* the calls

settingsVars == <<device, frame, shown, intended, poll, job>>

Known == [on : Opt(BOOLEAN), amount : Opt(Amounts)]

\* got: the answer of the read under way; late: history, a target was staged
\* since the poll looked at the intended one.
Polls == [draft : [Settings -> Known], intended : Opt(Amounts), next : DOMAIN Order,
          got : Opt(Opt(Setting)), late : BOOLEAN, selling : BOOLEAN]

\* on, amount: what is written; last: the last state read back; own: history,
\* the device itself answered that read, and nothing else has changed the
\* setting since.
Jobs == [call : Calls, pc : {"write", "read", "publish", "done"}, on : BOOLEAN,
         amount : Amounts, polls : 0 .. MaxPolls, last : Opt(BOOLEAN), own : BOOLEAN]

SettingsTypeOK ==
    /\ device \in [Settings -> Setting]
    /\ frame \in [Framed -> BOOLEAN]
    /\ shown \in [Settings -> Known]
    /\ intended \in Opt(Amounts)
    /\ poll \subseteq Polls /\ Cardinality(poll) <= 1
    /\ DOMAIN job = Callers
    /\ \A c \in Callers : job[c] \subseteq Jobs /\ Cardinality(job[c]) <= 1

-----------------------------------------------------------------------------
(* Helpers *)

Only(S) == CHOOSE x \in S : TRUE
Or(opt, default) == IF opt = {} THEN default ELSE Only(opt)
AtLeastOne(n) == IF n = 0 THEN 1 ELSE n

Unknown == [on |-> {}, amount |-> {}]
Busy(c, pc) == job[c] # {} /\ Only(job[c]).pc = pc
J(c) == Only(job[c])
Set(c, j) == job' = [job EXCEPT ![c] = {j}]

NewJob(call, on, amount) ==
    [call |-> call, pc |-> "write", on |-> on, amount |-> amount, polls |-> 0, last |-> {},
     own |-> FALSE]
\* The call is over: nothing else is left of it.
Ended(j) == [NewJob(j.call, FALSE, 0) EXCEPT !.pc = "done"]

\* coordinator.data is there from the first poll on, and has the framed settings.
HasData == \E k \in Settings : shown[k] # Unknown

\* EmaldoSellLimitSwitch._current_threshold, EmaldoManualSellingSwitch._current_target
WrittenAmount(call) ==
    CASE call.kind = "slider" -> call.amount
      [] call.kind = "switch" /\ call.of = "limit" -> Or(shown["limit"].amount, 0)
      [] call.kind = "switch" /\ call.of = "selling" /\ call.on ->
            AtLeastOne(Or(intended, Or(shown["selling"].amount, 1)))
      [] OTHER -> 0

\* A slider repeats the state it is shown.
WrittenState(call) == IF call.kind = "slider" THEN Or(shown[call.of].on, FALSE) ELSE call.on

\* History: the device's setting k changed by another hand than c's.
Disturbed(jobs, k, c) ==
    [o \in Callers |->
        IF o # c /\ jobs[o] # {} /\ Only(jobs[o]).call.of = k /\ Only(jobs[o]).pc # "done"
        THEN {[Only(jobs[o]) EXCEPT !.own = FALSE]} ELSE jobs[o]]

\* Mutant: a read-back finds what is shown.
ReadBackShown(k) == IF k \in Framed THEN frame[k] ELSE Or(shown[k].on, FALSE)

\* What a read-back finds: the frame for the framed settings.
ReadBack(k) == IF k \in Framed THEN frame[k] ELSE device[k].on

-----------------------------------------------------------------------------
(* The device *)

SettingsInit ==
    /\ device \in Initial
    /\ frame = [k \in Framed |-> device[k].on]
    /\ shown = [k \in Settings |-> Unknown]
    /\ intended = {}
    /\ poll = {}
    /\ job = [c \in Callers |-> {}]

\* A power-flow frame arrives.
Frame ==
    /\ frame # [k \in Framed |-> device[k].on]
    /\ frame' = [k \in Framed |-> device[k].on]
    /\ UNCHANGED <<device, shown, intended, poll, job>>

\* The target is sold: the device stops selling by itself.
SellingEnds ==
    /\ "selling" \in Settings /\ device["selling"].on
    /\ device' = [device EXCEPT !["selling"].on = FALSE]
    /\ job' = Disturbed(job, "selling", "device")
    /\ UNCHANGED <<frame, shown, intended, poll>>

-----------------------------------------------------------------------------
(* Switches and sliders *)

\* async_turn_on, async_turn_off, async_set_native_value up to the executor.
Begin(c, call) ==
    /\ job[c] = {}
    /\ ~(call.kind = "slider" /\ call.of = "selling" /\ ~WrittenState(call))
    /\ Set(c, NewJob(call, WrittenState(call), WrittenAmount(call)))
    /\ UNCHANGED <<device, frame, shown, intended, poll>>

\* The staged or written target is shown, and intended.
Target(amount) ==
    /\ shown' = [shown EXCEPT !["selling"].amount = {amount}]
    /\ intended' = {amount}
    /\ poll' = {[p EXCEPT !.late = TRUE] : p \in poll}

\* A target for a device that is not selling is only staged (#42).
StageTarget(c, call) ==
    /\ job[c] = {}
    /\ call.kind = "slider" /\ call.of = "selling" /\ ~WrittenState(call)
    /\ IF HasData THEN Target(call.amount) ELSE UNCHANGED <<shown, intended, poll>>
    /\ Set(c, Ended(NewJob(call, FALSE, call.amount)))
    /\ UNCHANGED <<device, frame>>

\* One write; the command or its effect may be lost.
Write(c, applied) ==
    LET j == J(c)
        k == j.call.of
    IN
    /\ Busy(c, "write")
    /\ device' = IF applied THEN [device EXCEPT ![k] = [on |-> j.on, amount |-> j.amount]]
                 ELSE device
    /\ job' = [(IF applied THEN Disturbed(job, k, c) ELSE job) EXCEPT ![c] =
                 {[j EXCEPT !.pc = IF j.call.kind = "switch" THEN "read" ELSE "publish"]}]
    /\ UNCHANGED <<frame, shown, intended, poll>>

\* The read-back shows what was asked, or the polls are used up.
Confirmed(j) == j.last = {j.call.on} \/ j.polls = MaxPolls

\* A read-back finds no answer, and the last one stands; or the setting's own;
\* or, on the session's socket, some other datagram that passes for it.
Answered(j) ==
    {j, [j EXCEPT !.last = {ReadBack(j.call.of)}, !.own = TRUE]}
    \cup {[j EXCEPT !.last = {stray.on}, !.own = FALSE] :
              stray \in IF j.call.of \in Polled THEN Strays[j.call.of] ELSE {}}

\* The read-back a second later.
ReadBackState(c) ==
    /\ Busy(c, "read")
    /\ \E j \in Answered([J(c) EXCEPT !.polls = @ + 1]) :
         Set(c, [j EXCEPT !.pc = IF Confirmed(j) THEN "publish" ELSE "write"])
    /\ UNCHANGED <<device, frame, shown, intended, poll>>

\* The login, the session or the read raises: the call fails, nothing is
\* published; a command that was sent may have arrived.
Raise(c, applied) ==
    LET j == J(c) IN
    /\ Busy(c, "write") \/ Busy(c, "read")
    /\ applied => j.pc = "write"
    /\ device' = IF applied THEN [device EXCEPT ![j.call.of] = [on |-> j.on, amount |-> j.amount]]
                 ELSE device
    /\ job' = [(IF applied THEN Disturbed(job, j.call.of, c) ELSE job) EXCEPT ![c] =
                 {Ended(j)}]
    /\ UNCHANGED <<frame, shown, intended, poll>>

\* A switch shows the state it read back, a slider the amount it wrote; before
\* the first poll there is nothing to show it in.
Publish(c) ==
    LET j == J(c)
        k == j.call.of
    IN
    /\ Busy(c, "publish")
    /\ Set(c, Ended(j))
    /\ CASE ~HasData -> UNCHANGED <<shown, intended, poll>>
         [] HasData /\ j.call.kind = "slider" /\ k = "selling" -> Target(j.amount)
         [] HasData /\ j.call.kind = "slider" /\ k = "limit" ->
              /\ shown' = [shown EXCEPT ![k].amount = {j.amount}]
              /\ UNCHANGED <<intended, poll>>
         [] HasData /\ j.call.kind = "switch" ->
              /\ shown' = IF j.last = {} THEN shown ELSE [shown EXCEPT ![k].on = j.last]
              /\ UNCHANGED <<intended, poll>>
    /\ UNCHANGED <<device, frame>>

-----------------------------------------------------------------------------
(* The poll of the realtime coordinator, _async_update_data *)

\* The power-flow reading becomes the new dict.
PollFrame ==
    /\ poll = {}
    /\ poll' = {[draft |-> [k \in Settings |-> IF k \in Framed THEN [on |-> {frame[k]}, amount |-> {}]
                                               ELSE Unknown],
                 intended |-> {}, next |-> 1, got |-> {}, late |-> FALSE, selling |-> FALSE]}
    /\ UNCHANGED <<device, frame, shown, intended, job>>

\* No settings are asked for on this cycle: the last ones are copied.
PollPlain ==
    /\ \E p \in poll :
         /\ p.next = 1 /\ p.got = {}
         /\ shown' = [k \in Settings |-> IF k \in Framed THEN p.draft[k] ELSE shown[k]]
    /\ poll' = {}
    /\ UNCHANGED <<device, frame, intended, job>>

\* One setting is asked for: no answer, the device's, or any other datagram that
\* passes for it.
PollRead(answer) ==
    /\ \E p \in poll :
         /\ p.got = {}
         /\ answer \in {{}, {device[Order[p.next]]}} \cup {{stray} : stray \in Strays[Order[p.next]]}
         /\ poll' = {[p EXCEPT !.got = {answer}]}
    /\ UNCHANGED <<device, frame, shown, intended, job>>

\* Mutant: a failed read leaves the setting out.
KeptRead(k, answer) ==
    IF answer = {} THEN Unknown ELSE [on |-> {Only(answer).on}, amount |-> {Only(answer).amount}]

\* The answer, or what is shown when there is none.
Kept(k, answer) ==
    IF answer = {} THEN shown[k]
    ELSE [on |-> {Only(answer).on}, amount |-> {Only(answer).amount}]

\* Mutant: the target is dropped by every good read.
KeptNoTarget(answer) == IF answer = {} THEN intended ELSE {}

\* A target stays intended until the device is seen selling (#42).
KeptTarget(answer) ==
    IF answer = {} \/ ~Only(answer).on THEN intended ELSE {}

\* The answer goes into the dict; after the last one the dict is published.
PollKeep ==
    /\ \E p \in poll :
         /\ p.got # {}
         /\ LET k == Order[p.next]
                answer == Only(p.got)
                draft == [p.draft EXCEPT ![k] = Kept(k, answer)]
                target == IF k = "selling" THEN KeptTarget(answer) ELSE p.intended
            IN IF p.next = Len(Order)
               THEN /\ shown' = draft /\ intended' = target
                    /\ poll' = {}
               ELSE /\ poll' = {[p EXCEPT !.draft = draft, !.intended = target, !.next = @ + 1,
                                          !.got = {},
                                          !.late = IF k = "selling" THEN FALSE ELSE @,
                                          !.selling = @ \/ (k = "selling" /\ answer # {}
                                                             /\ Only(answer).on)]}
                    /\ UNCHANGED <<shown, intended>>
    /\ UNCHANGED <<device, frame, job>>

-----------------------------------------------------------------------------

SettingsPoll ==
    \/ PollFrame \/ PollPlain \/ PollKeep
    \/ \E answer \in Opt(Setting) : PollRead(answer)

Call(c) ==
    \/ \E applied \in BOOLEAN : Write(c, applied) \/ Raise(c, applied)
    \/ ReadBackState(c)
    \/ Publish(c)

SettingsNext ==
    \/ Frame \/ SellingEnds \/ SettingsPoll
    \/ \E c \in Callers :
         \/ \E call \in Calls : Begin(c, call) \/ StageTarget(c, call)
         \/ Call(c)

SettingsSpec == SettingsInit /\ [][SettingsNext]_settingsVars

-----------------------------------------------------------------------------
(* Properties *)

\* Call c reports the asked state of a setting the poll asks for.
Reports(c) ==
    /\ Busy(c, "publish")
    /\ J(c).call.kind = "switch" /\ J(c).call.of \in Polled
    /\ J(c).last = {J(c).call.on}

\* A switch that reports the asked state from the device's own answer has it on
\* the device when it reports, whatever was lost before and whoever wrote until
\* then, unless something else changed the setting after that answer
\* (_write_verified).
ConfirmedHolds ==
    \A c \in Callers : Reports(c) /\ J(c).own => device[J(c).call.of].on = J(c).call.on

\* Documented, and contradicted by the code (README, Findings): the read-back is
\* "a direct device query returning authoritative current state"
\* (_read_virtualpowerplant): with no other call about it, a setting that a
\* switch reports is so, when the device does not change it by itself.
ReadBackAuthoritative ==
    \A c \in Callers :
        /\ Reports(c) /\ J(c).call.of # "selling"
        /\ \A o \in Callers \ {c} : job[o] = {}
        => device[J(c).call.of].on = J(c).call.on

\* A setting that no call is about is not known any more.
Forgotten ==
    \E k \in Settings :
        /\ shown[k].on # {} /\ shown'[k].on = {}
        /\ \A o \in Callers : job[o] # {} => J(o).call.of # k

\* A setting that polls have shown stays shown, whatever reads fail
\* (_async_update_data, "their sensors would flicker to unknown"); only one that
\* a call has shown before the first answer to a poll may vanish again.
KnownStaysKnown == [][~Forgotten]_settingsVars

\* A staged target is lost only to a poll that was told the device sells, or that
\* had looked for a target before this one was staged.
TargetLostOnlyLate ==
    [][intended # {} /\ intended' = {} =>
         \E p \in poll : p.late \/ p.selling
                         \/ (Order[p.next] = "selling" /\ p.got # {{}} /\ Only(Only(p.got)).on)]_settingsVars

\* Documented, and contradicted by the code (README, Findings):
\* "Polling must never overwrite it ... before a selling session actually
\* starts" (_async_update_data, #42): a staged target stays while the device
\* does not sell.
TargetKept ==
    [][intended # {} /\ ~device["selling"].on /\ (\A p \in poll : ~p.selling) => intended' # {}]_settingsVars

=============================================================================
