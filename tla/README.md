# A TLA+ model of ha-emaldo

This directory models the Emaldo integration for Home Assistant
(`custom_components/emaldo`) in TLA+. TLC checks the models on small instances;
TLAPS proves the theorems for every value of the constants. Paths and line
numbers below are relative to `custom_components/emaldo`.

- [The system](#the-system): components, state, interactions, what is hard
- [Modules](#modules): what models what, and how state and actions correspond
- [Runs](#runs): what is checked, bounds, fairness
- [Proofs](#proofs)
- [Findings](#findings)
- [Not modelled, and plan](#not-modelled-and-plan)

## The system

The integration talks to batteries over two channels: a REST cloud API
(`emaldo_lib/client.py`) and an encrypted UDP relay, "E2E"
(`emaldo_lib/e2e.py`). Three facts about them shape the design:

- `/bmt/e2e-user-login/` gives *one device* a new `chat_secret`, and
  `/home/e2e-login/` gives *the whole account* a new home `end_secret`. Every
  older copy is dead from then on, and the relay answers its user with 21204.
- The relay answers 21204 also to subscribes that are too close together, and to
  handshakes right after an expiry. A careless reaction to 21204 causes the next
  one: a *reconnect storm*.
- A datagram does not say which request it answers, and a command's
  acknowledgement does not say that it was carried out. So everything is read
  back, retried and recognised by its shape.

| component | state | operations | interacts with | module |
|---|---|---|---|---|
| Credential cache and logins (`client.py` 1052-1485) | credential entries with generation and stamp, cached home login, rotation latches, `_e2e_lock`, one lock per home | `get_e2e_credentials`, `e2e_login`, `_get_home_e2e`, `invalidate_e2e_session`, rotation callbacks | every E2E user; the storm holder; the cloud | `CredentialCache`, `HomeSecret` |
| Storm holder (`storm_state.py`) | per home: rotation latch, forced-refresh history, reconnect streak, ever-decrypted, ladder of stall resets | notes and queries | cache, sessions, coordinator | with its users |
| Stream session (`e2e.py` 3848-6130) | socket, credentials, nonce, frame cache, clocks, reconnect flags, backoff | stream thread, poll-mode methods, commands, `rekey_home`, `close` | relay, provider (= credential cache), coordinator | `StreamSession`, `Exchange` |
| One-shot functions and codecs (`e2e.py` 880-3840, `crypto.py`) | a socket for one call | some thirty functions: handshake, requests, recognition of answers | relay, device | `Exchange`, `RequestReply` |
| Realtime coordinator (`coordinator.py` 901-3844) | the session, failure counters, fallback latch, keepalive loop | 10 s update, resets, probe, keepalive | session, cache, holder | `RealtimePoll`, `HomeSecret` |
| Device settings (the same, `switch.py`, `number.py`) | optimistic and polled settings, the intended sale | verified writes, slow polls | device, entities | `DeviceSettings` |
| Battery and accessory scans (the same, `sensor.py`) | slot map and its file | scans, sensors per slot and cabinet | device, store | `BatteryScan` |
| Power coordinator, emergency charge (94-898) | REST data, the armed window and its file | on, off, load, save, poll | session, client, store | `EmergencyCharge` |
| Schedule coordinator (`schedule_coordinator.py`) | schedule, overrides, two retry counters, four timers | poll, retries, options, shutdown | client, timers | `ScheduleRetry` |
| Overrides (`client.py` 1487-1686, `services.py`, sliders) | the slots and the header on the device | read-modify-write | cache, relay, schedule coordinator | `OverrideEdit` |
| Shared REST client (`shared_client.py`), entry setup, primaries, services, unique ids, config flow | client per account with a count; primaries and holders of a home; services; schemes of ids | acquire, release; setup, unload, migrate, add, reconfigure | all | `EntryLifecycle` |
| REST operations, other sensors, forms | presentation or pure I/O | | | none |

Concurrency: Home Assistant's event loop runs the coordinators, its executor
pool runs the blocking client calls, and every stream session has a thread of its
own. Locks: `_e2e_lock` (re-entrant, one per client), one home lock per home, one
lock per session, one per device for read-modify-write, one per shared client.

What makes each component correct:

- *Cache*: the cached secret is the server's; rotations of the shared secret are
  as rare as promised; failures leave no lock and no lie behind; no lock cycle.
- *Stream session*: it always recovers or hands over; what it sends the relay
  keeps the relay's spacing, its backoff escalates and is kept, rebuilds of one
  stall are bounded; it does not punish an idle relay; closed means closed.
- *Exchanges*: an answer is the one to the request, or none; each function ends;
  readings are not older than the request; commands are not acknowledged by
  what answers something else.
- *Realtime coordinator*: it reports failure when there is no data, resets a
  stalled session once per ladder rung, gives the session up only after
  repeated resets, and never sits silence out.
- *Settings and overrides*: a write that reports success has happened; no
  concurrent writer, failed read or odd frame makes another one's value vanish.
- *Scans*: every module is found, and shown in the slot it is in.
- *Emergency charge*: the window sent is the next one; shown and stored windows
  agree with what the device took, across restarts.
- *Schedule*: every timer can be cancelled, and none is left after shutdown.
- *Lifecycle*: the shared client lives as long as its users, the holder of a home
  as long as its entries.

The hazards, each at the line where it bites, are listed in `PROJECT.json`.

## Modules

Each component has a module, and an `MC...` module with the values of its
constants where a configuration cannot give them.

| module | models | proofs |
|---|---|---|
| `CredentialCache` | the cache, both locks, the cloud logins and the rotation guards | `CredentialCacheProofs` |
| `StreamSession` | the stream thread of the sessions of a home, `close`, the shared holder | `StreamSessionProofs` |
| `HomeSecret` | the copies of the home's secret: cache, published value, sessions, rotation callbacks | `HomeSecretProofs` |
| `RealtimePoll` | the coordinator's update loop and its keepalive loop | `RealtimePollProofs` |
| `Exchange` | the functions of one UDP socket; implements `RequestReply` | `ExchangeProofs` |
| `RequestReply` | abstract: requests settled in order | |
| `OverrideEdit` | all editors of the day's slots and battery range | `ScheduleProofs` |
| `DeviceSettings` | switches and sliders beside the poll | `RealtimePollProofs` |
| `EmergencyCharge` | the window of emergency charge through calls and restarts | `EmergencyChargeProofs` |
| `ScheduleRetry` | the timers of the schedule coordinator | `ScheduleProofs` |
| `EntryLifecycle` | entries, shared client, primary, holder, unique ids, services | `EntryLifecycleProofs` |
| `BatteryScan` | slot scans, their map and file, cabinets | `RealtimePollProofs` |

Conventions. Blocking code that runs under a lock in one go is one action; it is
split where a lock is given back, at an `await`, or at an exchange with device or
cloud. What device, relay and cloud answer is a choice of the environment.
Time is a small clock, a saturated age, or left to the order of events. `Opt(S)`
and `AtMostOne(S)` are "at most one of S", for the code's `None`. Variables
commented "history" are not in the code; no guard or other variable depends on
them. A definition commented "Mutant" is a plausible bug of the one below it and
is used by no specification.

### CredentialCache

A thread is in a call of `get_e2e_credentials` (`Call`) or, if it is one of
`Direct`, of `e2e_login` itself (`CallDirect`), which two services and some
twenty client methods do. `pc` walks through the code at its lock operations and
cloud calls:

| action | code (`client.py`) |
|---|---|
| `Serve`, `Hold`, `Refresh` | the branches of `_get_e2e_credentials` once `_e2e_lock` is taken: hand out, hold a forced refresh inside the 90 s interval, decide on escalation and latch |
| `HomeFast`, `HomeAcquire`, `HomeCheck` | the two looks of `_get_home_e2e` at the cached home login and the home lock between them |
| `HomeCall`, `HomeCallFails`, `HomeStore` | `/home/e2e-login/`, its failure before or after the server rotated, the store |
| `DevLogin`, `DevLoginFails` | `/bmt/e2e-user-login/`, likewise |
| `Finish`, `SearchFails` | `/bmt/search-bmt/`, then the entry is stored, or the exception leaves everything as it is |
| `Invalidate` | `invalidate_e2e_session` |

`eLock` is held from `Refresh` to the end of the call, through every cloud call,
as in the code; a direct caller takes it only around its looks at the home cache.
A secret is represented by whether it is the server's newest (`devLive`,
`homeLive`): a login makes every other copy dead in the same step. The code's
habit of reading `now` *before* it waits for the lock is kept (`req[t].now`). The
holder's history of forced refreshes saturates at the threshold per instant,
because only "at least 3" is read. `longestWait` and `unclaimed` are history; the
latter has the devices whose newest `chat_secret` nobody stores: a direct login's,
which never is, and that of a login that failed after the server had rotated.
The rotation latches of client and holder are written together and always agree
within one client; they are one variable.

### StreamSession

One record per session object, one holder for the home.

| action | code (`e2e.py`) |
|---|---|
| `Start` | `connect` and `start_stream` of a new object, seeded from the holder |
| `Iterate` | one iteration of `_stream_loop` without a pending reconnect: watchdog, subscribe, keepalive, drain, in this order, as functions of the record |
| `Schedule`, `Attempt` | `_stream_reconnect_locked`: set the backoff deadline; later clear it and begin |
| `RefreshEnds` | the provider's answer or failure in `_refresh_creds_locked`, for which the session lock was given back |
| `HandshakeOk`, `HandshakeRejected`, `HandshakeRaises` | the outcomes of `_reconnect`, first and second try |
| `LoopEnds` | the thread leaves its loop |
| `Stop`, `CloseLocked` | `close()`: the stop event before the lock, the rest under it; `frameless` stands for the coordinator's `note_frameless_reset` before a stall reset |
| `Tick` | time |

The session lock is only observable where it is given back (`refresh1`,
`refresh2`) and while a handshake blocks (`shake1`, `shake2`). An object that has
been closed and whose thread has ended is reused for the next new one. Timestamps
are ages saturated at `Horizon`, which is larger than every interval they are
compared with, so saturation changes no comparison. `_stream_reconnect_streak` is
only read to compute `min(2 * 2**streak, 30)`, so the model keeps that pause.
The provider is always present, as the coordinator installs it; any iteration may
fail to send a keepalive; the several devices of a shared frame cache are one.

### HomeSecret

Where `CredentialCache` asks which secret is the newest and `StreamSession` when a
provider is called, this module composes the two by what they pass on: numbered
secrets, the copies of them, and who overwrites which.

| action | code |
|---|---|
| `Rebuild`, `Create`, `Use` | calls of `get_e2e_credentials`: by a session's provider, by `_ensure_session`, by all that needs no session |
| `Serve`, `LoginCached`, `LoginRotates`, `DeviceLogin` | the branches of the call, the home's login with its rotation, the device's |
| `Rekey` | the callback of one session, which waits for its lock (`rekey_home`) |
| `Raises`, `StartsOver` | a failing cloud call; the provider's second attempt with a new client |
| `Publish` | `_home_secrets` written by the primary and read by the secondaries |
| `Adopt`, `Shake`, `Connect` | the session takes the answer; its handshake; a new session with its callback |
| `Close`, `Reset`, `Expire` | a session is dropped and unregistered; the client is replaced; the home's TTL passes |

Clients that were replaced go on serving the calls and callbacks they have. The
two modules above keep what is left out here: the storm guard (a forced refresh may
be held at any time), several logins at once, the stream's reasons to rebuild.

### RealtimePoll

One `Poll...` action for each way through `_async_update_data`: login expired,
exception, silence (stream mode: `StreamEmpty`, `StreamReset`; poll mode:
`PollEmpty`, `PollDefers`, `PollProbes`), rejected reading, data. The final probe
before a teardown is awaited, so it is a state of its own (`at = "probe"`) that
`ProbeAnswered`, `ProbeFailed` and `ProbeFailedReset` leave. `c` holds every
counter the code raises, clears and compares; each action changes those its branch
changes, in the code's order. Beside the loop run the keepalive loop, other
sessions of the home (`HolderMoves`), and an override write that drops the
session (`OverrideFails`). Time is counted in polls; the ladder is in polls too.
Both modes and both roles (primary, secondary) are initial states.

### Exchange and RequestReply

Some thirty one-shot functions and the poll-mode methods of a session differ in
data only: the packets of their handshake, their requests, how many datagrams they
take for an answer, and whether they clear the buffer before, renew an expired
session, or give up on a silent handshake. They are records (`OneShot`, `Session`)
that the same actions run: `Send`, `TakeShake` (one datagram, whatever it is, for
each packet of the handshake), `TakeAnswer`, `TakeOther`, `TakeExpired`,
`TakeRenewing`, `Silent`. The network delivers what was answered in any order, late
or never (`Arrive`), and the relay adds frames of its own (`Push`). `Answers` are
the `is_...` tests of the source on length and first bytes.

`RequestReply` says what callers rely on: each request is settled once, in order,
with an answer of its kind or with none. `Exchange` is shown to implement it under
`Abstract == INSTANCE RequestReply WITH ...`. For requests whose tests are too weak
to tell the answer from other frames (`Recognised`), any datagram is promised: that
is what the code promises, and the findings name the consequences.

### OverrideEdit

The device takes slots and header (battery markers, range flag) in one write, so
each editor keeps what it does not edit. The three services (`BeginStream`,
`Attempt...`, `Stream...`, `Confirm`, `OneShot`) try, read back and fall back; the
sliders, the switch and `set_battery_range` (`BeginRange`, `FreshHeader`,
`ChooseSlots`, `OneShot`) write once. What they keep comes from a read or from
`snapshot`, which the polls and retries of the schedule coordinator replace
(`Fetch`, `Publishes`). One exchange is one step, since that is all the device lock
or session lock covers. Reads can fail, or return a frame that parses with wrong
markers (`Noise`), whoever reads: services and coordinator use the same
`get_overrides`. Writes can be lost, ignored, or applied without an acknowledgement.

### DeviceSettings

`_write_verified` writes, waits and reads back until the device shows what was
asked (`Write`, `ReadBackState`, `Raise`, `Publish`); sliders write once or stage a
target (`StageTarget`). The poll builds a dict of its own over several awaits
(`PollFrame`, `PollRead`, `PollKeep`) and publishes it at its end over whatever was
published meanwhile. Third-party PV is read back from the last pushed frame. The
others are asked for on the session's socket, which is not cleared before: a read
returns nothing, the device's answer, or what another datagram that passes for it is
read as (`Strays`). `own` is history: the read-back a call goes by was the device's
answer, and the setting has not changed since.

### EmergencyCharge

A call of the switch tries the stream, then the legacy command, assigns the three
fields one by one on its executor thread, then saves and publishes on the loop;
each of these is a step, and calls overlap. The first poll loads the file, or fails
to. `Restart` forgets everything but the file, between any two steps. `acked` is
history: the hull of the windows the device acknowledged.

### ScheduleRetry

A timer is known by its handle only. `Cancel`, `SetTimer`, `Rearmed` and `NoTimers` take
the pair of live timers and handles through the code's order; `Fires` removes the
timer while the callback may keep the handle. Fetches (`Fails`, `Succeeds`,
`RetriedOverrides`) run in threads and end after options were changed or the
shutdown was done.

### EntryLifecycle

The stages of `entry` are cut at the awaits of `async_setup_entry` and
`async_unload_entry`; entries are at different stages side by side. The shared
client's objects have identities, so that two for the same credentials, or one that
was closed under a user, can be told. `Reconfigure` changes an entry's data before
the reload that follows. `Restart` keeps entries and registry only.

### BatteryScan

A scan has what is left to ask, tier by tier; a probe (`ProbeSlot`) receives nothing, a
short frame, an acknowledgement, the slot's reply, or a late one of an earlier slot.
`Land` merges what was found and saves it, or fails to; `Reload` loads the file;
`Change` moves modules. `ScanAccessories` decides which cabinets get a water sensor.
That the index in a reply is the slot it was asked with is an assumption about the
modules, taken from how the code files them (`scan_index`); the documents disagree on
the order of these bytes, and a reply cut short is filed under 0
([Findings](#findings)). History: the slots of a full scan that were silent (`quiet`),
those whose module's own reply did not come in time (`missed`), and which modules the
scan could miss for one of these reasons (`excused`).

## Runs

Times are seconds to a few minutes with two workers. Small integers stand for the
intervals, kept in the order of the real ones wherever the code compares them.

| run | properties | instance |
|---|---|---|
| `cred_cached` | `EscalationNeedsLongWait`, `LockReleased` | 2 cached threads, 1 device, 4 instants, fairness |
| `cred_direct` | `CacheFollowsServer`, `CycleNeedsDirect`, `HomeRotationSpaced`, `EscalationSpaced` | 2 cached threads and a direct one, no holder, 4 instants |
| `stream_guards` | `QuotaHolds`, `ColdStartUnpunished`, `SubscribeSpaced`, `BackoffHolds`, `PendingReconnectRuns`, `SilenceIsActedOn` | 1 session, quota 2, backoff 1-2-3, fairness |
| `home_secret` | `RekeyReachesAll`, `PrimaryHeals` | a primary and a secondary, 2 secrets, 2 clients, fairness |
| `realtime_poll` | `FailureSurfacesInStream`, `FallbackEarned`, `ResetsSpaced`, `SilenceEscalates` | tolerances of 2, ladder of 3 and 4 polls, history of 5, fairness |
| `exchange` | `FlowFresh`, `StrictReal`, `KeepsPromise` (the refinement, with its liveness) | each one-shot function alone; any two session methods in a row; 1 pushed frame, 2 datagrams in the buffer, drain of 2 |
| `override_edit` | `ResetConfirmed`, `PublishedEchoed`, `LostSlotsNeedOverlap`, `RangeNeverWipes` | 2 editors (a slot, a full reset, a slider), 2 slots, 2 attempts, 2 reads of the coordinator, one odd frame |
| `settings` | `ConfirmedHolds`, `KnownStaysKnown`, `TargetLostOnlyLate` | 2 calls, 3 polled settings and a framed one, 2 read-backs, a stray datagram for manual selling |
| `emergency` | `NextWindow`, `RestartKeeps`, `ShownInWindow` | 2 overlapping calls, a day of 2 hours, 3 instants, 2 settings |
| `schedule` | `NoOrphan`, `ShutdownFinal`, `RetriesUntilSuccess` | 2 failures in a row, 2 live timers of a kind, fairness |
| `entry` | `RefsExact`, `OneHolder`, `ClosedByLast` | 2 entries, 2 cabinets and a module without id, 2 passwords, 3 changes |
| `battery` | `ModuleInPlace`, `LeftOutForSilence`, `CabinetProven` | 2 modules, tiers of 3 and 2 slots, 1 change |

Why the bounds are enough.

- *Actors.* Two are what it takes for a lost update, a lock cycle, a stale value or
  an overtaken write, and the properties speak of an actor and "another". The direct
  thread of `cred_direct` comes on top of two cached ones: it logs in between their
  logins, closes the cycle of the locks, or is the second in the queue on the home
  lock. Sessions of
  one home influence each other through the holder only, and all a session takes
  from it are its values at `Start`; the proofs hold for any number of sessions.
- *Counters and clocks.* Each threshold is reached and passed, and is small enough
  that a count can be cleared and reached again: a quota of 2 has a first, a last and
  one rebuild too many; three backoff steps have a base, a doubling and the ceiling;
  a tolerance of 2 has a forgiven and a counted failure; the ladder has two rungs, and
  `MaxHistory` lies above what any property compares. The clocks pass each TTL,
  midnight and the ends of windows.
- *Data.* One slot to lose and one to edit; one header field to give and one to keep;
  a tier in which slot 2 is alone, and a second cabinet. The third attempt, slot or
  setting repeats the second.
- *Secrets.* Two are a live and a dead one. A home login that is itself stale when
  it is used, and is replaced after its TTL, needs a third: outside the runs,
  `RekeyReachesAll` also holds with `MaxSecret = 3`, and both properties with
  `Devices = {p}`, `Others = {u}` and `MaxSecret = 4`. The last rotation is left to
  the client in use, or nothing could heal at the bound.
- *Datagrams.* `MaxBox` 2 with a drain of 2 lets a stale and a fresh frame be in the
  buffer and a reader run past both. Identical datagrams in flight count once.
- *Stray datagrams.* One setting that any datagram may answer is enough for
  `ConfirmedHolds`, which is about a call and the answers to its own setting; the
  proof has any strays for any setting. Two reads of the coordinator are an odd frame
  and a true one, in either order, or one that ends before an edit and one within it.
- *Bounded away.* `MaxOps`, `MaxChanges`, `MaxReads`, `MaxRefs`, `MaxLive` and `MaxRetry` end
  counters that the program does not bound; they are in guards, named, and each is
  above what the property needs. `NoOrphan` says that one live timer of a kind is
  never passed, so `MaxLive` 2 hides nothing.

Deadlock is checked except in four runs where the system may really stop:
`cred_direct`, whose direct caller can deadlock with a cached one
([Findings](#findings)); `schedule`, after the unload; `exchange`, when a function's
socket is closed; `override_edit`, when all edits are over and `MaxReads` is reached. A storm holder
makes the escalation dormant (that is `EscalationNeedsLongWait`), so
`EscalationSpaced` is checked without one.

Fairness. `CredentialCache!FairSpec`: a thread that can run does run, and a cloud
call ends (the client passes timeouts); nobody has to call. `StreamSession!FairSpec`:
the thread is scheduled, the provider and the handshake end (both have timeouts)
and time passes; no frame, success, stop or close is assumed.
`HomeSecret!FairSpec`: a thread is not kept out of a lock for ever (Python's locks
promise no order, but every holder of one ends), the home's TTL passes, the relay
rejects a dead secret each time, so that the stream asks again, and one who asks
again and again is neither held off (the guard's 90 s end) nor failed by the cloud
for ever.
`RealtimePoll!FairSpec`: Home Assistant polls, and a probe ends; no answer is
assumed. `ScheduleRetry!FairSpec`: fetches end and retry timers fire; the interval
and a user need not. `Exchange!FairSpec`: a receive returns or times out; no
datagram has to arrive. The other modules state safety only.

Each property of a passing run has a mutant: a plausible bug of a modelled
definition, defined beside it in the module, that TLC finds to violate the
property under the same configuration.

## Proofs

Every safety property of every run is a theorem, for all values of the constants,
and so is the type invariant of every module but `RequestReply`, which only says what
`Exchange` promises. An inductive invariant was first checked by TLC on the instance of
the run. The only assumptions are those on the constants that each module names.

Components that share a coordinator share a proof module, which extends all of them:
`ScheduleProofs` is about the overrides and about the timers of the schedule
coordinator, `RealtimePollProofs` about the realtime coordinator's loop and about the
settings and the battery scan of the same update. They share no state, and nothing is
proved of one from another. Therefore `ScheduleRetry`, `DeviceSettings` and `BatteryScan`
call their specifications `TimersSpec`, `SettingsSpec` and `ScanSpec`.

### CredentialCacheProofs

`TypeCorrect`, `LockOrder`, `HomeSpacing`, `EscalationDormant`, `EscalationsAreSpaced`,
`CacheFollows`.

- `LockOrder` and `CacheFollows` hold for any direct callers. The invariant behind
  both is that a cached thread past `enter` is the owner of `_e2e_lock` (`LockInv`), so
  there is at most one. In a cycle the owner waits for the home lock, so whoever has
  that lock is a direct caller; and between a cached login and its store no other
  cached one can log in, so a direct one is all that can come after it.
- `HomeSpacing` needs that the owner of the home lock is the only thread between
  its second look and its store (`HomeInv`), so what it saw is still there.
- `EscalationDormant`: every entry of the forced-refresh history is at most the
  latch plus the longest wait for the lock (`NotedByLatch`). An escalation needs
  an entry younger than the window and a latch older than the interval; both
  hold only after a wait longer than the difference, 30 s in the code.

- `EscalationsAreSpaced` (with or without a holder): while a login escalates, its
  stamp is a home TTL past the last escalation that succeeded (`SpacedInv`). It keeps
  `_e2e_lock` from that decision to its end, so no other escalation can finish in
  between; a direct caller never escalates.

The assumptions are the types of the constants and `EscalationWindow <= DeviceTTL`.

### StreamSessionProofs

`Inv`, proved inductive (`Invariance`), is a conjunction per session, and each of
the five results reads one part:

- `EpisodeInv`: a pending `long_stall` was flagged with quota left, and the reason
  cannot change while it is pending (`QuotaInvariant`).
- `CauseInv`: the gate is armed only on a stream that has decrypted, and
  credentials are wanted, or forced, only by such a stream or with a cause
  (`ColdStart`).
- `sub <= sent`: the recorded time of the last subscribe is never older than the
  wire's, since a rebuild may only move it forward (`SubscribeSpacing`).
- `BackoffInv`: the pause of the streak is at least the pause owed, and while a
  deadline is set, the time since the last attempt and the time still to wait
  make up what is owed; a frame not yet accounted for owes nothing
  (`BackoffSpacing`).

`TypeCorrect` includes that the backoff stays below its ceiling. The assumptions:
a positive quota and base, base not above the ceiling, `Horizon` above the
intervals.

### HomeSecretProofs

`RotationsReachAll` (`RekeyReachesAll`) and `TypeCorrect`, for any devices and threads,
any number of rotations and of clients. The property speaks of the moments when no callback is left to run, so the
invariant has to say what happens in between. `Exclusive`: one call at a time is past
the home's login of a client, because `_e2e_lock` is held until the device's
login is done; without it two rotations could be delivered at once and out of order.
`Delivering`: callbacks that are left carry the secret their client has by then, to
sessions it has registered. `Registered`: a registered session is open and with one
client only, so a rotation of a client that was dropped by a reset disturbs no session
of the next one. Most actions change neither a client's home nor a session, and one
lemma (`CallMoves`) serves them all; the rotation, a callback, a rebuild's answer, a
registration, a close and a reset each have their own.

### RealtimePollProofs

`FallbackIsEarned`, `ResetsAreSpaced`, `FailureIsSeen`, `TypeCorrect`, for any
tolerances, any ladder and any bound of the history. The invariant relates the
counters of the code to the history, one part per result:

- `Earned`: the full resets counted towards the fallback all came since the last
  data, and stay below the limit until the fallback. Without the second half the
  counter would not even stay within its type.
- `Tallied` and `Seeded`: the count of empty reads is at most the polls since the
  last full reset, one more while the final probe is awaited; in stream mode an open
  session, or one given up, means that the holder was asked for, so the rung that is
  compared is the home's and not the first.
- `Potential`: before the first data, the polls reported as a success in a row are at
  most `errors * MaxEmpty + empty + 1`. An error ends a run of empty reads and is
  itself never forgotten; the one more is the update of a stream reset, which clears
  the empty reads before `_keep_last_or_fail` looks at them. Where neither count has
  reached the tolerance, this is at most its square (`SquareBound`); where one has,
  the update fails.

Each way an update of the loop ends has a lemma (`PlainKeeps`, `ResetKeeps`, `AsideKeeps`), and the
actions only have to show what they do to the counters. The only assumptions are
positive tolerances, a ladder that is not empty, with rungs above the empty-read
tolerance, and a history that can count to the largest of them; that the rungs
increase is not needed.

*Device settings*: `ConfirmedStateHolds`, `ShownStaysShown`, `TargetLoss`,
`DeviceTypes`, for any callers, settings and order in which the poll asks.

- `CallRight`: a call that still writes or reads back has not yet read what it asked
  for; one that reports success on the device's own answer has it on the device. Each
  step that changes a setting of the device also ends this for the calls about it.
- `PollRight`: what the dict of the poll may lack. A setting the poll has looked at
  already is missing only if nothing had shown it by then, or a call is about it; a
  target it did not see was staged late, or it saw the device selling. The properties are
  about the moment when this dict replaces what is shown, several awaits later.

`KnownStaysKnown` needs the exception it names: a setting that only a call has shown can
vanish with the next poll. The assumptions say that the order of the poll is not empty,
that limit and selling are not among the framed settings, and that the device itself is
not a caller.

*Battery scan*: `ModulesInPlace`, `LeftOut`, `CabinetsProven`,
`BatteryTypes`, for any tiers, cabinets, modules and moves.

- `Right`: whatever is known of a module, in a reply that is late, in what a scan has
  found, in the map or in the file, was said by a module in a cabinet that has had one,
  and is still true as long as nothing was moved. `SlotsRight` adds that a map files each
  under its own slot, which is where a late reply could go wrong.
- `ScanRight`: a full scan accounts for every module (`Accounted`): it is found, its own
  reply was missed, it is cut off behind two silent slots, or its slot is still to be
  asked (`InRest`). For the third, the count of timeouts has to mean what it should:
  `Place` says at which slot of which tier the scan is, and that a timeout it counts is
  that of the slot just before, in the same tier. A probe moves on by one slot or to the
  next tier (`BatteryRest`, `BatteryPlace`), and what a tier is left with when it is given
  up is cut off.

The assumptions: no tier is empty, the cabinet of every slot is one that is asked about,
and so is the first, whose sensor needs no module.

### ExchangeProofs

`FlowsAreFresh`, `StrictIsReal`, `AnswersAreTheirs` and `TypeCorrect`, for any bounds on
calls, pushes and buffer, and any drain. Every function and method of the source is
`Wellformed`, for instance a method that reads a power flow clears the buffer first.
The invariant, which TLC found to hold on the instance of the run before it was
proved, has these parts:

- `Position`: the requests before the packet under way are settled and no other is.
  The requests are the last of the packets whatever handshake precedes them
  (`SentShape`), which a renewal in the middle changes.
- `Alone`: a private socket meets only the status frames, the short texts and the
  answers to its own requests.
- `Fresh`: while a power flow is awaited, all that is in the buffer came in this call.
- `Insists`: a function that insists on an answer to each packet has one datagram on
  its way at most, so the answer to its command cannot be one to the handshake.

`AnswersAreTheirs` is the refinement of `RequestReply`, step by step: a call is `Begin`,
the end of a keepalive and giving up a strict handshake are `End`, each settled request
is `Settle`, and everything else is a stutter. That a
recognised answer is one to its request is a fact about lengths, first bytes and kinds
(`RecognisedOnSession`, `RecognisedAlone`). What is left to TLC of `KeepsPromise` is
its liveness. `NoneAssumption` says that `None` is not a datagram or a function.

### EntryLifecycleProofs

`CountIsExact`, `HolderIsShared`, `ClientStaysOpen`, `TypeCorrect`, for any entries,
cabinets, lists and passwords. The counts of the shared clients (`RefsExact`) become inductive with three
more facts: two accounts never share an object (`Distinct`), an entry has one exactly
from its setup to the end of its unload (`HeldWhileActive`), and an entry whose
platforms are set up is listed and has the holder that is there (`Serving`): the last
unload of a home cannot clear it under a loaded one. That a new client or holder is
really new is a pigeonhole argument on the finite sets of entries and passwords
(`FreshExists`, `HolderExists`). Giving a client back is one lemma (`ReleaseKeeps`) for a
failed setup and an unload. `TypeCorrect` adds `Bindings`: whatever the cloud lists, the
device that is selected or bound has an id, so an entry whose platforms are set up never
has an id-less one (#73). The exceptions the properties name (`mixed`) are findings.

### ScheduleProofs

*Overrides*: `ResetsAreConfirmed`, `EchoesOneSnapshot`, `LossNeedsOverlap`,
`RangeWipesNothing` and `TypeCorrect`, for any editors, slots, header fields, requests,
attempts and device. The invariant (`Invariance`) has a part for what the device has been
and one for each kind of edit:

- `History`: the slots that the device holds, and that a snapshot or a read under way
  carries, the device had at some time; the header of the snapshot has been published,
  odd or not; once a read has been had, the snapshot is there for good.
- `Streaming`: the fields of a service's edit are what the caller gave until the first
  plan, and that plan's header from then on, over all attempts and the fallback. If they
  were settled with a snapshot (`known`), those that the caller did not give are the ones
  of a single published header (`FromSnapshot`), which later reads and publications leave
  alone. A plan from a read of its own agrees with the device outside the patch until
  another writes (`over`): this is what a lost slot contradicts.
- `Ranging`: the slots that a slider may write were captured before its first await, and
  were on the device at that time; with a snapshot there are such slots.
- `Believed`: a reset reported done has been seen, or its fallback did it.

Other editors and the polls run between any two steps of an edit, so each part is stated
such that the device may move on under it; one lemma per kind of step says that the other
jobs keep theirs (`WriteKeeps` and the others).

*Timers*: `EveryTimerHasItsHandle`, `CleanShutdownIsFinal` and `TimerTypes`,
for any bounds. The state of the timers is a pair of counts and handles; it is *exact*
when a kind has one live timer if its handle is held and none otherwise. Lemmas say what
each helper does to an exact pair: `Cancel` leaves it exact without that kind, `SetTimer` is
exact only if the kind was cancelled before, which is why `Rearmed` cancels, and so on up
to the shutdown. Each action of the coordinator is a composition of these, so exactness
is inductive. A timer that fires takes its handle with it, or is a periodic one and stays.
The second theorem needs one more conjunct: once a shutdown was clean the entry is not
up again, and with nothing live and nothing under way no action is left that could
set a timer or begin a fetch.

### EmergencyChargeProofs

`WindowIsNext`: for a day of any length, at any time, and for any start and end, the
window of the switch is the next one. The lemmas divide an instant into a day and a
time of the day and show that the division is unique (`TimeOfDay`); `Today`, moved
on by one day when it is past, then lies within a day of now, at the time asked for.

`RestartsKeepTheWindow`: once its window is saved, a restart would restore what is armed.
What makes this inductive is that nothing is armed, shown or under way before the file
has been read (`Unread`), so the load of the first poll overwrites no call. A window
that has passed is dropped on both sides at the same instant.

`ShownIsAcknowledged`: the switch comes on only within the hull of the windows that the
device acknowledged. The invariant `Reach` says it of the future: what is armed, what
is stored, and what a call that was acknowledged has still to assign, is covered by the
hull. `TypeCorrect` gives both what they need of the optional values.

### Only model-checked

Liveness under fairness and `ENABLED` are out of the prover's reach: `LockReleased`,
`PendingReconnectRuns`, `SilenceIsActedOn`, `SilenceEscalates`, `RetriesUntilSuccess`,
`PrimaryHeals` and the liveness part of `KeepsPromise` are checked by TLC only. Induction
over data and recursive operators, out of reach too, are needed nowhere: the models walk
through lists step by step or take the first element as a set (`First`).

## Findings

Where the code contradicts its documentation or plainly does not do what it is there
for. `PROJECT.json` quotes the lines. For many of them the module
has the documented statement as a definition, commented "Documented, and
contradicted by the code": put in the place of the properties of the module's run
(`cred_cached`, `stream_guards`, ...), without symmetry, it makes TLC print the
counterexample; `NoLockCycle` is violated in `cred_direct` as it is;
`SecondaryNeverRotatesHome` needs `Secondary = {d1}`, `EverDecryptedSurvives` two
sessions, and `ReadBackAuthoritative` a switch and a stray for another setting than
manual selling, which the device itself may end.

| statement | what happens | definition |
|---|---|---|
| all consumers use `get_e2e_credentials` | two services call `e2e_login`; the locks are then taken in both orders, a deadlock (their login also leaves a dead entry in the cache) | `NoLockCycle` |
| the secondary never rotates the home secret | it does when the home TTL has passed | `SecondaryNeverRotatesHome` |
| a reconnect picks up the rotated secret | the provider's answer can be older than what a callback brought | `NeverBack` |
| the published home secret is the current one | rotations beside the primary's session leave it dead, and secondaries adopt it | |
| callbacks run when the home secret is rotated | those registered with a client that was reset do not | |
| three urgent refreshes within a minute escalate | the 90 s hold comes first, they are never counted | |
| `close()` closes the socket for good | a rebuild in its provider call goes on and opens a new one | `ClosedHasNoSocket` |
| the holder keeps its memory across sessions | the last session to close overwrites it | `EverDecryptedSurvives` |
| the first decrypted frame restores the ladder | the next scheduled reconnect does | `FrameRestoresLadder` |
| a successful handshake resets the streak | it does not, only a frame does | `SuccessResetsStreak` |
| the decrypt gate fires once per episode | each rebuild arms it again | `GateFiresOnce` |
| a final probe that answers is processed as a success | its reading is discarded | `ReadingIsUsed` |
| a device that never answered fails the update | in poll mode it never does | `FailureSurfaces` |
| a garbage frame is not echoed into the device | one that a poll received is: it becomes the snapshot | `GarbageNotEchoed` |
| a set or reset retries when the first login fails | the handler stumbles over an unbound `coord` and the service ends | |
| a read-back is the device's current state | a late or pushed datagram passes for it | `ReadBackAuthoritative` |
| setting the range must not wipe slots | the slots of a snapshot of any age, or none, are written | `RangeKeepsSlots` |
| a failed reset reports its reason | without an exception it is `unknown` | |
| a poll never overwrites a staged target | it does when it looked before it was staged | `TargetKept` |
| the reserve sliders write | every change raises `TypeError` | |
| the switch of emergency charge expires locally | overlapping calls leave it armed without an end; a REST outage keeps showing it | `HasAnEnd` |
| entries share one client per account | a reconfigured entry releases the wrong one | `SharedByMatching` |
| the first cabinet added is the primary | the first to get there in each run is; ids are renamed | `UidsKept` |
| services go with the last entry; a failed setup undoes itself; all devices of an entry are set up; a hard reset is for auth errors | they stay; not after its `try`; one; also for connection errors | |
| shutdown cancels the timers | a fetch that fails afterwards arms one | `NoTimerWhenDown` |
| a full scan walks every tier | two silent slots end a tier | `ThirdSlotFound` |
| two short or missing responses end a tier | only missing ones do; a short one restarts the count | |
| hardware changes need a restart | removed modules survive it | |
| slot sensors are recreated from the registry | the search compares the wrong field | |

Smaller ones, in `PROJECT.json` only: stray replies (`known_serial_slots`), the
one-shot fallback of a secondary device, the sliders' text, the read-back of
third-party PV, three tests of answers that are too weak (selling protection,
virtual power plant, manual selling), `send_sell`'s acknowledgement, the order of a
module's index bytes, the unused `read_accessories`.

## Not modelled, and plan

Left out, and why:

- *No protocol in it*: AES and the byte layout of packets; request and response
  code of the REST operations; forms, sensors that only show a value, translations,
  logging, diagnostics, the tests.
- *Unreached code*: `read_accessories` and the session's `read_battery_info`, the
  pair write of the peak-shaving reserves (its callers raise), `load_ev_page_data`,
  `invalidate_home_e2e`.
- *Values only*: the overlay of several cabinets' clusters, the Facility ID cache and
  the REST figures of the power poll, the solar backfill, the services for the EV
  schedule and the scheduled mode (one command each, whose exchange is in
  `Exchange`), the next-day fetch's contents.
- *Contents of credentials*: the device's `chat_secret` in a running session, and
  the class-wide registry of device keys that decrypts frames of other devices.

Next, the most important first:

1. The model of secrets for the `chat_secret` of a device and the registry of device keys.
2. The command of several cabinets' clusters and the sanity filters as pure operators.
