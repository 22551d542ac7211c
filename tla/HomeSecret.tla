----------------------------- MODULE HomeSecret -----------------------------
(***************************************************************************)
(* The copies of a home's shared secret.  The cloud has the newest one;    *)
(* the REST client caches it, and a copy in the credentials of each device *)
(* (client.py); the coordinators publish the primary's in hass.data        *)
(* (coordinator.py); and each realtime session works with its own          *)
(* (e2e.py), which is replaced by its provider and by the callbacks that a *)
(* rotation fires.                                                         *)
(*                                                                         *)
(* Secrets are numbered.  A call of get_e2e_credentials holds _e2e_lock of *)
(* its client to its end if it logs in, through the callbacks too, which   *)
(* wait for the locks of the sessions.  So a session gives its lock back   *)
(* around its provider.  Under that lock the home login is one step: its   *)
(* interleavings, and callers that log in without the lock, are            *)
(* CredentialCache's.                                                      *)
(***************************************************************************)
EXTENDS Naturals

CONSTANTS
    Devices, Primary,
    Others,        \* threads that use credentials without a session
    MaxSecret,     \* bound of rotations
    MaxClient      \* bound of hard resets of the shared client
ASSUME HomeAssumption ==
    /\ Primary \in Devices /\ Devices \cap Others = {}
    /\ {MaxSecret, MaxClient} \subseteq Nat \ {0}

VARIABLES
    server,     \* the secret that is valid
    client,     \* the client objects one after the other
    current,    \* the one that is in use
    published,  \* _home_secrets of the home, 0 for none
    session,    \* of each device
    job,        \* what the threads are in
    fed         \* history: devices whose sessions took an answer after the last rotation

vars == <<server, client, current, published, session, job, fed>>

Secrets == 0 .. MaxSecret       \* 0 for none
Clients == 1 .. MaxClient

\* A device has one thread that makes a session and then receives for it; the
\* provider call of a closed session is taken to end before the next one is made.
Threads == Devices \cup Others

Idle == [kind |-> "none", of |-> Primary, pc |-> "idle", client |-> 1, force |-> FALSE,
         secret |-> 0, left |-> {}, again |-> FALSE, orphan |-> FALSE]

\* left: the sessions whose callbacks are still to come; again: the provider's
\* second attempt; orphan: the session of the thread was closed.
Jobs == [kind : {"none", "rebuild", "create", "use"}, of : Devices,
         pc : {"idle", "enter", "device", "answered", "adopt", "shake"},
         client : Clients, force : BOOLEAN, secret : Secrets, left : SUBSET Devices,
         again : BOOLEAN, orphan : BOOLEAN]

\* fresh: the home login is younger than _home_e2e_ttl; callbacks: the devices
\* whose sessions are registered.
Cache == [home : Secrets, fresh : BOOLEAN, entry : [Devices -> Secrets],
          callbacks : SUBSET Devices]
NewClient == [home |-> 0, fresh |-> FALSE, entry |-> [d \in Devices |-> 0], callbacks |-> {}]

NoSession == [open |-> FALSE, secret |-> 0]

TypeOK ==
    /\ server \in Secrets /\ current \in Clients /\ published \in Secrets
    /\ client \in [Clients -> Cache]
    /\ session \in [Devices -> [open : BOOLEAN, secret : Secrets]]
    /\ job \in [Threads -> Jobs]
    /\ fed \subseteq Devices

Init ==
    /\ server = 0 /\ current = 1 /\ published = 0
    /\ client = [k \in Clients |-> NewClient]
    /\ session = [d \in Devices |-> NoSession]
    /\ job = [t \in Threads |-> Idle]
    /\ fed = {}

-----------------------------------------------------------------------------
(* get_e2e_credentials *)

At(t, pc) == job[t].pc = pc
My(t) == client[job[t].client]
Go(t, j) == job' = [job EXCEPT ![t] = j]
Set(t, c) == client' = [client EXCEPT ![job[t].client] = c]

Call(t, d, kind, force) ==
    /\ At(t, "idle")
    /\ Go(t, [Idle EXCEPT !.kind = kind, !.of = d, !.pc = "enter", !.client = current, !.force = force])
    /\ UNCHANGED <<server, client, current, published, session, fed>>

\* _e2e_lock is held by a call that has the home's login, to the end of its
\* callbacks and of its device login.
Held(k) == \E t \in Threads : At(t, "device") /\ job[t].client = k
Entered(t) == At(t, "enter") /\ ~Held(job[t].client)

\* A call ends with the device's secrets; one without a session keeps nothing.
Answer(t, secret) ==
    Go(t, IF job[t].kind = "use" THEN Idle
          ELSE [job[t] EXCEPT !.pc = "answered", !.force = FALSE, !.secret = secret])

\* From the cache: an entry that is not expired, and not to be replaced, or held.
Serve(t) ==
    /\ Entered(t) /\ My(t).entry[job[t].of] # 0
    /\ Answer(t, My(t).entry[job[t].of])
    /\ UNCHANGED <<server, client, current, published, session, fed>>

\* A login, as there is no entry, an expired or invalidated one, or a forced
\* refresh that is not held: _get_home_e2e finds a home login within its TTL.
LoginCached(t) ==
    /\ Entered(t) /\ My(t).home # 0 /\ My(t).fresh
    /\ Go(t, [job[t] EXCEPT !.pc = "device", !.force = FALSE, !.secret = My(t).home])
    /\ UNCHANGED <<server, client, current, published, session, fed>>

\* A rotation is within the bound.  The last one is a client in use's, so that
\* the secret that stays valid is one a coordinator can still get.
Room(t, lost) == server < MaxSecret - (IF lost \/ job[t].client # current THEN 1 ELSE 0)

\* None, an old one, or the escalation of a forced call, which the sessions of a
\* secondary device are not allowed.
Rotates(t) ==
    \/ My(t).home = 0 \/ ~My(t).fresh
    \/ job[t].force /\ (job[t].kind = "use" \/ job[t].of = Primary)

\* /home/e2e-login/
LoginRotates(t) ==
    /\ Entered(t) /\ Rotates(t) /\ Room(t, FALSE)
    /\ server' = server + 1
    /\ Set(t, [My(t) EXCEPT !.home = server', !.fresh = TRUE])
    /\ Go(t, [job[t] EXCEPT !.pc = "device", !.force = FALSE, !.secret = server', !.left = My(t).callbacks])
    /\ fed' = fed \ My(t).callbacks
    /\ UNCHANGED <<current, published, session>>

\* The session's lock is held by its own thread in a handshake, not in its provider.
Locked(d) == At(d, "shake")

\* Mutant: a session that is busy is passed over.
RekeyIfFree(t, d) ==
    /\ d \in job[t].left
    /\ session' = IF Locked(d) THEN session ELSE [session EXCEPT ![d].secret = job[t].secret]
    /\ Go(t, [job[t] EXCEPT !.left = @ \ {d}])
    /\ UNCHANGED <<server, client, current, published, fed>>

\* rekey_home, called back for the session of d.
Rekey(t, d) ==
    /\ d \in job[t].left /\ ~Locked(d)
    /\ session' = [session EXCEPT ![d].secret = job[t].secret]
    /\ Go(t, [job[t] EXCEPT !.left = @ \ {d}])
    /\ UNCHANGED <<server, client, current, published, fed>>

\* /bmt/e2e-user-login/ and /bmt/search-bmt/
AtDevice(t) == At(t, "device") /\ job[t].left = {}

DeviceLogin(t) ==
    /\ AtDevice(t)
    /\ Set(t, [My(t) EXCEPT !.entry[job[t].of] = job[t].secret])
    /\ Answer(t, job[t].secret)
    /\ UNCHANGED <<server, current, published, session, fed>>

\* The handshake of a session; a closed one's does not matter here.
Shaking(t) == IF job[t].orphan THEN Idle ELSE [Idle EXCEPT !.kind = "rebuild", !.of = job[t].of, !.pc = "shake"]

\* A cloud call raises; a home login may have rotated before.  A rebuild goes on
\* with what the session has, any other call ends.
Raises(t, lost) ==
    /\ \/ Entered(t) /\ (lost => Rotates(t) /\ Room(t, TRUE))
       \/ AtDevice(t) /\ ~lost
    /\ server' = IF lost THEN server + 1 ELSE server
    /\ Go(t, IF job[t].kind = "rebuild" THEN Shaking(t) ELSE Idle)
    /\ UNCHANGED <<client, current, published, session, fed>>

-----------------------------------------------------------------------------
(* The coordinator and the session *)

\* _reset_client: another client object, without caches, locks and callbacks;
\* calls under way stay with the old one.
NextClient == server < MaxSecret /\ current < MaxClient /\ current' = current + 1

\* The provider starts over with a new client when its first call is not authorised.
StartsOver(t) ==
    /\ Entered(t) \/ AtDevice(t)
    /\ job[t].kind = "rebuild" /\ ~job[t].again
    /\ NextClient
    /\ Go(t, [job[t] EXCEPT !.pc = "enter", !.client = current', !.force = TRUE, !.again = TRUE])
    /\ UNCHANGED <<server, client, published, session, fed>>

\* The stream's rebuild asks its provider; forced after a rejection.
Rebuild(d, force) ==
    /\ session[d].open
    /\ Call(d, d, "rebuild", force)

\* _ensure_session
Create(d, force) ==
    /\ ~session[d].open
    /\ Call(d, d, "create", force)

\* Schedules, EV data and one-shot reads need no session.
Use(t, d, force) ==
    /\ t \in Devices => d = t /\ ~session[t].open
    /\ Call(t, d, "use", force)

\* Mutant: what is published stays, and all take it.
PublishOnce(t) ==
    /\ At(t, "answered")
    /\ published' = IF job[t].of = Primary /\ published = 0 THEN job[t].secret ELSE published
    /\ Go(t, [job[t] EXCEPT !.pc = "adopt",
                            !.secret = IF published' # 0 THEN published' ELSE @])
    /\ UNCHANGED <<server, client, current, session, fed>>

\* What the primary's session gets is published; the other sessions take what
\* is published instead of what they got.
Publish(t) ==
    /\ At(t, "answered")
    /\ published' = IF job[t].of = Primary THEN job[t].secret ELSE published
    /\ Go(t, [job[t] EXCEPT !.pc = "adopt",
                            !.secret = IF published' # 0 THEN published' ELSE @])
    /\ UNCHANGED <<server, client, current, session, fed>>

Took(d) ==
    /\ session' = [session EXCEPT ![d].secret = job[d].secret]
    /\ fed' = fed \cup {d}

\* _refresh_creds_locked, once the lock is back; the handshake follows.
Adopt(d) ==
    /\ At(d, "adopt") /\ job[d].kind = "rebuild"
    /\ IF job[d].orphan THEN UNCHANGED <<session, fed>> ELSE Took(d)
    /\ Go(d, Shaking(d))
    /\ UNCHANGED <<server, client, current, published>>

Shake(d) ==
    /\ At(d, "shake")
    /\ Go(d, Idle)
    /\ UNCHANGED <<server, client, current, published, session, fed>>

\* The session is made, connected, registered and started: no callback reaches
\* it before, and nothing looks at it.
Connect(d) ==
    /\ At(d, "adopt") /\ job[d].kind = "create"
    /\ session' = [session EXCEPT ![d] = [open |-> TRUE, secret |-> job[d].secret]]
    /\ Set(d, [My(d) EXCEPT !.callbacks = @ \cup {d}])
    /\ fed' = fed \cup {d}
    /\ Go(d, Idle)
    /\ UNCHANGED <<server, current, published>>

\* close() and _invalidate_session_ref.  A callback that has been collected finds
\* the session closed; a provider call goes on.
Close(d) ==
    /\ session[d].open /\ ~Locked(d)
    /\ session' = [session EXCEPT ![d] = NoSession]
    /\ client' = [k \in Clients |-> [client[k] EXCEPT !.callbacks = @ \ {d}]]
    /\ job' = [t \in Threads |-> [job[t] EXCEPT !.left = @ \ {d},
                                               !.orphan = @ \/ (t = d /\ ~At(t, "idle"))]]
    /\ fed' = fed \ {d}
    /\ UNCHANGED <<server, current, published>>

\* Another caller's connection error or expired login.
Reset ==
    /\ NextClient
    /\ UNCHANGED <<server, client, published, session, job, fed>>

\* The home login of the client gets older than its TTL.
Expire ==
    /\ client[current].fresh /\ server < MaxSecret
    /\ client' = [client EXCEPT ![current].fresh = FALSE]
    /\ UNCHANGED <<server, current, published, session, job, fed>>

-----------------------------------------------------------------------------

Step(t) ==
    \/ Serve(t) \/ LoginCached(t) \/ LoginRotates(t)
    \/ \E d \in Devices : Rekey(t, d)
    \/ DeviceLogin(t) \/ \E lost \in BOOLEAN : Raises(t, lost)
    \/ StartsOver(t) \/ Publish(t)
    \/ t \in Devices /\ (Adopt(t) \/ Shake(t) \/ Connect(t))

Asks(d) ==
    \E force \in BOOLEAN : Rebuild(d, force) \/ Create(d, force) \/ \E t \in Threads : Use(t, d, force)

Next ==
    \/ \E t \in Threads : Step(t)
    \/ \E d \in Devices : Asks(d) \/ Close(d)
    \/ Reset \/ Expire

Spec == Init /\ [][Next]_vars

Logins(t) == LoginCached(t) \/ LoginRotates(t)
Behind(d) == session[d].open /\ session[d].secret # server

\* Threads run, and TTLs pass.  The relay rejects a session that is behind, and
\* its stream asks for new credentials again and again; a caller that asks again
\* and again is not for ever kept out of a lock, held off by the storm guard or
\* failed by the cloud.
FairSpec ==
    /\ Spec
    /\ \A t \in Threads : SF_vars(Step(t))
    /\ SF_vars(Behind(Primary) /\ Rebuild(Primary, TRUE))
    /\ SF_vars(job[Primary].force /\ Logins(Primary)) /\ SF_vars(DeviceLogin(Primary))
    /\ WF_vars(Expire)

-----------------------------------------------------------------------------
(* Properties *)

\* A rotation reaches every session that is registered: unless it has taken an
\* answer of its provider since, or its callback is still to come, a session has
\* the secret its client got last (_get_home_e2e, rekey_home), whatever
\* rebuilds, closes and new sessions come in between.
RekeyReachesAll ==
    \A k \in Clients : \A d \in client[k].callbacks :
        \/ session[d].secret = client[k].home \/ d \in fed
        \/ \E t \in Threads : job[t].client = k /\ d \in job[t].left

\* The primary's session does not stay with a dead secret, whatever failures,
\* resets and other devices' rotations left in the caches.
PrimaryHeals == Behind(Primary) ~> ~Behind(Primary)

\* Documented, and contradicted by the code (README, Findings):
\* "the stream picks up a rotated secret instead of re-handshaking with a stale
\* one" (PersistentE2ESession.__init__): its provider never takes a session back.
NeverBack ==
    [][\A d \in Devices : session[d].open /\ session'[d].open => session'[d].secret >= session[d].secret]_vars

=============================================================================
