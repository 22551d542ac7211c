--------------------------- MODULE CredentialCache ---------------------------
(***************************************************************************)
(* The shared E2E credential cache of EmaldoClient (emaldo_lib/client.py)  *)
(* at the grain of its threads, its two locks and its cloud calls.         *)
(*                                                                         *)
(* A cloud login rotates secrets on the server: /bmt/e2e-user-login/ gives *)
(* one device a new chat_secret and /home/e2e-login/ gives the account a   *)
(* new home end_secret; every older copy of that secret is dead from then  *)
(* on.  Most callers go through get_e2e_credentials, which caches one      *)
(* generation per device, holds _e2e_lock (an RLock) across the whole      *)
(* login and rate-limits forced refreshes through the per-home storm       *)
(* holder; the callers in Direct call e2e_login itself.                    *)
(*                                                                         *)
(* A secret is represented by whether it is the server's newest one.  The  *)
(* module models one home; _e2e_lock is shared by all homes of a client.   *)
(***************************************************************************)
EXTENDS Integers, FiniteSets

CONSTANTS
    Threads,              \* executor and stream threads using the client
    Direct,               \* the threads that call e2e_login directly
    Devices,              \* the devices of the home
    Secondary,            \* the devices whose session passes allow_home_refresh=False
    Holder,               \* a HomeStormState is injected (Home Assistant) or not
    DeviceTTL,            \* _e2e_credential_ttl, 600 s
    HomeTTL,              \* _home_e2e_ttl, 1800 s
    RotationInterval,     \* MIN_DEVICE_ROTATION_INTERVAL, 90 s
    EscalationWindow,     \* FORCED_REFRESH_HISTORY_WINDOW and the age bound, 60 s
    EscalationThreshold,  \* forced refreshes that escalate, 3
    MaxClock,             \* bound on the modelled time
    Free                  \* the owner of a lock nobody holds

ASSUME ThreadAssumption == Direct \subseteq Threads /\ Free \notin Threads
ASSUME DeviceAssumption == Devices # {} /\ Secondary \subseteq Devices
ASSUME HolderAssumption == Holder \in BOOLEAN
ASSUME TimeAssumption ==
    /\ MaxClock \in Nat
    /\ DeviceTTL \in Nat /\ HomeTTL \in Nat
    /\ RotationInterval \in Nat /\ EscalationWindow \in Nat
    /\ EscalationWindow <= DeviceTTL
ASSUME ThresholdAssumption == EscalationThreshold \in Nat \ {0}

VARIABLES
    clock,          \* time.monotonic()
    eLock,          \* owner of _e2e_lock
    hLock,          \* owner of the home's entry of _home_e2e_locks
    pc,             \* where each thread is
    req,            \* each thread's arguments and locals
    cache,          \* _e2e_creds_cache; generation 0 stands for no entry
    homeCache,      \* _home_e2e_cache
    lastRotation,   \* the rotation latch of the client and of the holder
    forced,         \* the holder's _forced_refresh_times
    lastEscalation, \* _home_refresh_last_attempt
    unclaimed,      \* history: devices whose newest chat_secret nobody caches
    longestWait     \* history: the longest a caller has waited for _e2e_lock

vars == <<clock, eLock, hLock, pc, req, cache, homeCache, lastRotation,
          forced, lastEscalation, unclaimed, longestWait>>

latches == <<lastRotation, forced, lastEscalation>>

-----------------------------------------------------------------------------
(* Types *)

Time == 0 .. MaxClock

Request == [dev : Devices, force : BOOLEAN, allowHome : BOOLEAN, now : Time,
            escalate : BOOLEAN, homeLive : BOOLEAN, devLive : BOOLEAN]

\* E2ECredentialCacheEntry, its secrets reduced to "newest on the server".
Entry == [generation : 0 .. EscalationThreshold, created : Time,
          devLive : BOOLEAN, homeLive : BOOLEAN]

NoEntry == [generation |-> 0, created |-> 0, devLive |-> FALSE, homeLive |-> FALSE]

\* A thread outside a call: its locals are gone.
NoRequest == [dev |-> CHOOSE d \in Devices : TRUE, force |-> FALSE, allowHome |-> TRUE,
              now |-> 0, escalate |-> FALSE, homeLive |-> FALSE, devLive |-> FALSE]

HomeEntry == [known : BOOLEAN, at : Time, live : BOOLEAN]

Steps == {"idle", "enter", "homeFast", "homeWait", "homeCheck", "homeCall",
          "homeStore", "devLogin", "search"}

TypeOK ==
    /\ clock \in Time
    /\ eLock \in Threads \cup {Free}
    /\ hLock \in Threads \cup {Free}
    /\ pc \in [Threads -> Steps]
    /\ req \in [Threads -> Request]
    /\ cache \in [Devices -> Entry]
    /\ homeCache \in HomeEntry
    /\ lastRotation \in Time
    /\ forced \subseteq (Time \X (1 .. EscalationThreshold))
    /\ lastEscalation \in Time
    /\ unclaimed \subseteq Devices
    /\ longestWait \in Nat

-----------------------------------------------------------------------------
(* What the code reads *)

Cached(d) == cache[d].generation > 0

Expired(d, now) == ~Cached(d) \/ now - cache[d].created > DeviceTTL

\* Mutant: the rotation interval is not enforced.
MayRotateAlways(now) == TRUE

MayRotate(now) == now - lastRotation >= RotationInterval

Recent(now) == {f \in forced : f[1] > now - EscalationWindow}

\* A forced call asks the holder for the count; without a holder the count is
\* the generation of the entry.
ForcedCount(d, now) ==
    IF Holder THEN Cardinality(Recent(now)) ELSE cache[d].generation

\* Mutant: the escalation forgets the quiet period after the last one.
EscalatesNoQuiet(r) ==
    /\ r.force
    /\ Cached(r.dev)
    /\ ForcedCount(r.dev, r.now) >= EscalationThreshold
    /\ r.now - cache[r.dev].created < EscalationWindow
    /\ r.allowHome

\* _do_home_refresh: rotate the shared home secret as well.
Escalates(r) ==
    /\ r.force
    /\ Cached(r.dev)
    /\ ForcedCount(r.dev, r.now) >= EscalationThreshold
    /\ r.now - cache[r.dev].created < EscalationWindow
    /\ r.allowHome
    /\ r.now >= lastEscalation + HomeTTL

\* The holder's list after the count pruned it and the latch appended to it.
\* Only "at least EscalationThreshold" is ever read, so refreshes noted at one
\* instant saturate there.
AfterLatch(r) ==
    LET kept == IF Cached(r.dev) THEN Recent(r.now) ELSE forced
        same == Cardinality({f \in kept : f[1] = r.now})
    IN  IF same < EscalationThreshold THEN kept \cup {<<r.now, same + 1>>} ELSE kept

HomeFresh(now) == homeCache.known /\ now - homeCache.at <= HomeTTL

\* _e2e_lock is re-entrant: its owner never waits for it.
CanTake(t) == eLock \in {Free, t}

LongerOf(a, b) == IF a >= b THEN a ELSE b

-----------------------------------------------------------------------------
(* Time and calls *)

Init ==
    /\ clock \in {0, RotationInterval} \cap Time
    /\ eLock = Free
    /\ hLock = Free
    /\ pc = [t \in Threads |-> "idle"]
    /\ req = [t \in Threads |-> NoRequest]
    /\ cache = [d \in Devices |-> NoEntry]
    /\ homeCache = [known |-> FALSE, at |-> 0, live |-> FALSE]
    /\ lastRotation = 0
    /\ forced = {}
    /\ lastEscalation = 0
    /\ unclaimed = {}
    /\ longestWait = 0

Tick ==
    /\ clock < MaxClock
    /\ clock' = clock + 1
    /\ UNCHANGED <<eLock, hLock, pc, req, cache, homeCache, latches, unclaimed, longestWait>>

\* get_e2e_credentials reads the clock before it waits for _e2e_lock.
Call(t, d, f, a) ==
    /\ t \notin Direct
    /\ pc[t] = "idle"
    /\ d \notin Secondary => a
    /\ req' = [req EXCEPT ![t] = [NoRequest EXCEPT !.dev = d, !.force = f,
                                                    !.allowHome = a, !.now = clock]]
    /\ pc' = [pc EXCEPT ![t] = "enter"]
    /\ UNCHANGED <<clock, eLock, hLock, cache, homeCache, latches, unclaimed, longestWait>>

\* A service or a client method that calls e2e_login itself.
CallDirect(t, d) ==
    /\ t \in Direct
    /\ pc[t] = "idle"
    /\ req' = [req EXCEPT ![t] = [NoRequest EXCEPT !.dev = d, !.now = clock]]
    /\ pc' = [pc EXCEPT ![t] = "homeFast"]
    /\ UNCHANGED <<clock, eLock, hLock, cache, homeCache, latches, unclaimed, longestWait>>

\* invalidate_e2e_session, after a failed operation or a schedule fetch failure.
Invalidate(d) ==
    /\ eLock = Free
    /\ Cached(d)
    /\ cache' = [cache EXCEPT ![d] = NoEntry]
    /\ UNCHANGED <<clock, eLock, hLock, pc, req, homeCache, latches, unclaimed, longestWait>>

-----------------------------------------------------------------------------
(* _get_e2e_credentials *)

Waited(t) == longestWait' = LongerOf(longestWait, clock - req[t].now)

Return(t) == pc' = [pc EXCEPT ![t] = "idle"]

\* The call is over: its locals go with it.
Forget(t) == req' = [req EXCEPT ![t] = NoRequest]

\* A live entry, no refresh asked for: hand it out.
Serve(t) ==
    /\ pc[t] = "enter" /\ eLock = Free
    /\ ~req[t].force
    /\ ~Expired(req[t].dev, req[t].now)
    /\ Return(t) /\ Forget(t)
    /\ Waited(t)
    /\ UNCHANGED <<clock, eLock, hLock, cache, homeCache, latches, unclaimed>>

\* A forced refresh of a live entry inside the rotation interval is held: the
\* cached credentials are handed out again.
Hold(t) ==
    /\ pc[t] = "enter" /\ eLock = Free
    /\ req[t].force
    /\ ~Expired(req[t].dev, req[t].now)
    /\ ~MayRotate(req[t].now)
    /\ Return(t) /\ Forget(t)
    /\ Waited(t)
    /\ UNCHANGED <<clock, eLock, hLock, cache, homeCache, latches, unclaimed>>

\* Mutant: the lock is released before the login.
RefreshUnlocked(t) ==
    LET r == req[t] IN
    /\ pc[t] = "enter" /\ eLock = Free
    /\ r.force \/ Expired(r.dev, r.now)
    /\ r.force /\ ~Expired(r.dev, r.now) => MayRotate(r.now)
    /\ req' = [req EXCEPT ![t].escalate = Escalates(r)]
    /\ lastRotation' = IF r.force THEN r.now ELSE lastRotation
    /\ forced' = IF r.force /\ Holder THEN AfterLatch(r) ELSE forced
    /\ pc' = [pc EXCEPT ![t] = "homeFast"]
    /\ Waited(t)
    /\ UNCHANGED <<clock, eLock, hLock, cache, homeCache, lastEscalation, unclaimed>>

\* Decide on escalation, latch a forced rotation, then log in under the lock.
Refresh(t) ==
    LET r == req[t] IN
    /\ pc[t] = "enter" /\ eLock = Free
    /\ r.force \/ Expired(r.dev, r.now)
    /\ r.force /\ ~Expired(r.dev, r.now) => MayRotate(r.now)
    /\ eLock' = t
    /\ req' = [req EXCEPT ![t].escalate = Escalates(r)]
    /\ lastRotation' = IF r.force THEN r.now ELSE lastRotation
    /\ forced' = IF r.force /\ Holder THEN AfterLatch(r) ELSE forced
    /\ pc' = [pc EXCEPT ![t] = "homeFast"]
    /\ Waited(t)
    /\ UNCHANGED <<clock, hLock, cache, homeCache, lastEscalation, unclaimed>>

-----------------------------------------------------------------------------
(* e2e_login: the home login, cached per account *)

\* The fast path of _get_home_e2e, under a brief _e2e_lock; it compares with the
\* time read before that lock, for which only a direct caller may have to wait.
HomeFast(t) ==
    /\ pc[t] = "homeFast" /\ CanTake(t)
    /\ IF HomeFresh(IF t \in Direct THEN req[t].now ELSE clock) /\ ~req[t].escalate
       THEN /\ req' = [req EXCEPT ![t].homeLive = homeCache.live]
            /\ pc' = [pc EXCEPT ![t] = "devLogin"]
       ELSE /\ pc' = [pc EXCEPT ![t] = "homeWait"]
            /\ UNCHANGED req
    /\ UNCHANGED <<clock, eLock, hLock, cache, homeCache, latches, unclaimed, longestWait>>

HomeAcquire(t) ==
    /\ pc[t] = "homeWait" /\ hLock = Free
    /\ hLock' = t
    /\ pc' = [pc EXCEPT ![t] = "homeCheck"]
    /\ UNCHANGED <<clock, eLock, req, cache, homeCache, latches, unclaimed, longestWait>>

\* Mutant: callers that waited for the home lock do not look again.
HomeCheckOnce(t) ==
    /\ pc[t] = "homeCheck" /\ CanTake(t)
    /\ pc' = [pc EXCEPT ![t] = "homeCall"]
    /\ UNCHANGED <<clock, eLock, hLock, req, cache, homeCache, latches, unclaimed, longestWait>>

\* Mutant: leaving the inner block gives up the outer lock (not re-entrant).
HomeCheckReleases(t) ==
    /\ pc[t] = "homeCheck" /\ CanTake(t)
    /\ eLock' = Free
    /\ pc' = [pc EXCEPT ![t] = "homeCall"]
    /\ UNCHANGED <<clock, hLock, req, cache, homeCache, latches, unclaimed, longestWait>>

\* The second look at the cache, under the home lock and a brief _e2e_lock.
HomeCheck(t) ==
    /\ pc[t] = "homeCheck" /\ CanTake(t)
    /\ IF HomeFresh(clock) /\ ~req[t].escalate
       THEN /\ req' = [req EXCEPT ![t].homeLive = homeCache.live]
            /\ hLock' = Free
            /\ pc' = [pc EXCEPT ![t] = "devLogin"]
       ELSE /\ pc' = [pc EXCEPT ![t] = "homeCall"]
            /\ UNCHANGED <<req, hLock>>
    /\ UNCHANGED <<clock, eLock, cache, homeCache, latches, unclaimed, longestWait>>

\* The server's side of /home/e2e-login/ for thread t, whose locals become mine:
\* every other copy of the home secret is dead.
RotateHome(t, mine) ==
    /\ homeCache' = [homeCache EXCEPT !.live = FALSE]
    /\ cache' = [d \in Devices |-> [cache[d] EXCEPT !.homeLive = FALSE]]
    /\ req' = [u \in Threads |-> IF u = t THEN mine ELSE [req[u] EXCEPT !.homeLive = FALSE]]

HomeCall(t) ==
    /\ pc[t] = "homeCall"
    /\ RotateHome(t, [req[t] EXCEPT !.homeLive = TRUE])
    /\ pc' = [pc EXCEPT ![t] = "homeStore"]
    /\ UNCHANGED <<clock, eLock, hLock, latches, unclaimed, longestWait>>

\* Leaving the outer with block of _get_e2e_credentials.
Release(t) == eLock' = IF eLock = t THEN Free ELSE eLock

\* Mutant: a failed home login is tried again, with _e2e_lock still held.
HomeCallFailsRetries(t, rotated) ==
    /\ pc[t] = "homeCall"
    /\ IF rotated THEN RotateHome(t, req[t]) ELSE UNCHANGED <<req, homeCache, cache>>
    /\ hLock' = Free
    /\ pc' = [pc EXCEPT ![t] = "homeWait"]
    /\ UNCHANGED <<clock, eLock, latches, unclaimed, longestWait>>

\* The request is lost before the server or its answer after it; the exception
\* leaves both with blocks.
HomeCallFails(t, rotated) ==
    /\ pc[t] = "homeCall"
    /\ IF rotated THEN RotateHome(t, NoRequest) ELSE Forget(t) /\ UNCHANGED <<homeCache, cache>>
    /\ hLock' = Free
    /\ Release(t)
    /\ Return(t)
    /\ UNCHANGED <<clock, latches, unclaimed, longestWait>>

HomeStore(t) ==
    /\ pc[t] = "homeStore" /\ CanTake(t)
    /\ homeCache' = [known |-> TRUE, at |-> clock, live |-> req[t].homeLive]
    /\ hLock' = Free
    /\ pc' = [pc EXCEPT ![t] = "devLogin"]
    /\ UNCHANGED <<clock, eLock, req, cache, latches, unclaimed, longestWait>>

-----------------------------------------------------------------------------
(* e2e_login: the device login and the battery search *)

\* The server's side of /bmt/e2e-user-login/ for the device of t.
RotateDevice(t, mine) ==
    LET d == req[t].dev IN
    /\ cache' = [cache EXCEPT ![d].devLive = FALSE]
    /\ req' = [u \in Threads |-> IF u = t THEN mine
                                ELSE IF req[u].dev = d THEN [req[u] EXCEPT !.devLive = FALSE]
                                ELSE req[u]]

\* A cached caller's new secret is on its way to the cache, a direct caller's never is.
DevLogin(t) ==
    /\ pc[t] = "devLogin"
    /\ RotateDevice(t, [req[t] EXCEPT !.devLive = TRUE])
    /\ unclaimed' = IF t \in Direct THEN unclaimed \cup {req[t].dev}
                                    ELSE unclaimed \ {req[t].dev}
    /\ pc' = [pc EXCEPT ![t] = "search"]
    /\ UNCHANGED <<clock, eLock, hLock, homeCache, latches, longestWait>>

DevLoginFails(t, rotated) ==
    /\ pc[t] = "devLogin"
    /\ IF rotated
       THEN RotateDevice(t, NoRequest) /\ unclaimed' = unclaimed \cup {req[t].dev}
       ELSE Forget(t) /\ UNCHANGED <<cache, unclaimed>>
    /\ Release(t)
    /\ Return(t)
    /\ UNCHANGED <<clock, hLock, homeCache, latches, longestWait>>

\* /bmt/search-bmt/ answered: the caller has its credentials and a cached caller
\* stores them, stamped with the time it read before it waited for the lock.
Finish(t) ==
    LET r == req[t]
        d == r.dev
        next == IF cache[d].generation < EscalationThreshold
                THEN cache[d].generation + 1 ELSE EscalationThreshold
    IN
    /\ pc[t] = "search"
    /\ IF t \in Direct
       THEN UNCHANGED <<cache, lastEscalation>>
       ELSE /\ cache' = [cache EXCEPT ![d] =
                           [generation |-> IF r.escalate THEN 1 ELSE next, created |-> r.now,
                            devLive |-> r.devLive, homeLive |-> r.homeLive]]
            /\ lastEscalation' = IF r.escalate THEN r.now ELSE lastEscalation
    /\ Release(t)
    /\ Return(t) /\ Forget(t)
    /\ UNCHANGED <<clock, hLock, homeCache, lastRotation, forced, unclaimed, longestWait>>

\* The device login has rotated the chat_secret, the search then fails: the
\* cache keeps the entry it had.
SearchFails(t) ==
    /\ pc[t] = "search"
    /\ unclaimed' = IF t \in Direct THEN unclaimed ELSE unclaimed \cup {req[t].dev}
    /\ Release(t)
    /\ Return(t) /\ Forget(t)
    /\ UNCHANGED <<clock, hLock, cache, homeCache, latches, longestWait>>

-----------------------------------------------------------------------------

Step(t) ==
    \/ Serve(t) \/ Hold(t) \/ Refresh(t)
    \/ HomeFast(t) \/ HomeAcquire(t) \/ HomeCheck(t) \/ HomeCall(t)
    \/ \E rotated \in BOOLEAN : HomeCallFails(t, rotated)
    \/ HomeStore(t) \/ DevLogin(t)
    \/ \E rotated \in BOOLEAN : DevLoginFails(t, rotated)
    \/ Finish(t) \/ SearchFails(t)

Next ==
    \/ Tick
    \/ \E d \in Devices : Invalidate(d)
    \/ \E t \in Threads :
         \/ \E d \in Devices : CallDirect(t, d)
         \/ \E d \in Devices, f \in BOOLEAN, a \in BOOLEAN : Call(t, d, f, a)
         \/ Step(t)

Spec == Init /\ [][Next]_vars

\* The operating system runs every thread that can run, and a cloud call ends
\* in an answer or in its timeout.  Nothing makes a caller call.
FairSpec == Spec /\ \A t \in Threads : WF_vars(Step(t))

-----------------------------------------------------------------------------
(* Properties *)

\* However cached and direct logins of a device interleave, the cache ends up with
\* the result of the last login that stores one: its chat_secret is the server's
\* newest unless a login whose result nobody stores (a direct one, or one that failed
\* after the server rotated) came later, or one that will store it is under way.  The
\* lock held across the login keeps two refreshes from storing in the opposite order
\* of their logins (client.py, _get_e2e_credentials).
CacheFollowsServer ==
    \A d \in Devices :
        /\ Cached(d) /\ d \notin unclaimed
        /\ \A t \in Threads \ Direct : ~(pc[t] = "search" /\ req[t].dev = d)
        => cache[d].devLive

\* With a storm holder the escalation to a home-secret rotation is only ever
\* taken after some caller had waited for _e2e_lock for longer than the rotation
\* interval exceeds the history window: the two latches of
\* _note_device_rotation rule each other out.
EscalationNeedsLongWait ==
    Holder /\ (\E t \in Threads : req[t].escalate)
        => longestWait > RotationInterval - EscalationWindow

\* Thread t holds _e2e_lock and waits for the home lock, whose owner u waits for
\* _e2e_lock: neither will ever go on.
LockCycle(t, u) ==
    /\ eLock = t /\ pc[t] = "homeWait"
    /\ hLock = u /\ pc[u] \in {"homeCheck", "homeStore"} /\ u # t

\* The two locks are taken in both orders only where a login bypasses the cache: in
\* every deadlock of get_e2e_credentials the home lock is held by a direct caller of
\* e2e_login, so cached callers alone, however many, have none (client.py 1083).
CycleNeedsDirect ==
    \A t, u \in Threads : LockCycle(t, u) => u \in Direct

\* The home secret is rotated only when the cached one is missing or past its
\* TTL, or on an escalation: callers that queue on the home lock reuse the
\* login of the first (the second look in _get_home_e2e).
HomeRotationSpaced ==
    [][\A t \in Threads :
         pc[t] = "homeCall" /\ pc'[t] # "homeCall"
             => req[t].escalate \/ ~homeCache.known \/ clock - homeCache.at > HomeTTL]_vars

\* Without a holder the escalation is live, and one that succeeded silences the
\* next for a home TTL, however the calls in between interleave, fail or stamp
\* their entries (CHANGES.md, "Home-secret rotation storm guard").
EscalationSpaced ==
    [][lastEscalation' # lastEscalation
         => lastEscalation' >= lastEscalation + HomeTTL]_vars

\* Documented, and contradicted by the code (README, Findings):
\* The documented rule for a secondary device (get_e2e_credentials, PROTOCOL.md
\* 5.4): it never rotates the shared home secret.
SecondaryNeverRotatesHome ==
    [][\A t \in Threads :
         pc[t] = "homeCall" /\ pc'[t] = "homeStore" => req[t].allowHome]_vars

\* Documented, and contradicted by the code (README, Findings):
\* All consumers use get_e2e_credentials (client.py 1289), so nobody deadlocks.
NoLockCycle == \A t, u \in Threads : ~LockCycle(t, u)

\* Whoever takes _e2e_lock gives it back: no failure path of the login keeps it.
LockReleased == \A t \in Threads : eLock = t ~> eLock # t

=============================================================================
