--------------------------- MODULE EntryLifecycle ---------------------------
(***************************************************************************)
(* The config entries of one account: how they are added, set up, unloaded *)
(* and reconfigured (config_flow.py, __init__.py), the REST client that    *)
(* entries with the same credentials share and count (shared_client.py),   *)
(* the primary device and the storm-state holder of the home, the scheme   *)
(* of unique ids (uid_base.py), and the services.                          *)
(*                                                                         *)
(* Home Assistant runs the setups of several entries side by side; within  *)
(* one, others run at each await.  An entry has one device: its first      *)
(* refresh binds and persists it before other devices are looked for.      *)
(***************************************************************************)
EXTENDS Naturals, FiniteSets, Sequences

CONSTANTS
    Entries,
    Passwords,  \* how many the account has one after the other
    Devices,    \* the devices of the home
    Lists,      \* what the cloud may list; NoId is a module without an id
    NoId,
    MaxChanges  \* bound on changes

ASSUME EntryAssumption ==
    /\ IsFiniteSet(Entries) /\ Passwords \in Nat \ {0} /\ MaxChanges \in Nat /\ NoId \notin Devices
    /\ Lists \subseteq Seq(Devices \cup {NoId})

VARIABLES
    changes,    \* additions, reconfigurations, removals and late failures so far
    password,   \* the credentials the account has now
    entry,      \* what Home Assistant did last with each entry
    data,       \* entry.data: credentials, device, uid_base
    unique,     \* the device in the unique id of each entry
    registry,   \* the schemes of the unique ids registered for each entry
    store,      \* hass.data[_SHARED_CLIENTS_DATA_KEY]: the object of each key
    object,     \* the SharedEmaldoClient objects: credentials, ref_count, client
    held,       \* the object the coordinators of each entry have
    listed,     \* the entries in hass.data[DOMAIN]
    primary,    \* _home_primaries
    holder,     \* _storm_state: the holder of the home, a number, 0 for none
    session,    \* the holder each entry's realtime session was built with
    services,   \* the services are registered
    moved,      \* history: entries whose device was changed after their creation
    mixed       \* history: keys an entry was moved from or to while it was set up, or whose setup failed late

vars == <<changes, password, entry, data, unique, registry, store, object, held, listed, primary, holder,
          session, services, moved, mixed>>

Keys    == 1 .. Passwords
Stages  == {"gone", "ready", "refresh", "platforms", "loaded", "closing"}
Schemes == {"home", "device"}
Objects == 1 .. Cardinality(Entries) + Cardinality(Keys)
Holders == 1 .. Cardinality(Entries) + 1
MaxRefs == Cardinality(Entries) + 1   \* bound on leaked references

TypeOK ==
    /\ changes \in 0 .. MaxChanges
    /\ password \in Keys
    /\ entry \in [Entries -> Stages]
    /\ data \in [Entries -> [key : Keys, device : Devices \cup {NoId}, base : Schemes \cup {"none"}]]
    /\ unique \in [Entries -> Devices \cup {NoId}]
    /\ registry \in [Entries -> SUBSET Schemes]
    /\ store \in [Keys -> Objects \cup {0}]
    /\ object \in [Objects -> [key : Keys, ref : 0 .. MaxRefs, client : BOOLEAN]]
    /\ held \in [Entries -> Objects \cup {0}]
    /\ listed \subseteq Entries /\ primary \in Devices \cup {NoId}
    /\ holder \in Holders \cup {0} /\ session \in [Entries -> Holders \cup {0}]
    /\ services \in BOOLEAN
    /\ \A e \in Entries : entry[e] \in {"platforms", "loaded", "closing"} => data[e].device # NoId
    /\ moved \subseteq Entries /\ mixed \subseteq Keys

-----------------------------------------------------------------------------
(* Shared client *)

\* A new object: one nobody refers to.
Fresh == CHOOSE o \in Objects :
            /\ \A k \in Keys : store[k] # o
            /\ \A e \in Entries : held[e] # o

\* Mutant: only the first entry is counted.
AcquireOnce(e) ==
    LET k == data[e].key
        o == IF store[k] = 0 THEN Fresh ELSE store[k]
    IN
    /\ store' = [store EXCEPT ![k] = o]
    /\ object' = [object EXCEPT ![o] = [key |-> k, ref |-> 1, client |-> store[k] # 0 /\ @.client]]
    /\ held' = [held EXCEPT ![e] = o]

\* async_acquire_shared_client
Acquire(e) ==
    LET k == data[e].key
        o == IF store[k] = 0 THEN Fresh ELSE store[k]
        n == IF store[k] = 0 THEN 0 ELSE object[o].ref
    IN
    /\ store' = [store EXCEPT ![k] = o]
    /\ object' = [object EXCEPT ![o] = [key |-> k, ref |-> n + 1, client |-> store[k] # 0 /\ @.client]]
    /\ held' = [held EXCEPT ![e] = o]

\* Mutant: the client is closed whoever else has it.
ReleaseAll(e) ==
    LET k == data[e].key
        o == store[k]
    IN IF o = 0 THEN UNCHANGED <<store, object>>
       ELSE /\ object' = [object EXCEPT ![o] = [key |-> k, ref |-> 0, client |-> FALSE]]
            /\ store' = [store EXCEPT ![k] = 0]

\* async_release_shared_client: by the entry's present credentials.
Release(e) ==
    LET k == data[e].key
        o == store[k]
        n == IF object[o].ref = 0 THEN 0 ELSE object[o].ref - 1
    IN IF o = 0 THEN UNCHANGED <<store, object>>
       ELSE /\ object' = [object EXCEPT ![o] = [key |-> k, ref |-> n, client |-> @.client /\ n > 0]]
            /\ store' = [store EXCEPT ![k] = IF n = 0 THEN 0 ELSE o]

-----------------------------------------------------------------------------
(* Devices and unique ids *)

\* is_valid_device: where in the list they are
Usable(list) == {i \in DOMAIN list : list[i] # NoId}

\* The device at the first of these positions, if there is one.
First(list, at) == {list[i] : i \in {n \in at : \A m \in at : n <= m}}

\* first_valid_device
FirstValid(list) == First(list, Usable(list))

\* _select_device: the wanted one, else the first nobody has, else any.
Select(list, wanted, configured) ==
    LET usable == Usable(list)
        available == {i \in usable : list[i] \notin configured}
    IN CASE \E i \in usable : list[i] = wanted -> {wanted}
         [] (\A i \in usable : list[i] # wanted) /\ available # {} -> First(list, available)
         [] OTHER -> FirstValid(list)

\* derive_uid_base
Derived(uids) == IF "home" \in uids THEN "home" ELSE "device"

\* legacy_mode
Scheme(base, isPrimary) == IF base = "home" /\ isPrimary THEN "home" ELSE "device"

NoEntry == [key |-> 1, device |-> NoId, base |-> "none"]
Present == {e \in Entries : entry[e] # "gone"}

-----------------------------------------------------------------------------
(* Config flow *)

Init ==
    /\ entry \in [Entries -> {"gone", "ready"}]
    /\ \E d \in Devices \cup {NoId}, uids \in {{}, {"home"}} :
         /\ data = [e \in Entries |-> IF e \in Present THEN [key |-> 1, device |-> d, base |-> "none"] ELSE NoEntry]
         /\ registry = [e \in Entries |-> IF e \in Present THEN uids ELSE {}]
    /\ Cardinality(Present) <= 1   \* earlier versions allowed one entry for an account
    /\ password = 1 /\ changes = 0
    /\ unique = [e \in Entries |-> NoId]
    /\ store = [k \in Keys |-> 0]
    /\ object = [o \in Objects |-> [key |-> 1, ref |-> 0, client |-> FALSE]]
    /\ held = [e \in Entries |-> 0]
    /\ listed = {} /\ primary = NoId
    /\ holder = 0 /\ session = [e \in Entries |-> 0]
    /\ services = FALSE
    /\ moved = {} /\ mixed = {}

\* The credentials are changed in the app.
NewPassword ==
    /\ password < Passwords /\ password' = password + 1
    /\ UNCHANGED <<changes, entry, data, unique, registry, store, object, held, listed, primary, holder,
                   session, services, moved, mixed>>

hass == <<store, object, held, listed, primary, holder, session, services>>

Change == changes < MaxChanges /\ changes' = changes + 1

\* async_step_user
Add(e, list, wanted) ==
    \E d \in Select(list, wanted, {data[f].device : f \in Present}) :
    /\ entry[e] = "gone"
    /\ \A f \in Present : unique[f] # d
    /\ entry' = [entry EXCEPT ![e] = "ready"]
    /\ data' = [data EXCEPT ![e] = [key |-> password, device |-> d, base |-> "device"]]
    /\ unique' = [unique EXCEPT ![e] = d]
    /\ registry' = [registry EXCEPT ![e] = {}]
    /\ moved' = moved \ {e}
    /\ Change
    /\ UNCHANGED <<password, hass, mixed>>

\* async_step_reconfigure; the reload that follows is an Unload and a Setup.
Reconfigure(e, list, wanted) ==
    \E d \in Select(list, wanted, {data[e].device} \ {NoId}) :
    /\ e \in Present
    /\ data' = [data EXCEPT ![e].key = password, ![e].device = d,
                            ![e].base = IF @ = "none" THEN Derived(registry[e]) ELSE @]
    /\ moved' = IF d = data[e].device THEN moved ELSE moved \cup {e}
    /\ mixed' = IF entry[e] # "ready" /\ password # data[e].key THEN mixed \cup {password, data[e].key} ELSE mixed
    /\ Change
    /\ UNCHANGED <<password, hass, entry, unique, registry>>

\* The user removes an entry that is not loaded.
Remove(e) ==
    /\ entry[e] = "ready" /\ entry' = [entry EXCEPT ![e] = "gone"]
    /\ data' = [data EXCEPT ![e] = NoEntry]
    /\ unique' = [unique EXCEPT ![e] = NoId]
    /\ registry' = [registry EXCEPT ![e] = {}]
    /\ moved' = moved \ {e}
    /\ Change
    /\ UNCHANGED <<password, store, object, held, listed, primary, holder, session, services, mixed>>

-----------------------------------------------------------------------------
(* Setup *)

\* async_migrate_entry, and async_setup_entry up to the first refresh.
Setup(e) ==
    /\ entry[e] = "ready" /\ entry' = [entry EXCEPT ![e] = "refresh"]
    /\ store[data[e].key] # 0 => object[store[data[e].key]].ref < MaxRefs
    /\ data' = [data EXCEPT ![e].base = IF @ = "none" THEN Derived(registry[e]) ELSE @]
    /\ Acquire(e)
    /\ UNCHANGED <<changes, password, unique, registry, listed, primary, holder, session, services, moved, mixed>>

\* The first refresh or the discovery raises; Home Assistant sets up again later.
SetupFails(e) ==
    /\ entry[e] = "refresh" /\ entry' = [entry EXCEPT ![e] = "ready"]
    /\ Release(e)
    /\ held' = [held EXCEPT ![e] = 0]
    /\ UNCHANGED <<changes, password, data, unique, registry, listed, primary, holder, session, services, moved, mixed>>

\* async_get_storm_state
HolderNow ==
    IF holder # 0 THEN holder
    ELSE CHOOSE h \in Holders : \A f \in Entries : session[f] # h

\* The device an entry gets: an id-less one is replaced by the first with an id.
Bound(e, list) == IF data[e].device = NoId THEN FirstValid(list) ELSE {data[e].device}
Bindable(e, list) == data[e].device # NoId \/ Usable(list) # {}

\* The primary of the home is the first device to come here.
PrimaryWith(d) == IF primary = NoId THEN d ELSE primary

\* ensure_client
LoggedIn(o) == [object EXCEPT ![o].client = TRUE]

\* The rest of the setup of the coordinators; the device is persisted.
Build(e, list) ==
    \E d \in Bound(e, list) :
    /\ entry[e] = "refresh" /\ Bindable(e, list)
    /\ entry' = [entry EXCEPT ![e] = "platforms"]
    /\ data' = [data EXCEPT ![e].device = d]
    /\ primary' = PrimaryWith(d)
    /\ listed' = listed \cup {e}
    /\ holder' = HolderNow
    /\ session' = [session EXCEPT ![e] = HolderNow]
    /\ object' = LoggedIn(held[e])
    /\ UNCHANGED <<changes, password, unique, registry, store, held, services, moved, mixed>>

\* The home scheme's unique ids of a secondary device are renamed.
Renamed(e) ==
    IF data[e].base = "home" /\ data[e].device # primary /\ "home" \in registry[e]
    THEN (registry[e] \ {"home"}) \cup {"device"} ELSE registry[e]

\* The platforms are set up.  A failure here is past the handler that releases
\* the client.
Platforms(e, ok) ==
    /\ entry[e] = "platforms"
    /\ registry' = [registry EXCEPT ![e] =
                      IF ok THEN Renamed(e) \cup {Scheme(data[e].base, data[e].device = primary)} ELSE Renamed(e)]
    /\ entry' = [entry EXCEPT ![e] = IF ok THEN "loaded" ELSE "ready"]
    /\ services' = (services \/ ok)
    /\ IF ok THEN UNCHANGED changes ELSE Change
    /\ session' = IF ok THEN session ELSE [session EXCEPT ![e] = 0]
    /\ held' = IF ok THEN held ELSE [held EXCEPT ![e] = 0]
    /\ mixed' = IF ok THEN mixed ELSE mixed \cup {data[e].key}
    /\ UNCHANGED <<password, data, unique, store, object, listed, primary, holder, moved>>

-----------------------------------------------------------------------------
(* Unload *)

\* async_unload_entry up to its first await; the sessions are closed.
Unload(e) ==
    /\ entry[e] = "loaded" /\ entry' = [entry EXCEPT ![e] = "closing"]
    /\ listed' = listed \ {e}
    /\ UNCHANGED <<changes, password, data, unique, registry, store, object, held, primary, holder, session, services, moved, mixed>>

\* Mutant: the holder goes with any entry.
NobodyElse(e) == FALSE

\* Another entry that is set up serves the home.
OtherServes(e) == \E f \in listed \ {e} : TRUE
Last(e) == ~OtherServes(e)

\* hass.data[DOMAIN] is empty: no entries, and no primaries either.
NoData(e) == listed = {} /\ primary = NoId

\* The rest of async_unload_entry.
Unloaded(e) ==
    /\ entry[e] = "closing" /\ entry' = [entry EXCEPT ![e] = "ready"]
    /\ Release(e)
    /\ held' = [held EXCEPT ![e] = 0]
    /\ session' = [session EXCEPT ![e] = 0]
    /\ holder' = IF Last(e) THEN 0 ELSE holder
    /\ services' = (services /\ ~NoData(e))
    /\ UNCHANGED <<changes, password, data, unique, registry, listed, primary, moved, mixed>>

\* Home Assistant stops or crashes, and starts again: entries and registry stay.
Restart ==
    /\ entry' = [e \in Entries |-> IF e \in Present THEN "ready" ELSE "gone"]
    /\ store' = [k \in Keys |-> 0]
    /\ object' = [o \in Objects |-> [key |-> 1, ref |-> 0, client |-> FALSE]]
    /\ held' = [e \in Entries |-> 0]
    /\ listed' = {} /\ primary' = NoId
    /\ holder' = 0 /\ session' = [e \in Entries |-> 0]
    /\ services' = FALSE /\ mixed' = {}
    /\ UNCHANGED <<changes, password, data, unique, registry, moved>>

Next ==
    \/ \E e \in Entries :
         \/ \E list \in Lists, wanted \in Devices \cup {NoId} :
              Add(e, list, wanted) \/ Reconfigure(e, list, wanted)
         \/ Remove(e) \/ Setup(e) \/ SetupFails(e) \/ Unload(e) \/ Unloaded(e)
         \/ \E list \in Lists : Build(e, list)
         \/ \E ok \in BOOLEAN : Platforms(e, ok)
    \/ Restart \/ NewPassword

Spec == Init /\ [][Next]_vars

-----------------------------------------------------------------------------
(* Properties *)

\* References are exact as long as no entry changes its credentials while it is
\* set up and no setup fails after its try: the count of a shared client is the
\* number of entries that have it, they share one, and unused ones are gone
\* (async_acquire_shared_client, async_release_shared_client).
Users(k) == {e \in Entries : entry[e] \in {"refresh", "platforms", "loaded", "closing"} /\ data[e].key = k}
RefsExact ==
    \A k \in Keys \ mixed :
        IF store[k] = 0 THEN Users(k) = {}
        ELSE /\ object[store[k]].ref = Cardinality(Users(k))
             /\ Users(k) = {e \in Entries : held[e] = store[k]} /\ Users(k) # {}

\* A client in use is closed by nobody else (the same exceptions, and restarts).
ClosedByLast ==
    [][\A e \in Entries :
         entry[e] = "loaded" /\ entry'[e] = "loaded" /\ data[e].key \notin mixed \cup mixed'
            => (object[held[e]].client => object'[held[e]].client)]_vars

\* Documented, and contradicted by the code (README, Findings):
\* "Reference-counted REST client shared across matching config entries."
SharedByMatching ==
    \A e, f \in Entries :
        entry[e] = "loaded" /\ entry[f] = "loaded" /\ object[held[e]].key = object[held[f]].key => held[e] = held[f]

\* The sessions of the home share one storm-state holder, also across unloads
\* and setups side by side: it is "cleared only by an HA restart or entry unload
\* when the last entry serving that home goes away".
OneHolder ==
    \A e \in Entries : entry[e] = "loaded" => session[e] = holder

\* Documented, and contradicted by the code (README, Findings):
\* An entry that has the home scheme keeps it ("sticky", #73), for its device.
UidsKept ==
    [][\A e \in Entries \ moved : "home" \in registry[e] /\ entry'[e] # "gone" => "home" \in registry'[e]]_vars

=============================================================================
