------------------------ MODULE EntryLifecycleProofs ------------------------
(***************************************************************************)
(* The count of a shared client, who closes it, and the holder of the      *)
(* home, for any entries, devices, lists and changes of the password.      *)
(***************************************************************************)
EXTENDS EntryLifecycle, FiniteSetTheorems, TLAPS

Active == {"refresh", "platforms", "loaded", "closing"}

\* The part of TypeOK that the counts need; nothing is said of devices (see Bindings).
Typed ==
    /\ password \in Keys
    /\ entry \in [Entries -> Stages]
    /\ data = [e \in Entries |-> data[e]]
    /\ \A e \in Entries : DOMAIN data[e] = {"key", "device", "base"} /\ data[e].key \in Keys
    /\ store \in [Keys -> Objects \cup {0}]
    /\ object \in [Objects -> [key : Keys, ref : 0 .. MaxRefs, client : BOOLEAN]]
    /\ held \in [Entries -> Objects \cup {0}]
    /\ listed \subseteq Entries
    /\ holder \in Holders \cup {0} /\ session \in [Entries -> Holders \cup {0}]

\* Two keys have not the same client.
Distinct == \A k, l \in Keys : store[k] # 0 /\ store[k] = store[l] => k = l

\* An entry has a client from its setup to its unload.
HeldWhileActive == \A e \in Entries : held[e] # 0 <=> entry[e] \in Active

\* An entry whose platforms are set up keeps the home's holder in place.
Serving ==
    \A e \in Entries : entry[e] \in {"platforms", "loaded"} =>
        e \in listed /\ session[e] = holder /\ holder # 0

IInv == Typed /\ Distinct /\ HeldWhileActive /\ RefsExact /\ Serving

-----------------------------------------------------------------------------
(* There is always an object and a holder that nobody has *)

LEMMA Sizes ==
    /\ IsFiniteSet(Entries) /\ Cardinality(Entries) \in Nat
    /\ IsFiniteSet(Keys) /\ Cardinality(Keys) = Passwords /\ Passwords \in Nat \ {0}
    /\ IsFiniteSet(Objects) /\ Cardinality(Objects) = Cardinality(Entries) + Passwords
    /\ IsFiniteSet(Holders) /\ Cardinality(Holders) = Cardinality(Entries) + 1
    /\ 0 \notin Objects /\ 0 \notin Holders /\ 1 \in 0 .. MaxRefs /\ 0 \in 0 .. MaxRefs /\ MaxRefs \in Nat
<1>1. IsFiniteSet(Entries) /\ Cardinality(Entries) \in Nat /\ Passwords \in Nat \ {0}
  BY EntryAssumption, FS_CardinalityType
<1>2. IsFiniteSet(Keys) /\ Cardinality(Keys) = Passwords
  BY <1>1, FS_Interval DEF Keys
<1>3. IsFiniteSet(Objects) /\ Cardinality(Objects) = Cardinality(Entries) + Passwords
  <2>1. Objects = 1 .. Cardinality(Entries) + Passwords
    BY <1>2 DEF Objects
  <2>2. Cardinality(Entries) + Passwords \in Nat \ {0}
    BY <1>1
  <2> QED
    BY <2>1, <2>2, FS_Interval
<1>4. IsFiniteSet(Holders) /\ Cardinality(Holders) = Cardinality(Entries) + 1
  BY <1>1, FS_Interval DEF Holders
<1>5. 0 \notin Objects /\ 0 \notin Holders /\ 1 \in 0 .. MaxRefs /\ 0 \in 0 .. MaxRefs /\ MaxRefs \in Nat
  BY <1>1 DEF Objects, Holders, MaxRefs
<1> QED
  BY <1>1, <1>2, <1>3, <1>4, <1>5

\* A function has no more values than arguments.
LEMMA FewValues ==
    ASSUME NEW S, IsFiniteSet(S), NEW f, f = [x \in S |-> f[x]]
    PROVE  LET T == {f[x] : x \in S} IN
           IsFiniteSet(T) /\ Cardinality(T) \in Nat /\ Cardinality(T) <= Cardinality(S)
<1> DEFINE T == {f[x] : x \in S}
<1>1. f \in Surjection(S, T)
  BY DEF Surjection
<1>2. IsFiniteSet(T) /\ Cardinality(T) <= Cardinality(S)
  BY <1>1, FS_Surjection
<1> QED
  BY <1>2, FS_CardinalityType

LEMMA FreshExists ==
    ASSUME Typed, NEW k \in Keys, store[k] = 0
    PROVE  /\ Fresh \in Objects
           /\ \A l \in Keys : store[l] # Fresh
           /\ \A e \in Entries : held[e] # Fresh
<1> DEFINE K == Keys \ {k}
           f == [l \in K |-> store[l]]
           A == {f[l] : l \in K}
           B == {held[e] : e \in Entries}
<1>1. IsFiniteSet(K) /\ Cardinality(K) = Passwords - 1
  BY Sizes, FS_RemoveElement
<1>2. IsFiniteSet(A) /\ Cardinality(A) \in Nat /\ Cardinality(A) <= Passwords - 1
  <2>1. f = [l \in K |-> f[l]]
    OBVIOUS
  <2> HIDE DEF f, K
  <2> QED
    BY <1>1, <2>1, FewValues
<1>3. IsFiniteSet(B) /\ Cardinality(B) \in Nat /\ Cardinality(B) <= Cardinality(Entries)
  <2>1. held = [e \in Entries |-> held[e]]
    BY DEF Typed
  <2> QED
    BY <2>1, Sizes, FewValues
<1>4. \E o \in Objects : o \notin A \cup B
  <2> SUFFICES ASSUME Objects \subseteq A \cup B PROVE FALSE
    OBVIOUS
  <2>1. IsFiniteSet(A \cup B) /\ Cardinality(A \cup B) = Cardinality(A) + Cardinality(B) - Cardinality(A \cap B)
    BY <1>2, <1>3, FS_Union
  <2>2. Cardinality(A \cap B) \in Nat
    BY <1>2, FS_Subset, FS_CardinalityType
  <2>3. Cardinality(Objects) <= Cardinality(A \cup B)
    BY <2>1, FS_Subset
  <2> HIDE DEF A, B
  <2> QED
    BY <1>2, <1>3, <2>1, <2>2, <2>3, Sizes
<1>5. \E o \in Objects : (\A l \in Keys : store[l] # o) /\ (\A e \in Entries : held[e] # o)
  BY <1>4, Sizes
<1> QED
  BY <1>5 DEF Fresh

LEMMA HolderExists ==
    ASSUME Typed
    PROVE  HolderNow \in Holders /\ (holder # 0 => HolderNow = holder)
<1>1. CASE holder # 0
  BY <1>1 DEF HolderNow, Typed
<1>2. CASE holder = 0
  <2> DEFINE T == {session[e] : e \in Entries}
  <2>1. IsFiniteSet(T) /\ Cardinality(T) \in Nat /\ Cardinality(T) <= Cardinality(Entries)
    <3>1. session = [e \in Entries |-> session[e]]
      BY DEF Typed
    <3> QED
      BY <3>1, Sizes, FewValues
  <2>2. \E h \in Holders : h \notin T
    <3> SUFFICES ASSUME Holders \subseteq T PROVE FALSE
      OBVIOUS
    <3>1. Cardinality(Holders) <= Cardinality(T)
      BY <2>1, FS_Subset
    <3> HIDE DEF T
    <3> QED
      BY <2>1, <3>1, Sizes
  <2>3. \E h \in Holders : \A f \in Entries : session[f] # h
    BY <2>2
  <2> QED
    BY <1>2, <2>3 DEF HolderNow
<1> QED
  BY <1>1, <1>2

-----------------------------------------------------------------------------
(* The clients *)

\* What RefsExact says of one key.
Exact(k) ==
    IF store[k] = 0 THEN Users(k) = {}
    ELSE /\ object[store[k]].ref = Cardinality(Users(k))
         /\ Users(k) = {e \in Entries : held[e] = store[k]} /\ Users(k) # {}

LEMMA UsersFinite ==
    ASSUME NEW k \in Keys
    PROVE  IsFiniteSet(Users(k)) /\ Cardinality(Users(k)) \in Nat
  BY Sizes, FS_Subset, FS_CardinalityType DEF Users

\* A step that leaves clients alone, and of each exact key the users.
LEMMA ClientsKept ==
    ASSUME IInv, UNCHANGED <<store, object, held>>,
           \A k \in Keys \ mixed' : k \notin mixed /\ Users(k)' = Users(k)
    PROVE  Distinct' /\ RefsExact'
  BY Zenon DEF IInv, Distinct, RefsExact

LEMMA SetupKeeps ==
    ASSUME IInv, NEW e \in Entries, Setup(e)
    PROVE  IInv'
<1> DEFINE k == data[e].key
           o == IF store[k] = 0 THEN Fresh ELSE store[k]
           n == IF store[k] = 0 THEN 0 ELSE object[o].ref
<1>1. k \in Keys /\ entry[e] = "ready" /\ entry' = [entry EXCEPT ![e] = "refresh"]
  BY DEF IInv, Typed, Setup
<1>2. /\ o \in Objects /\ o # 0
      /\ store[k] = 0 => (\A l \in Keys : store[l] # o) /\ (\A f \in Entries : held[f] # o)
  BY <1>1, FreshExists, Sizes DEF IInv, Typed
<1>3. n + 1 \in 0 .. MaxRefs
  BY <1>1, <1>2, Sizes DEF IInv, Typed, Setup
<1>4. /\ store' = [store EXCEPT ![k] = o]
      /\ object' = [object EXCEPT ![o] = [key |-> k, ref |-> n + 1, client |-> store[k] # 0 /\ @.client]]
      /\ held' = [held EXCEPT ![e] = o]
  BY DEF Setup, Acquire
<1>5. /\ data' = [f \in Entries |-> data'[f]]
      /\ \A f \in Entries : DOMAIN data'[f] = {"key", "device", "base"} /\ data'[f].key = data[f].key
  BY <1>1 DEF Setup, IInv, Typed
<1>6. UNCHANGED <<password, listed, holder, session, mixed>>
  BY DEF Setup
<1> HIDE DEF k, o, n
<1>7. \A l \in Keys : store'[l] = IF l = k THEN o ELSE store[l]
  BY <1>1, <1>4 DEF IInv, Typed
<1>8. \A f \in Entries : held'[f] = IF f = e THEN o ELSE held[f]
  BY <1>4 DEF IInv, Typed
<1>9. \A p \in Objects : /\ p # o => object'[p] = object[p]
                         /\ object'[o].ref = n + 1
  BY <1>2, <1>4 DEF IInv, Typed
<1>10. \A f \in Entries : entry'[f] = IF f = e THEN "refresh" ELSE entry[f]
  BY <1>1 DEF IInv, Typed
<1>11. held[e] = 0
  BY <1>1 DEF IInv, HeldWhileActive, Active
<1>12. Typed'
  <2>1. object' \in [Objects -> [key : Keys, ref : 0 .. MaxRefs, client : BOOLEAN]]
    BY <1>1, <1>2, <1>3, <1>4 DEF IInv, Typed
  <2>2. entry' \in [Entries -> Stages]
    BY <1>1 DEF IInv, Typed, Stages
  <2>3. store' \in [Keys -> Objects \cup {0}] /\ held' \in [Entries -> Objects \cup {0}]
    BY <1>1, <1>2, <1>4 DEF IInv, Typed
  <2> QED
    BY <1>5, <1>6, <2>1, <2>2, <2>3 DEF IInv, Typed
<1>13. Distinct'
  <2> SUFFICES ASSUME NEW l \in Keys, NEW m \in Keys, store'[l] # 0, store'[l] = store'[m] PROVE l = m
    BY DEF Distinct
  <2> QED
    BY <1>1, <1>2, <1>7, Zenon DEF IInv, Distinct, o
<1>14. HeldWhileActive'
  BY <1>2, <1>8, <1>10, <1>1 DEF IInv, HeldWhileActive, Active
<1>15. RefsExact'
  <2> SUFFICES ASSUME NEW l \in Keys \ mixed PROVE Exact(l)'
    BY <1>6 DEF RefsExact, Exact
  <2>0. Exact(l)
    BY DEF IInv, RefsExact, Exact
  <2>1. CASE l # k
    <3>1. Users(l)' = Users(l)
      BY <1>1, <1>5, <1>10, <2>1 DEF Users, k
    <3>2. store'[l] = store[l] /\ store[l] # o
      BY <1>1, <1>2, <1>7, <2>1 DEF IInv, Distinct, o
    <3>3. CASE store[l] = 0
      BY <2>0, <3>1, <3>2, <3>3 DEF Exact
    <3>4. CASE store[l] # 0
      <4>1. store[l] \in Objects
        BY <3>4 DEF IInv, Typed
      <4>2. object'[store[l]] = object[store[l]]
        BY <1>9, <3>2, <4>1
      <4>3. {f \in Entries : held'[f] = store[l]} = {f \in Entries : held[f] = store[l]}
        BY <1>8, <1>11, <3>2, <3>4
      <4> QED
        BY <2>0, <3>1, <3>2, <3>4, <4>2, <4>3 DEF Exact
    <3> QED
      BY <3>3, <3>4
  <2>2. CASE l = k
    <3>1. Users(l)' = Users(l) \cup {e} /\ e \notin Users(l)
      BY <1>1, <1>5, <1>10, <2>2 DEF Users, k
    <3>2. Cardinality(Users(l)') = Cardinality(Users(l)) + 1
      BY <3>1, UsersFinite, FS_AddElement
    <3>3. n = Cardinality(Users(l)) /\ {f \in Entries : held[f] = o} = Users(l)
      <4>1. CASE store[k] = 0
        BY <1>2, <2>0, <2>2, <4>1, FS_EmptySet DEF Exact, n
      <4>2. CASE store[k] # 0
        BY <2>0, <2>2, <4>2 DEF Exact, n, o
      <4> QED
        BY <4>1, <4>2
    <3>4. {f \in Entries : held'[f] = o} = Users(l)'
      BY <1>8, <3>1, <3>3
    <3>5. store'[l] = o /\ object'[o].ref = Cardinality(Users(l)')
      BY <1>2, <1>7, <1>9, <2>2, <3>2, <3>3
    <3> QED
      BY <1>2, <3>1, <3>4, <3>5 DEF Exact
  <2> QED
    BY <2>1, <2>2
<1>16. Serving'
  BY <1>6, <1>10 DEF IInv, Serving
<1> QED
  BY <1>12, <1>13, <1>14, <1>15, <1>16 DEF IInv

\* Both ends of an entry's stay: it releases its key's client and has none.
LEMMA ReleaseKeeps ==
    ASSUME IInv, NEW e \in Entries, Release(e),
           entry[e] \in Active, entry' = [entry EXCEPT ![e] = "ready"],
           held' = [held EXCEPT ![e] = 0],
           UNCHANGED <<data, mixed>>
    PROVE  /\ store' \in [Keys -> Objects \cup {0}] /\ held' \in [Entries -> Objects \cup {0}]
           /\ object' \in [Objects -> [key : Keys, ref : 0 .. MaxRefs, client : BOOLEAN]]
           /\ entry' \in [Entries -> Stages]
           /\ Distinct' /\ HeldWhileActive' /\ RefsExact'
<1> DEFINE k == data[e].key
           o == store[k]
           n == IF object[o].ref = 0 THEN 0 ELSE object[o].ref - 1
<1>1. k \in Keys /\ o \in Objects \cup {0}
  BY DEF IInv, Typed
<1>2. o = 0 => UNCHANGED <<store, object>>
  BY DEF Release
<1>3. o # 0 => /\ object' = [object EXCEPT ![o] = [key |-> k, ref |-> n, client |-> @.client /\ n > 0]]
               /\ store' = [store EXCEPT ![k] = IF n = 0 THEN 0 ELSE o]
  BY DEF Release
<1>4. \A f \in Entries : /\ entry'[f] = IF f = e THEN "ready" ELSE entry[f]
                         /\ held'[f] = IF f = e THEN 0 ELSE held[f]
  BY DEF IInv, Typed
<1>5. o # 0 => o \in Objects /\ object[o].ref \in 0 .. MaxRefs /\ n \in 0 .. MaxRefs
  <2>1. o # 0 => o \in Objects /\ object[o].ref \in 0 .. MaxRefs
    BY <1>1 DEF IInv, Typed
  <2> QED
    BY <2>1, Sizes
<1> HIDE DEF k, n
<1>6. \A l \in Keys : store'[l] = IF l = k /\ o # 0 /\ n = 0 THEN 0 ELSE store[l]
  BY <1>1, <1>2, <1>3 DEF IInv, Typed
<1>7. \A p \in Objects : /\ p # o => object'[p] = object[p]
                         /\ p = o => object'[p].ref = n
  BY <1>2, <1>3, <1>5, Sizes DEF IInv, Typed
<1>8. /\ store' \in [Keys -> Objects \cup {0}] /\ held' \in [Entries -> Objects \cup {0}]
      /\ entry' \in [Entries -> Stages]
  BY <1>1, <1>2, <1>3 DEF IInv, Typed, Stages
<1>9. object' \in [Objects -> [key : Keys, ref : 0 .. MaxRefs, client : BOOLEAN]]
  <2>1. CASE o = 0
    BY <1>2, <2>1 DEF IInv, Typed
  <2>2. CASE o # 0
    <3>1. [key |-> k, ref |-> n, client |-> object[o].client /\ n > 0] \in [key : Keys, ref : 0 .. MaxRefs, client : BOOLEAN]
      BY <1>1, <1>5, <2>2
    <3> QED
      BY <1>3, <1>5, <2>2, <3>1 DEF IInv, Typed
  <2> QED
    BY <2>1, <2>2
<1>10. Distinct'
  BY <1>6, Zenon DEF IInv, Distinct
<1>11. HeldWhileActive'
  BY <1>4 DEF IInv, HeldWhileActive, Active
<1>12. RefsExact'
  <2> SUFFICES ASSUME NEW l \in Keys \ mixed PROVE Exact(l)'
    BY DEF RefsExact, Exact
  <2>0. Exact(l)
    BY DEF IInv, RefsExact, Exact
  <2>1. CASE l # k
    <3>1. Users(l)' = Users(l) /\ e \notin Users(l)
      BY <1>4, <2>1 DEF Users, k
    <3>2. store'[l] = store[l] /\ (store[l] # 0 => store[l] # o)
      BY <1>1, <1>6, <2>1 DEF IInv, Distinct
    <3>3. CASE store[l] = 0
      BY <2>0, <3>1, <3>2, <3>3 DEF Exact
    <3>4. CASE store[l] # 0
      <4>1. store[l] \in Objects
        BY <3>4 DEF IInv, Typed
      <4>2. object'[store[l]] = object[store[l]]
        BY <1>7, <3>2, <3>4, <4>1
      <4>3. held[e] # store[l]
        BY <2>0, <3>1, <3>4 DEF Exact
      <4>4. {f \in Entries : held'[f] = store[l]} = {f \in Entries : held[f] = store[l]}
        BY <1>4, <3>4, <4>3
      <4> QED
        BY <2>0, <3>1, <3>2, <3>4, <4>2, <4>4 DEF Exact
    <3> QED
      BY <3>3, <3>4
  <2>2. CASE l = k
    <3>1. e \in Users(l) /\ Users(l)' = Users(l) \ {e}
      BY <1>4, <2>2 DEF Users, k, Active
    <3>2. /\ o # 0 /\ object[o].ref = Cardinality(Users(l))
          /\ Users(l) = {f \in Entries : held[f] = o}
      BY <2>0, <2>2, <3>1 DEF Exact
    <3>3. Cardinality(Users(l)') = Cardinality(Users(l)) - 1 /\ Cardinality(Users(l)') \in Nat
      BY <3>1, UsersFinite, FS_RemoveElement, FS_CardinalityType
    <3>4. n = Cardinality(Users(l)')
      BY <3>2, <3>3, UsersFinite DEF n
    <3>5. CASE n = 0
      <4>1. Users(l)' = {}
        BY <3>1, <3>4, <3>5, UsersFinite, FS_RemoveElement, FS_EmptySet
      <4>2. store'[l] = 0
        BY <1>6, <2>2, <3>2, <3>5
      <4> QED
        BY <4>1, <4>2 DEF Exact
    <3>6. CASE n # 0
      <4>1. store'[l] = o /\ object'[o].ref = n
        BY <1>1, <1>5, <1>6, <1>7, <2>2, <3>2, <3>6
      <4>2. {f \in Entries : held'[f] = o} = Users(l)'
        BY <1>4, <3>1, <3>2
      <4>3. Users(l)' # {}
        BY <3>4, <3>6, FS_EmptySet
      <4> QED
        BY <3>2, <3>4, <4>1, <4>2, <4>3 DEF Exact
    <3> QED
      BY <3>5, <3>6
  <2> QED
    BY <2>1, <2>2
<1> QED
  BY <1>8, <1>9, <1>10, <1>11, <1>12

-----------------------------------------------------------------------------
(* The actions *)

LEMMA SetupFailsKeeps ==
    ASSUME IInv, NEW e \in Entries, SetupFails(e)
    PROVE  IInv'
<1>1. /\ Release(e) /\ entry[e] \in Active /\ entry' = [entry EXCEPT ![e] = "ready"]
      /\ held' = [held EXCEPT ![e] = 0]
      /\ UNCHANGED <<data, mixed, password, listed, holder, session>>
  BY DEF SetupFails, Active
<1>2. Typed' /\ Distinct' /\ HeldWhileActive' /\ RefsExact'
  BY <1>1, ReleaseKeeps DEF IInv, Typed
<1>3. Serving'
  BY <1>1 DEF IInv, Serving, Typed
<1> QED
  BY <1>2, <1>3 DEF IInv

LEMMA UnloadedKeeps ==
    ASSUME IInv, NEW e \in Entries, Unloaded(e)
    PROVE  IInv'
<1>1. /\ Release(e) /\ entry[e] = "closing" /\ entry' = [entry EXCEPT ![e] = "ready"]
      /\ held' = [held EXCEPT ![e] = 0] /\ session' = [session EXCEPT ![e] = 0]
      /\ holder' = IF Last(e) THEN 0 ELSE holder
      /\ UNCHANGED <<data, mixed, password, listed>>
  BY DEF Unloaded
<1>2. /\ store' \in [Keys -> Objects \cup {0}] /\ held' \in [Entries -> Objects \cup {0}]
      /\ object' \in [Objects -> [key : Keys, ref : 0 .. MaxRefs, client : BOOLEAN]]
      /\ entry' \in [Entries -> Stages]
      /\ Distinct' /\ HeldWhileActive' /\ RefsExact'
  BY <1>1, ReleaseKeeps DEF Active
<1>3. Typed'
  BY <1>1, <1>2 DEF IInv, Typed
<1>4. Serving'
  <2> SUFFICES ASSUME NEW f \in Entries, entry'[f] \in {"platforms", "loaded"}
               PROVE  f \in listed' /\ session'[f] = holder' /\ holder' # 0
    BY DEF Serving
  <2>1. f # e /\ entry'[f] = entry[f] /\ session'[f] = session[f]
    BY <1>1 DEF IInv, Typed
  <2>2. f \in listed /\ session[f] = holder /\ holder # 0
    BY <2>1 DEF IInv, Serving
  <2>3. ~Last(e)
    BY <2>1, <2>2 DEF Last, OtherServes
  <2> QED
    BY <1>1, <2>1, <2>2, <2>3
<1> QED
  BY <1>2, <1>3, <1>4 DEF IInv

LEMMA BuildKeeps ==
    ASSUME IInv, NEW e \in Entries, NEW list \in Lists, Build(e, list)
    PROVE  IInv'
<1>1. PICK d \in Bound(e, list) :
      /\ entry[e] = "refresh" /\ entry' = [entry EXCEPT ![e] = "platforms"]
      /\ data' = [data EXCEPT ![e].device = d]
      /\ listed' = listed \cup {e} /\ holder' = HolderNow /\ session' = [session EXCEPT ![e] = HolderNow]
      /\ object' = [object EXCEPT ![held[e]].client = TRUE]
      /\ UNCHANGED <<password, store, held, mixed>>
  BY DEF Build, LoggedIn
<1>2. HolderNow \in Holders /\ HolderNow # 0 /\ (holder # 0 => HolderNow = holder)
  BY HolderExists, Sizes DEF IInv
<1>3. \A f \in Entries : entry'[f] = IF f = e THEN "platforms" ELSE entry[f]
  BY <1>1 DEF IInv, Typed
<1>4. /\ data' = [f \in Entries |-> data'[f]]
      /\ \A f \in Entries : DOMAIN data'[f] = {"key", "device", "base"} /\ data'[f].key = data[f].key
  BY <1>1 DEF IInv, Typed
<1>5. /\ object' \in [Objects -> [key : Keys, ref : 0 .. MaxRefs, client : BOOLEAN]]
      /\ \A o \in Objects : object'[o].ref = object[o].ref
  BY <1>1 DEF IInv, Typed
<1>6. Typed'
  <2>1. entry' \in [Entries -> Stages]
    BY <1>1 DEF IInv, Typed, Stages
  <2> QED
    BY <1>1, <1>2, <1>4, <1>5, <2>1 DEF IInv, Typed
<1>7. Distinct' /\ HeldWhileActive'
  BY <1>1, <1>3 DEF IInv, Distinct, HeldWhileActive, Active
<1>8. RefsExact'
  <2> SUFFICES ASSUME NEW l \in Keys \ mixed PROVE Exact(l)'
    BY <1>1 DEF RefsExact, Exact
  <2>1. Users(l)' = Users(l)
    BY <1>1, <1>3, <1>4 DEF Users
  <2>2. store[l] # 0 => store[l] \in Objects
    BY DEF IInv, Typed
  <2> QED
    BY <1>1, <1>5, <2>1, <2>2 DEF IInv, RefsExact, Exact
<1>9. Serving'
  <2> SUFFICES ASSUME NEW f \in Entries, entry'[f] \in {"platforms", "loaded"}
               PROVE  f \in listed' /\ session'[f] = holder' /\ holder' # 0
    BY DEF Serving
  <2> QED
    BY <1>1, <1>2, <1>3 DEF IInv, Serving, Typed
<1> QED
  BY <1>6, <1>7, <1>8, <1>9 DEF IInv

LEMMA PlatformsKeeps ==
    ASSUME IInv, NEW e \in Entries, NEW ok \in BOOLEAN, Platforms(e, ok)
    PROVE  IInv'
<1>1. /\ entry[e] = "platforms" /\ entry' = [entry EXCEPT ![e] = IF ok THEN "loaded" ELSE "ready"]
      /\ session' = IF ok THEN session ELSE [session EXCEPT ![e] = 0]
      /\ held' = IF ok THEN held ELSE [held EXCEPT ![e] = 0]
      /\ mixed' = IF ok THEN mixed ELSE mixed \cup {data[e].key}
      /\ UNCHANGED <<password, data, store, object, listed, holder>>
  BY DEF Platforms
<1>2. \A f \in Entries : entry'[f] = IF f = e THEN (IF ok THEN "loaded" ELSE "ready") ELSE entry[f]
  BY <1>1 DEF IInv, Typed
<1>3. Typed' /\ Distinct'
  <2>1. entry' \in [Entries -> Stages]
    BY <1>1 DEF IInv, Typed, Stages
  <2> QED
    BY <1>1, <2>1 DEF IInv, Typed, Distinct
<1>4. HeldWhileActive'
  BY <1>1, <1>2 DEF IInv, HeldWhileActive, Active, Typed
<1>5. Serving'
  BY <1>1, <1>2 DEF IInv, Serving, Typed
<1>6. RefsExact'
  <2> SUFFICES ASSUME NEW l \in Keys \ mixed' PROVE Exact(l)'
    BY DEF RefsExact, Exact
  <2>0. Exact(l)
    BY <1>1 DEF IInv, RefsExact, Exact
  <2>1. Users(l)' = Users(l)
    BY <1>1, <1>2 DEF Users
  <2>2. CASE ok
    BY <1>1, <2>0, <2>1, <2>2 DEF Exact
  <2>3. CASE ~ok
    <3>1. e \notin Users(l)
      BY <1>1, <2>3 DEF Users
    <3>2. {f \in Entries : held'[f] = store[l]} = {f \in Entries : held[f] = store[l]} \/ store[l] = 0
      BY <1>1, <2>0, <2>3, <3>1 DEF Exact, IInv, Typed
    <3> QED
      BY <1>1, <2>0, <2>1, <3>2 DEF Exact
  <2> QED
    BY <2>2, <2>3
<1> QED
  BY <1>3, <1>4, <1>5, <1>6 DEF IInv

\* An entry that is not set up changes its data, or is added or removed.
LEMMA ConfigKeeps ==
    ASSUME IInv, NEW e \in Entries,
           entry[e] \in {"gone", "ready"}, NEW stage \in {"gone", "ready"}, entry' = [entry EXCEPT ![e] = stage],
           NEW d, DOMAIN d = {"key", "device", "base"}, d.key \in Keys, data' = [data EXCEPT ![e] = d],
           UNCHANGED <<password, store, object, held, listed, holder, session, mixed>>
    PROVE  IInv'
<1>1. \A f \in Entries : /\ entry'[f] = IF f = e THEN stage ELSE entry[f]
                         /\ data'[f] = IF f = e THEN d ELSE data[f]
  BY DEF IInv, Typed
<1>2. Typed'
  BY <1>1 DEF IInv, Typed, Stages
<1>3. \A k \in Keys \ mixed' : k \notin mixed /\ Users(k)' = Users(k)
  BY <1>1 DEF Users
<1>4. HeldWhileActive' /\ Serving'
  BY <1>1 DEF IInv, HeldWhileActive, Serving, Active
<1> QED
  BY <1>2, <1>3, <1>4, ClientsKept DEF IInv

LEMMA AddKeeps ==
    ASSUME IInv, NEW e \in Entries, NEW list \in Lists, NEW wanted \in Devices \cup {NoId}, Add(e, list, wanted)
    PROVE  IInv'
<1>0. PICK device \in Select(list, wanted, {data[f].device : f \in Present}) :
         /\ entry[e] = "gone" /\ entry' = [entry EXCEPT ![e] = "ready"]
         /\ data' = [data EXCEPT ![e] = [key |-> password, device |-> device, base |-> "device"]]
         /\ UNCHANGED <<password, hass, mixed>>
  BY DEF Add
<1> DEFINE d == [key |-> password, device |-> device, base |-> "device"]
<1>1. /\ entry[e] = "gone" /\ entry' = [entry EXCEPT ![e] = "ready"] /\ data' = [data EXCEPT ![e] = d]
      /\ UNCHANGED <<password, store, object, held, listed, holder, session, mixed>>
  BY <1>0 DEF hass
<1>2. DOMAIN d = {"key", "device", "base"} /\ d.key \in Keys
  BY DEF IInv, Typed
<1> HIDE DEF d
<1> QED
  BY <1>1, <1>2, ConfigKeeps

LEMMA RemoveKeeps ==
    ASSUME IInv, NEW e \in Entries, Remove(e)
    PROVE  IInv'
<1>1. DOMAIN NoEntry = {"key", "device", "base"} /\ NoEntry.key \in Keys
  BY Sizes DEF NoEntry, Keys
<1> QED
  BY <1>1, ConfigKeeps DEF Remove

LEMMA ReconfigureKeeps ==
    ASSUME IInv, NEW e \in Entries, NEW list \in Lists, NEW wanted \in Devices \cup {NoId},
           Reconfigure(e, list, wanted)
    PROVE  IInv'
<1>0. PICK device \in Select(list, wanted, {data[e].device} \ {NoId}) :
         /\ e \in Present
         /\ data' = [data EXCEPT ![e].key = password, ![e].device = device,
                                 ![e].base = IF @ = "none" THEN Derived(registry[e]) ELSE @]
         /\ mixed' = IF entry[e] # "ready" /\ password # data[e].key THEN mixed \cup {password, data[e].key} ELSE mixed
         /\ UNCHANGED <<password, hass, entry>>
  BY DEF Reconfigure
<1> DEFINE d == [data[e] EXCEPT !.key = password, !.device = device,
                                !.base = IF @ = "none" THEN Derived(registry[e]) ELSE @]
<1>1. /\ data' = [data EXCEPT ![e] = d]
      /\ mixed' = IF entry[e] # "ready" /\ password # data[e].key THEN mixed \cup {password, data[e].key} ELSE mixed
      /\ e \in Present
      /\ UNCHANGED <<password, store, object, held, listed, holder, session, entry>>
  BY <1>0 DEF hass, IInv, Typed
<1>2. DOMAIN d = {"key", "device", "base"} /\ d.key = password /\ password \in Keys
  BY DEF IInv, Typed
<1> HIDE DEF d
<1>3. \A f \in Entries : data'[f] = IF f = e THEN d ELSE data[f]
  BY <1>1 DEF IInv, Typed
<1>4. Typed'
  BY <1>1, <1>2, <1>3 DEF IInv, Typed
<1>5. \A k \in Keys \ mixed' : k \notin mixed /\ Users(k)' = Users(k)
  BY <1>1, <1>2, <1>3 DEF Users, IInv, Typed
<1>6. HeldWhileActive' /\ Serving'
  BY <1>1 DEF IInv, HeldWhileActive, Serving
<1> QED
  BY <1>1, <1>4, <1>5, <1>6, ClientsKept DEF IInv

LEMMA UnloadKeeps ==
    ASSUME IInv, NEW e \in Entries, Unload(e)
    PROVE  IInv'
<1>1. /\ entry[e] = "loaded" /\ entry' = [entry EXCEPT ![e] = "closing"]
      /\ listed' = listed \ {e}
      /\ UNCHANGED <<password, data, store, object, held, holder, session, mixed>>
  BY DEF Unload
<1>2. \A f \in Entries : entry'[f] = IF f = e THEN "closing" ELSE entry[f]
  BY <1>1 DEF IInv, Typed
<1>3. Typed'
  <2>1. entry' \in [Entries -> Stages]
    BY <1>1 DEF IInv, Typed, Stages
  <2> QED
    BY <1>1, <2>1 DEF IInv, Typed
<1>4. \A k \in Keys \ mixed' : k \notin mixed /\ Users(k)' = Users(k)
  BY <1>1, <1>2 DEF Users
<1>5. HeldWhileActive' /\ Serving'
  BY <1>1, <1>2 DEF IInv, HeldWhileActive, Serving, Active
<1> QED
  BY <1>1, <1>3, <1>4, <1>5, ClientsKept DEF IInv

\* A start of Home Assistant: no entry is set up, and nothing is kept for one.
LEMMA StartHolds ==
    ASSUME data = [e \in Entries |-> data[e]], password \in Keys,
           \A e \in Entries : DOMAIN data[e] = {"key", "device", "base"} /\ data[e].key \in Keys,
           entry \in [Entries -> {"gone", "ready"}],
           store = [k \in Keys |-> 0], held = [e \in Entries |-> 0],
           object = [o \in Objects |-> [key |-> 1, ref |-> 0, client |-> FALSE]],
           listed = {}, holder = 0, session = [e \in Entries |-> 0]
    PROVE  IInv
<1>1. 1 \in Keys
  BY Sizes DEF Keys
<1>2. Typed
  BY <1>1, Sizes DEF Typed, Stages
<1>3. Distinct /\ HeldWhileActive /\ Serving
  BY DEF Distinct, HeldWhileActive, Serving, Active
<1>4. RefsExact
  BY DEF RefsExact, Users
<1> QED
  BY <1>2, <1>3, <1>4 DEF IInv

LEMMA InitHolds == Init => IInv
<1> SUFFICES ASSUME Init PROVE IInv
  OBVIOUS
<1>1. 1 \in Keys
  BY Sizes DEF Keys
<1>2. data = [e \in Entries |-> data[e]]
      /\ \A e \in Entries : DOMAIN data[e] = {"key", "device", "base"} /\ data[e].key \in Keys
  BY <1>1 DEF Init, NoEntry
<1> QED
  BY <1>1, <1>2, StartHolds DEF Init

LEMMA RestartKeeps ==
    ASSUME IInv, Restart
    PROVE  IInv'
<1>1. 1 \in Keys
  BY Sizes DEF Keys
<1>2. Typed'
  BY <1>1, Sizes DEF IInv, Typed, Restart, Stages
<1>3. Distinct' /\ HeldWhileActive' /\ Serving'
  BY DEF Restart, Distinct, HeldWhileActive, Serving, Active
<1>4. RefsExact'
  BY DEF Restart, RefsExact, Users
<1> QED
  BY <1>2, <1>3, <1>4 DEF IInv

LEMMA NewPasswordKeeps ==
    ASSUME IInv, NewPassword
    PROVE  IInv'
<1>1. password' \in Keys /\ UNCHANGED <<entry, data, store, object, held, listed, holder, session, mixed>>
  BY Sizes DEF NewPassword, IInv, Typed, Keys
<1>2. \A k \in Keys \ mixed' : k \notin mixed /\ Users(k)' = Users(k)
  BY <1>1 DEF Users
<1> QED
  BY <1>1, <1>2, ClientsKept DEF IInv, Typed, HeldWhileActive, Serving

LEMMA StepKeeps == IInv /\ [Next]_vars => IInv'
<1> SUFFICES ASSUME IInv, [Next]_vars PROVE IInv'
  OBVIOUS
<1>1. CASE UNCHANGED vars
  <2>1. \A k \in Keys \ mixed' : k \notin mixed /\ Users(k)' = Users(k)
    BY <1>1 DEF Users, vars
  <2> QED
    BY <1>1, <2>1, ClientsKept DEF IInv, Typed, HeldWhileActive, Serving, vars
<1>2. CASE Next
  BY <1>2, AddKeeps, ReconfigureKeeps, RemoveKeeps, SetupKeeps, SetupFailsKeeps, UnloadKeeps,
     UnloadedKeeps, BuildKeeps, PlatformsKeeps, RestartKeeps, NewPasswordKeeps DEF Next
<1> QED
  BY <1>1, <1>2

LEMMA Invariant == Spec => []IInv
  BY InitHolds, StepKeeps, PTL DEF Spec

-----------------------------------------------------------------------------
(* The results *)

\* Whatever setups, unloads, failures and restarts come side by side, the count
\* of a shared client is the number of entries that have it, and they share one
\* (shared_client.py).
THEOREM CountIsExact == Spec => []RefsExact
<1>1. IInv => RefsExact
  BY DEF IInv
<1> QED
  BY <1>1, Invariant, PTL

\* The realtime sessions of all loaded entries have the holder of the home
\* (storm_state.py, async_unload_entry).
THEOREM HolderIsShared == Spec => []OneHolder
<1>1. IInv => OneHolder
  BY DEF IInv, Serving, OneHolder
<1> QED
  BY <1>1, Invariant, PTL

\* A release takes the client from nobody who is loaded.
LEMMA ReleaseSpares ==
    ASSUME IInv, NEW f \in Entries, entry[f] \in Active, Release(f),
           NEW e \in Entries, entry[e] = "loaded", e # f, data[e].key \notin mixed,
           object[held[e]].client
    PROVE  object'[held[e]].client
<1> DEFINE k == data[e].key
           o == store[data[f].key]
<1>1. k \in Keys /\ data[f].key \in Keys /\ e \in Users(k)
  BY DEF IInv, Typed, Users
<1>2. store[k] # 0 /\ object[store[k]].ref = Cardinality(Users(k)) /\ held[e] = store[k]
  BY <1>1 DEF IInv, RefsExact
<1>3. held[e] \in Objects /\ o \in Objects \cup {0}
  BY <1>1, <1>2 DEF IInv, Typed
<1>4. CASE o # store[k]
  BY <1>2, <1>3, <1>4 DEF Release, IInv, Typed
<1>5. CASE o = store[k]
  <2>1. f \in Users(k)
    BY <1>1, <1>2, <1>5 DEF IInv, Distinct, Users, Active
  <2>2. Cardinality(Users(k)) # 0 /\ Cardinality(Users(k)) # 1 /\ Cardinality(Users(k)) \in Nat
    <3>1. Cardinality(Users(k) \ {f}) = Cardinality(Users(k)) - 1 /\ IsFiniteSet(Users(k) \ {f})
      BY <1>1, <2>1, UsersFinite, FS_RemoveElement
    <3>2. Users(k) \ {f} # {} /\ Users(k) # {}
      BY <1>1, <2>1
    <3> QED
      BY <1>1, <3>1, <3>2, UsersFinite, FS_EmptySet
  <2>3. object' = [object EXCEPT ![o] = [key |-> data[f].key, ref |-> object[o].ref - 1,
                                         client |-> @.client /\ object[o].ref - 1 > 0]]
    BY <1>2, <1>5, <2>2 DEF Release
  <2>4. object[o].ref - 1 > 0
    BY <1>2, <1>5, <2>2
  <2> QED
    BY <1>2, <1>3, <1>5, <2>3, <2>4, Zenon DEF IInv, Typed
<1> QED
  BY <1>4, <1>5

\* A loaded entry's client is closed by nobody else (async_release_shared_client).
THEOREM ClientStaysOpen == Spec => ClosedByLast
<1> DEFINE Spared(e) ==
      entry[e] = "loaded" /\ entry'[e] = "loaded" /\ data[e].key \notin mixed \cup mixed'
         => (object[held[e]].client => object'[held[e]].client)
<1>1. ASSUME IInv, [Next]_vars, NEW e \in Entries PROVE Spared(e)
  <2> SUFFICES ASSUME entry[e] = "loaded", entry'[e] = "loaded", data[e].key \notin mixed, object[held[e]].client
               PROVE  object'[held[e]].client
    OBVIOUS
  <2>1. held[e] # 0 /\ held[e] \in Objects
    BY <1>1 DEF IInv, HeldWhileActive, Active, Typed
  <2>2. ASSUME NEW f \in Entries, Setup(f) PROVE object'[held[e]].client
    <3> DEFINE k == data[f].key
               o == IF store[k] = 0 THEN Fresh ELSE store[k]
    <3>1. k \in Keys /\ (store[k] = 0 => Fresh # held[e])
      BY <1>1, FreshExists DEF IInv, Typed
    <3>2. /\ o # held[e] => object'[held[e]] = object[held[e]]
          /\ o = held[e] => object'[held[e]].client = (store[k] # 0 /\ object[held[e]].client)
      BY <1>1, <2>1, <2>2 DEF Setup, Acquire, IInv, Typed
    <3> QED
      BY <3>1, <3>2
  <2>3. ASSUME NEW f \in Entries, SetupFails(f) \/ Unloaded(f) PROVE object'[held[e]].client
    BY <1>1, <2>3, ReleaseSpares DEF SetupFails, Unloaded, Active, IInv, Typed
  <2>4. ASSUME NEW f \in Entries, NEW list \in Lists, Build(f, list) PROVE object'[held[e]].client
    BY <1>1, <2>1, <2>4 DEF Build, LoggedIn, IInv, Typed
  <2>5. CASE Restart
    BY <2>5 DEF Restart
  <2>6. CASE UNCHANGED object
    BY <2>6
  <2>7. ASSUME NEW f \in Entries,
               \/ \E list \in Lists, wanted \in Devices \cup {NoId} :
                    Add(f, list, wanted) \/ Reconfigure(f, list, wanted)
               \/ Remove(f) \/ Unload(f)
               \/ \E ok \in BOOLEAN : Platforms(f, ok)
        PROVE  UNCHANGED object
    BY <2>7 DEF Add, Reconfigure, Remove, Unload, Platforms, hass
  <2>8. NewPassword \/ UNCHANGED vars => UNCHANGED object
    BY DEF NewPassword, vars
  <2> QED
    BY <1>1, <2>2, <2>3, <2>4, <2>5, <2>6, <2>7, <2>8 DEF Next
<1>2. IInv /\ [Next]_vars => \A e \in Entries : Spared(e)
  BY <1>1
<1> QED
  BY <1>2, Invariant, PTL DEF Spec, ClosedByLast

-----------------------------------------------------------------------------
(* Types: above all, the device of an entry that is set up *)

\* The part of TypeOK that is not in Typed.
Bindings ==
    /\ changes \in 0 .. MaxChanges
    /\ \A e \in Entries : /\ data[e] \in [key : Keys, device : Devices \cup {NoId}, base : Schemes \cup {"none"}]
                          /\ entry[e] \in {"platforms", "loaded", "closing"} => data[e].device # NoId
    /\ unique \in [Entries -> Devices \cup {NoId}]
    /\ registry \in [Entries -> SUBSET Schemes]
    /\ primary \in Devices \cup {NoId} /\ services \in BOOLEAN
    /\ moved \subseteq Entries /\ mixed \subseteq Keys

\* The device that is selected, or bound, has an id.
LEMMA FirstOf ==
    ASSUME NEW list \in Lists, NEW at \in SUBSET Usable(list)
    PROVE  First(list, at) \subseteq Devices
<1>1. list \in Seq(Devices \cup {NoId})
  BY EntryAssumption
<1>2. \A i \in Usable(list) : list[i] \in Devices
  BY <1>1 DEF Usable
<1> QED
  BY <1>2 DEF First

LEMMA SelectOf ==
    ASSUME NEW list \in Lists, NEW wanted \in Devices \cup {NoId}, NEW configured
    PROVE  Select(list, wanted, configured) \subseteq Devices
<1> DEFINE available == {i \in Usable(list) : list[i] \notin configured}
<1>1. First(list, available) \subseteq Devices /\ FirstValid(list) \subseteq Devices
  BY FirstOf DEF FirstValid
<1>2. ASSUME NEW i \in Usable(list), list[i] = wanted PROVE wanted \in Devices
  BY <1>2 DEF Usable
<1> QED
  BY <1>1, <1>2, Zenon DEF Select

\* An entry is given a device, or other contents; the rest is as it was.
LEMMA DataKeeps ==
    ASSUME IInv, Bindings, NEW e \in Entries,
           NEW d \in [key : Keys, device : Devices \cup {NoId}, base : Schemes \cup {"none"}],
           data' = [data EXCEPT ![e] = d],
           NEW stage \in Stages, entry' = [entry EXCEPT ![e] = stage],
           stage \in {"platforms", "loaded", "closing"} => d.device # NoId
    PROVE  \A f \in Entries :
              /\ data'[f] \in [key : Keys, device : Devices \cup {NoId}, base : Schemes \cup {"none"}]
              /\ entry'[f] \in {"platforms", "loaded", "closing"} => data'[f].device # NoId
<1>1. \A f \in Entries : /\ entry'[f] = IF f = e THEN stage ELSE entry[f]
                         /\ data'[f] = IF f = e THEN d ELSE data[f]
  BY DEF IInv, Typed
<1> QED
  BY <1>1 DEF Bindings

LEMMA BindingsKept ==
    ASSUME IInv, Bindings, [Next]_vars
    PROVE  Bindings'
<1> DEFINE Contents == [key : Keys, device : Devices \cup {NoId}, base : Schemes \cup {"none"}]
           Set == \A f \in Entries : /\ data[f] \in Contents
                                     /\ entry[f] \in {"platforms", "loaded", "closing"} => data[f].device # NoId
<1>1. /\ password \in Keys /\ MaxChanges \in Nat /\ NoId \notin Devices
      /\ entry \in [Entries -> Stages] /\ data = [e \in Entries |-> data[e]]
  BY EntryAssumption DEF IInv, Typed
<1>2. Change => changes' \in 0 .. MaxChanges
  BY <1>1 DEF Change, Bindings
<1>3. ASSUME NEW e \in Entries PROVE data[e] \in Contents /\ Derived(registry[e]) \in Schemes
  BY DEF Bindings, Derived, Schemes
<1>4. ASSUME NEW e \in Entries, NEW list \in Lists, NEW wanted \in Devices \cup {NoId}, Add(e, list, wanted)
      PROVE  Bindings'
  <2>0. PICK device \in Select(list, wanted, {data[f].device : f \in Present}) :
           /\ data' = [data EXCEPT ![e] = [key |-> password, device |-> device, base |-> "device"]]
           /\ entry' = [entry EXCEPT ![e] = "ready"] /\ Change
           /\ unique' = [unique EXCEPT ![e] = device] /\ registry' = [registry EXCEPT ![e] = {}]
           /\ moved' = moved \ {e} /\ UNCHANGED <<primary, services, mixed>>
    BY <1>4 DEF Add, hass
  <2> DEFINE d == [key |-> password, device |-> device, base |-> "device"]
  <2>1. device \in Devices
    BY SelectOf
  <2>2. data' = [data EXCEPT ![e] = d]
    BY <2>0
  <2>3. d \in Contents /\ "ready" \in Stages
    BY <1>1, <2>1 DEF Schemes, Stages
  <2> HIDE DEF d
  <2>4. Set'
    BY <2>0, <2>2, <2>3, DataKeeps
  <2> QED
    BY <1>2, <2>0, <2>1, <2>4 DEF Bindings
<1>5. ASSUME NEW e \in Entries, NEW list \in Lists, NEW wanted \in Devices \cup {NoId},
             Reconfigure(e, list, wanted)
      PROVE  Bindings'
  <2>0. PICK device \in Select(list, wanted, {data[e].device} \ {NoId}) :
           /\ data' = [data EXCEPT ![e].key = password, ![e].device = device,
                                   ![e].base = IF @ = "none" THEN Derived(registry[e]) ELSE @]
           /\ moved' = IF device = data[e].device THEN moved ELSE moved \cup {e}
           /\ mixed' = IF entry[e] # "ready" /\ password # data[e].key THEN mixed \cup {password, data[e].key} ELSE mixed
           /\ Change
           /\ UNCHANGED <<password, hass, entry, unique, registry>>
    BY <1>5 DEF Reconfigure
  <2> DEFINE d == [data[e] EXCEPT !.key = password, !.device = device,
                                  !.base = IF @ = "none" THEN Derived(registry[e]) ELSE @]
  <2>1. device \in Devices
    BY SelectOf
  <2>2. /\ data' = [data EXCEPT ![e] = d] /\ entry' = entry /\ Change
        /\ moved' \subseteq moved \cup {e} /\ mixed' \subseteq mixed \cup {password, data[e].key}
        /\ UNCHANGED <<unique, registry, primary, services>>
    BY <1>1, <2>0 DEF hass
  <2>3. d \in Contents /\ d.device # NoId /\ data[e].key \in Keys
    BY <1>1, <1>3, <2>1, <2>2
  <2> HIDE DEF d
  <2>4. Set'
    <3>1. entry' = [entry EXCEPT ![e] = entry[e]] /\ entry[e] \in Stages
      BY <1>1, <2>2
    <3> QED
      BY <2>2, <2>3, <3>1, DataKeeps
  <2> QED
    BY <1>1, <1>2, <2>2, <2>3, <2>4 DEF Bindings
<1>6. ASSUME NEW e \in Entries, Remove(e) PROVE Bindings'
  <2>1. NoEntry \in Contents /\ "gone" \in Stages
    BY Sizes DEF NoEntry, Keys, Stages
  <2>2. /\ data' = [data EXCEPT ![e] = NoEntry] /\ entry' = [entry EXCEPT ![e] = "gone"] /\ Change
        /\ unique' = [unique EXCEPT ![e] = NoId] /\ registry' = [registry EXCEPT ![e] = {}]
        /\ moved' = moved \ {e} /\ UNCHANGED <<primary, services, mixed>>
    BY <1>6 DEF Remove
  <2>3. Set'
    BY <2>1, <2>2, DataKeeps
  <2> QED
    BY <1>2, <2>2, <2>3 DEF Bindings
<1>7. ASSUME NEW e \in Entries, Setup(e) PROVE Bindings'
  <2> DEFINE d == [data[e] EXCEPT !.base = IF @ = "none" THEN Derived(registry[e]) ELSE @]
  <2>1. /\ data' = [data EXCEPT ![e] = d] /\ entry' = [entry EXCEPT ![e] = "refresh"]
        /\ UNCHANGED <<changes, unique, registry, primary, services, moved, mixed>>
    BY <1>1, <1>7 DEF Setup
  <2>2. d \in Contents /\ "refresh" \in Stages
    BY <1>3 DEF Stages
  <2> HIDE DEF d
  <2>3. Set'
    BY <2>1, <2>2, DataKeeps
  <2> QED
    BY <2>1, <2>3 DEF Bindings
<1>8. ASSUME NEW e \in Entries, NEW list \in Lists, Build(e, list) PROVE Bindings'
  <2>0. PICK device \in Bound(e, list) :
           /\ data' = [data EXCEPT ![e].device = device]
           /\ entry' = [entry EXCEPT ![e] = "platforms"] /\ primary' = PrimaryWith(device)
           /\ UNCHANGED <<changes, unique, registry, services, moved, mixed>>
    BY <1>8 DEF Build
  <2> DEFINE d == [data[e] EXCEPT !.device = device]
  <2>1. device \in Devices
    <3>1. FirstValid(list) \subseteq Devices
      BY FirstOf DEF FirstValid
    <3> QED
      BY <1>3, <2>0, <3>1 DEF Bound
  <2>2. data' = [data EXCEPT ![e] = d]
    BY <1>1, <2>0
  <2>3. d \in Contents /\ d.device # NoId /\ "platforms" \in Stages
    BY <1>1, <1>3, <2>1 DEF Stages
  <2> HIDE DEF d
  <2>4. Set'
    BY <2>0, <2>2, <2>3, DataKeeps
  <2> QED
    BY <2>0, <2>1, <2>4 DEF Bindings, PrimaryWith
<1>9. ASSUME NEW e \in Entries, NEW ok \in BOOLEAN, Platforms(e, ok) PROVE Bindings'
  <2>1. /\ entry[e] = "platforms" /\ entry' = [entry EXCEPT ![e] = IF ok THEN "loaded" ELSE "ready"]
        /\ changes' = changes \/ Change
        /\ registry' = [registry EXCEPT ![e] =
                          IF ok THEN Renamed(e) \cup {Scheme(data[e].base, data[e].device = primary)} ELSE Renamed(e)]
        /\ services' = (services \/ ok) /\ mixed' \subseteq mixed \cup {data[e].key}
        /\ UNCHANGED <<data, unique, primary, moved>>
    BY <1>9 DEF Platforms
  <2>2. Renamed(e) \subseteq Schemes /\ Scheme(data[e].base, data[e].device = primary) \in Schemes
    BY DEF Bindings, Renamed, Scheme, Schemes
  <2>3. Set'
    <3>1. data' = [data EXCEPT ![e] = data[e]] /\ data[e].device # NoId
      BY <1>1, <2>1 DEF Bindings
    <3>2. (IF ok THEN "loaded" ELSE "ready") \in Stages
      BY DEF Stages
    <3> QED
      BY <1>3, <2>1, <3>1, <3>2, DataKeeps
  <2> QED
    BY <1>2, <1>3, <2>1, <2>2, <2>3 DEF Bindings
<1>10. ASSUME NEW e \in Entries, SetupFails(e) \/ Unload(e) \/ Unloaded(e) PROVE Bindings'
  <2>1. PICK stage \in Stages :
          /\ entry' = [entry EXCEPT ![e] = stage]
          /\ stage \in {"platforms", "loaded", "closing"} => entry[e] \in {"platforms", "loaded", "closing"}
    BY <1>10 DEF SetupFails, Unload, Unloaded, Stages
  <2>2. /\ services' \in BOOLEAN
        /\ UNCHANGED <<changes, data, unique, registry, primary, moved, mixed>>
    BY <1>10 DEF SetupFails, Unload, Unloaded, Bindings
  <2>3. Set'
    <3>1. data' = [data EXCEPT ![e] = data[e]]
      BY <1>1, <2>2
    <3> QED
      BY <1>3, <2>1, <3>1, DataKeeps DEF Bindings
  <2> QED
    BY <2>2, <2>3 DEF Bindings
<1>11. CASE Restart
  <2>1. \A e \in Entries : entry'[e] \in {"ready", "gone"}
    BY <1>11 DEF Restart
  <2> QED
    BY <1>11, <2>1 DEF Restart, Bindings
<1>12. CASE NewPassword
  BY <1>12 DEF NewPassword, Bindings
<1>13. CASE UNCHANGED vars
  BY <1>13 DEF vars, Bindings
<1> QED
  BY <1>4, <1>5, <1>6, <1>7, <1>8, <1>9, <1>10, <1>11, <1>12, <1>13 DEF Next

\* Types: above all, an entry whose platforms are set up has a device with an id,
\* whatever the cloud listed when it was added, reconfigured or bound (_select_device,
\* first_valid_device).
THEOREM TypeCorrect == Spec => []TypeOK
<1>1. Init => Bindings
  <2> SUFFICES ASSUME Init PROVE Bindings
    OBVIOUS
  <2>1. 1 \in Keys /\ NoEntry.key = 1
    BY Sizes DEF Keys, NoEntry
  <2>2. PICK d \in Devices \cup {NoId}, uids \in {{}, {"home"}} :
          /\ data = [e \in Entries |-> IF e \in Present THEN [key |-> 1, device |-> d, base |-> "none"] ELSE NoEntry]
          /\ registry = [e \in Entries |-> IF e \in Present THEN uids ELSE {}]
    BY DEF Init
  <2>3. \A e \in Entries : data[e] \in [key : Keys, device : Devices \cup {NoId}, base : Schemes \cup {"none"}]
    BY <2>1, <2>2 DEF NoEntry
  <2>4. registry \in [Entries -> SUBSET Schemes]
    BY <2>2 DEF Schemes
  <2>5. \A e \in Entries : entry[e] \in {"gone", "ready"}
    BY DEF Init
  <2>6. changes \in 0 .. MaxChanges /\ unique \in [Entries -> Devices \cup {NoId}]
    BY EntryAssumption DEF Init
  <2>7. primary \in Devices \cup {NoId} /\ services \in BOOLEAN /\ moved \subseteq Entries /\ mixed \subseteq Keys
    BY DEF Init
  <2> QED
    BY <2>3, <2>4, <2>5, <2>6, <2>7 DEF Bindings
<1>2. IInv /\ Bindings => TypeOK
  BY DEF IInv, Typed, Bindings, TypeOK
<1> QED
  BY <1>1, <1>2, Invariant, BindingsKept, PTL DEF Spec

=============================================================================
