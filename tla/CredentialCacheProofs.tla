----------------------- MODULE CredentialCacheProofs -----------------------
(***************************************************************************)
(* Theorems about CredentialCache, for every set of threads and devices    *)
(* and every value of the intervals.                                       *)
(***************************************************************************)
EXTENDS CredentialCache, FiniteSetTheorems, TLAPS

-----------------------------------------------------------------------------
(* The list of forced refreshes *)

\* A set of noted refreshes is finite, so its size is a natural number.
LEMMA NotedFinite ==
    ASSUME NEW S \in SUBSET (Time \X (1 .. EscalationThreshold))
    PROVE  IsFiniteSet(S) /\ Cardinality(S) \in Nat
<1>1. IsFiniteSet(Time)
  BY FS_Interval, TimeAssumption DEF Time
<1>2. IsFiniteSet(1 .. EscalationThreshold)
  BY FS_Interval, ThresholdAssumption
<1>3. IsFiniteSet(Time \X (1 .. EscalationThreshold))
  BY <1>1, <1>2, FS_Product
<1>4. IsFiniteSet(S)
  BY <1>3, FS_Subset
<1>5. QED
  BY <1>4, FS_CardinalityType

\* What the latch leaves in the list: refreshes that were there, or the new one.
LEMMA AfterLatchNotes ==
    ASSUME forced \subseteq (Time \X (1 .. EscalationThreshold)),
           NEW r, r.now \in Time
    PROVE  /\ AfterLatch(r) \subseteq (Time \X (1 .. EscalationThreshold))
           /\ \A f \in AfterLatch(r) : f \in forced \/ f[1] = r.now
<1> DEFINE kept == IF Cached(r.dev) THEN Recent(r.now) ELSE forced
           same == Cardinality({f \in kept : f[1] = r.now})
<1>1. kept \subseteq forced
  BY DEF Recent
<1>2. same \in Nat
  <2>1. {f \in kept : f[1] = r.now} \in SUBSET (Time \X (1 .. EscalationThreshold))
    BY <1>1
  <2>2. QED
    BY <2>1, NotedFinite
<1>3. same < EscalationThreshold => same + 1 \in 1 .. EscalationThreshold
  BY <1>2, ThresholdAssumption
<1>4. AfterLatch(r) = IF same < EscalationThreshold THEN kept \cup {<<r.now, same + 1>>} ELSE kept
  BY DEF AfterLatch
<1> HIDE DEF kept, same
<1>5. QED
  BY <1>1, <1>3, <1>4

-----------------------------------------------------------------------------
(* Type correctness *)

LEMMA NoRequestType == NoRequest \in Request /\ ~NoRequest.escalate /\ NoRequest.now = 0
  BY DeviceAssumption, TimeAssumption DEF NoRequest, Request, Time

\* A rotation of the home secret by the server keeps the types of the copies.
LEMMA RotateHomeType ==
    ASSUME TypeOK, NEW t \in Threads, NEW mine \in Request, RotateHome(t, mine)
    PROVE  homeCache' \in HomeEntry /\ cache' \in [Devices -> Entry]
             /\ req' \in [Threads -> Request]
<1>1. homeCache' \in HomeEntry
  BY DEF TypeOK, RotateHome, HomeEntry
<1>2. \A d \in Devices : [cache[d] EXCEPT !.homeLive = FALSE] \in Entry
  BY DEF TypeOK, Entry
<1>3. \A u \in Threads : [req[u] EXCEPT !.homeLive = FALSE] \in Request
  BY DEF TypeOK, Request
<1>4. QED
  BY <1>1, <1>2, <1>3 DEF RotateHome

\* So does a rotation of a device secret.
LEMMA RotateDeviceType ==
    ASSUME TypeOK, NEW t \in Threads, NEW mine \in Request, RotateDevice(t, mine)
    PROVE  cache' \in [Devices -> Entry] /\ req' \in [Threads -> Request]
<1>1. req[t].dev \in Devices
  BY DEF TypeOK, Request
<1>2. [cache[req[t].dev] EXCEPT !.devLive = FALSE] \in Entry
  BY <1>1 DEF TypeOK, Entry
<1>3. \A u \in Threads : [req[u] EXCEPT !.devLive = FALSE] \in Request
  BY DEF TypeOK, Request
<1>4. cache' \in [Devices -> Entry]
  BY <1>1, <1>2 DEF RotateDevice, TypeOK
<1>5. QED
  BY <1>1, <1>3, <1>4 DEF RotateDevice, TypeOK

\* A thread's own part of an e2e_login keeps the types.
LEMMA LoginType ==
    ASSUME TypeOK, NEW t \in Threads,
           \/ HomeFast(t) \/ HomeAcquire(t) \/ HomeCheck(t) \/ HomeCall(t)
           \/ \E rotated \in BOOLEAN : HomeCallFails(t, rotated)
           \/ HomeStore(t) \/ DevLogin(t)
           \/ \E rotated \in BOOLEAN : DevLoginFails(t, rotated)
           \/ Finish(t) \/ SearchFails(t)
    PROVE  TypeOK'
<1> USE NoRequestType, ThreadAssumption DEF TypeOK, latches, Steps
<1>1. CASE HomeFast(t)
  BY <1>1 DEF HomeFast, Request, HomeEntry
<1>2. CASE HomeAcquire(t)
  BY <1>2 DEF HomeAcquire
<1>3. CASE HomeCheck(t)
  BY <1>3 DEF HomeCheck, Request, HomeEntry
<1>4. CASE HomeCall(t)
  <2>1. [req[t] EXCEPT !.homeLive = TRUE] \in Request
    BY DEF Request
  <2>2. QED
    BY <1>4, <2>1, RotateHomeType DEF HomeCall
<1>5. ASSUME NEW rotated \in BOOLEAN, HomeCallFails(t, rotated) PROVE TypeOK'
  <2>1. homeCache' \in HomeEntry /\ cache' \in [Devices -> Entry]
          /\ req' \in [Threads -> Request]
    BY <1>5, RotateHomeType DEF HomeCallFails, Forget
  <2>2. QED
    BY <1>5, <2>1 DEF HomeCallFails, Return, Release
<1>6. CASE HomeStore(t)
  BY <1>6 DEF HomeStore, Request, HomeEntry
<1>7. CASE DevLogin(t)
  <2>1. [req[t] EXCEPT !.devLive = TRUE] \in Request
    BY DEF Request
  <2>2. req[t].dev \in Devices
    BY DEF Request
  <2>3. QED
    BY <1>7, <2>1, <2>2, RotateDeviceType DEF DevLogin
<1>8. ASSUME NEW rotated \in BOOLEAN, DevLoginFails(t, rotated) PROVE TypeOK'
  <2>0. req[t].dev \in Devices
    BY DEF Request
  <2>1. cache' \in [Devices -> Entry] /\ req' \in [Threads -> Request]
          /\ unclaimed' \subseteq Devices
    BY <1>8, <2>0, RotateDeviceType DEF DevLoginFails, Forget
  <2>2. QED
    BY <1>8, <2>1 DEF DevLoginFails, Return, Release
<1>9. CASE Finish(t)
  <2>1. req[t].dev \in Devices /\ req[t].now \in Time
          /\ req[t].devLive \in BOOLEAN /\ req[t].homeLive \in BOOLEAN
    BY DEF Request
  <2>2. cache[req[t].dev].generation \in 0 .. EscalationThreshold
    BY <2>1 DEF Entry
  <2>3. cache' \in [Devices -> Entry]
    BY <1>9, <2>1, <2>2, ThresholdAssumption DEF Finish, Entry
  <2>4. lastEscalation' \in Time
    BY <1>9, <2>1 DEF Finish
  <2>5. req' \in [Threads -> Request] /\ pc' \in [Threads -> Steps]
          /\ eLock' \in Threads \cup {Free}
    BY <1>9 DEF Finish, Forget, Return, Release
  <2>6. QED
    BY <1>9, <2>3, <2>4, <2>5 DEF Finish
<1>10. CASE SearchFails(t)
  BY <1>10 DEF SearchFails, Forget, Return, Release, Request
<1>11. QED
  BY <1>1, <1>2, <1>3, <1>4, <1>5, <1>6, <1>7, <1>8, <1>9, <1>10

\* Every variable keeps its type: in particular the generation and the list of
\* forced refreshes stay within their bounds through every failure path.
THEOREM TypeCorrect == Spec => []TypeOK
<1>1. Init => TypeOK
  BY NoRequestType, TimeAssumption, ThresholdAssumption, ThreadAssumption
     DEF Init, TypeOK, Time, Steps, Entry, NoEntry, HomeEntry
<1>2. TypeOK /\ [Next]_vars => TypeOK'
  <2> SUFFICES ASSUME TypeOK, [Next]_vars PROVE TypeOK'
    OBVIOUS
  <2> USE NoRequestType, ThreadAssumption DEF TypeOK, latches, Steps
  <2>1. CASE Tick
    BY <2>1, TimeAssumption DEF Tick, Time
  <2>2. ASSUME NEW d \in Devices, Invalidate(d) PROVE TypeOK'
    BY <2>2, TimeAssumption, ThresholdAssumption DEF Invalidate, Entry, NoEntry, Time
  <2>3. ASSUME NEW t \in Threads, NEW d \in Devices, CallDirect(t, d) PROVE TypeOK'
    BY <2>3 DEF CallDirect, Request
  <2>4. ASSUME NEW t \in Threads, NEW d \in Devices, NEW f \in BOOLEAN, NEW a \in BOOLEAN,
               Call(t, d, f, a) PROVE TypeOK'
    BY <2>4 DEF Call, Request
  <2>5. ASSUME NEW t \in Threads, Step(t) PROVE TypeOK'
    <3>1. req[t] \in Request /\ req[t].now \in Time /\ clock - req[t].now \in Int
      BY TimeAssumption DEF Request, Time
    <3>2. Waited(t) => longestWait' \in Nat
      BY <3>1, TimeAssumption DEF Waited, LongerOf, Time
    <3>3. CASE Serve(t)
      BY <3>2, <3>3 DEF Serve, Forget, Return
    <3>4. CASE Hold(t)
      BY <3>2, <3>4 DEF Hold, Forget, Return
    <3>5. CASE Refresh(t)
      <4>1. forced' \subseteq (Time \X (1 .. EscalationThreshold))
        BY <3>1, <3>5, AfterLatchNotes DEF Refresh
      <4>2. Escalates(req[t]) \in BOOLEAN
        BY <3>1, HolderAssumption DEF Escalates, Request
      <4>3. req' \in [Threads -> Request]
        BY <3>1, <3>5, <4>2 DEF Refresh, Request
      <4>4. lastRotation' \in Time
        BY <3>1, <3>5 DEF Refresh
      <4>5. QED
        BY <3>2, <3>5, <4>1, <4>3, <4>4 DEF Refresh
    <3>6. QED
      BY <2>5, <3>3, <3>4, <3>5, LoginType DEF Step
  <2>6. CASE UNCHANGED vars
    BY <2>6 DEF vars
  <2>7. QED
    BY <2>1, <2>2, <2>3, <2>4, <2>5, <2>6 DEF Next
<1>3. QED
  BY <1>1, <1>2, PTL DEF Spec

-----------------------------------------------------------------------------
(* The locks *)

LoginSteps == Steps \ {"idle", "enter"}

HomeSteps == {"homeCheck", "homeCall", "homeStore"}

\* Who owns the two locks, told by where the threads are: a cached caller holds
\* _e2e_lock through its whole login, a direct caller never does.
LockInv ==
    /\ \A t \in Threads : hLock = t <=> pc[t] \in HomeSteps
    /\ \A t \in Threads \ Direct : eLock = t <=> pc[t] \in LoginSteps
    /\ \A t \in Direct : eLock # t /\ pc[t] # "enter"

LEMMA LockInvariant == Spec => []LockInv
<1> USE ThreadAssumption DEF LockInv, HomeSteps, LoginSteps, Steps
<1>1. Init => LockInv
  BY DEF Init
<1>2. TypeOK /\ LockInv /\ [Next]_vars => LockInv'
  <2> SUFFICES ASSUME TypeOK, LockInv, [Next]_vars PROVE LockInv'
    OBVIOUS
  <2>0. pc \in [Threads -> Steps] /\ eLock \in Threads \cup {Free}
          /\ hLock \in Threads \cup {Free}
    BY DEF TypeOK
  <2>1. CASE Tick
    BY <2>1 DEF Tick
  <2>2. ASSUME NEW d \in Devices, Invalidate(d) PROVE LockInv'
    BY <2>2 DEF Invalidate
  <2>3. ASSUME NEW t \in Threads, NEW d \in Devices, CallDirect(t, d) PROVE LockInv'
    BY <2>0, <2>3 DEF CallDirect
  <2>4. ASSUME NEW t \in Threads, NEW d \in Devices, NEW f \in BOOLEAN, NEW a \in BOOLEAN,
               Call(t, d, f, a) PROVE LockInv'
    BY <2>0, <2>4 DEF Call
  <2>5. ASSUME NEW t \in Threads, Step(t) PROVE LockInv'
    <3>1. CASE Serve(t)
      BY <2>0, <3>1 DEF Serve, Return
    <3>2. CASE Hold(t)
      BY <2>0, <3>2 DEF Hold, Return
    <3>3. CASE Refresh(t)
      BY <2>0, <3>3 DEF Refresh
    <3>4. CASE HomeFast(t)
      BY <2>0, <3>4 DEF HomeFast
    <3>5. CASE HomeAcquire(t)
      BY <2>0, <3>5 DEF HomeAcquire
    <3>6. CASE HomeCheck(t)
      BY <2>0, <3>6 DEF HomeCheck
    <3>7. CASE HomeCall(t)
      BY <2>0, <3>7 DEF HomeCall
    <3>8. ASSUME NEW rotated \in BOOLEAN, HomeCallFails(t, rotated) PROVE LockInv'
      BY <2>0, <3>8 DEF HomeCallFails, Return, Release
    <3>9. CASE HomeStore(t)
      BY <2>0, <3>9 DEF HomeStore
    <3>10. CASE DevLogin(t)
      BY <2>0, <3>10 DEF DevLogin
    <3>11. ASSUME NEW rotated \in BOOLEAN, DevLoginFails(t, rotated) PROVE LockInv'
      BY <2>0, <3>11 DEF DevLoginFails, Return, Release
    <3>12. CASE Finish(t)
      BY <2>0, <3>12 DEF Finish, Return, Release
    <3>13. CASE SearchFails(t)
      BY <2>0, <3>13 DEF SearchFails, Return, Release
    <3>14. QED
      BY <2>5, <3>1, <3>2, <3>3, <3>4, <3>5, <3>6, <3>7, <3>8, <3>9, <3>10, <3>11, <3>12,
         <3>13 DEF Step
  <2>6. CASE UNCHANGED vars
    BY <2>6 DEF vars
  <2>7. QED
    BY <2>1, <2>2, <2>3, <2>4, <2>5, <2>6 DEF Next
<1>3. QED
  BY <1>1, <1>2, TypeCorrect, PTL DEF Spec

\* Whatever mix of cached and direct callers there is, a deadlock between the two
\* locks of the client has a direct caller in it: a cached caller that holds the home
\* lock holds _e2e_lock already.
THEOREM LockOrder == Spec => []CycleNeedsDirect
<1>1. TypeOK /\ LockInv => CycleNeedsDirect
  BY ThreadAssumption
     DEF TypeOK, LockInv, CycleNeedsDirect, LockCycle, HomeSteps, LoginSteps, Steps
<1>2. QED
  BY <1>1, TypeCorrect, LockInvariant, PTL

-----------------------------------------------------------------------------
(* The home secret *)

\* Between the look at the cache and the cloud call nothing makes the cached home
\* login younger: only the owner of the home lock stores one.
HomeInv ==
    \A t \in Threads : pc[t] = "homeCall"
        => req[t].escalate \/ ~homeCache.known \/ clock - homeCache.at > HomeTTL

LEMMA HomeInvariant == Spec => []HomeInv
<1>1. Init => HomeInv
  BY DEF Init, HomeInv
<1>2. TypeOK /\ LockInv /\ HomeInv /\ [Next]_vars => HomeInv'
  <2> SUFFICES ASSUME TypeOK, LockInv, HomeInv, [Next]_vars PROVE HomeInv'
    OBVIOUS
  <2>0. /\ pc \in [Threads -> Steps] /\ req \in [Threads -> Request]
        /\ homeCache \in HomeEntry
        /\ clock \in Int /\ homeCache.at \in Int /\ HomeTTL \in Int
    BY TimeAssumption DEF TypeOK, HomeEntry, Time
  <2> USE DEF HomeInv
  <2>1. CASE Tick
    BY <2>0, <2>1 DEF Tick
  <2>2. ASSUME NEW d \in Devices, Invalidate(d) PROVE HomeInv'
    BY <2>2 DEF Invalidate
  <2>3. ASSUME NEW t \in Threads, NEW d \in Devices, CallDirect(t, d) PROVE HomeInv'
    BY <2>0, <2>3 DEF CallDirect
  <2>4. ASSUME NEW t \in Threads, NEW d \in Devices, NEW f \in BOOLEAN, NEW a \in BOOLEAN,
               Call(t, d, f, a) PROVE HomeInv'
    BY <2>0, <2>4 DEF Call
  <2>5. ASSUME NEW t \in Threads, Step(t) PROVE HomeInv'
    <3>1. CASE Serve(t) \/ Hold(t)
      BY <2>0, <3>1 DEF Serve, Hold, Return, Forget
    <3>2. CASE Refresh(t)
      BY <2>0, <3>2 DEF Refresh
    <3>3. CASE HomeFast(t) \/ HomeAcquire(t)
      BY <2>0, <3>3 DEF HomeFast, HomeAcquire
    <3>4. CASE HomeCheck(t)
      BY <2>0, <3>4 DEF HomeCheck, HomeFresh
    <3>5. CASE HomeCall(t)
      BY <2>0, <3>5 DEF HomeCall, RotateHome, Request, HomeEntry
    <3>6. ASSUME NEW rotated \in BOOLEAN, HomeCallFails(t, rotated) PROVE HomeInv'
      <4>1. \A u \in Threads \ {t} : req'[u].escalate = req[u].escalate
        BY <2>0, <3>6 DEF HomeCallFails, RotateHome, Forget, Request
      <4>2. homeCache'.known = homeCache.known /\ homeCache'.at = homeCache.at
        BY <2>0, <3>6 DEF HomeCallFails, RotateHome, HomeEntry
      <4>3. pc' = [pc EXCEPT ![t] = "idle"] /\ clock' = clock
        BY <3>6 DEF HomeCallFails, Return
      <4>4. QED
        BY <2>0, <4>1, <4>2, <4>3
    <3>7. CASE HomeStore(t)
      <4>1. \A u \in Threads : pc[u] = "homeCall" => u = t
        BY <3>7, ThreadAssumption DEF HomeStore, LockInv, HomeSteps
      <4>2. QED
        BY <2>0, <3>7, <4>1 DEF HomeStore
    <3>8. CASE DevLogin(t)
      BY <2>0, <3>8 DEF DevLogin, RotateDevice, Request
    <3>9. ASSUME NEW rotated \in BOOLEAN, DevLoginFails(t, rotated) PROVE HomeInv'
      BY <2>0, <3>9 DEF DevLoginFails, RotateDevice, Forget, Return, Request
    <3>10. CASE Finish(t) \/ SearchFails(t)
      BY <2>0, <3>10 DEF Finish, SearchFails, Forget, Return
    <3>11. QED
      BY <2>5, <3>1, <3>2, <3>3, <3>4, <3>5, <3>6, <3>7, <3>8, <3>9, <3>10 DEF Step
  <2>6. CASE UNCHANGED vars
    BY <2>6 DEF vars
  <2>7. QED
    BY <2>1, <2>2, <2>3, <2>4, <2>5, <2>6 DEF Next
<1>3. QED
  BY <1>1, <1>2, TypeCorrect, LockInvariant, PTL DEF Spec

\* The home secret is rotated at most once per home TTL outside escalations,
\* whatever mix of cached and direct callers queues on the home lock.
THEOREM HomeSpacing == Spec => HomeRotationSpaced
<1>1. HomeInv /\ [Next]_vars
        => [\A t \in Threads :
              pc[t] = "homeCall" /\ pc'[t] # "homeCall"
                => req[t].escalate \/ ~homeCache.known \/ clock - homeCache.at > HomeTTL]_vars
  BY DEF HomeInv
<1>2. QED
  BY <1>1, HomeInvariant, PTL DEF Spec, HomeRotationSpaced

-----------------------------------------------------------------------------
(* The escalation *)

\* A refresh is noted no later than the latch of the last one plus the longest
\* wait: a caller latches the time it read before it waited for _e2e_lock.
NotedByLatch == \A f \in forced : f[1] <= clock /\ f[1] <= lastRotation + longestWait

EscalationInv ==
    /\ NotedByLatch
    /\ \A t \in Threads : req[t].now <= clock
    /\ EscalationNeedsLongWait

\* The count of recent refreshes is 0 whenever the rotation interval has passed
\* since the latch, unless a caller waited long.
LEMMA CountAfterInterval ==
    ASSUME TypeOK, NotedByLatch, NEW r, r.now \in Time, Escalates(r), Holder, MayRotate(r.now)
    PROVE  longestWait > RotationInterval - EscalationWindow
<1>1. Cardinality(Recent(r.now)) >= EscalationThreshold
  BY DEF Escalates, ForcedCount
<1>2. Recent(r.now) # {}
  BY <1>1, FS_EmptySet, ThresholdAssumption
<1>3. PICK f \in forced : f[1] > r.now - EscalationWindow
  BY <1>2 DEF Recent
<1>4. f[1] \in Int /\ lastRotation \in Int /\ longestWait \in Int /\ r.now \in Int
  BY DEF TypeOK, Time
<1>5. f[1] <= lastRotation + longestWait /\ r.now - lastRotation >= RotationInterval
  BY DEF NotedByLatch, MayRotate
<1>6. QED
  BY <1>3, <1>4, <1>5, TimeAssumption

LEMMA RefreshKeepsEscalationInv ==
    ASSUME TypeOK, TypeOK', EscalationInv, NEW t \in Threads, Refresh(t)
    PROVE  EscalationInv'
<1> DEFINE r == req[t]
<1>1. /\ r \in Request /\ r.now \in Time /\ r.now \in Int /\ clock \in Int /\ r.now <= clock
      /\ lastRotation \in Int /\ longestWait \in Int
  BY DEF TypeOK, Request, Time, EscalationInv
<1>2. /\ longestWait' >= longestWait /\ longestWait' >= clock - r.now
      /\ longestWait' \in Int /\ clock' = clock
  BY <1>1 DEF Refresh, Waited, LongerOf, TypeOK
<1>3. NotedByLatch'
  <2>1. CASE r.force /\ Holder
    <3>1. lastRotation' = r.now /\ forced' = AfterLatch(r)
      BY <2>1 DEF Refresh
    <3>2. \A f \in forced' : f \in forced \/ f[1] = r.now
      BY <1>1, <3>1, AfterLatchNotes DEF TypeOK
    <3>3. \A f \in forced : f[1] <= clock /\ f[1] \in Int
      BY DEF EscalationInv, NotedByLatch, TypeOK, Time
    <3>4. QED
      BY <1>1, <1>2, <3>1, <3>2, <3>3 DEF NotedByLatch
  <2>2. CASE ~(r.force /\ Holder)
    <3>1. forced' = forced
      BY <2>2 DEF Refresh
    <3>2. lastRotation' = lastRotation \/ lastRotation' = r.now
      BY DEF Refresh
    <3>3. \A f \in forced : /\ f[1] <= clock /\ f[1] <= lastRotation + longestWait
                            /\ f[1] \in Int
      BY DEF EscalationInv, NotedByLatch, TypeOK, Time
    <3>4. QED
      BY <1>1, <1>2, <3>1, <3>2, <3>3 DEF NotedByLatch
  <2>3. QED
    BY <2>1, <2>2
<1>4. \A u \in Threads : req'[u].now = req[u].now
  BY DEF Refresh, TypeOK, Request
<1>5. EscalationNeedsLongWait'
  <2>1. CASE Escalates(r) /\ Holder
    <3>1. ~Expired(r.dev, r.now)
      <4>1. r.dev \in Devices /\ cache[r.dev].created \in Int
        BY <1>1 DEF Request, TypeOK, Entry, Time
      <4>2. QED
        BY <1>1, <2>1, <4>1, TimeAssumption DEF Escalates, Expired
    <3>2. MayRotate(r.now)
      <4>1. r.force
        BY <2>1 DEF Escalates
      <4>2. r.force /\ ~Expired(r.dev, r.now) => MayRotate(r.now)
        BY DEF Refresh
      <4>3. QED
        BY <3>1, <4>1, <4>2
    <3>3. longestWait > RotationInterval - EscalationWindow
      BY <1>1, <2>1, <3>2, CountAfterInterval DEF EscalationInv
    <3>4. QED
      BY <1>1, <1>2, <3>3, TimeAssumption DEF EscalationNeedsLongWait
  <2>2. CASE ~(Escalates(r) /\ Holder)
    <3>1. Holder => \A u \in Threads : req'[u].escalate => req[u].escalate
      BY <2>2 DEF Refresh, TypeOK, Request
    <3>2. QED
      BY <1>1, <1>2, <3>1, TimeAssumption DEF EscalationInv, EscalationNeedsLongWait
  <2>3. QED
    BY <2>1, <2>2
<1>6. QED
  BY <1>2, <1>3, <1>4, <1>5 DEF EscalationInv

\* With a storm holder the home secret is never rotated by an escalation unless a
\* caller has waited for the lock longer than the interval exceeds the window.
THEOREM EscalationDormant == Spec => []EscalationNeedsLongWait
<1>1. Init => EscalationInv
  BY NoRequestType, TimeAssumption
     DEF Init, EscalationInv, NotedByLatch, EscalationNeedsLongWait, Time
<1>2. TypeOK /\ TypeOK' /\ EscalationInv /\ [Next]_vars => EscalationInv'
  <2> SUFFICES ASSUME TypeOK, TypeOK', EscalationInv, [Next]_vars PROVE EscalationInv'
    OBVIOUS
  <2>0. /\ req \in [Threads -> Request] /\ clock \in Int
        /\ \A t \in Threads : req[t].now \in Int
        /\ lastRotation \in Int /\ longestWait \in Int
        /\ \A f \in forced : f[1] \in Int
    BY DEF TypeOK, Time, Request
  <2> USE DEF EscalationInv, NotedByLatch, EscalationNeedsLongWait
  <2>1. CASE Tick
    BY <2>0, <2>1 DEF Tick, latches
  <2>2. ASSUME NEW d \in Devices, Invalidate(d) PROVE EscalationInv'
    BY <2>2 DEF Invalidate, latches
  <2>3. ASSUME NEW t \in Threads, NEW r \in Request, ~r.escalate, r.now <= clock,
               req' = [req EXCEPT ![t] = r],
               clock' = clock, UNCHANGED <<lastRotation, forced>>,
               longestWait' \in Int, longestWait' >= longestWait
        PROVE  EscalationInv'
    <3>1. \A u \in Threads : req'[u] = IF u = t THEN r ELSE req[u]
      BY <2>0, <2>3
    <3>2. \A u \in Threads : req'[u].now <= clock'
      BY <2>3, <3>1
    <3>3. \A u \in Threads : req'[u].escalate => req[u].escalate
      BY <2>3, <3>1
    <3>4. QED
      BY <2>0, <2>3, <3>2, <3>3, TimeAssumption
  <2>4. ASSUME NEW t \in Threads, NEW d \in Devices, CallDirect(t, d) PROVE EscalationInv'
    <3>1. [NoRequest EXCEPT !.dev = d, !.now = clock] \in Request
      BY NoRequestType DEF Request, TypeOK
    <3>2. QED
      BY <2>0, <2>3, <2>4, <3>1, NoRequestType DEF CallDirect, latches, Request
  <2>5. ASSUME NEW t \in Threads, NEW d \in Devices, NEW f \in BOOLEAN, NEW a \in BOOLEAN,
               Call(t, d, f, a) PROVE EscalationInv'
    <3>1. [NoRequest EXCEPT !.dev = d, !.force = f, !.allowHome = a, !.now = clock] \in Request
      BY NoRequestType DEF Request, TypeOK
    <3>2. QED
      BY <2>0, <2>3, <2>5, <3>1, NoRequestType DEF Call, latches, Request
  <2>6. ASSUME NEW t \in Threads, Step(t) PROVE EscalationInv'
    <3>1. Forget(t) /\ clock' = clock /\ UNCHANGED <<lastRotation, forced>>
            /\ longestWait' \in Int /\ longestWait' >= longestWait => EscalationInv'
      BY <2>0, <2>3, NoRequestType, TimeAssumption DEF Forget, TypeOK, Time
    <3>2. CASE Serve(t) \/ Hold(t)
      BY <2>0, <3>1, <3>2 DEF Serve, Hold, Waited, LongerOf, latches
    <3>3. CASE Refresh(t)
      BY <3>3, RefreshKeepsEscalationInv
    <3>4. ASSUME \A u \in Threads : req'[u].now <= clock /\ (req'[u].escalate => req[u].escalate),
                 UNCHANGED <<clock, latches, longestWait>>
          PROVE  EscalationInv'
      BY <2>0, <3>4 DEF latches
    <3>5. CASE HomeFast(t) \/ HomeAcquire(t) \/ HomeCheck(t) \/ HomeStore(t)
      <4>1. \A u \in Threads : req'[u].now = req[u].now /\ req'[u].escalate = req[u].escalate
        BY <2>0, <3>5 DEF HomeFast, HomeAcquire, HomeCheck, HomeStore, Request
      <4>2. QED
        BY <3>4, <3>5, <4>1 DEF HomeFast, HomeAcquire, HomeCheck, HomeStore
    <3>6. ASSUME NEW mine \in Request, mine.now <= clock, mine.escalate => req[t].escalate,
                 RotateHome(t, mine) \/ RotateDevice(t, mine)
          PROVE  \A u \in Threads : req'[u].now <= clock /\ (req'[u].escalate => req[u].escalate)
      <4>1. req'[t] = mine
        BY <3>6 DEF RotateHome, RotateDevice
      <4>2. \A u \in Threads \ {t} : req'[u].now = req[u].now /\ req'[u].escalate = req[u].escalate
        BY <2>0, <3>6 DEF RotateHome, RotateDevice, Request
      <4>3. QED
        BY <3>6, <4>1, <4>2
    <3>7. CASE HomeCall(t)
      <4>1. /\ [req[t] EXCEPT !.homeLive = TRUE] \in Request
            /\ [req[t] EXCEPT !.homeLive = TRUE].now = req[t].now
            /\ [req[t] EXCEPT !.homeLive = TRUE].escalate = req[t].escalate
        BY <2>0 DEF Request
      <4>2. QED
        BY <3>4, <3>6, <3>7, <4>1 DEF HomeCall
    <3>8. CASE DevLogin(t)
      <4>1. /\ [req[t] EXCEPT !.devLive = TRUE] \in Request
            /\ [req[t] EXCEPT !.devLive = TRUE].now = req[t].now
            /\ [req[t] EXCEPT !.devLive = TRUE].escalate = req[t].escalate
        BY <2>0 DEF Request
      <4>2. QED
        BY <3>4, <3>6, <3>8, <4>1 DEF DevLogin
    <3>9. ASSUME NEW rotated \in BOOLEAN, HomeCallFails(t, rotated) \/ DevLoginFails(t, rotated)
          PROVE  EscalationInv'
      <4>1. NoRequest.now <= clock
        BY NoRequestType, TimeAssumption DEF TypeOK, Time
      <4>2. UNCHANGED <<clock, latches, longestWait>>
        BY <3>9 DEF HomeCallFails, DevLoginFails
      <4>3. CASE Forget(t)
        BY <2>0, <3>1, <4>2, <4>3 DEF latches
      <4>4. CASE RotateHome(t, NoRequest) \/ RotateDevice(t, NoRequest)
        BY <3>4, <3>6, <4>1, <4>2, <4>4, NoRequestType
      <4>5. QED
        BY <3>9, <4>3, <4>4 DEF HomeCallFails, DevLoginFails
    <3>10. CASE Finish(t) \/ SearchFails(t)
      BY <2>0, <3>1, <3>10 DEF Finish, SearchFails, latches
    <3>11. QED
      BY <2>6, <3>2, <3>3, <3>5, <3>7, <3>8, <3>9, <3>10 DEF Step
  <2>7. CASE UNCHANGED vars
    BY <2>7 DEF vars
  <2>8. QED
    BY <2>1, <2>2, <2>4, <2>5, <2>6, <2>7 DEF Next
<1>3. EscalationInv => EscalationNeedsLongWait
  BY DEF EscalationInv
<1>4. QED
  BY <1>1, <1>2, <1>3, TypeCorrect, PTL DEF Spec

-----------------------------------------------------------------------------
(* The spacing of escalations *)

\* A login that escalates is a cached one, so it holds _e2e_lock, and the last
\* escalation that succeeded is at least a home TTL before its own stamp: nobody
\* else can finish an escalation in between.
SpacedInv ==
    \A t \in Threads : req[t].escalate
        => /\ t \notin Direct /\ pc[t] \in LoginSteps
           /\ req[t].now >= lastEscalation + HomeTTL

\* Without a holder the escalation is live: an escalation that succeeded silences
\* the next for a home TTL, whatever fails, waits or is handed out in between.
THEOREM EscalationsAreSpaced == Spec => EscalationSpaced
<1>1. Init => SpacedInv
  BY NoRequestType DEF Init, SpacedInv
<1>2. TypeOK /\ LockInv /\ SpacedInv /\ [Next]_vars
        => SpacedInv' /\ (lastEscalation' # lastEscalation
                            => lastEscalation' >= lastEscalation + HomeTTL)
  <2> SUFFICES ASSUME TypeOK, LockInv, SpacedInv, [Next]_vars
               PROVE  SpacedInv' /\ (lastEscalation' # lastEscalation
                                       => lastEscalation' >= lastEscalation + HomeTTL)
    OBVIOUS
  <2> DEFINE Quiet == SpacedInv' /\ lastEscalation' = lastEscalation
  <2>0. /\ req \in [Threads -> Request] /\ pc \in [Threads -> Steps]
        /\ \A t \in Threads : req[t].escalate \in BOOLEAN
    BY DEF TypeOK, Request
  \* Most steps leave every escalating login where it is or end it.
  <2>1. ASSUME lastEscalation' = lastEscalation,
               \A u \in Threads : req'[u].escalate
                 => req[u].escalate /\ req'[u].now = req[u].now /\ pc'[u] \in LoginSteps
        PROVE  Quiet
    BY <2>1 DEF SpacedInv
  <2>2. CASE Tick \/ \E d \in Devices : Invalidate(d)
    <3>1. UNCHANGED <<req, pc, lastEscalation>>
      BY <2>2 DEF Tick, Invalidate, latches
    <3>2. QED
      BY <2>1, <3>1 DEF SpacedInv
  \* What thread t does leaves the other threads' escalations alone.
  <2>3. ASSUME NEW t \in Threads, lastEscalation' = lastEscalation,
               \A u \in Threads \ {t} : /\ req'[u].escalate = req[u].escalate
                                        /\ req'[u].now = req[u].now /\ pc'[u] = pc[u],
               req'[t].escalate
                 => req[t].escalate /\ req'[t].now = req[t].now /\ pc'[t] \in LoginSteps
        PROVE  Quiet
    BY <2>1, <2>3 DEF SpacedInv
  <2>4. ASSUME NEW t \in Threads, NEW r \in Request, ~r.escalate, NEW p,
               req' = [req EXCEPT ![t] = r], pc' = [pc EXCEPT ![t] = p],
               lastEscalation' = lastEscalation
        PROVE  Quiet
    BY <2>0, <2>3, <2>4
  <2>5. ASSUME NEW t \in Threads, NEW d \in Devices, CallDirect(t, d) PROVE Quiet
    <3>1. [NoRequest EXCEPT !.dev = d, !.now = clock] \in Request
            /\ ~[NoRequest EXCEPT !.dev = d, !.now = clock].escalate
      BY NoRequestType DEF Request, TypeOK
    <3>2. QED
      BY <2>4, <2>5, <3>1 DEF CallDirect, latches
  <2>6. ASSUME NEW t \in Threads, NEW d \in Devices, NEW f \in BOOLEAN, NEW a \in BOOLEAN,
               Call(t, d, f, a)
        PROVE  Quiet
    <3> DEFINE r == [NoRequest EXCEPT !.dev = d, !.force = f, !.allowHome = a, !.now = clock]
    <3>1. r \in Request /\ ~r.escalate
      BY NoRequestType DEF Request, TypeOK
    <3>2. QED
      BY <2>4, <2>6, <3>1 DEF Call, latches
  <2>7. ASSUME NEW t \in Threads, Forget(t), Return(t), lastEscalation' = lastEscalation
        PROVE  Quiet
    BY <2>4, <2>7, NoRequestType DEF Forget, Return
  <2>8. ASSUME NEW t \in Threads, Step(t)
        PROVE  \/ Quiet
               \/ SpacedInv' /\ lastEscalation' >= lastEscalation + HomeTTL
    <3>1. CASE Serve(t) \/ Hold(t) \/ SearchFails(t)
      BY <2>7, <3>1 DEF Serve, Hold, SearchFails, latches
    <3>2. CASE Refresh(t)
      <4>1. t \notin Direct /\ pc[t] = "enter"
        BY <3>2 DEF Refresh, LockInv
      <4>2. /\ req'[t].escalate = Escalates(req[t]) /\ req'[t].now = req[t].now
            /\ \A u \in Threads \ {t} : req'[u] = req[u]
        BY <2>0, <3>2 DEF Refresh, Request
      <4>3. /\ pc'[t] = "homeFast" /\ \A u \in Threads \ {t} : pc'[u] = pc[u]
            /\ lastEscalation' = lastEscalation
        BY <2>0, <3>2 DEF Refresh
      <4>4. Escalates(req[t]) => req[t].now >= lastEscalation + HomeTTL
        BY DEF Escalates
      <4>5. QED
        BY <4>1, <4>2, <4>3, <4>4 DEF SpacedInv, LoginSteps, Steps
    <3>3. CASE HomeFast(t) \/ HomeAcquire(t) \/ HomeCheck(t) \/ HomeStore(t)
      <4>1. \A u \in Threads : req'[u].escalate = req[u].escalate /\ req'[u].now = req[u].now
        BY <2>0, <3>3 DEF HomeFast, HomeAcquire, HomeCheck, HomeStore, Request
      <4>2. /\ pc'[t] \in LoginSteps /\ \A u \in Threads \ {t} : pc'[u] = pc[u]
            /\ lastEscalation' = lastEscalation
        BY <2>0, <3>3 DEF HomeFast, HomeAcquire, HomeCheck, HomeStore, LoginSteps, Steps, latches
      <4>3. QED
        BY <2>3, <4>1, <4>2
    <3>4. ASSUME NEW mine, RotateHome(t, mine) \/ RotateDevice(t, mine)
          PROVE  /\ req'[t] = mine
                 /\ \A u \in Threads \ {t} : req'[u].escalate = req[u].escalate
                                               /\ req'[u].now = req[u].now
      BY <2>0, <3>4 DEF RotateHome, RotateDevice, Request
    <3>5. CASE HomeCall(t) \/ DevLogin(t)
      <4>1. /\ [req[t] EXCEPT !.homeLive = TRUE].escalate = req[t].escalate
            /\ [req[t] EXCEPT !.homeLive = TRUE].now = req[t].now
            /\ [req[t] EXCEPT !.devLive = TRUE].escalate = req[t].escalate
            /\ [req[t] EXCEPT !.devLive = TRUE].now = req[t].now
        BY <2>0 DEF Request
      <4>2. \A u \in Threads : req'[u].escalate = req[u].escalate /\ req'[u].now = req[u].now
        BY <3>4, <3>5, <4>1 DEF HomeCall, DevLogin
      <4>3. /\ pc'[t] \in LoginSteps /\ \A u \in Threads \ {t} : pc'[u] = pc[u]
            /\ lastEscalation' = lastEscalation
        BY <2>0, <3>5 DEF HomeCall, DevLogin, LoginSteps, Steps, latches
      <4>4. QED
        BY <2>3, <4>2, <4>3
    <3>6. ASSUME NEW rotated \in BOOLEAN, HomeCallFails(t, rotated) \/ DevLoginFails(t, rotated)
          PROVE  Quiet
      <4>1. Return(t) /\ lastEscalation' = lastEscalation
        BY <3>6 DEF HomeCallFails, DevLoginFails, latches
      <4>2. CASE Forget(t)
        BY <2>7, <4>1, <4>2
      <4>3. CASE RotateHome(t, NoRequest) \/ RotateDevice(t, NoRequest)
        <5>1. ~req'[t].escalate
          BY <3>4, <4>3, NoRequestType
        <5>2. \A u \in Threads \ {t} : pc'[u] = pc[u]
          BY <2>0, <4>1 DEF Return
        <5>3. QED
          BY <2>3, <3>4, <4>1, <4>3, <5>1, <5>2
      <4>4. QED
        BY <3>6, <4>2, <4>3 DEF HomeCallFails, DevLoginFails
    <3>7. CASE Finish(t)
      <4>1. CASE t \in Direct \/ ~req[t].escalate
        BY <2>7, <3>7, <4>1 DEF Finish
      <4>2. CASE t \notin Direct /\ req[t].escalate
        <5>1. lastEscalation' = req[t].now
          BY <3>7, <4>2 DEF Finish
        <5>2. \A u \in Threads \ {t} : ~req[u].escalate
          BY <4>2, ThreadAssumption DEF SpacedInv, LockInv
        <5>3. \A u \in Threads : ~req'[u].escalate
          BY <2>0, <3>7, <5>2, NoRequestType DEF Finish, Forget
        <5>4. QED
          BY <4>2, <5>1, <5>3 DEF SpacedInv
      <4>3. QED
        BY <4>1, <4>2
    <3>8. QED
      BY <2>8, <3>1, <3>2, <3>3, <3>5, <3>6, <3>7 DEF Step
  <2>9. CASE UNCHANGED vars
    BY <2>1, <2>9 DEF vars, SpacedInv
  <2>10. QED
    BY <2>2, <2>5, <2>6, <2>8, <2>9 DEF Next
<1>3. QED
  BY <1>1, <1>2, TypeCorrect, LockInvariant, PTL DEF Spec, EscalationSpaced

-----------------------------------------------------------------------------
(* The cached generation *)

\* A cached login in flight carries the newest chat_secret of its device to its store,
\* unless a direct one came between.
CacheInv ==
    /\ CacheFollowsServer
    /\ \A t \in Threads \ Direct :
         pc[t] = "search" /\ req[t].dev \notin unclaimed => req[t].devLive

\* Whoever logs in beside the cache, a cached chat_secret is the server's newest one
\* unless a login that nobody stores came after it or one is still to be stored:
\* refreshes of one device never store their results in the opposite order of the
\* server's rotations.
THEOREM CacheFollows == Spec => []CacheFollowsServer
<1>1. Init => CacheInv
  BY DEF Init, CacheInv, CacheFollowsServer, Cached, NoEntry
<1>2. TypeOK /\ LockInv /\ CacheInv /\ [Next]_vars => CacheInv'
  <2> SUFFICES ASSUME TypeOK, LockInv, CacheInv, [Next]_vars PROVE CacheInv'
    OBVIOUS
  <2>0. /\ req \in [Threads -> Request] /\ pc \in [Threads -> Steps]
        /\ cache \in [Devices -> Entry]
        /\ \A t \in Threads : req[t].dev \in Devices
    BY DEF TypeOK, Request
  <2> USE DEF CacheInv, CacheFollowsServer, Cached
  <2>1. CASE Tick
    BY <2>1 DEF Tick
  <2>2. ASSUME NEW d \in Devices, Invalidate(d) PROVE CacheInv'
    BY <2>0, <2>2 DEF Invalidate, NoEntry
  <2>3. ASSUME NEW t \in Threads, NEW d \in Devices, CallDirect(t, d) PROVE CacheInv'
    BY <2>3 DEF CallDirect
  <2>4. ASSUME NEW t \in Threads, NEW d \in Devices, NEW f \in BOOLEAN, NEW a \in BOOLEAN,
               Call(t, d, f, a) PROVE CacheInv'
    BY <2>0, <2>4 DEF Call
  <2>5. ASSUME NEW t \in Threads, Step(t) PROVE CacheInv'
    <3>1. t \notin Direct /\ pc[t] \in LoginSteps
            => \A u \in (Threads \ Direct) \ {t} : pc[u] \notin LoginSteps
      BY ThreadAssumption DEF LockInv
    <3>2. CASE Serve(t) \/ Hold(t)
      BY <2>0, <3>2 DEF Serve, Hold, Return, Forget
    <3>3. CASE Refresh(t)
      BY <2>0, <3>3 DEF Refresh
    <3>4. CASE HomeFast(t) \/ HomeAcquire(t) \/ HomeCheck(t) \/ HomeStore(t)
      BY <2>0, <3>4 DEF HomeFast, HomeAcquire, HomeCheck, HomeStore
    <3>5. \A mine : RotateHome(t, mine)
            => /\ \A d \in Devices : /\ cache'[d].generation = cache[d].generation
                                     /\ cache'[d].devLive = cache[d].devLive
               /\ \A u \in Threads \ {t} : /\ req'[u].devLive = req[u].devLive
                                            /\ req'[u].dev = req[u].dev
      BY <2>0 DEF RotateHome, Entry, Request
    <3>6. CASE HomeCall(t)
      <4>1. \A u \in Threads \ {t} : /\ req'[u].devLive = req[u].devLive
                                   /\ req'[u].dev = req[u].dev
        BY <3>5, <3>6 DEF HomeCall
      <4>2. \A d \in Devices : /\ cache'[d].generation = cache[d].generation
                               /\ cache'[d].devLive = cache[d].devLive
        BY <3>5, <3>6 DEF HomeCall
      <4>3. pc[t] = "homeCall" /\ pc' = [pc EXCEPT ![t] = "homeStore"] /\ unclaimed' = unclaimed
        BY <3>6 DEF HomeCall
      <4>4. QED
        BY <2>0, <4>1, <4>2, <4>3
    <3>7. ASSUME NEW rotated \in BOOLEAN, HomeCallFails(t, rotated) PROVE CacheInv'
      <4>1. \A u \in Threads \ {t} : /\ req'[u].devLive = req[u].devLive
                                   /\ req'[u].dev = req[u].dev
        BY <2>0, <3>5, <3>7 DEF HomeCallFails, Forget
      <4>2. \A d \in Devices : /\ cache'[d].generation = cache[d].generation
                               /\ cache'[d].devLive = cache[d].devLive
        BY <2>0, <3>5, <3>7 DEF HomeCallFails
      <4>3. pc[t] = "homeCall" /\ pc' = [pc EXCEPT ![t] = "idle"] /\ unclaimed' = unclaimed
        BY <3>7 DEF HomeCallFails, Return
      <4>4. QED
        BY <2>0, <4>1, <4>2, <4>3
    <3>8. \A mine : RotateDevice(t, mine)
            => /\ \A d \in Devices : cache'[d].generation = cache[d].generation
               /\ \A d \in Devices \ {req[t].dev} : cache'[d] = cache[d]
               /\ req'[t] = mine
               /\ \A u \in Threads \ {t} :
                    /\ req'[u].dev = req[u].dev
                    /\ req[u].dev # req[t].dev => req'[u].devLive = req[u].devLive
      BY <2>0 DEF RotateDevice, Entry, Request
    <3>9. CASE DevLogin(t)
      <4>1. /\ [req[t] EXCEPT !.devLive = TRUE].devLive = TRUE
            /\ [req[t] EXCEPT !.devLive = TRUE].dev = req[t].dev
        BY <2>0 DEF Request
      <4>2. /\ pc[t] = "devLogin" /\ pc' = [pc EXCEPT ![t] = "search"]
            /\ req'[t].devLive /\ req'[t].dev = req[t].dev
        BY <3>8, <3>9, <4>1 DEF DevLogin
      <4>3. CASE t \in Direct
        <5>1. unclaimed' = unclaimed \cup {req[t].dev}
          BY <3>9, <4>3 DEF DevLogin
        <5>2. \A u \in Threads \ Direct : pc'[u] = pc[u] /\ req'[u].dev = req[u].dev
          BY <2>0, <3>8, <3>9, <4>2, <4>3 DEF DevLogin
        <5>3. QED
          BY <2>0, <3>8, <3>9, <4>2, <4>3, <5>1, <5>2 DEF DevLogin
      <4>4. CASE t \notin Direct
        <5>1. unclaimed' = unclaimed \ {req[t].dev}
          BY <3>9, <4>4 DEF DevLogin
        <5>2. \A u \in (Threads \ Direct) \ {t} : pc[u] # "search" /\ pc'[u] # "search"
          BY <2>0, <3>1, <4>2, <4>4 DEF LoginSteps, Steps
        <5>3. QED
          BY <2>0, <3>8, <3>9, <4>2, <4>4, <5>1, <5>2 DEF DevLogin
      <4>5. QED
        BY <4>3, <4>4
    <3>10. ASSUME NEW rotated \in BOOLEAN, DevLoginFails(t, rotated) PROVE CacheInv'
      <4>1. pc[t] = "devLogin" /\ pc' = [pc EXCEPT ![t] = "idle"]
        BY <3>10 DEF DevLoginFails, Return
      <4>2. CASE rotated
        <5>1. RotateDevice(t, NoRequest) /\ unclaimed' = unclaimed \cup {req[t].dev}
          BY <3>10, <4>2 DEF DevLoginFails
        <5>2. QED
          BY <2>0, <3>8, <4>1, <5>1
      <4>3. CASE ~rotated
        <5>1. Forget(t) /\ UNCHANGED <<cache, unclaimed>>
          BY <3>10, <4>3 DEF DevLoginFails
        <5>2. QED
          BY <2>0, <4>1, <5>1 DEF Forget
      <4>4. QED
        BY <4>2, <4>3
    <3>11. CASE Finish(t)
      <4>1. /\ pc[t] = "search" /\ pc' = [pc EXCEPT ![t] = "idle"]
            /\ \A u \in Threads \ {t} : req'[u] = req[u]
            /\ unclaimed' = unclaimed
        BY <2>0, <3>11 DEF Finish, Return, Forget
      <4>2. CASE t \in Direct
        BY <2>0, <3>11, <4>1, <4>2 DEF Finish
      <4>3. CASE t \notin Direct
        <5>1. /\ cache'[req[t].dev].devLive = req[t].devLive
              /\ \A d \in Devices \ {req[t].dev} : cache'[d] = cache[d]
          BY <2>0, <3>11, <4>3 DEF Finish
        <5>2. QED
          BY <2>0, <4>1, <4>3, <5>1
      <4>4. QED
        BY <4>2, <4>3
    <3>12. CASE SearchFails(t)
      <4>1. /\ pc' = [pc EXCEPT ![t] = "idle"] /\ UNCHANGED cache
            /\ \A u \in Threads \ {t} : req'[u] = req[u]
            /\ unclaimed' = IF t \in Direct THEN unclaimed ELSE unclaimed \cup {req[t].dev}
        BY <2>0, <3>12 DEF SearchFails, Return, Forget
      <4>2. QED
        BY <2>0, <4>1
    <3>13. QED
      BY <2>5, <3>2, <3>3, <3>4, <3>6, <3>7, <3>9, <3>10, <3>11, <3>12 DEF Step
  <2>6. CASE UNCHANGED vars
    BY <2>6 DEF vars
  <2>7. QED
    BY <2>1, <2>2, <2>3, <2>4, <2>5, <2>6 DEF Next
<1>3. CacheInv => CacheFollowsServer
  BY DEF CacheInv
<1>4. QED
  BY <1>1, <1>2, <1>3, TypeCorrect, LockInvariant, PTL DEF Spec

=============================================================================
