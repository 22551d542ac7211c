------------------------- MODULE HomeSecretProofs -------------------------
(***************************************************************************)
(* A rotation of the home's secret reaches every registered session, for   *)
(* any devices, threads, rotations and resets.                             *)
(***************************************************************************)
EXTENDS HomeSecret, TLAPS

\* One call at a time is past the home's login of a client.
Exclusive ==
    \A t, u \in Threads :
        At(t, "device") /\ At(u, "device") /\ job[t].client = job[u].client => t = u

\* Callbacks bring the secret their client has, to sessions it has registered.
Delivering ==
    \A t \in Threads : job[t].left # {} =>
        /\ At(t, "device") /\ job[t].secret = My(t).home
        /\ job[t].left \subseteq My(t).callbacks

\* A session that is registered is open, and with one client only.
Registered ==
    \A d \in Devices :
        /\ job[d].kind = "create" => ~session[d].open
        /\ \A k \in Clients : d \in client[k].callbacks =>
            /\ session[d].open
            /\ \A l \in Clients : d \in client[l].callbacks => l = k

IInv == TypeOK /\ Exclusive /\ Delivering /\ Registered /\ RekeyReachesAll

-----------------------------------------------------------------------------

\* A call that is not delivering callbacks moves on, and touches neither what the
\* clients have of the home nor a session.
LEMMA CallMoves ==
    ASSUME IInv, NEW t \in Threads, NEW j \in Jobs, Go(t, j),
           job[t].left = {}, j.left = {},
           j.pc = "device" => \/ At(t, "device") /\ j.client = job[t].client
                              \/ ~Held(j.client),
           t \in Devices /\ j.kind = "create" => ~session[t].open,
           client' \in [Clients -> Cache],
           \A k \in Clients : client'[k].home = client[k].home /\ client'[k].callbacks = client[k].callbacks,
           UNCHANGED <<session, fed>>,
           server' \in Secrets, current' \in Clients, published' \in Secrets
    PROVE  IInv'
<1>1. /\ job \in [Threads -> Jobs] /\ job' \in [Threads -> Jobs]
      /\ job'[t] = j /\ \A u \in Threads : u # t => job'[u] = job[u]
  BY DEF IInv, TypeOK, Go
<1>2. TypeOK'
  BY <1>1 DEF IInv, TypeOK
<1>3. Exclusive'
  <2> SUFFICES ASSUME NEW u \in Threads, NEW v \in Threads,
                      At(u, "device")', At(v, "device")', job'[u].client = job'[v].client
               PROVE  u = v
    BY DEF Exclusive
  <2>1. CASE u # t /\ v # t
    BY <1>1, <2>1 DEF IInv, Exclusive, At
  <2>2. CASE u = t /\ v # t
    BY <1>1, <2>2 DEF IInv, Exclusive, At, Held
  <2>3. CASE u # t /\ v = t
    BY <1>1, <2>3 DEF IInv, Exclusive, At, Held
  <2> QED
    BY <2>1, <2>2, <2>3
<1>4. \A u \in Threads : job[u].client \in Clients
  BY <1>1 DEF Jobs
<1>5. Delivering'
  BY <1>1, <1>4 DEF IInv, Delivering, At, My
<1>6. Registered'
  BY <1>1 DEF IInv, Registered, Threads
<1>7. RekeyReachesAll'
  BY <1>1 DEF IInv, RekeyReachesAll
<1> QED
  BY <1>2, <1>3, <1>5, <1>6, <1>7 DEF IInv

\* No thread but the one at the device's login has callbacks left.
LEMMA NoneLeft ==
    ASSUME IInv, NEW t \in Threads, ~At(t, "device")
    PROVE  job[t].left = {}
  BY DEF IInv, Delivering

LEMMA IdleJob == Idle \in Jobs /\ Idle.left = {} /\ Idle.pc = "idle" /\ Idle.kind = "none"
  BY HomeAssumption DEF Idle, Jobs, Secrets, Clients

LEMMA ShakingJob ==
    ASSUME IInv, NEW t \in Threads
    PROVE  /\ Shaking(t) \in Jobs /\ Shaking(t).left = {} /\ Shaking(t).pc # "device"
           /\ Shaking(t).kind # "create"
  BY IdleJob DEF IInv, TypeOK, Jobs, Shaking

LEMMA CallPreserves ==
    ASSUME IInv, NEW t \in Threads, NEW d \in Devices, NEW kind \in {"rebuild", "create", "use"},
           NEW force \in BOOLEAN, Call(t, d, kind, force), t \in Devices /\ kind = "create" => ~session[t].open
    PROVE  IInv'
<1> DEFINE j == [Idle EXCEPT !.kind = kind, !.of = d, !.pc = "enter", !.client = current, !.force = force]
<1>1. j \in Jobs /\ j.left = {} /\ j.pc = "enter" /\ j.kind = kind
  BY IdleJob DEF IInv, TypeOK, Jobs
<1>2. job[t].left = {}
  BY NoneLeft DEF Call, At
<1>3. Go(t, j) /\ UNCHANGED <<server, client, current, published, session, fed>>
  BY DEF Call
<1> HIDE DEF j
<1>4. /\ client' \in [Clients -> Cache]
      /\ \A k \in Clients : client'[k].home = client[k].home /\ client'[k].callbacks = client[k].callbacks
      /\ server' \in Secrets /\ current' \in Clients /\ published' \in Secrets
  BY <1>3 DEF IInv, TypeOK
<1> QED
  BY <1>1, <1>2, <1>3, <1>4, CallMoves

\* A rotation gives the client a new home secret, which is then to be delivered
\* to each session that it has registered.
LEMMA RotationPreserves ==
    ASSUME IInv, NEW t \in Threads, LoginRotates(t)
    PROVE  IInv'
<1> DEFINE k == job[t].client
           j == [job[t] EXCEPT !.pc = "device", !.force = FALSE, !.secret = server', !.left = My(t).callbacks]
           c == [My(t) EXCEPT !.home = server', !.fresh = TRUE]
<1>1. /\ job \in [Threads -> Jobs] /\ client \in [Clients -> Cache] /\ server \in Secrets
      /\ k \in Clients /\ job[t] \in Jobs /\ My(t) \in Cache
  BY DEF IInv, TypeOK, Jobs, My
<1>2. server' \in Secrets
  BY <1>1, HomeAssumption DEF LoginRotates, Room, Secrets
<1>3. /\ j \in Jobs /\ j.pc = "device" /\ j.secret = server' /\ j.left = My(t).callbacks
      /\ j.client = k /\ j.kind = job[t].kind
  BY <1>1, <1>2 DEF Jobs, Cache
<1>4. c \in Cache /\ c.home = server' /\ c.callbacks = client[k].callbacks
  BY <1>1, <1>2 DEF Cache, My
<1>5. /\ job' = [job EXCEPT ![t] = j] /\ client' = [client EXCEPT ![k] = c]
      /\ fed' = fed \ client[k].callbacks /\ UNCHANGED <<current, published, session>>
      /\ ~Held(k) /\ At(t, "enter")
  BY DEF LoginRotates, Go, Set, Entered, My
<1> HIDE DEF j, c
<1>6. /\ job' \in [Threads -> Jobs] /\ job'[t] = j /\ \A u \in Threads : u # t => job'[u] = job[u]
      /\ client' \in [Clients -> Cache] /\ client'[k] = c
      /\ \A l \in Clients : l # k => client'[l] = client[l]
      /\ \A l \in Clients : client'[l].callbacks = client[l].callbacks
  BY <1>1, <1>3, <1>4, <1>5
<1>7. TypeOK'
  BY <1>2, <1>5, <1>6 DEF IInv, TypeOK
<1>8. \A u \in Threads : u # t => ~(At(u, "device") /\ job[u].client = k)
  BY <1>5 DEF Held
<1>9. Exclusive'
  BY <1>3, <1>6, <1>8 DEF IInv, Exclusive, At
<1>10. Delivering'
  <2> SUFFICES ASSUME NEW u \in Threads, job'[u].left # {}
               PROVE  /\ At(u, "device")' /\ job'[u].secret = client'[job'[u].client].home
                      /\ job'[u].left \subseteq client'[job'[u].client].callbacks
    BY DEF Delivering, My
  <2>1. CASE u = t
    BY <2>1, <1>1, <1>3, <1>4, <1>6 DEF At, My
  <2>2. CASE u # t
    <3>1. /\ job'[u] = job[u] /\ At(u, "device") /\ job[u].secret = client[job[u].client].home
          /\ job[u].left \subseteq client[job[u].client].callbacks
      BY <2>2, <1>6 DEF IInv, Delivering, My
    <3>2. job[u].client # k /\ job[u].client \in Clients
      BY <3>1, <2>2, <1>1, <1>8 DEF Jobs
    <3> QED
      BY <3>1, <3>2, <1>6 DEF At
  <2> QED
    BY <2>1, <2>2
<1>11. Registered'
  <2>1. \A d \in Devices : job'[d].kind = job[d].kind
    BY <1>3, <1>6 DEF Threads
  <2> QED
    BY <2>1, <1>5, <1>6 DEF IInv, Registered
<1>12. RekeyReachesAll'
  <2> SUFFICES ASSUME NEW l \in Clients, NEW d \in client'[l].callbacks
               PROVE  \/ session'[d].secret = client'[l].home \/ d \in fed'
                      \/ \E u \in Threads : job'[u].client = l /\ d \in job'[u].left
    BY DEF RekeyReachesAll
  <2>1. CASE l = k
    BY <2>1, <1>3, <1>6 DEF My
  <2>2. CASE l # k
    <3>1. d \in Devices /\ d \in client[l].callbacks /\ d \notin client[k].callbacks
      BY <2>2, <1>1, <1>6 DEF IInv, Registered, Cache
    <3>2. CASE \E u \in Threads : job[u].client = l /\ d \in job[u].left
      BY <3>2, <2>2, <1>6
    <3>3. CASE session[d].secret = client[l].home \/ d \in fed
      BY <3>1, <3>3, <2>2, <1>5, <1>6
    <3> QED
      BY <3>1, <3>2, <3>3 DEF IInv, RekeyReachesAll
  <2> QED
    BY <2>1, <2>2
<1> QED
  BY <1>7, <1>9, <1>10, <1>11, <1>12 DEF IInv

\* A callback brings the secret to the one session it is for.
LEMMA RekeyPreserves ==
    ASSUME IInv, NEW t \in Threads, NEW d \in Devices, Rekey(t, d)
    PROVE  IInv'
<1> DEFINE k == job[t].client
           j == [job[t] EXCEPT !.left = @ \ {d}]
<1>1. /\ job \in [Threads -> Jobs] /\ client \in [Clients -> Cache]
      /\ session \in [Devices -> [open : BOOLEAN, secret : Secrets]]
      /\ k \in Clients /\ job[t] \in Jobs /\ job[t].secret \in Secrets
  BY DEF IInv, TypeOK, Jobs
<1>2. /\ j \in Jobs /\ j.left = job[t].left \ {d} /\ j.pc = job[t].pc /\ j.client = k
      /\ j.kind = job[t].kind /\ j.secret = job[t].secret
  BY <1>1 DEF Jobs
<1>3. /\ job' = [job EXCEPT ![t] = j] /\ d \in job[t].left
      /\ session' = [session EXCEPT ![d].secret = job[t].secret]
      /\ UNCHANGED <<server, client, current, published, fed>>
  BY DEF Rekey, Go
<1> HIDE DEF j
<1>4. /\ job' \in [Threads -> Jobs] /\ job'[t] = j /\ \A u \in Threads : u # t => job'[u] = job[u]
      /\ session' \in [Devices -> [open : BOOLEAN, secret : Secrets]]
      /\ session'[d].secret = job[t].secret
      /\ \A e \in Devices : session'[e].open = session[e].open
      /\ \A e \in Devices : e # d => session'[e] = session[e]
  BY <1>1, <1>2, <1>3
<1>5. At(t, "device") /\ job[t].secret = client[k].home /\ job[t].left \subseteq client[k].callbacks
  BY <1>3 DEF IInv, Delivering, My
<1>6. TypeOK'
  BY <1>3, <1>4 DEF IInv, TypeOK
<1>7. \A u \in Threads : job'[u].pc = job[u].pc /\ job'[u].client = job[u].client /\ job'[u].kind = job[u].kind
                        /\ job'[u].secret = job[u].secret /\ job'[u].left \subseteq job[u].left
  BY <1>2, <1>4
<1>8. Exclusive'
  BY <1>7 DEF IInv, Exclusive, At
<1>9. Delivering'
  BY <1>3, <1>7 DEF IInv, Delivering, At, My
<1>10. Registered'
  BY <1>3, <1>4, <1>7 DEF IInv, Registered, Threads
<1>11. RekeyReachesAll'
  <2> SUFFICES ASSUME NEW l \in Clients, NEW e \in client[l].callbacks
               PROVE  \/ session'[e].secret = client[l].home \/ e \in fed
                      \/ \E u \in Threads : job'[u].client = l /\ e \in job'[u].left
    BY <1>3 DEF RekeyReachesAll
  <2>1. e \in Devices
    BY <1>1 DEF Cache
  <2>2. CASE e = d
    BY <2>1, <2>2, <1>1, <1>3, <1>4, <1>5 DEF IInv, Registered
  <2>3. CASE e # d
    BY <2>1, <2>3, <1>2, <1>4 DEF IInv, RekeyReachesAll
  <2> QED
    BY <2>2, <2>3
<1> QED
  BY <1>6, <1>8, <1>9, <1>10, <1>11 DEF IInv

LEMMA AnswerJob ==
    ASSUME IInv, NEW t \in Threads, NEW secret \in Secrets, Answer(t, secret),
           job[t].left = {}, t \in Devices /\ job[t].kind = "create" => ~session[t].open
    PROVE  \E j \in Jobs : /\ Go(t, j) /\ j.left = {} /\ j.pc # "device"
                           /\ t \in Devices /\ j.kind = "create" => ~session[t].open
<1> DEFINE j == [job[t] EXCEPT !.pc = "answered", !.force = FALSE, !.secret = secret]
<1>1. j \in Jobs /\ j.left = {} /\ j.pc = "answered" /\ j.kind = job[t].kind
  BY DEF IInv, TypeOK, Jobs
<1> HIDE DEF j
<1>2. Go(t, Idle) \/ Go(t, j)
  BY DEF Answer, j
<1> QED
  BY IdleJob, <1>1, <1>2

\* The sessions of the calls' threads: a job that is being made has none.
LEMMA NoSessionYet ==
    ASSUME IInv, NEW t \in Threads, t \in Devices, job[t].kind = "create"
    PROVE  ~session[t].open
  BY DEF IInv, Registered

\* The steps of a call that answer it or let it go on.
LEMMA MovePreserves ==
    ASSUME IInv, NEW t \in Threads,
           \/ Serve(t) \/ LoginCached(t) \/ DeviceLogin(t) \/ StartsOver(t) \/ Publish(t)
           \/ t \in Devices /\ Shake(t)
           \/ \E lost \in BOOLEAN : Raises(t, lost)
    PROVE  IInv'
<1> DEFINE Same == \A k \in Clients : client'[k].home = client[k].home /\ client'[k].callbacks = client[k].callbacks
<1>1. /\ job \in [Threads -> Jobs] /\ client \in [Clients -> Cache] /\ job[t] \in Jobs
      /\ server \in Secrets /\ current \in Clients /\ published \in Secrets
      /\ job[t].client \in Clients /\ My(t) \in Cache /\ job[t].secret \in Secrets
      /\ job[t].of \in Devices /\ My(t).entry \in [Devices -> Secrets] /\ My(t).home \in Secrets
  BY DEF IInv, TypeOK, Jobs, Cache, My
<1>2. UNCHANGED client => client' \in [Clients -> Cache] /\ Same
  BY <1>1
<1>3. CASE Serve(t)
  <2>1. job[t].left = {}
    BY <1>3, NoneLeft DEF Serve, Entered, At
  <2>2. \E j \in Jobs : /\ Go(t, j) /\ j.left = {} /\ j.pc # "device"
                        /\ t \in Devices /\ j.kind = "create" => ~session[t].open
    BY <1>1, <1>3, <2>1, AnswerJob, NoSessionYet DEF Serve
  <2> QED
    BY <2>1, <2>2, <1>1, <1>2, <1>3, CallMoves DEF Serve
<1>4. CASE LoginCached(t)
  <2> DEFINE j == [job[t] EXCEPT !.pc = "device", !.force = FALSE, !.secret = My(t).home]
  <2>1. job[t].left = {}
    BY <1>4, NoneLeft DEF LoginCached, Entered, At
  <2>2. j \in Jobs /\ j.left = {} /\ j.client = job[t].client /\ j.kind = job[t].kind
    BY <1>1, <2>1 DEF Jobs
  <2>3. Go(t, j) /\ ~Held(job[t].client) /\ UNCHANGED <<server, client, current, published, session, fed>>
    BY <1>4 DEF LoginCached, Entered
  <2> HIDE DEF j
  <2> QED
    BY <2>1, <2>2, <2>3, <1>1, <1>2, CallMoves, NoSessionYet
<1>5. CASE DeviceLogin(t)
  <2>1. job[t].left = {}
    BY <1>5 DEF DeviceLogin, AtDevice
  <2>2. \E j \in Jobs : /\ Go(t, j) /\ j.left = {} /\ j.pc # "device"
                        /\ t \in Devices /\ j.kind = "create" => ~session[t].open
    BY <1>1, <1>5, <2>1, AnswerJob, NoSessionYet DEF DeviceLogin
  <2> DEFINE c == [My(t) EXCEPT !.entry[job[t].of] = job[t].secret]
  <2>3. c \in Cache /\ c.home = My(t).home /\ c.callbacks = My(t).callbacks
    BY <1>1 DEF Cache
  <2>4. client' = [client EXCEPT ![job[t].client] = c] /\ UNCHANGED <<server, current, published, session, fed>>
    BY <1>5 DEF DeviceLogin, Set
  <2> HIDE DEF c
  <2>5. client' \in [Clients -> Cache] /\ Same
    BY <1>1, <2>3, <2>4 DEF My
  <2> QED
    BY <2>1, <2>2, <2>4, <2>5, <1>1, CallMoves
<1>6. CASE StartsOver(t)
  <2> DEFINE j == [job[t] EXCEPT !.pc = "enter", !.client = current', !.force = TRUE, !.again = TRUE]
  <2>1. job[t].left = {}
    BY <1>6, NoneLeft DEF StartsOver, Entered, AtDevice, At
  <2>2. current' \in Clients
    BY <1>1, <1>6, HomeAssumption DEF StartsOver, NextClient, Clients
  <2>3. j \in Jobs /\ j.left = {} /\ j.pc = "enter" /\ j.kind = job[t].kind
    BY <1>1, <2>1, <2>2 DEF Jobs
  <2>4. Go(t, j) /\ UNCHANGED <<server, client, published, session, fed>>
    BY <1>6 DEF StartsOver
  <2> HIDE DEF j
  <2> QED
    BY <2>1, <2>2, <2>3, <2>4, <1>1, <1>2, CallMoves, NoSessionYet
<1>7. CASE Publish(t)
  <2> DEFINE j == [job[t] EXCEPT !.pc = "adopt", !.secret = IF published' # 0 THEN published' ELSE @]
  <2>1. job[t].left = {}
    BY <1>7, NoneLeft DEF Publish, At
  <2>2. published' \in Secrets
    BY <1>1, <1>7 DEF Publish
  <2>3. j \in Jobs /\ j.left = {} /\ j.pc = "adopt" /\ j.kind = job[t].kind
    BY <1>1, <2>1, <2>2 DEF Jobs
  <2>4. Go(t, j) /\ UNCHANGED <<server, client, current, session, fed>>
    BY <1>7 DEF Publish
  <2> HIDE DEF j
  <2> QED
    BY <2>1, <2>2, <2>3, <2>4, <1>1, <1>2, CallMoves, NoSessionYet
<1>8. CASE t \in Devices /\ Shake(t)
  <2>1. job[t].left = {}
    BY <1>8, NoneLeft DEF Shake, At
  <2>2. Go(t, Idle) /\ UNCHANGED <<server, client, current, published, session, fed>>
    BY <1>8 DEF Shake
  <2> QED
    BY <2>1, <2>2, <1>1, <1>2, CallMoves, IdleJob
<1>9. CASE \E lost \in BOOLEAN : Raises(t, lost)
  <2> PICK lost \in BOOLEAN : Raises(t, lost)
    BY <1>9
  <2>1. job[t].left = {}
    BY NoneLeft DEF Raises, Entered, AtDevice, At
  <2>2. server' \in Secrets
    BY <1>1, HomeAssumption DEF Raises, Room, Secrets
  <2>3. \E j \in Jobs : Go(t, j) /\ j.left = {} /\ j.pc # "device" /\ j.kind # "create"
    BY IdleJob, ShakingJob DEF Raises
  <2>4. UNCHANGED <<client, current, published, session, fed>>
    BY DEF Raises
  <2> QED
    BY <2>1, <2>2, <2>3, <2>4, <1>1, <1>2, CallMoves
<1> QED
  BY <1>3, <1>4, <1>5, <1>6, <1>7, <1>8, <1>9

\* A session takes its provider's answer, which counts as fed.
LEMMA AdoptPreserves ==
    ASSUME IInv, NEW d \in Devices, Adopt(d)
    PROVE  IInv'
<1>1. /\ job \in [Threads -> Jobs] /\ client \in [Clients -> Cache] /\ d \in Threads
      /\ session \in [Devices -> [open : BOOLEAN, secret : Secrets]]
      /\ job[d] \in Jobs /\ job[d].secret \in Secrets
  BY DEF IInv, TypeOK, Jobs, Threads
<1>2. Go(d, Shaking(d)) /\ UNCHANGED <<server, client, current, published>> /\ At(d, "adopt")
  BY DEF Adopt
<1>3. job[d].left = {}
  BY <1>1, <1>2, NoneLeft DEF At
<1>4. CASE job[d].orphan
  <2>1. UNCHANGED <<session, fed>>
    BY <1>4 DEF Adopt
  <2>2. /\ client' \in [Clients -> Cache]
        /\ \A k \in Clients : client'[k].home = client[k].home /\ client'[k].callbacks = client[k].callbacks
        /\ server' \in Secrets /\ current' \in Clients /\ published' \in Secrets
    BY <1>2 DEF IInv, TypeOK
  <2>3. Shaking(d) \in Jobs /\ Shaking(d).left = {} /\ Shaking(d).pc # "device" /\ Shaking(d).kind # "create"
    BY <1>1, ShakingJob
  <2> QED
    BY <1>1, <1>2, <1>3, <2>1, <2>2, <2>3, CallMoves, SMTT(40)
<1>5. CASE ~job[d].orphan
  <2>1. Took(d)
    BY <1>5 DEF Adopt
  <2>2. /\ session' \in [Devices -> [open : BOOLEAN, secret : Secrets]] /\ fed' = fed \cup {d}
        /\ \A e \in Devices : session'[e].open = session[e].open
        /\ \A e \in Devices : e # d => session'[e] = session[e]
    BY <1>1, <2>1 DEF Took
  <2>3. /\ job' \in [Threads -> Jobs] /\ \A u \in Threads : u # d => job'[u] = job[u]
        /\ job'[d].left = {} /\ job'[d].pc # "device" /\ job'[d].kind # "create"
    BY <1>1, <1>2, ShakingJob DEF Go
  <2>4. TypeOK'
    BY <1>2, <2>2, <2>3 DEF IInv, TypeOK
  <2>5. Exclusive'
    BY <2>3 DEF IInv, Exclusive, At
  <2>6. Delivering'
    BY <1>2, <2>3 DEF IInv, Delivering, At, My
  <2>7. Registered'
    BY <1>2, <2>2, <2>3 DEF IInv, Registered, Threads
  <2>8. RekeyReachesAll'
    <3> SUFFICES ASSUME NEW l \in Clients, NEW e \in client[l].callbacks, e # d
                 PROVE  \/ session'[e].secret = client[l].home \/ e \in fed'
                        \/ \E u \in Threads : job'[u].client = l /\ e \in job'[u].left
      BY <1>2, <2>2 DEF RekeyReachesAll
    <3>1. e \in Devices
      BY <1>1 DEF Cache
    <3>2. CASE \E u \in Threads : job[u].client = l /\ e \in job[u].left
      BY <3>2, <1>3, <2>3
    <3> QED
      BY <3>1, <3>2, <2>2 DEF IInv, RekeyReachesAll
  <2> QED
    BY <2>4, <2>5, <2>6, <2>7, <2>8 DEF IInv
<1> QED
  BY <1>4, <1>5

\* A new session registers with one client, and was with none.
LEMMA ConnectPreserves ==
    ASSUME IInv, NEW d \in Devices, Connect(d)
    PROVE  IInv'
<1> DEFINE k == job[d].client
           c == [My(d) EXCEPT !.callbacks = @ \cup {d}]
<1>1. /\ job \in [Threads -> Jobs] /\ client \in [Clients -> Cache] /\ d \in Threads
      /\ session \in [Devices -> [open : BOOLEAN, secret : Secrets]]
      /\ job[d] \in Jobs /\ job[d].secret \in Secrets /\ k \in Clients /\ My(d) \in Cache
  BY DEF IInv, TypeOK, Jobs, Threads, My
<1>2. /\ At(d, "adopt") /\ job[d].kind = "create" /\ Go(d, Idle)
      /\ client' = [client EXCEPT ![k] = c] /\ fed' = fed \cup {d}
      /\ session' = [session EXCEPT ![d] = [open |-> TRUE, secret |-> job[d].secret]]
      /\ UNCHANGED <<server, current, published>>
  BY DEF Connect, Set
<1>3. job[d].left = {} /\ ~session[d].open
  BY <1>1, <1>2, NoneLeft, NoSessionYet DEF At
<1>4. c \in Cache /\ c.home = client[k].home /\ c.callbacks = client[k].callbacks \cup {d}
  BY <1>1 DEF Cache, My
<1> HIDE DEF c
<1>5. /\ client' \in [Clients -> Cache] /\ client'[k].callbacks = client[k].callbacks \cup {d}
      /\ \A l \in Clients : client'[l].home = client[l].home
      /\ \A l \in Clients : l # k => client'[l].callbacks = client[l].callbacks
  BY <1>1, <1>2, <1>4
<1>6. /\ session' \in [Devices -> [open : BOOLEAN, secret : Secrets]] /\ session'[d].open
      /\ \A e \in Devices : e # d => session'[e] = session[e]
  BY <1>1, <1>2
<1>7. /\ job' \in [Threads -> Jobs] /\ \A u \in Threads : u # d => job'[u] = job[u]
      /\ job'[d].left = {} /\ job'[d].pc = "idle" /\ job'[d].kind = "none"
  BY <1>1, <1>2, IdleJob DEF Go
<1>8. \A l \in Clients : d \notin client[l].callbacks
  BY <1>3 DEF IInv, Registered
<1>9. TypeOK'
  BY <1>2, <1>5, <1>6, <1>7 DEF IInv, TypeOK
<1>10. Exclusive'
  BY <1>7 DEF IInv, Exclusive, At
<1>11. Delivering'
  <2>1. \A u \in Threads : job[u].client \in Clients
    BY <1>1 DEF Jobs
  <2> QED
    BY <2>1, <1>5, <1>7 DEF IInv, Delivering, At, My
<1>12. Registered'
  <2> SUFFICES ASSUME NEW e \in Devices
               PROVE  /\ job'[e].kind = "create" => ~session'[e].open
                      /\ \A l \in Clients : e \in client'[l].callbacks =>
                           /\ session'[e].open
                           /\ \A m \in Clients : e \in client'[m].callbacks => m = l
    BY DEF Registered
  <2>1. CASE e = d
    BY <2>1, <1>5, <1>6, <1>7, <1>8
  <2>2. CASE e # d
    BY <2>2, <1>5, <1>6, <1>7 DEF IInv, Registered, Threads
  <2> QED
    BY <2>1, <2>2
<1>13. RekeyReachesAll'
  <2> SUFFICES ASSUME NEW l \in Clients, NEW e \in client'[l].callbacks, e # d
               PROVE  \/ session'[e].secret = client'[l].home \/ e \in fed'
                      \/ \E u \in Threads : job'[u].client = l /\ e \in job'[u].left
    BY <1>2 DEF RekeyReachesAll
  <2>1. e \in Devices /\ e \in client[l].callbacks
    BY <1>1, <1>5 DEF Cache
  <2>2. CASE \E u \in Threads : job[u].client = l /\ e \in job[u].left
    BY <2>2, <1>3, <1>7
  <2> QED
    BY <2>1, <2>2, <1>2, <1>5, <1>6 DEF IInv, RekeyReachesAll
<1> QED
  BY <1>9, <1>10, <1>11, <1>12, <1>13 DEF IInv

\* A closed session is unregistered everywhere, and no callback is left for it.
LEMMA ClosePreserves ==
    ASSUME IInv, NEW d \in Devices, Close(d)
    PROVE  IInv'
<1>1. /\ job \in [Threads -> Jobs] /\ client \in [Clients -> Cache]
      /\ session \in [Devices -> [open : BOOLEAN, secret : Secrets]]
  BY DEF IInv, TypeOK
<1>2. /\ client' \in [Clients -> Cache]
      /\ \A l \in Clients : client'[l].home = client[l].home /\ client'[l].callbacks = client[l].callbacks \ {d}
  BY <1>1 DEF Close, Cache
<1>3. /\ session' \in [Devices -> [open : BOOLEAN, secret : Secrets]] /\ ~session'[d].open
      /\ \A e \in Devices : e # d => session'[e] = session[e]
  <2>1. NoSession \in [open : BOOLEAN, secret : Secrets] /\ ~NoSession.open
    BY HomeAssumption DEF NoSession, Secrets
  <2> QED
    BY <2>1, <1>1 DEF Close
<1>4. /\ job' \in [Threads -> Jobs]
      /\ \A u \in Threads : /\ job'[u].left = job[u].left \ {d} /\ job'[u].pc = job[u].pc
                            /\ job'[u].client = job[u].client /\ job'[u].client \in Clients
                            /\ job'[u].kind = job[u].kind /\ job'[u].secret = job[u].secret
  <2> SUFFICES ASSUME NEW u \in Threads
               PROVE  /\ job'[u] \in Jobs
                      /\ job'[u].left = job[u].left \ {d} /\ job'[u].pc = job[u].pc
                      /\ job'[u].client = job[u].client /\ job'[u].client \in Clients
                      /\ job'[u].kind = job[u].kind /\ job'[u].secret = job[u].secret
    BY DEF Close
  <2>1. job'[u] = [job[u] EXCEPT !.left = @ \ {d}, !.orphan = @ \/ (u = d /\ ~At(u, "idle"))]
    BY DEF Close
  <2>2. job[u] \in Jobs
    BY <1>1
  <2> QED
    BY <2>1, <2>2 DEF Jobs
<1>5. fed' = fed \ {d} /\ UNCHANGED <<server, current, published>>
  BY DEF Close
<1>6. TypeOK'
  BY <1>2, <1>3, <1>4, <1>5 DEF IInv, TypeOK
<1>7. Exclusive'
  BY <1>4 DEF IInv, Exclusive, At
<1>8. Delivering'
  BY <1>2, <1>4 DEF IInv, Delivering, At, My
<1>9. Registered'
  BY <1>2, <1>3, <1>4 DEF IInv, Registered, Threads
<1>10. RekeyReachesAll'
  <2> SUFFICES ASSUME NEW l \in Clients, NEW e \in client'[l].callbacks
               PROVE  \/ session'[e].secret = client'[l].home \/ e \in fed'
                      \/ \E u \in Threads : job'[u].client = l /\ e \in job'[u].left
    BY DEF RekeyReachesAll
  <2>1. e # d /\ e \in Devices /\ e \in client[l].callbacks
    BY <1>1, <1>2 DEF Cache
  <2> QED
    BY <2>1, <1>2, <1>3, <1>4, <1>5 DEF IInv, RekeyReachesAll
<1> QED
  BY <1>6, <1>7, <1>8, <1>9, <1>10 DEF IInv

\* Neither a reset nor the end of a TTL touches what the invariant is about.
LEMMA RestPreserves ==
    ASSUME IInv, Reset \/ Expire
    PROVE  IInv'
<1>1. /\ client \in [Clients -> Cache] /\ current \in Clients
      /\ \A t \in Threads : job[t].client \in Clients
  BY DEF IInv, TypeOK, Jobs
<1>2. current' \in Clients
  BY <1>1, HomeAssumption DEF Reset, NextClient, Expire, Clients
<1>3. client[current] \in Cache
  BY <1>1
<1>4. /\ client' \in [Clients -> Cache]
      /\ \A l \in Clients : client'[l].home = client[l].home /\ client'[l].callbacks = client[l].callbacks
  <2>1. CASE Reset
    BY <2>1, <1>1 DEF Reset
  <2>2. CASE Expire
    <3> DEFINE c == [client[current] EXCEPT !.fresh = FALSE]
    <3>1. c \in Cache /\ c.home = client[current].home /\ c.callbacks = client[current].callbacks
      BY <1>3 DEF Cache
    <3>2. client' = [client EXCEPT ![current] = c]
      BY <2>2, <1>1 DEF Expire
    <3> HIDE DEF c
    <3> QED
      BY <3>1, <3>2, <1>1
  <2> QED
    BY <2>1, <2>2
<1>5. UNCHANGED <<server, published, session, job, fed>>
  BY DEF Reset, Expire
<1>6. TypeOK'
  BY <1>2, <1>4, <1>5 DEF IInv, TypeOK
<1>7. Exclusive'
  BY <1>5 DEF IInv, Exclusive, At
<1>8. Delivering'
  BY <1>1, <1>4, <1>5 DEF IInv, Delivering, At, My
<1>9. Registered'
  BY <1>4, <1>5 DEF IInv, Registered
<1>10. RekeyReachesAll'
  BY <1>4, <1>5 DEF IInv, RekeyReachesAll
<1> QED
  BY <1>6, <1>7, <1>8, <1>9, <1>10 DEF IInv

-----------------------------------------------------------------------------

LEMMA InitHolds == Init => IInv
<1> SUFFICES ASSUME Init PROVE IInv
  OBVIOUS
<1>1. NewClient \in Cache /\ NewClient.callbacks = {}
  BY HomeAssumption DEF NewClient, Cache, Secrets
<1>2. NoSession \in [open : BOOLEAN, secret : Secrets] /\ 0 \in Secrets /\ 1 \in Clients
  BY HomeAssumption DEF NoSession, Secrets, Clients
<1>3. \A t \in Threads : job[t] = Idle
  BY DEF Init
<1>4. TypeOK
  BY <1>1, <1>2, IdleJob DEF Init, TypeOK
<1>5. Exclusive /\ Delivering
  BY <1>3, IdleJob DEF Exclusive, Delivering, At
<1>6. Registered /\ RekeyReachesAll
  BY <1>1, <1>3, IdleJob DEF Init, Registered, RekeyReachesAll, Threads
<1> QED
  BY <1>4, <1>5, <1>6 DEF IInv

LEMMA StepPreserves == IInv /\ [Next]_vars => IInv'
<1> SUFFICES ASSUME IInv, [Next]_vars PROVE IInv'
  OBVIOUS
<1>1. ASSUME NEW t \in Threads, Step(t) PROVE IInv'
  <2>1. CASE LoginRotates(t)
    BY <2>1, RotationPreserves
  <2>2. CASE \E d \in Devices : Rekey(t, d)
    BY <2>2, RekeyPreserves
  <2>3. CASE t \in Devices /\ Adopt(t)
    BY <2>3, AdoptPreserves
  <2>4. CASE t \in Devices /\ Connect(t)
    BY <2>4, ConnectPreserves
  <2> QED
    BY <1>1, <2>1, <2>2, <2>3, <2>4, MovePreserves DEF Step
<1>2. ASSUME NEW d \in Devices, Asks(d) PROVE IInv'
  <2>1. CASE \E force \in BOOLEAN : Rebuild(d, force)
    BY <2>1, CallPreserves DEF Rebuild, Threads
  <2>2. CASE \E force \in BOOLEAN : Create(d, force)
    BY <2>2, CallPreserves DEF Create, Threads
  <2>3. CASE \E force \in BOOLEAN, t \in Threads : Use(t, d, force)
    BY <2>3, CallPreserves DEF Use
  <2> QED
    BY <1>2, <2>1, <2>2, <2>3 DEF Asks
<1>3. ASSUME NEW d \in Devices, Close(d) PROVE IInv'
  BY <1>3, ClosePreserves
<1>4. CASE Reset \/ Expire
  BY <1>4, RestPreserves
<1>5. CASE UNCHANGED vars
  BY <1>5 DEF IInv, TypeOK, Exclusive, Delivering, Registered, RekeyReachesAll, At, My, vars
<1> QED
  BY <1>1, <1>2, <1>3, <1>4, <1>5 DEF Next

\* Whatever rebuilds, closes, new sessions, failures and resets come between, a
\* rotation (_get_home_e2e) reaches every session that is registered.
THEOREM RotationsReachAll == Spec => []RekeyReachesAll
<1>1. IInv => RekeyReachesAll
  BY DEF IInv
<1> QED
  BY <1>1, InitHolds, StepPreserves, PTL DEF Spec

\* Types: the copies of the secret, the clients' caches, the sessions and the calls
\* under way, with the callbacks they have still to run.
THEOREM TypeCorrect == Spec => []TypeOK
<1>1. IInv => TypeOK
  BY DEF IInv
<1> QED
  BY <1>1, InitHolds, StepPreserves, PTL DEF Spec

=============================================================================
