----------------------- MODULE EmergencyChargeProofs -----------------------
(***************************************************************************)
(* The window arithmetic of EmergencyCharge, and what the switch shows and *)
(* a restart restores of the windows, for every length of the day, every   *)
(* clock and any calls.                                                    *)
(***************************************************************************)
EXTENDS EmergencyCharge, FiniteSetTheorems, TLAPS

\* The day of an instant and the time of the day make up the instant.
LEMMA DayAndTime ==
    ASSUME NEW n \in Nat, NEW d \in Nat \ {0}
    PROVE  /\ n \div d \in Nat
           /\ n % d \in 0 .. d - 1
           /\ n = (n \div d) * d + (n % d)
BY SMTT(30)

\* They are the only ones that do.
LEMMA TimeOfDay ==
    ASSUME NEW q \in Nat, NEW d \in Nat \ {0}, NEW t \in 0 .. d - 1
    PROVE  (q * d + t) % d = t
BY SMTT(30)

\* The day after, at the same time.
LEMMA DayAfter ==
    ASSUME NEW q \in Nat, NEW d \in Nat
    PROVE  (q + 1) * d = q * d + d /\ q * d \in Nat
BY SMTT(30)

\* The instant at time t of day q, or a day later if it lies below a bound of
\* that day: within a day of the bound, and still at time t.
LEMMA Within ==
    ASSUME NEW q \in Nat, NEW d \in Nat \ {0}, NEW t \in 0 .. d - 1
    PROVE  /\ q * d \in Nat
           /\ (q * d + t) % d = t
           /\ (q * d + t + d) % d = t
<1>1. q * d \in Nat /\ (q + 1) * d = q * d + d
  BY DayAfter
<1>2. (q * d + t) % d = t
  BY TimeOfDay
<1>3. ((q + 1) * d + t) % d = t
  BY TimeOfDay
<1>4. (q + 1) * d + t = q * d + t + d
  BY <1>1
<1>5. QED
  BY <1>1, <1>2, <1>3, <1>4

\* The start: the next instant, now included, at the wanted time.
LEMMA StartIsNext ==
    ASSUME now \in Nat, NEW startT \in Opt(0 .. Day - 1)
    PROVE  /\ Start(startT) \in now .. now + Day - 1
           /\ startT # {} => Start(startT) % Day = Only(startT)
<1> USE EmergencyAssumption
<1>1. CASE startT = {}
  BY <1>1 DEF Start
<1>2. CASE startT # {}
  <2>1. PICK t \in 0 .. Day - 1 : startT = {t}
    BY <1>2 DEF Opt
  <2>2. Only(startT) = t
    BY <2>1 DEF Only
  <2>3. PICK q \in Nat, r \in 0 .. Day - 1 : q = now \div Day /\ now = q * Day + r
    BY DayAndTime
  <2>4. q * Day \in Nat /\ (q * Day + t) % Day = t /\ (q * Day + t + Day) % Day = t
    BY Within, Zenon
  <2>5. Start(startT) = IF q * Day + t < now THEN q * Day + t + Day ELSE q * Day + t
    BY <1>2, <2>2, <2>3 DEF Start, Today
  <2>6. QED
    BY <2>2, <2>3, <2>4, <2>5
<1>3. QED
  BY <1>1, <1>2

\* The end: the next instant after the start at the wanted time, at most a day on.
LEMMA EndIsNext ==
    ASSUME NEW start \in Nat, NEW endT \in Opt(0 .. Day - 1)
    PROVE  /\ End(start, endT) \in start + 1 .. start + Day
           /\ endT # {} => End(start, endT) % Day = Only(endT)
<1> USE EmergencyAssumption
<1>1. CASE endT = {}
  BY <1>1 DEF End
<1>2. CASE endT # {}
  <2>1. PICK t \in 0 .. Day - 1 : endT = {t}
    BY <1>2 DEF Opt
  <2>2. Only(endT) = t
    BY <2>1 DEF Only
  <2>3. PICK q \in Nat, r \in 0 .. Day - 1 : q = start \div Day /\ start = q * Day + r
    BY DayAndTime
  <2>4. q * Day \in Nat /\ (q * Day + t) % Day = t /\ (q * Day + t + Day) % Day = t
    BY Within, Zenon
  <2>5. End(start, endT) = IF q * Day + t <= start THEN q * Day + t + Day ELSE q * Day + t
    BY <1>2, <2>2, <2>3 DEF End
  <2>6. QED
    BY <2>2, <2>3, <2>4, <2>5
<1>3. QED
  BY <1>1, <1>2

-----------------------------------------------------------------------------

LEMMA Clock == Spec => [](now \in Nat)
<1>1. Init => now \in Nat
  BY DEF Init
<1>2. now \in Nat /\ [Next]_vars => (now \in Nat)'
  BY DEF Next, vars, Tick, Restart, Poll, Call, Stream, Legacy, Send, Assign, Goto, Save,
         Publish, TurnOn, TurnOff, Begin
<1>3. QED
  BY <1>1, <1>2, PTL DEF Spec

\* Whatever the start and the end entity are set to and whatever time it is, the
\* window that the switch sends is the next one at those times of the day.
THEOREM WindowIsNext == Spec => []NextWindow
<1>1. now \in Nat => NextWindow
  <2> SUFFICES ASSUME now \in Nat, NEW startT \in Opt(0 .. Day - 1), NEW endT \in Opt(0 .. Day - 1)
               PROVE  LET start == Start(startT)
                          end == End(start, endT)
                      IN /\ start \in now .. now + Day - 1 /\ end \in start + 1 .. start + Day
                         /\ startT # {} => start % Day = Only(startT)
                         /\ endT # {} => end % Day = Only(endT)
    BY DEF NextWindow
  <2>1. /\ Start(startT) \in now .. now + Day - 1
        /\ startT # {} => Start(startT) % Day = Only(startT)
    BY StartIsNext
  <2>2. Start(startT) \in Nat
    BY <2>1, EmergencyAssumption
  <2>3. QED
    BY <2>1, <2>2, EndIsNext
<1>2. QED
  BY <1>1, Clock, PTL

-----------------------------------------------------------------------------
(* Types *)

LEMMA OnlyOne == \A x : Only({x}) = x
  BY DEF Only

\* A time entity is set to a time of the day, or not set.
LEMMA SettingsTyped ==
    ASSUME NEW s \in Settings
    PROVE  s[1] \in Opt(0 .. Day - 1) /\ s[2] \in Opt(0 .. Day - 1)
<1>1. s[1] \in SUBSET (0 .. Day - 1) /\ s[2] \in SUBSET (0 .. Day - 1)
      /\ Cardinality(s[1]) <= 1 /\ Cardinality(s[2]) <= 1
  BY EmergencyAssumption
<1>2. \A S \in SUBSET (0 .. Day - 1) : Cardinality(S) <= 1 => S \in Opt(0 .. Day - 1)
  <2> SUFFICES ASSUME NEW S \in SUBSET (0 .. Day - 1), Cardinality(S) <= 1
               PROVE  S \in Opt(0 .. Day - 1)
    OBVIOUS
  <2>1. IsFiniteSet(0 .. Day - 1)
    BY FS_Interval, EmergencyAssumption
  <2>2. IsFiniteSet(S) /\ Cardinality(S) \in Nat
    BY <2>1, FS_Subset, FS_CardinalityType
  <2>3. CASE Cardinality(S) = 0
    BY <2>2, <2>3, FS_EmptySet DEF Opt
  <2>4. CASE Cardinality(S) = 1
    <3>1. \E x : S = {x}
      BY <2>2, <2>4, FS_Singleton
    <3> QED
      BY <3>1 DEF Opt
  <2> QED
    BY <2>2, <2>3, <2>4
<1> QED
  BY <1>1, <1>2

LEMMA WindowsTyped ==
    ASSUME now \in 0 .. MaxTime, NEW s \in Settings
    PROVE  [start |-> Start(s[1]), end |-> End(Start(s[1]), s[2])] \in Window
<1>1. Start(s[1]) \in now .. now + Day - 1 /\ now \in Nat
  BY SettingsTyped, StartIsNext, EmergencyAssumption
<1>2. Start(s[1]) \in Nat
  BY <1>1, EmergencyAssumption
<1>4. End(Start(s[1]), s[2]) \in Start(s[1]) + 1 .. Start(s[1]) + Day
  BY <1>2, SettingsTyped, EndIsNext
<1>3. Start(s[1]) \in Time /\ End(Start(s[1]), s[2]) \in Time /\ Start(s[1]) < End(Start(s[1]), s[2])
  BY <1>1, <1>2, <1>4, EmergencyAssumption DEF Time
<1> QED
  BY <1>3 DEF Window

\* The earliest and the latest of two.
LEMMA WidenedTyped ==
    ASSUME acked \in [start : Opt(Time), end : Opt(Time)], NEW window \in Opt(Window)
    PROVE  /\ Widened(window) \in [start : Opt(Time), end : Opt(Time)]
           /\ \A t \in acked.start \cup {w.start : w \in window} : \E u \in Widened(window).start : u <= t
           /\ \A t \in acked.end \cup {w.end : w \in window} : \E u \in Widened(window).end : u >= t
<1> DEFINE Least(S) == {t \in S : \A u \in S : t <= u}
           Most(S) == {t \in S : \A u \in S : t >= u}
<1>1. \A S, T \in Opt(Time) : /\ Least(S \cup T) \in Opt(Time) /\ Most(S \cup T) \in Opt(Time)
                              /\ \A t \in S \cup T : \E u \in Least(S \cup T) : u <= t
                              /\ \A t \in S \cup T : \E u \in Most(S \cup T) : u >= t
  <2> SUFFICES ASSUME NEW S \in Opt(Time), NEW T \in Opt(Time)
               PROVE  /\ Least(S \cup T) \in Opt(Time) /\ Most(S \cup T) \in Opt(Time)
                      /\ \A t \in S \cup T : \E u \in Least(S \cup T) : u <= t
                      /\ \A t \in S \cup T : \E u \in Most(S \cup T) : u >= t
    OBVIOUS
  <2>0. Time \subseteq Int
    BY EmergencyAssumption DEF Time
  <2>1. CASE S \cup T = {}
    BY <2>1 DEF Opt
  <2>2. CASE \E x, y \in Time : S \cup T = {x, y} /\ x <= y
    <3>1. PICK x, y \in Time : S \cup T = {x, y} /\ x <= y
      BY <2>2
    <3>2. Least(S \cup T) = {x} /\ Most(S \cup T) = {y}
      BY <2>0, <3>1
    <3> QED
      BY <2>0, <3>1, <3>2 DEF Opt
  <2> QED
    BY <2>0, <2>1, <2>2 DEF Opt
<1>2. {w.start : w \in window} \in Opt(Time) /\ {w.end : w \in window} \in Opt(Time)
  BY DEF Opt, Window
<1>3. Widened(window) = [start |-> Least(acked.start \cup {w.start : w \in window}),
                         end |-> Most(acked.end \cup {w.end : w \in window})]
  BY DEF Widened
<1> HIDE DEF Least, Most
<1>4. /\ Widened(window).start = Least(acked.start \cup {w.start : w \in window})
      /\ Widened(window).end = Most(acked.end \cup {w.end : w \in window})
  BY <1>3
<1>5. acked.start \in Opt(Time) /\ acked.end \in Opt(Time)
  OBVIOUS
<1>6. Widened(window) \in [start : Opt(Time), end : Opt(Time)]
  <2>1. /\ Least(acked.start \cup {w.start : w \in window}) \in Opt(Time)
        /\ Most(acked.end \cup {w.end : w \in window}) \in Opt(Time)
    BY <1>1, <1>2, <1>5
  <2> QED
    BY <1>3, <2>1
<1>7. \A t \in acked.start \cup {w.start : w \in window} : \E u \in Widened(window).start : u <= t
  BY <1>1, <1>2, <1>4, <1>5
<1>8. \A t \in acked.end \cup {w.end : w \in window} : \E u \in Widened(window).end : u >= t
  BY <1>1, <1>2, <1>4, <1>5
<1> QED
  BY <1>6, <1>7, <1>8

-----------------------------------------------------------------------------
(* Calls *)

Pcs == {"stream", "legacy", "active", "start", "end", "save", "publish"}

\* A call that is at a step has one job, with a window or none.
LEMMA JobAt ==
    ASSUME TypeOK, NEW c \in Callers, NEW pc, At(c, pc)
    PROVE  /\ job[c] = {J(c)} /\ J(c) \in Jobs /\ J(c).pc = pc /\ J(c).window \in Opt(Window)
           /\ \A q \in Pcs : [J(c) EXCEPT !.pc = q] \in Jobs
                             /\ [J(c) EXCEPT !.pc = q].window = J(c).window
                             /\ [J(c) EXCEPT !.pc = q].pc = q
<1>1. job[c] \in Opt(Jobs) /\ job[c] # {} /\ J(c).pc = pc
  BY DEF TypeOK, At
<1>2. PICK j \in Jobs : job[c] = {j}
  BY <1>1 DEF Opt
<1>3. J(c) = j
  BY <1>2, OnlyOne DEF J
<1> QED
  BY <1>1, <1>2, <1>3 DEF Jobs, Pcs

\* Going on to another step keeps the types of the calls.
LEMMA GotoTyped ==
    ASSUME TypeOK, NEW c \in Callers, NEW pc, At(c, pc), NEW q \in Pcs, Goto(c, q)
    PROVE  job' \in [Callers -> Opt(Jobs)] /\ job'[c] = {[J(c) EXCEPT !.pc = q]}
<1>1. {[J(c) EXCEPT !.pc = q]} \in Opt(Jobs)
  BY JobAt DEF Opt
<1> QED
  BY <1>1 DEF Goto, TypeOK

LEMMA CallTyped ==
    ASSUME TypeOK, NEW c \in Callers, Call(c)
    PROVE  TypeOK'
<1>1. ASSUME NEW ok \in BOOLEAN, Stream(c, ok) \/ Legacy(c, ok)
      PROVE  TypeOK'
  <2>1. PICK pc \in Pcs : At(c, pc)
    BY <1>1 DEF Stream, Legacy, Send, Pcs
  <2>2. J(c).window \in Opt(Window) /\ {[J(c) EXCEPT !.pc = "active"]} \in Opt(Jobs)
    BY <2>1, JobAt DEF Opt, Pcs
  <2>3. {[window |-> J(c).window, pc |-> "legacy"]} \in Opt(Jobs) /\ {} \in Opt(Jobs)
    BY <2>2 DEF Opt, Jobs
  <2>4. job' \in [Callers -> Opt(Jobs)]
    BY <1>1, <2>2, <2>3 DEF Stream, Legacy, Send, TypeOK
  <2>5. acked' \in [start : Opt(Time), end : Opt(Time)]
    BY <1>1, <2>2, WidenedTyped DEF Stream, Legacy, Send, TypeOK
  <2> QED
    BY <1>1, <2>4, <2>5 DEF Stream, Legacy, Send, TypeOK
<1>2. CASE Assign(c)
  <2>1. PICK pc \in Pcs, q \in Pcs : At(c, pc) /\ Goto(c, q)
    BY <1>2 DEF Assign, Pcs
  <2>2. job' \in [Callers -> Opt(Jobs)]
    BY <2>1, GotoTyped
  <2>3. J(c).window \in Opt(Window)
    BY <2>1, JobAt
  <2>4. {x.start : x \in J(c).window} \in Opt(Time) /\ {x.end : x \in J(c).window} \in Opt(Time)
        /\ (J(c).window # {}) \in BOOLEAN
    BY <2>3 DEF Opt, Window
  <2>5. armed' \in Armed
    BY <1>2, <2>4 DEF Assign, TypeOK, Armed
  <2> QED
    BY <1>2, <2>2, <2>5 DEF Assign, TypeOK
<1>3. ASSUME NEW written \in BOOLEAN, Save(c, written)
      PROVE  TypeOK'
  <2>1. job' \in [Callers -> Opt(Jobs)]
    BY <1>3, GotoTyped DEF Save, Pcs
  <2>2. Payload(armed) \in Opt(Stored)
    <3>1. CASE armed.end = {} \/ ~armed.active
      BY <3>1 DEF Payload, Opt
    <3>2. CASE armed.active /\ armed.end # {}
      <4>1. PICK e \in Time : armed.end = {e}
        BY <3>2 DEF TypeOK, Armed, Opt
      <4>2. Payload(armed) = {[start |-> armed.start, end |-> e]}
        BY <3>2, <4>1, OnlyOne DEF Payload
      <4> QED
        BY <4>2 DEF TypeOK, Armed, Stored, Opt
    <3> QED
      BY <3>1, <3>2
  <2> QED
    BY <1>3, <2>1, <2>2 DEF Save, TypeOK
<1>4. CASE Publish(c)
  <2>1. {} \in Opt(Jobs)
    BY DEF Opt
  <2>2. shown' \in Opt(BOOLEAN)
    BY <1>4 DEF Publish, Opt
  <2> QED
    BY <1>4, <2>1, <2>2 DEF Publish, TypeOK
<1> QED
  BY <1>1, <1>2, <1>3, <1>4 DEF Call

LEMMA TypeStep == TypeOK /\ [Next]_vars => TypeOK'
<1> SUFFICES ASSUME TypeOK, [Next]_vars PROVE TypeOK'
  OBVIOUS
<1>1. CASE Tick
  BY <1>1, EmergencyAssumption DEF Tick, TypeOK
<1>2. CASE Restart
  <2>1. Off \in Armed /\ {} \in Opt(BOOLEAN) /\ {} \in Opt(Jobs)
    BY DEF Off, Armed, Opt
  <2> QED
    BY <1>2, <2>1 DEF Restart, TypeOK
<1>3. ASSUME NEW read \in BOOLEAN, Poll(read)
      PROVE  TypeOK'
  <2>1. Restored \in Armed
    <3>1. CASE store = {}
      BY <3>1 DEF Restored, TypeOK
    <3>2. CASE store # {}
      <4>1. PICK w \in Stored : store = {w}
        BY <3>2 DEF TypeOK, Opt
      <4>2. [active |-> TRUE, start |-> w.start, end |-> {w.end}] \in Armed
        BY DEF Stored, Armed, Opt
      <4> QED
        BY <4>1, <4>2, OnlyOne DEF Restored, TypeOK
    <3> QED
      BY <3>1, <3>2
  <2>2. armed' \in Armed
    BY <1>3, <2>1 DEF Poll, TypeOK
  <2>3. shown' \in Opt(BOOLEAN)
    <3>1. ActiveNow(armed') \in BOOLEAN
      BY <2>2 DEF ActiveNow, Armed
    <3> QED
      BY <1>3, <3>1 DEF Poll, Opt
  <2> QED
    BY <1>3, <2>2, <2>3 DEF Poll, TypeOK
<1>4. ASSUME NEW c \in Callers, NEW window \in Opt(Window), Begin(c, window)
      PROVE  TypeOK'
  <2>1. {[window |-> window, pc |-> "stream"]} \in Opt(Jobs)
    BY DEF Opt, Jobs
  <2> QED
    BY <1>4, <2>1 DEF Begin, TypeOK
<1>5. ASSUME NEW c \in Callers, TurnOn(c) \/ TurnOff(c)
      PROVE  \E window \in Opt(Window) : Begin(c, window)
  <2>1. CASE TurnOn(c)
    <3>1. PICK s \in Settings :
              Begin(c, {[start |-> Start(s[1]), end |-> End(Start(s[1]), s[2])]})
      BY <2>1 DEF TurnOn
    <3>2. {[start |-> Start(s[1]), end |-> End(Start(s[1]), s[2])]} \in Opt(Window)
      BY WindowsTyped DEF TypeOK, Opt
    <3> QED
      BY <3>1, <3>2
  <2>2. CASE TurnOff(c)
    BY <2>2 DEF TurnOff, Opt
  <2> QED
    BY <1>5, <2>1, <2>2
<1>6. CASE UNCHANGED vars
  BY <1>6 DEF vars, TypeOK
<1> QED
  BY <1>1, <1>2, <1>3, <1>4, <1>5, <1>6, CallTyped DEF Next

LEMMA TypeInit == Init => TypeOK
<1>1. \A S : {} \in Opt(S)
  BY DEF Opt
<1>2. 0 \in 0 .. MaxTime
  BY EmergencyAssumption
<1>3. Off \in Armed
  BY <1>1 DEF Off, Armed
<1>4. [c \in Callers |-> {}] \in [Callers -> Opt(Jobs)]
  BY <1>1
<1>5. [start |-> {}, end |-> {}] \in [start : Opt(Time), end : Opt(Time)]
  BY <1>1
<1> QED
  BY <1>1, <1>2, <1>3, <1>4, <1>5 DEF Init, TypeOK

\* The types hold in every state; a window lies within the clock's bound and two days.
THEOREM TypeCorrect == Spec => []TypeOK
  BY TypeInit, TypeStep, PTL DEF Spec

-----------------------------------------------------------------------------
(* Restarts *)

\* Nothing is armed and no call is under way before the file has been read.
Unread == ~loaded => armed = Off /\ shown = {} /\ \A c \in Callers : job[c] = {}

RestartInv == TypeOK /\ Unread /\ RestartKeeps

LEMMA UnreadStep ==
    ASSUME TypeOK, Unread, [Next]_vars
    PROVE  Unread'
<1>1. CASE Tick \/ UNCHANGED vars
  BY <1>1 DEF Tick, vars, Unread
<1>2. CASE Restart
  BY <1>2 DEF Restart, Unread
<1>3. ASSUME NEW read \in BOOLEAN, Poll(read)
      PROVE  Unread'
  BY <1>3 DEF Poll, Unread
<1>4. ASSUME NEW c \in Callers, Call(c) \/ TurnOn(c) \/ TurnOff(c)
      PROVE  loaded' = loaded /\ (shown # {} \/ job[c] # {})
  BY <1>4 DEF Call, Stream, Legacy, Send, Assign, Save, Publish, At, TurnOn, TurnOff, Begin
<1> QED
  BY <1>1, <1>2, <1>3, <1>4 DEF Next, Unread

\* The windows that are live at a time are the live ones of those before it.
LEMMA LiveKept ==
    ASSUME UNCHANGED <<now, store, armed, saved, loaded>>, RestartKeeps
    PROVE  RestartKeeps'
  BY DEF RestartKeeps, Live, Payload

LEMMA RestartStep ==
    ASSUME TypeOK, Unread, RestartKeeps, [Next]_vars
    PROVE  RestartKeeps'
<1>1. CASE Tick
  <2>1. now' = now + 1 /\ now \in Nat /\ UNCHANGED <<armed, loaded, store, saved>>
    BY <1>1, EmergencyAssumption DEF Tick, TypeOK
  <2>2. Payload(armed)' = Payload(armed)
    BY <2>1 DEF Payload
  <2>3. \A w \in store \cup Payload(armed) : w.end \in Int
    <3>1. \A t \in Time : t \in Int
      BY EmergencyAssumption DEF Time
    <3>2. \A w \in store : w.end \in Int
      BY <3>1 DEF TypeOK, Opt, Stored
    <3>3. \A w \in Payload(armed) : w.end \in Int
      <4>1. CASE armed.end = {} \/ ~armed.active
        BY <4>1 DEF Payload
      <4>2. CASE armed.active /\ armed.end # {}
        <5>1. PICK e \in Time : armed.end = {e}
          BY <4>2 DEF TypeOK, Armed, Opt
        <5>2. Payload(armed) = {[start |-> armed.start, end |-> e]}
          BY <4>2, <5>1, OnlyOne DEF Payload
        <5> QED
          BY <3>1, <5>2
      <4> QED
        BY <4>1, <4>2
    <3> QED
      BY <3>2, <3>3
  <2>4. \A w \in store \cup Payload(armed) : w.end >= now' <=> w.end >= now /\ w.end >= now'
    BY <2>1, <2>3
  <2>5. Live(store)' = {w \in Live(store) : w.end >= now'}
        /\ Live(Payload(armed))' = {w \in Live(Payload(armed)) : w.end >= now'}
    BY <2>1, <2>2, <2>4 DEF Live
  <2> QED
    BY <2>1, <2>5 DEF RestartKeeps
<1>2. CASE Restart
  BY <1>2 DEF Restart, RestartKeeps
<1>3. ASSUME NEW read \in BOOLEAN, Poll(read)
      PROVE  RestartKeeps'
  <2>1. UNCHANGED <<now, store>> /\ loaded' = TRUE /\ saved' = (saved /\ (read \/ loaded))
    BY <1>3 DEF Poll
  <2>2. CASE loaded
    <3>1. armed' = armed /\ (saved' => saved)
      BY <1>3, <2>1, <2>2 DEF Poll
    <3> QED
      BY <2>1, <2>2, <3>1 DEF RestartKeeps, Live, Payload
  <2>3. CASE ~loaded /\ ~read
    BY <2>1, <2>3 DEF RestartKeeps
  <2>4. CASE ~loaded /\ read
    <3>1. armed = Off /\ armed' = Restored
      BY <1>3, <2>4 DEF Poll, Unread
    <3>2. CASE store = {}
      <4>1. armed' = Off
        BY <3>1, <3>2 DEF Restored
      <4>2. Payload(armed') = {}
        BY <4>1 DEF Off, Payload
      <4> QED
        BY <2>1, <3>2, <4>2 DEF RestartKeeps, Live
    <3>3. CASE store # {}
      <4>1. PICK w \in Stored : store = {w}
        BY <3>3 DEF TypeOK, Opt
      <4>2. Only(store) = w /\ w.end \in Nat /\ now \in Nat
        <5>1. Only(store) = w
          BY <4>1, OnlyOne
        <5>2. w.end \in Time /\ now \in 0 .. MaxTime
          BY DEF Stored, TypeOK
        <5> QED
          BY <5>1, <5>2, EmergencyAssumption DEF Time
      <4>3. CASE w.end < now
        <5>1. Payload(armed') = {}
          BY <3>1, <4>2, <4>3 DEF Restored, Off, Payload
        <5>2. Live(store)' = {}
          BY <2>1, <4>1, <4>2, <4>3 DEF Live
        <5> QED
          BY <5>1, <5>2 DEF RestartKeeps, Live
      <4>4. CASE ~(w.end < now)
        <5>1. armed' = [active |-> TRUE, start |-> w.start, end |-> {w.end}]
          BY <3>1, <3>3, <4>2, <4>4 DEF Restored
        <5>2. Payload(armed') = {[start |-> w.start, end |-> w.end]}
          BY <5>1, OnlyOne DEF Payload
        <5>3. w = [start |-> w.start, end |-> w.end]
          BY <4>1 DEF Stored
        <5>4. Payload(armed') = store'
          BY <2>1, <4>1, <5>2, <5>3
        <5> QED
          BY <5>4 DEF RestartKeeps
      <4> QED
        BY <4>3, <4>4
    <3> QED
      BY <3>2, <3>3
  <2> QED
    BY <2>2, <2>3, <2>4
<1>4. ASSUME NEW c \in Callers, Call(c)
      PROVE  RestartKeeps'
  <2>1. CASE \E ok \in BOOLEAN : Stream(c, ok) \/ Legacy(c, ok)
    <3>1. UNCHANGED <<now, store, armed, saved, loaded>>
      BY <2>1 DEF Stream, Legacy, Send
    <3> QED
      BY <3>1, LiveKept
  <2>2. CASE Assign(c)
    BY <2>2 DEF Assign, RestartKeeps
  <2>3. ASSUME NEW written \in BOOLEAN, Save(c, written)
        PROVE  RestartKeeps'
    <3>1. CASE written
      <4>1. store' = Payload(armed) /\ armed' = armed
        BY <2>3, <3>1 DEF Save
      <4>2. store' = Payload(armed')
        BY <4>1
      <4> QED
        BY <4>2 DEF RestartKeeps
    <3>2. CASE ~written
      <4>1. UNCHANGED <<now, store, armed, loaded>> /\ (saved' => saved)
        BY <2>3, <3>2 DEF Save
      <4> QED
        BY <4>1 DEF RestartKeeps, Live, Payload
    <3> QED
      BY <3>1, <3>2
  <2>4. CASE Publish(c)
    BY <2>4, LiveKept DEF Publish
  <2> QED
    BY <1>4, <2>1, <2>2, <2>3, <2>4 DEF Call
<1>5. ASSUME NEW c \in Callers, TurnOn(c) \/ TurnOff(c)
      PROVE  RestartKeeps'
  <2>1. UNCHANGED <<now, store, armed, saved, loaded>>
    BY <1>5 DEF TurnOn, TurnOff, Begin
  <2> QED
    BY <2>1, LiveKept
<1>6. CASE UNCHANGED vars
  BY <1>6, LiveKept DEF vars
<1> QED
  BY <1>1, <1>2, <1>3, <1>4, <1>5, <1>6 DEF Next

\* What a restart would restore is what is armed, once the last window that was
\* assigned has been saved: no call, poll, failed read or failed write, and no
\* earlier restart, leaves the file with another live window.
THEOREM RestartsKeepTheWindow == Spec => []RestartKeeps
<1>1. Init => RestartInv
  BY TypeInit DEF Init, RestartInv, Unread, RestartKeeps
<1>2. RestartInv /\ [Next]_vars => RestartInv'
  BY TypeStep, UnreadStep, RestartStep DEF RestartInv
<1>3. RestartInv => RestartKeeps
  BY DEF RestartInv
<1> QED
  BY <1>1, <1>2, <1>3, PTL DEF Spec

-----------------------------------------------------------------------------
(* What is shown *)

\* No start is earlier, and no end later, than one a device acknowledged.
Covered(starts, ends) ==
    /\ \A t \in starts : \E u \in acked.start : u <= t
    /\ \A t \in ends : \E u \in acked.end : u >= t

Acknowledged(j) == Covered({w.start : w \in j.window}, {w.end : w \in j.window})

\* What is armed, what is stored, and what a call that was acknowledged will arm.
Reach ==
    /\ Covered(armed.start, armed.end)
    /\ \A w \in store : Covered(w.start, {w.end})
    /\ \A c \in Callers : \A j \in job[c] : j.pc \notin {"stream", "legacy"} => Acknowledged(j)

LEMMA WindowTimes ==
    ASSUME NEW W \in Opt(Window)
    PROVE  {w.start : w \in W} \subseteq Time /\ {w.end : w \in W} \subseteq Time
  BY DEF Opt, Window

\* An acknowledgement covers its own window, and what was covered before.
LEMMA AckCovers ==
    ASSUME TypeOK, NEW W \in Opt(Window), acked' = Widened(W)
    PROVE  /\ \A t \in {w.start : w \in W} : \E u \in acked'.start : u <= t
           /\ \A t \in {w.end : w \in W} : \E u \in acked'.end : u >= t
           /\ \A starts, ends \in SUBSET Time : Covered(starts, ends) =>
                  /\ \A t \in starts : \E u \in acked'.start : u <= t
                  /\ \A t \in ends : \E u \in acked'.end : u >= t
<1>1. /\ acked \in [start : Opt(Time), end : Opt(Time)] /\ acked' \in [start : Opt(Time), end : Opt(Time)]
      /\ \A t \in acked.start \cup {w.start : w \in W} : \E u \in acked'.start : u <= t
      /\ \A t \in acked.end \cup {w.end : w \in W} : \E u \in acked'.end : u >= t
  BY WidenedTyped DEF TypeOK
<1>2. Time \subseteq Int /\ acked.start \subseteq Int /\ acked'.start \subseteq Int
      /\ acked.end \subseteq Int /\ acked'.end \subseteq Int
  <2>1. Time \subseteq Int
    BY EmergencyAssumption DEF Time
  <2>2. \A S \in Opt(Time) : S \subseteq Int
    BY <2>1 DEF Opt
  <2>3. acked.start \in Opt(Time) /\ acked.end \in Opt(Time)
        /\ acked'.start \in Opt(Time) /\ acked'.end \in Opt(Time)
    BY <1>1
  <2> QED
    BY <2>1, <2>2, <2>3
<1>3. ASSUME NEW starts \in SUBSET Time, NEW ends \in SUBSET Time, Covered(starts, ends)
      PROVE  /\ \A t \in starts : \E u \in acked'.start : u <= t
             /\ \A t \in ends : \E u \in acked'.end : u >= t
  <2>1. ASSUME NEW t \in starts
        PROVE  \E u \in acked'.start : u <= t
    <3>1. PICK v \in acked.start : v <= t
      BY <1>3 DEF Covered
    <3>2. PICK u \in acked'.start : u <= v
      BY <1>1
    <3>3. u \in Int /\ v \in Int /\ t \in Int
      BY <1>2
    <3> QED
      BY <3>1, <3>2, <3>3
  <2>2. ASSUME NEW t \in ends
        PROVE  \E u \in acked'.end : u >= t
    <3>1. PICK v \in acked.end : v >= t
      BY <1>3 DEF Covered
    <3>2. PICK u \in acked'.end : u >= v
      BY <1>1
    <3>3. u \in Int /\ v \in Int /\ t \in Int
      BY <1>2
    <3> QED
      BY <3>1, <3>2, <3>3
  <2> QED
    BY <2>1, <2>2
<1> QED
  BY <1>1, <1>3

LEMMA StoredTimes ==
    ASSUME TypeOK
    PROVE  /\ armed.start \in SUBSET Time /\ armed.end \in SUBSET Time
           /\ \A w \in store : w.start \in SUBSET Time /\ {w.end} \in SUBSET Time
           /\ \A c \in Callers : \A j \in job[c] : j.window \in Opt(Window)
  BY DEF TypeOK, Armed, Stored, Jobs, Opt

LEMMA SendReach ==
    ASSUME TypeOK, Reach, NEW c \in Callers, NEW ok \in BOOLEAN, Stream(c, ok) \/ Legacy(c, ok)
    PROVE  Reach'
<1>1. PICK pc \in {"stream", "legacy"} : At(c, pc)
  BY DEF Stream, Legacy, Send
<1>2. UNCHANGED <<armed, store>>
  BY DEF Stream, Legacy, Send
<1>3. J(c).window \in Opt(Window) /\ [J(c) EXCEPT !.pc = "active"].window = J(c).window
  BY <1>1, JobAt DEF Pcs
<1>4. CASE ok
  <2>1. acked' = Widened(J(c).window) /\ job' = [job EXCEPT ![c] = {[J(c) EXCEPT !.pc = "active"]}]
    BY <1>4 DEF Stream, Legacy, Send
  <2>2. Covered(armed.start, armed.end)'
    BY <1>2, <1>3, <2>1, AckCovers, StoredTimes DEF Reach, Covered
  <2>3. \A w \in store' : Covered(w.start, {w.end})'
    <3>1. \A w \in store : w.start \in SUBSET Time /\ {w.end} \in SUBSET Time /\ Covered(w.start, {w.end})
      BY StoredTimes DEF Reach
    <3> QED
      BY <1>2, <1>3, <2>1, <3>1, AckCovers DEF Covered
  <2>4. ASSUME NEW d \in Callers, NEW j \in job'[d], j.pc \notin {"stream", "legacy"}
        PROVE  Acknowledged(j)'
    <3>1. CASE d = c
      <4>1. j.window = J(c).window
        BY <1>3, <2>1, <3>1 DEF TypeOK
      <4> QED
        BY <1>3, <2>1, <4>1, AckCovers DEF Acknowledged, Covered
    <3>2. CASE d # c
      <4>1. j \in job[d]
        BY <2>1, <3>2 DEF TypeOK
      <4>2. Acknowledged(j) /\ j.window \in Opt(Window)
        BY <2>4, <4>1, StoredTimes DEF Reach
      <4>3. {w.start : w \in j.window} \in SUBSET Time /\ {w.end : w \in j.window} \in SUBSET Time
        BY <4>2, WindowTimes
      <4> QED
        BY <1>3, <2>1, <4>2, <4>3, AckCovers DEF Acknowledged, Covered
    <3> QED
      BY <3>1, <3>2
  <2> QED
    BY <2>2, <2>3, <2>4 DEF Reach
<1>5. CASE ~ok
  <2>1. UNCHANGED acked
    BY <1>5 DEF Stream, Legacy, Send
  <2>2. ASSUME NEW d \in Callers, NEW j \in job'[d], j.pc \notin {"stream", "legacy"}
        PROVE  j \in job[d]
    BY <1>5, <2>2 DEF Stream, Legacy, Send, TypeOK
  <2>3. \A d \in Callers : \A j \in job'[d] : j.pc \notin {"stream", "legacy"} => Acknowledged(j)'
    BY <2>1, <2>2 DEF Reach, Acknowledged, Covered
  <2> QED
    BY <1>2, <2>1, <2>3 DEF Reach, Covered
<1> QED
  BY <1>4, <1>5

LEMMA ReachStep ==
    ASSUME TypeOK, Reach, [Next]_vars
    PROVE  Reach'
<1>1. CASE Tick \/ UNCHANGED vars
  BY <1>1 DEF Tick, vars, Reach, Covered, Acknowledged
<1>2. CASE Restart
  BY <1>2 DEF Restart, Off, Reach, Covered, Acknowledged
<1>3. ASSUME NEW read \in BOOLEAN, Poll(read)
      PROVE  Reach'
  <2>1. UNCHANGED <<acked, store, job>> /\ armed' \in {armed, Restored}
    BY <1>3 DEF Poll
  <2>2. Covered(Restored.start, Restored.end)
    <3>1. CASE store = {}
      BY <3>1 DEF Restored, Reach
    <3>2. CASE store # {}
      <4>1. PICK w \in Stored : store = {w}
        BY <3>2 DEF TypeOK, Opt
      <4>2. Restored = armed \/ Restored = [active |-> TRUE, start |-> w.start, end |-> {w.end}]
        BY <4>1, OnlyOne DEF Restored
      <4> QED
        BY <4>1, <4>2 DEF Reach
    <3> QED
      BY <3>1, <3>2
  <2>3. Covered(armed.start, armed.end)'
    BY <2>1, <2>2 DEF Reach, Covered
  <2> QED
    BY <2>1, <2>3 DEF Reach, Covered, Acknowledged
<1>4. ASSUME NEW c \in Callers, NEW ok \in BOOLEAN, Stream(c, ok) \/ Legacy(c, ok)
      PROVE  Reach'
  BY <1>4, SendReach
<1>5. ASSUME NEW c \in Callers, NEW q \in Pcs, NEW pc \in Pcs \ {"stream", "legacy"},
             At(c, pc), Goto(c, q), UNCHANGED acked
      PROVE  /\ Covered({x.start : x \in J(c).window}, {x.end : x \in J(c).window})
             /\ \A d \in Callers : \A j \in job'[d] :
                    j.pc \notin {"stream", "legacy"} => Acknowledged(j)'
  <2>1. J(c) \in job[c] /\ J(c).pc = pc /\ job'[c] = {[J(c) EXCEPT !.pc = q]}
        /\ [J(c) EXCEPT !.pc = q].window = J(c).window
    BY <1>5, JobAt, GotoTyped
  <2>2. Acknowledged(J(c))
    BY <2>1 DEF Reach
  <2>3. \A d \in Callers \ {c} : job'[d] = job[d]
    BY <1>5 DEF Goto, TypeOK
  <2>4. ASSUME NEW d \in Callers, NEW j \in job'[d], j.pc \notin {"stream", "legacy"}
        PROVE  Acknowledged(j)
    <3>1. CASE d = c
      BY <2>1, <2>2, <3>1 DEF Acknowledged
    <3>2. CASE d # c
      BY <2>3, <2>4, <3>2 DEF Reach
    <3> QED
      BY <3>1, <3>2
  <2>5. \A j : Acknowledged(j) => Acknowledged(j)'
    BY <1>5 DEF Acknowledged, Covered
  <2> QED
    BY <2>2, <2>4, <2>5 DEF Acknowledged
<1>6. ASSUME NEW c \in Callers, Assign(c)
      PROVE  Reach'
  <2>1. PICK pc \in Pcs \ {"stream", "legacy"}, q \in Pcs : At(c, pc) /\ Goto(c, q)
    BY <1>6 DEF Assign, Pcs
  <2>2. UNCHANGED <<acked, store>>
    BY <1>6 DEF Assign
  <2>3. armed'.start \in {armed.start, {x.start : x \in J(c).window}}
        /\ armed'.end \in {armed.end, {x.end : x \in J(c).window}}
    BY <1>6 DEF Assign, TypeOK, Armed
  <2>4. Covered({x.start : x \in J(c).window}, {x.end : x \in J(c).window})
    BY <1>5, <2>1, <2>2
  <2>5. Covered(armed.start, armed.end)'
    BY <2>2, <2>3, <2>4 DEF Reach, Covered
  <2>6. \A d \in Callers : \A j \in job'[d] : j.pc \notin {"stream", "legacy"} => Acknowledged(j)'
    BY <1>5, <2>1, <2>2
  <2> QED
    BY <2>2, <2>5, <2>6 DEF Reach, Covered
<1>7. ASSUME NEW c \in Callers, NEW written \in BOOLEAN, Save(c, written)
      PROVE  Reach'
  <2>1. At(c, "save") /\ Goto(c, "publish") /\ UNCHANGED <<acked, armed>>
        /\ store' \in {store, Payload(armed)}
    BY <1>7 DEF Save
  <2>2. \A d \in Callers : \A j \in job'[d] : j.pc \notin {"stream", "legacy"} => Acknowledged(j)'
    BY <1>5, <2>1 DEF Pcs
  <2>3. \A w \in Payload(armed) : Covered(w.start, {w.end})
    <3>1. CASE armed.end = {} \/ ~armed.active
      BY <3>1 DEF Payload
    <3>2. CASE armed.active /\ armed.end # {}
      <4>1. PICK e \in Time : armed.end = {e}
        BY <3>2 DEF TypeOK, Armed, Opt
      <4>2. Payload(armed) = {[start |-> armed.start, end |-> e]}
        BY <3>2, <4>1, OnlyOne DEF Payload
      <4>3. \A w \in Payload(armed) : w.start = armed.start /\ {w.end} = armed.end
        BY <4>1, <4>2
      <4> QED
        BY <4>3 DEF Reach
    <3> QED
      BY <3>1, <3>2
  <2>4. \A w \in store' : Covered(w.start, {w.end})
    BY <2>1, <2>3 DEF Reach
  <2> QED
    BY <2>1, <2>2, <2>4 DEF Reach, Covered
<1>8. ASSUME NEW c \in Callers, Publish(c)
      PROVE  Reach'
  <2>1. UNCHANGED <<acked, armed, store>> /\ \A d \in Callers : \A j \in job'[d] : j \in job[d]
    BY <1>8 DEF Publish, TypeOK
  <2> QED
    BY <2>1 DEF Reach, Covered, Acknowledged
<1>9. ASSUME NEW c \in Callers, TurnOn(c) \/ TurnOff(c)
      PROVE  Reach'
  <2>1. PICK W : Begin(c, W)
    BY <1>9 DEF TurnOn, TurnOff
  <2>2. UNCHANGED <<acked, armed, store>>
    BY <2>1 DEF Begin
  <2>3. \A d \in Callers : \A j \in job'[d] : j.pc = "stream" \/ j \in job[d]
    BY <2>1 DEF Begin, TypeOK
  <2> QED
    BY <2>2, <2>3 DEF Reach, Covered, Acknowledged
<1> QED
  BY <1>1, <1>2, <1>3, <1>4, <1>6, <1>7, <1>8, <1>9 DEF Next, Call

\* An armed window that holds now lies within what was acknowledged.
Current == ActiveNow(armed) /\ armed.start # {} /\ armed.end # {}
ByDevice == acked.start # {} /\ Only(acked.start) <= now /\ now <= Only(acked.end)

LEMMA ActiveIsAcknowledged == TypeOK /\ Reach /\ Current => ByDevice
<1> SUFFICES ASSUME TypeOK, Reach, Current PROVE ByDevice
  OBVIOUS
<1> USE DEF Current, ByDevice
<1>1. PICK a, b \in Time : armed.start = {a} /\ armed.end = {b}
  BY DEF TypeOK, Armed, Opt
<1>2. a <= now /\ now <= b
  <2>1. a \in Int /\ now \in Int
    BY EmergencyAssumption DEF TypeOK, Time
  <2>2. Only(armed.start) = a /\ Only(armed.end) = b /\ armed.end # {} /\ armed.start # {}
    BY <1>1, OnlyOne
  <2>3. now >= a /\ now <= b
    BY <2>2 DEF ActiveNow
  <2> QED
    BY <2>1, <2>3
<1>3. PICK u \in acked.start, v \in acked.end : u <= a /\ v >= b
  BY <1>1 DEF Reach, Covered
<1>4. acked.start = {u} /\ acked.end = {v} /\ u \in Time /\ v \in Time
  BY <1>3 DEF TypeOK, Opt
<1>5. Only(acked.start) = u /\ Only(acked.end) = v /\ acked.start # {}
  BY <1>4, OnlyOne
<1>6. u \in Int /\ v \in Int /\ a \in Int /\ b \in Int /\ now \in Int
  BY <1>1, <1>4, EmergencyAssumption DEF Time, TypeOK
<1> QED
  BY <1>2, <1>3, <1>5, <1>6

\* Whatever calls overlap, whatever is saved, lost and restored: when the switch
\* comes on and has a window, it is not before the first beginning, nor after the
\* last end, that a device acknowledged.
THEOREM ShownIsAcknowledged == Spec => ShownInWindow
<1> DEFINE A == /\ shown' = {TRUE} /\ shown # {TRUE}
                /\ armed'.start # {} /\ armed'.end # {}
                => acked.start # {} /\ Only(acked.start) <= now' /\ now' <= Only(acked.end)
<1>1. Init => TypeOK /\ Reach
  BY TypeInit DEF Init, Off, Reach, Covered, Acknowledged
<1>2. TypeOK /\ Reach /\ [Next]_vars => (TypeOK /\ Reach)'
  BY TypeStep, ReachStep
<1>3. (TypeOK /\ Reach /\ Current => ByDevice)'
  BY ActiveIsAcknowledged, PTL
<1>4. TypeOK /\ Reach /\ [Next]_vars => A
  <2> SUFFICES ASSUME TypeOK, Reach, [Next]_vars, shown' = {TRUE}, shown # {TRUE},
                      armed'.start # {}, armed'.end # {}
               PROVE  acked.start # {} /\ Only(acked.start) <= now' /\ now' <= Only(acked.end)
    OBVIOUS
  <2>1. (\E read \in BOOLEAN : Poll(read)) \/ (\E c \in Callers : Publish(c))
    BY DEF Next, vars, Tick, Restart, Call, Stream, Legacy, Send, Assign, Save, TurnOn, TurnOff, Begin
  <2>2. UNCHANGED <<now, acked>>
    BY <2>1 DEF Poll, Publish
  <2>3. ActiveNow(armed')
    <3>1. CASE \E read \in BOOLEAN : Poll(read)
      BY <3>1 DEF Poll
    <3>2. CASE \E c \in Callers : Publish(c)
      <4>1. ActiveNow(armed) /\ armed' = armed
        BY <3>2 DEF Publish
      <4> QED
        BY <4>1
    <3> QED
      BY <2>1, <3>1, <3>2
  <2>4. Current'
    BY <2>2, <2>3 DEF Current, ActiveNow
  <2>5. ByDevice'
    BY <1>2, <1>3, <2>4
  <2> QED
    BY <2>2, <2>5 DEF ByDevice
<1>5. TypeOK /\ Reach /\ [Next]_vars => [A]_vars
  BY <1>4
<1> QED
  BY <1>1, <1>2, <1>5, PTL DEF Spec, ShownInWindow

=============================================================================
