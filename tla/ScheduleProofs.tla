--------------------------- MODULE ScheduleProofs ---------------------------
(***************************************************************************)
(* Theorems about the schedule: the edits of its overrides (OverrideEdit), *)
(* for any editors, slots, header fields, requests and device; and the     *)
(* timers of the coordinator that fetches it (ScheduleRetry), for every    *)
(* bound of the counters.                                                  *)
(***************************************************************************)
EXTENDS OverrideEdit, ScheduleRetry, FiniteSetTheorems, TLAPS

-----------------------------------------------------------------------------
(* Sets of one element, and the requests *)

LEMMA OnlyOne == ASSUME NEW x PROVE Only({x}) = x
  BY DEF Only

LEMMA OneOfMany ==
    ASSUME NEW S, NEW T \in AtMostOne(S), T # {}
    PROVE  Only(T) \in S /\ T = {Only(T)}
<1>1. PICK x \in S : T = {x}
  BY DEF AtMostOne
<1>2. QED
  BY <1>1, OnlyOne

\* Every request has a patch of some slots and gives some header fields.
LEMMA RequestParts ==
    ASSUME NEW r \in Edits
    PROVE  /\ r.patch \in Patches /\ r.given \in Given
           /\ r = [kind |-> r.kind, patch |-> r.patch, given |-> r.given]
<1>1. Vectors \subseteq Patches /\ Headers \subseteq Given
  BY DEF Vectors, Patches, Headers, Given
<1>2. NoPatch \in Patches
  BY DEF NoPatch, Patches
<1> DEFINE Parts == /\ r.patch \in Patches /\ r.given \in Given
                    /\ r = [kind |-> r.kind, patch |-> r.patch, given |-> r.given]
<1>3. ASSUME NEW K, NEW P \in SUBSET Patches, NEW G \in SUBSET Given, r \in Asks(K, P, G)
      PROVE  Parts
  BY <1>3 DEF Asks
<1>4. CASE r \in SetSlotRange
  BY <1>3, <1>4 DEF SetSlotRange
<1>5. CASE r \in ResetToInternal
  BY <1>3, <1>5 DEF ResetToInternal
<1>6. CASE r \in ApplyBulk
  BY <1>1, <1>3, <1>6 DEF ApplyBulk
<1>7. CASE r \in Slider
  BY <1>2, <1>3, <1>7 DEF Slider
<1>8. CASE r \in Switch
  BY <1>2, <1>3, <1>8 DEF Switch
<1>9. CASE r \in SetBatteryRange
  BY <1>1, <1>2, <1>3, <1>9 DEF SetBatteryRange
<1>10. QED
  BY <1>4, <1>5, <1>6, <1>7, <1>8, <1>9, EditAssumption DEF Requests

LEMMA PatchedType ==
    ASSUME NEW base \in Vectors, NEW patch \in Patches
    PROVE  /\ Patched(base, patch) \in Vectors
           /\ \A s \in Slots \ DOMAIN patch : Patched(base, patch)[s] = base[s]
  BY DEF Patched, Patches, Vectors

-----------------------------------------------------------------------------
(* The invariant *)

Pasts == [slots : SUBSET Vectors, headers : SUBSET Headers, published : SUBSET Headers]

\* The device had these slots.
Recorded(s) == s.slots \in past.slots

\* The fields that j leaves to the code are those of one published snapshot.
FromSnapshot(j) ==
    \E h \in past.published : \A f \in Fields \ DOMAIN j.edit.given : j.fields[f] = h[f]

\* The slots the device holds, and those that reads have brought or will bring, are
\* recorded, and so is the header of the snapshot; the snapshot is not lost any more.
History ==
    /\ device \in States
    /\ snapshot \in AtMostOne(States)
    /\ reader \in [Readers -> AtMostOne(States)]
    /\ reads \in 0 .. MaxReads
    /\ past \in Pasts
    /\ Recorded(device)
    /\ \A s \in snapshot : Recorded(s) /\ s.header \in past.published
    /\ \A r \in Readers : \A s \in reader[r] : Recorded(s)
    /\ past.published # {} => snapshot # {}

\* A service's edit. Until the first plan the fields are those given; from then on
\* they are the plan's header, whatever the later attempts read. A plan from a read
\* of its own differs from the device by the patch only, as long as nobody else
\* wrote.
Streaming(j) ==
    /\ j.pc \in {"try", "send", "confirm", "oneshot", "done"}
    /\ j.pc \in {"try", "send", "confirm"} => j.tries < MaxTries
    /\ j.pc = "oneshot" => j.tries = MaxTries
    /\ j.pc \in {"send", "confirm"} => j.plan # {}
    /\ j.plan = {} => j.fields = j.edit.given /\ ~j.known
    /\ j.plan # {} => j.fields = Only(j.plan).header
    /\ j.known => FromSnapshot(j)
    /\ j.plan # {} /\ j.src = "fresh" /\ ~j.over =>
         \A s \in Slots \ DOMAIN j.edit.patch : Only(j.plan).slots[s] = device.slots[s]

\* A range edit. The slots it may write were captured before its first await.
Ranging(j) ==
    /\ j.pc \in {"fresh", "slots", "oneshot", "done"}
    /\ j.pc # "done" => j.fields \in Headers
    /\ j.cached \subseteq past.slots
    /\ j.known => j.cached # {}
    /\ j.known /\ j.plan # {} => Only(j.plan).slots \in past.slots

\* A reset that is reported done has been seen, unless it was the fallback's.
Believed(j) ==
    j.pc = "done" /\ j.ok /\ j.edit.kind = "reset" /\ j.tries < MaxTries => j.shown # "no"

JobOK(j) ==
    /\ j.edit.kind \in Streams => Streaming(j)
    /\ j.edit.kind \notin Streams => Ranging(j)
    /\ Believed(j)

Inv ==
    /\ History
    /\ job \in [Editors -> AtMostOne(Jobs)]
    /\ \A e \in Editors : job[e] # {} => JobOK(J(e))

-----------------------------------------------------------------------------
(* Jobs *)

LEMMA JobType ==
    ASSUME Inv, NEW e \in Editors, job[e] # {}
    PROVE  J(e) \in Jobs /\ job[e] = {J(e)} /\ JobOK(J(e)) /\ J(e).edit \in Edits
<1>1. job[e] \in AtMostOne(Jobs) /\ JobOK(J(e))
  BY DEF Inv
<1>2. J(e) \in Jobs /\ job[e] = {J(e)}
  BY <1>1, OneOfMany DEF J
<1>3. QED
  BY <1>1, <1>2 DEF Jobs

LEMMA AtMostOneIn == ASSUME NEW S PROVE {} \in AtMostOne(S) /\ \A x \in S : {x} \in AtMostOne(S)
  BY DEF AtMostOne

LEMMA NewJobType ==
    ASSUME NEW edit \in Edits
    PROVE  NewJob(edit) \in Jobs
<1>1. edit.given \in Given /\ 0 \in 0 .. MaxTries
  BY RequestParts, EditAssumption
<1>2. QED
  BY <1>1, AtMostOneIn DEF NewJob, Jobs

LEMMA EndedType ==
    ASSUME NEW j \in Jobs, NEW ok \in BOOLEAN
    PROVE  /\ Ended(j, ok) \in Jobs
           /\ Ended(j, ok).pc = "done" /\ Ended(j, ok).edit = j.edit
           /\ Ended(j, ok).plan = {} /\ ~Ended(j, ok).known
           /\ Ended(j, ok).cached = {} /\ Ended(j, ok).fields = j.edit.given
           /\ j.edit.kind = "reset" =>
                Ended(j, ok).ok = ok /\ Ended(j, ok).tries = j.tries /\ Ended(j, ok).shown = j.shown
<1>1. j.edit \in Edits /\ j.tries \in 0 .. MaxTries /\ j.shown \in {"no", "yes", "unknown"}
  BY DEF Jobs
<1>2. NewJob(j.edit) \in Jobs
  BY <1>1, NewJobType
<1>3. QED
  BY <1>1, <1>2 DEF Ended, NewJob, Jobs

\* Nothing is left of an edit that is over but the report of a reset.
LEMMA EndedOK ==
    ASSUME NEW j \in Jobs, NEW ok \in BOOLEAN,
           j.edit.kind = "reset" /\ ok /\ j.tries < MaxTries => j.shown # "no"
    PROVE  JobOK(Ended(j, ok)) /\ JobOK(Ended(j, ok))'
<1> DEFINE k == Ended(j, ok)
<1>1. /\ k.pc = "done" /\ k.edit = j.edit /\ k.plan = {} /\ ~k.known
      /\ k.cached = {} /\ k.fields = j.edit.given
      /\ j.edit.kind = "reset" => k.ok = ok /\ k.tries = j.tries /\ k.shown = j.shown
  BY EndedType
<1> HIDE DEF k
<1>2. JobOK(k)
  BY <1>1 DEF JobOK, Streaming, Ranging, Believed
<1>3. JobOK(k)'
  BY <1>1 DEF JobOK, Streaming, Ranging, Believed
<1>4. QED
  BY <1>2, <1>3 DEF k

LEMMA FailedType ==
    ASSUME NEW j \in Jobs, j.tries < MaxTries
    PROVE  Failed(j) \in Jobs
<1>1. j.tries + 1 \in 0 .. MaxTries
  BY EditAssumption DEF Jobs
<1>2. QED
  BY <1>1 DEF Failed, Jobs

\* The next attempt, or the fallback, keeps what the first plan settled.
LEMMA FailedOK ==
    ASSUME NEW j \in Jobs, j.edit.kind \in Streams, Streaming(j), j.pc \in {"try", "send", "confirm"}
    PROVE  Failed(j) \in Jobs /\ JobOK(Failed(j))
<1>1. j.tries < MaxTries /\ j.tries \in Nat /\ MaxTries \in Nat
  BY EditAssumption DEF Streaming, Jobs
<1>2. Failed(j) \in Jobs
  BY <1>1, FailedType
<1> DEFINE k == Failed(j)
<1>3. /\ k.pc \in {"try", "oneshot"} /\ k.edit = j.edit /\ k.plan = j.plan /\ k.known = j.known
      /\ k.fields = j.fields /\ k.src = j.src /\ k.over = j.over
      /\ k.pc = "try" => k.tries < MaxTries
      /\ k.pc = "oneshot" => k.tries = MaxTries
  BY <1>1 DEF Failed, Jobs
<1> HIDE DEF k
<1>4. JobOK(k)
  BY <1>3 DEF JobOK, Streaming, FromSnapshot, Believed
<1>5. QED
  BY <1>2, <1>4 DEF k

-----------------------------------------------------------------------------
(* Headers and plans *)

LEMMA FrameType ==
    ASSUME History, NEW frame \in Frames
    PROVE  frame \in States /\ frame.slots = device.slots
  BY EditAssumption DEF History, Frames, States

\* An omitted field is the snapshot's, if there is one.
LEMMA SettledType ==
    ASSUME History, NEW fields \in Given, NEW current \in AtMostOne(States)
    PROVE  /\ Settled(fields, current) \in Headers
           /\ \A f \in DOMAIN fields : f \in Fields /\ Settled(fields, current)[f] = fields[f]
           /\ snapshot # {} => \E h \in past.published : \A f \in Fields \ DOMAIN fields :
                                 Settled(fields, current)[f] = h[f]
<1>1. \A f \in DOMAIN fields : f \in Fields /\ fields[f] \in Marks
  BY DEF Given
<1>2. Default \in Headers
  BY EditAssumption
<1>3. current # {} => Only(current).header \in Headers
  BY OneOfMany DEF States
<1>4. snapshot # {} => Only(snapshot).header \in Headers /\ Only(snapshot).header \in past.published
  <2>1. snapshot # {} => Only(snapshot) \in States /\ Only(snapshot) \in snapshot
    BY OneOfMany DEF History
  <2>2. QED
    BY <2>1 DEF History, States
<1>5. ASSUME NEW f \in Fields
      PROVE  /\ Settled(fields, current)[f] \in Marks
             /\ f \in DOMAIN fields => Settled(fields, current)[f] = fields[f]
             /\ f \notin DOMAIN fields /\ snapshot # {} =>
                  Settled(fields, current)[f] = Only(snapshot).header[f]
  BY <1>1, <1>2, <1>3, <1>4 DEF Settled, Headers
<1>6. Settled(fields, current) \in Headers
  BY <1>5 DEF Settled, Headers
<1>7. QED
  BY <1>1, <1>4, <1>5, <1>6

\* Once all fields are settled they stay.
LEMMA SettledOnce ==
    ASSUME History, NEW fields \in Headers, NEW current \in AtMostOne(States)
    PROVE  Settled(fields, current) = fields
<1>1. fields \in Given /\ DOMAIN fields = Fields
  BY DEF Headers, Given
<1>2. Settled(fields, current) \in Headers /\ \A f \in Fields : Settled(fields, current)[f] = fields[f]
  BY <1>1, SettledType
<1>3. QED
  BY <1>2 DEF Headers

LEMMA BaseType ==
    ASSUME NEW current \in AtMostOne(States)
    PROVE  Base(current) \in Vectors
<1>1. Empty \in Vectors
  BY DEF Empty, Vectors
<1>2. current # {} => Only(current).slots \in Vectors
  BY OneOfMany DEF States
<1>3. QED
  BY <1>1, <1>2 DEF Base

\* An attempt plans: the header is the one settled first, the slots are those
\* read, but for the patch.
LEMMA PlannedOK ==
    ASSUME Inv, NEW e \in Editors, Busy(e, "try"),
           NEW current \in AtMostOne(States), NEW from \in {"fresh", "cache", "nothing"},
           from = "fresh" => current # {} /\ Only(current).slots = device.slots
    PROVE  Planned(e, current, from) \in Jobs /\ JobOK(Planned(e, current, from))
<1> DEFINE j == J(e)
           k == Planned(e, current, from)
           header == Settled(j.fields, current)
           slots == Patched(Base(current), j.edit.patch)
<1>1. j \in Jobs /\ JobOK(j) /\ j.edit \in Edits /\ j.pc = "try" /\ History
  BY JobType DEF Busy, J, Inv
<1>2. j.edit.kind \in Streams /\ Streaming(j) /\ j.tries < MaxTries
  BY <1>1 DEF JobOK, Streaming, Ranging
<1>3. j.fields \in Given /\ j.edit.patch \in Patches /\ j.edit.given \in Given
  BY <1>1, RequestParts DEF Jobs
<1>4. /\ header \in Headers
      /\ snapshot # {} => \E h \in past.published : \A f \in Fields \ DOMAIN j.fields : header[f] = h[f]
  BY <1>1, <1>3, SettledType
<1>5. slots \in Vectors /\ \A s \in Slots \ DOMAIN j.edit.patch : slots[s] = Base(current)[s]
  BY <1>3, BaseType, PatchedType
<1>6. j.plan # {} => header = j.fields
  <2>1. j.plan # {} => j.fields \in Headers
    <3>1. j.plan \in AtMostOne(States)
      BY <1>1 DEF Jobs
    <3>2. j.plan # {} => Only(j.plan) \in States
      BY <3>1, OneOfMany
    <3>3. QED
      BY <1>2, <3>2 DEF Streaming, States
  <2>2. QED
    BY <1>1, <2>1, SettledOnce
<1>7. from = "fresh" => Base(current) = device.slots
  BY DEF Base
<1>8. /\ k.pc = "send" /\ k.fields = header /\ k.plan = {[slots |-> slots, header |-> header]}
      /\ k.src = from /\ ~k.over /\ k.known = (j.known \/ (j.plan = {} /\ past.published # {}))
      /\ k.edit = j.edit /\ k.tries = j.tries
  BY <1>1 DEF Planned, Jobs
<1>9. Only(k.plan) = [slots |-> slots, header |-> header] /\ k.plan # {}
  BY <1>8, OnlyOne
<1>10. k \in Jobs
  <2>1. [slots |-> slots, header |-> header] \in States
    BY <1>4, <1>5 DEF States
  <2>2. k.plan \in AtMostOne(States) /\ k.fields \in Given /\ k.known \in BOOLEAN
    <3>1. Headers \subseteq Given
      BY DEF Headers, Given
    <3>2. j.known \in BOOLEAN
      BY <1>1 DEF Jobs, History
    <3>3. QED
      BY <1>4, <1>8, <2>1, <3>1, <3>2, AtMostOneIn
  <2>3. k = [j EXCEPT !.pc = "send", !.fields = k.fields, !.plan = k.plan, !.src = from,
                      !.over = FALSE, !.known = k.known]
    BY <1>1, <1>8 DEF Planned, Jobs
  <2>4. QED
    BY <1>1, <2>2, <2>3 DEF Jobs
<1>11. k.known => FromSnapshot(k)
  <2>1. CASE j.plan = {}
    <3>1. ~j.known /\ j.fields = j.edit.given
      BY <1>2, <2>1 DEF Streaming
    <3>2. k.known => snapshot # {}
      BY <1>1, <1>8, <2>1, <3>1 DEF History
    <3>3. QED
      BY <1>4, <1>8, <3>1, <3>2 DEF FromSnapshot
  <2>2. CASE j.plan # {}
    <3>1. k.known => j.known
      BY <1>8, <2>2
    <3>2. j.known => FromSnapshot(j)
      BY <1>2 DEF Streaming
    <3>3. k.fields = j.fields /\ k.edit = j.edit
      BY <1>6, <1>8, <2>2
    <3>4. QED
      BY <3>1, <3>2, <3>3 DEF FromSnapshot
  <2>3. QED
    BY <2>1, <2>2
<1>12. k.src = "fresh" /\ ~k.over =>
         \A s \in Slots \ DOMAIN k.edit.patch : Only(k.plan).slots[s] = device.slots[s]
  BY <1>5, <1>7, <1>8, <1>9
<1>13. /\ k.edit.kind \in Streams /\ k.pc = "send" /\ k.tries < MaxTries /\ k.plan # {}
       /\ k.fields = Only(k.plan).header
  BY <1>2, <1>8, <1>9
<1> HIDE DEF k
<1>14. JobOK(k)
  BY <1>11, <1>12, <1>13 DEF JobOK, Streaming, Believed
<1>15. QED
  BY <1>10, <1>14 DEF k

-----------------------------------------------------------------------------
(* What a step does to the other edits *)

\* What was recorded stays recorded.
Wider ==
    /\ past.slots \subseteq past'.slots
    /\ past.published \subseteq past'.published

LEMMA JobStaysOK ==
    ASSUME NEW j \in Jobs, JobOK(j), Wider, device' = device \/ j.over
    PROVE  JobOK(j)'
<1>1. Believed(j)'
  BY DEF JobOK, Believed
<1>2. ASSUME j.edit.kind \in Streams PROVE Streaming(j)'
  <2>1. Streaming(j)
    BY <1>2 DEF JobOK
  <2>2. QED
    BY <2>1 DEF Streaming, FromSnapshot, Wider
<1>3. ASSUME j.edit.kind \notin Streams PROVE Ranging(j)'
  <2>1. Ranging(j)
    BY <1>3 DEF JobOK
  <2>2. QED
    BY <2>1 DEF Ranging, Wider
<1>4. QED
  BY <1>1, <1>2, <1>3 DEF JobOK

LEMMA OverIsOK ==
    ASSUME NEW j \in Jobs, JobOK(j)
    PROVE  /\ [j EXCEPT !.over = TRUE] \in Jobs /\ JobOK([j EXCEPT !.over = TRUE])
           /\ [j EXCEPT !.over = TRUE].over
<1> DEFINE k == [j EXCEPT !.over = TRUE]
<1>1. k \in Jobs
  BY DEF Jobs
<1>2. /\ k.pc = j.pc /\ k.edit = j.edit /\ k.tries = j.tries /\ k.plan = j.plan
      /\ k.fields = j.fields /\ k.known = j.known /\ k.cached = j.cached /\ k.ok = j.ok
      /\ k.shown = j.shown /\ k.over
  BY DEF Jobs
<1> HIDE DEF k
<1>3. JobOK(k)
  BY <1>2 DEF JobOK, Streaming, FromSnapshot, Ranging, Believed
<1>4. QED
  BY <1>1, <1>2, <1>3 DEF k

\* A step within one edit.
LEMMA SetKeeps ==
    ASSUME Inv, NEW e \in Editors, NEW j \in Jobs, JobOK(j), Set(e, j), Local
    PROVE  Inv'
<1>1. Wider /\ device' = device
  BY DEF Local, Wider
<1>2. History'
  BY DEF Inv, Local, History, Recorded
<1>3. /\ job' = [job EXCEPT ![e] = {j}] /\ job \in [Editors -> AtMostOne(Jobs)]
      /\ {j} \in AtMostOne(Jobs)
  BY AtMostOneIn DEF Set, Inv
<1>4. job' \in [Editors -> AtMostOne(Jobs)]
  BY <1>3
<1>5. ASSUME NEW o \in Editors, job'[o] # {} PROVE JobOK(J(o))'
  <2>1. CASE o = e
    <3>1. J(o)' = j
      BY <1>3, <2>1, OnlyOne DEF J
    <3>2. JobOK(j)'
      BY <1>1, JobStaysOK
    <3>3. QED
      BY <3>1, <3>2
  <2>2. CASE o # e
    <3>1. job'[o] = job[o]
      BY <1>3, <2>2
    <3>2. J(o) \in Jobs /\ JobOK(J(o)) /\ J(o)' = J(o)
      BY <1>5, <3>1, JobType DEF J
    <3> DEFINE k == J(o)
    <3>3. ASSUME NEW i \in Jobs, JobOK(i) PROVE JobOK(i)'
      BY <1>1, <3>3, JobStaysOK
    <3>4. QED
      BY <3>2, <3>3
  <2>3. QED
    BY <2>1, <2>2
<1>6. QED
  BY <1>2, <1>4, <1>5 DEF Inv

LEMMA RecordedStays == ASSUME NEW s, Recorded(s), Wider PROVE Recorded(s)'
  BY DEF Recorded, Wider

\* A write that arrives is recorded.
LEMMA WritePast ==
    ASSUME History, NEW state \in States, past' = WithPast(state)
    PROVE  /\ Wider /\ Recorded(state)' /\ past'.published = past.published
           /\ past' \in Pasts
<1>1. past \in Pasts
  BY DEF History
<1>2. state.slots \in Vectors /\ state.header \in Headers
  BY DEF States
<1>3. /\ past'.slots = past.slots \cup {state.slots} /\ past'.published = past.published
      /\ past'.headers = past.headers \cup {state.header}
      /\ past' = [slots |-> past'.slots, headers |-> past'.headers, published |-> past'.published]
  BY <1>1 DEF WithPast, Pasts
<1>4. past' \in Pasts
  BY <1>1, <1>2, <1>3 DEF Pasts
<1>5. QED
  BY <1>3, <1>4 DEF Wider, Recorded

\* A step that writes, or tries to.
LEMMA WriteKeeps ==
    ASSUME Inv, NEW e \in Editors, job[e] # {}, J(e).plan # {}, NEW j \in Jobs,
           NEW applied \in BOOLEAN, Write(e, j, applied), JobOK(j)'
    PROVE  Inv'
<1>0. History /\ J(e).plan \in AtMostOne(States)
  BY JobType DEF Inv, Jobs
<1>1. PICK state \in States : state = Only(J(e).plan)
  BY <1>0, OneOfMany
<1>2. /\ device' = IF applied THEN state ELSE device
      /\ past' = IF applied THEN WithPast(state) ELSE past
      /\ job' = [o \in Editors |-> IF o = e THEN {j}
                                  ELSE IF applied /\ job[o] # {} THEN {[J(o) EXCEPT !.over = TRUE]}
                                  ELSE job[o]]
      /\ UNCHANGED <<snapshot, reader, reads>>
  BY <1>1 DEF Write
<1>3. Wider /\ History'
  <2>1. CASE applied
    <3>1. /\ Wider /\ Recorded(state)' /\ past'.published = past.published
          /\ past' \in Pasts
      <4>1. past' = WithPast(state)
        BY <1>2, <2>1
      <4>2. QED
        BY <1>0, <4>1, WritePast
    <3>2. Recorded(device)' /\ device' \in States
      BY <1>2, <2>1, <3>1
    <3>3. (\A s \in snapshot' : Recorded(s)') /\ \A r \in Readers : \A s \in reader'[r] : Recorded(s)'
      BY <1>0, <1>2, <3>1, RecordedStays DEF History
    <3>4. QED
      BY <1>0, <1>2, <3>1, <3>2, <3>3 DEF History
  <2>2. CASE ~applied
    BY <1>0, <1>2, <2>2 DEF History, Recorded, Wider
  <2>3. QED
    BY <2>1, <2>2
<1>4. ASSUME NEW o \in Editors
      PROVE  job'[o] \in AtMostOne(Jobs) /\ (job'[o] # {} => JobOK(J(o))')
  <2>1. CASE o = e
    <3>1. job'[o] = {j}
      BY <1>2, <2>1
    <3>2. J(o)' = j
      BY <3>1, OnlyOne DEF J
    <3>3. QED
      BY <3>1, <3>2, AtMostOneIn
  <2>2. CASE o # e /\ applied /\ job[o] # {}
    <3> DEFINE i == [J(o) EXCEPT !.over = TRUE]
    <3>1. job'[o] = {i}
      BY <1>2, <2>2
    <3>2. i \in Jobs /\ JobOK(i) /\ i.over
      BY <2>2, JobType, OverIsOK
    <3> HIDE DEF i
    <3>3. J(o)' = i /\ {i} \in AtMostOne(Jobs)
      BY <3>1, <3>2, OnlyOne, AtMostOneIn DEF J
    <3>4. ASSUME NEW x \in Jobs, JobOK(x), x.over PROVE JobOK(x)'
      BY <1>3, <3>4, JobStaysOK
    <3>5. QED
      BY <3>1, <3>2, <3>3, <3>4
  <2>3. CASE o # e /\ (~applied \/ job[o] = {})
    <3>1. job'[o] = job[o]
      BY <1>2, <2>3
    <3>2. job'[o] # {} => J(o) \in Jobs /\ JobOK(J(o)) /\ J(o)' = J(o) /\ ~applied
      BY <2>3, <3>1, JobType DEF J
    <3>3. ASSUME NEW x \in Jobs, JobOK(x), ~applied PROVE JobOK(x)'
      BY <1>2, <1>3, <3>3, JobStaysOK
    <3>4. job[o] \in AtMostOne(Jobs)
      BY DEF Inv
    <3>5. QED
      BY <3>1, <3>2, <3>3, <3>4
  <2>4. QED
    BY <2>1, <2>2, <2>3
<1>5. job' \in [Editors -> AtMostOne(Jobs)]
  BY <1>2, <1>4
<1>6. QED
  BY <1>3, <1>4, <1>5 DEF Inv

-----------------------------------------------------------------------------
(* The steps *)

LEMMA InitInv == Init => Inv
<1> SUFFICES ASSUME Init PROVE Inv
  OBVIOUS
<1>1. device \in States /\ device.slots \in Vectors /\ device.header \in Headers
  BY EditAssumption DEF Init, States
<1>2. past.slots = {device.slots} /\ past.published = {} /\ past \in Pasts
  BY <1>1 DEF Init, Pasts
<1>3. Recorded(device)
  BY <1>2 DEF Recorded
<1>4. /\ snapshot = {} /\ reader = [r \in Readers |-> {}] /\ job = [e \in Editors |-> {}]
      /\ reads \in 0 .. MaxReads
  BY EditAssumption DEF Init
<1>5. History
  BY <1>1, <1>2, <1>3, <1>4, AtMostOneIn DEF History
<1>6. QED
  BY <1>4, <1>5, AtMostOneIn DEF Inv

\* The reads of the coordinator: the slots of the device are recorded when they are
\* read, and what is published is remembered.
LEMMA ReadKeeps ==
    ASSUME Inv, NEW r \in Readers, Fetch(r) \/ Deliver(r)
    PROVE  Inv'
<1>0. History /\ job' = job /\ device' = device
  BY DEF Inv, Fetch, Deliver
<1>1. ASSUME Fetch(r) PROVE History' /\ Wider
  <2>1. PICK frame \in Frames : reader' = [reader EXCEPT ![r] = {frame}]
    BY <1>1 DEF Fetch
  <2>2. frame \in States /\ frame.slots = device.slots
    BY <1>0, FrameType
  <2>3. reader' \in [Readers -> AtMostOne(States)]
    BY <1>0, <2>1, <2>2, AtMostOneIn DEF History
  <2>4. \A q \in Readers : \A s \in reader'[q] : Recorded(s)
    BY <1>0, <2>1, <2>2 DEF History, Recorded
  <2>5. reads' \in 0 .. MaxReads
    BY <1>0, <1>1, EditAssumption DEF Fetch, History
  <2>6. UNCHANGED <<device, snapshot, past>>
    BY <1>1 DEF Fetch
  <2>7. QED
    BY <1>0, <2>3, <2>4, <2>5, <2>6 DEF History, Recorded, Wider
<1>2. ASSUME Deliver(r) PROVE History' /\ Wider
  <2>1. /\ reader[r] # {} /\ reader' = [reader EXCEPT ![r] = {}]
        /\ Publishes(reader[r]) \/ UNCHANGED <<snapshot, past>>
        /\ UNCHANGED <<device, reads>>
    BY <1>2 DEF Deliver
  <2>2. reader' \in [Readers -> AtMostOne(States)]
    BY <1>0, <2>1, AtMostOneIn DEF History
  <2>3. \A q \in Readers : \A s \in reader'[q] : Recorded(s)
    BY <1>0, <2>1 DEF History
  <2>4. CASE UNCHANGED <<snapshot, past>>
    BY <1>0, <2>1, <2>2, <2>3, <2>4 DEF History, Recorded, Wider
  <2>5. CASE Publishes(reader[r])
    <3>1. PICK state \in States : reader[r] = {state}
      BY <1>0, <2>1 DEF History, AtMostOne
    <3>2. snapshot' = {state} /\ state.header \in Headers /\ Recorded(state)
      BY <1>0, <2>5, <3>1 DEF Publishes, States, History
    <3>3. /\ past'.slots = past.slots /\ past'.headers = past.headers
          /\ past'.published = past.published \cup {state.header}
          /\ past' = [slots |-> past'.slots, headers |-> past'.headers, published |-> past'.published]
      BY <1>0, <2>5, <3>1 DEF Publishes, History, Pasts
    <3>4. past' \in Pasts
      BY <1>0, <3>2, <3>3 DEF History, Pasts
    <3>5. snapshot' \in AtMostOne(States)
      BY <3>2, AtMostOneIn
    <3>6. Wider
      BY <3>3 DEF Wider
    <3>7. \A s : Recorded(s) => Recorded(s)'
      BY <3>3 DEF Recorded
    <3>8. QED
      BY <1>0, <2>1, <2>2, <2>3, <3>2, <3>3, <3>4, <3>5, <3>6, <3>7 DEF History
  <2>6. QED
    BY <2>1, <2>4, <2>5
<1>3. Wider /\ History'
  BY <1>1, <1>2
<1>4. ASSUME NEW e \in Editors, job[e] # {} PROVE JobOK(J(e))'
  <2>1. J(e) \in Jobs /\ JobOK(J(e)) /\ J(e)' = J(e)
    BY <1>0, <1>4, JobType DEF J
  <2>2. ASSUME NEW j \in Jobs, JobOK(j) PROVE JobOK(j)'
    BY <1>0, <1>3, <2>2, JobStaysOK
  <2>3. QED
    BY <2>1, <2>2
<1>5. QED
  BY <1>0, <1>3, <1>4 DEF Inv

\* An edit begins.
LEMMA BeginKeeps ==
    ASSUME Inv, NEW e \in Editors, NEW edit \in Edits, BeginStream(e, edit) \/ BeginRange(e, edit)
    PROVE  Inv'
<1>0. NewJob(edit) \in Jobs /\ History
  BY NewJobType DEF Inv
<1>1. CASE BeginStream(e, edit)
  <2> DEFINE j == NewJob(edit)
  <2>1. /\ j.pc = "try" /\ j.edit = edit /\ j.tries = 0 /\ j.plan = {} /\ j.fields = edit.given
        /\ ~j.known /\ edit.kind \in Streams /\ Set(e, j) /\ Local
    BY <1>1 DEF NewJob, BeginStream
  <2> HIDE DEF j
  <2>2. 0 < MaxTries
    BY EditAssumption
  <2>3. JobOK(j)
    BY <2>1, <2>2 DEF JobOK, Streaming, Believed
  <2>4. QED
    BY <1>0, <2>1, <2>3, SetKeeps DEF j
<1>2. CASE BeginRange(e, edit)
  <2> DEFINE j == [NewJob(edit) EXCEPT !.pc = IF edit.kind = "marker" THEN "fresh" ELSE "slots",
                                       !.fields = Settled(edit.given, {}), !.cached = Cached,
                                       !.known = past.published # {}]
  <2>1. Set(e, j) /\ Local /\ edit.kind \notin Streams
    BY <1>2 DEF BeginRange, Local
  <2>2. Settled(edit.given, {}) \in Headers /\ Headers \subseteq Given
    <3>1. Settled(edit.given, {}) \in Headers
      BY <1>0, RequestParts, SettledType, AtMostOneIn
    <3>2. QED
      BY <3>1 DEF Headers, Given
  <2>3. Cached \in AtMostOne(Vectors) /\ Cached \subseteq past.slots /\ (snapshot # {} => Cached # {})
    <3>1. CASE snapshot = {}
      BY <3>1, AtMostOneIn DEF Cached
    <3>2. CASE snapshot # {}
      <4>1. PICK s \in States : snapshot = {s}
        BY <1>0, <3>2 DEF History, AtMostOne
      <4>2. Cached = {s.slots} /\ s.slots \in Vectors /\ s.slots \in past.slots
        BY <1>0, <4>1 DEF Cached, States, History, Recorded
      <4>3. QED
        BY <4>2, AtMostOneIn
    <3>3. QED
      BY <3>1, <3>2
  <2>4. j \in Jobs
    BY <1>0, <2>2, <2>3 DEF Jobs, History
  <2>5. /\ j.pc \in {"fresh", "slots"} /\ j.edit = edit /\ j.plan = {} /\ j.cached = Cached
        /\ j.known = (past.published # {}) /\ j.fields \in Headers
    BY <2>2 DEF NewJob
  <2> HIDE DEF j
  <2>6. JobOK(j)
    BY <1>0, <2>1, <2>3, <2>5 DEF JobOK, Ranging, Believed, History
  <2>7. QED
    BY <2>1, <2>4, <2>6, SetKeeps
<1>3. QED
  BY <1>1, <1>2

\* An attempt of a service reads, and plans.
LEMMA AttemptKeeps ==
    ASSUME Inv, NEW e \in Editors, AttemptReads(e) \/ AttemptUsesSnapshot(e) \/ AttemptRaises(e)
    PROVE  Inv'
<1>0. J(e) \in Jobs /\ JobOK(J(e)) /\ J(e).pc = "try" /\ History /\ Busy(e, "try")
  BY JobType DEF AttemptReads, AttemptUsesSnapshot, AttemptRaises, Busy, J, Inv
<1>1. J(e).edit.kind \in Streams /\ Streaming(J(e))
  BY <1>0 DEF JobOK, Ranging
<1>2. CASE AttemptReads(e)
  <2>1. PICK frame \in Frames : Set(e, Planned(e, {frame}, "fresh")) /\ Local
    BY <1>2 DEF AttemptReads
  <2>2. frame \in States /\ frame.slots = device.slots
    BY <1>0, FrameType
  <2>3. {frame} \in AtMostOne(States) /\ {frame} # {} /\ Only({frame}).slots = device.slots
    BY <2>2, AtMostOneIn, OnlyOne
  <2>4. Planned(e, {frame}, "fresh") \in Jobs /\ JobOK(Planned(e, {frame}, "fresh"))
    BY <1>0, <2>3, PlannedOK
  <2>5. QED
    BY <2>1, <2>4, SetKeeps
<1>3. CASE AttemptUsesSnapshot(e)
  <2>1. PICK from \in {"cache", "nothing"} : Set(e, Planned(e, snapshot, from)) /\ Local
    BY <1>3 DEF AttemptUsesSnapshot
  <2>2. Planned(e, snapshot, from) \in Jobs /\ JobOK(Planned(e, snapshot, from))
    BY <1>0, PlannedOK DEF History
  <2>3. QED
    BY <2>1, <2>2, SetKeeps
<1>4. CASE AttemptRaises(e)
  <2>1. \/ Set(e, Failed(J(e))) /\ Local
        \/ Set(e, Ended(J(e), FALSE)) /\ Local
    BY <1>4 DEF AttemptRaises
  <2>2. Failed(J(e)) \in Jobs /\ JobOK(Failed(J(e)))
    BY <1>0, <1>1, FailedOK
  <2>3. Ended(J(e), FALSE) \in Jobs /\ JobOK(Ended(J(e), FALSE))
    BY <1>0, EndedType, EndedOK
  <2>4. QED
    BY <2>1, <2>2, <2>3, SetKeeps
<1>5. QED
  BY <1>2, <1>3, <1>4

\* A service writes; what its plan was settled from stays so.
LEMMA StreamWriteKeeps ==
    ASSUME Inv, NEW e \in Editors, NEW applied \in BOOLEAN,
           StreamAcked(e, applied) \/ StreamUnacked(e, applied)
    PROVE  Inv'
<1> DEFINE j == J(e)
<1>0. j \in Jobs /\ JobOK(j) /\ j.pc = "send" /\ History /\ job[e] # {}
  BY JobType DEF StreamAcked, StreamUnacked, Busy, J, Inv
<1>1. j.edit.kind \in Streams /\ Streaming(j) /\ j.plan # {} /\ j.tries < MaxTries
  BY <1>0 DEF JobOK, Streaming, Ranging
<1>2. PICK state \in States : state = Only(j.plan)
  <2>1. j.plan \in AtMostOne(States)
    BY <1>0 DEF Jobs
  <2>2. QED
    BY <1>1, <2>1, OneOfMany
\* The device is the plan then, or what it was.
<1>3. ASSUME NEW k \in Jobs, k.edit = j.edit, k.plan = j.plan, k.src = j.src, k.over = j.over,
             k.fields = j.fields, k.known = j.known, JobOK(k), Write(e, k, applied)
      PROVE  JobOK(k)'
  <2>1. device' = (IF applied THEN state ELSE device) /\ past' = IF applied THEN WithPast(state) ELSE past
    BY <1>2, <1>3 DEF Write
  <2>2. Wider
    <3>1. CASE applied
      <4>1. past' = WithPast(state)
        BY <2>1, <3>1
      <4>2. QED
        BY <1>0, <4>1, WritePast
    <3>2. CASE ~applied
      BY <2>1, <3>2 DEF Wider
    <3>3. QED
      BY <3>1, <3>2
  <2>3. CASE ~applied
    BY <1>3, <2>1, <2>2, <2>3, JobStaysOK
  <2>4. CASE applied
    <3>1. device' = Only(k.plan)
      BY <1>2, <1>3, <2>1, <2>4
    <3>2. Streaming(k) /\ Believed(k) /\ k.edit.kind \in Streams
      BY <1>1, <1>3 DEF JobOK
    <3>3. Streaming(k)'
      BY <2>2, <3>1, <3>2 DEF Streaming, FromSnapshot, Wider
    <3>4. QED
      BY <3>2, <3>3 DEF JobOK, Believed
  <2>5. QED
    BY <2>3, <2>4
<1>4. CASE StreamAcked(e, applied)
  <2>1. CASE j.edit.kind = "reset"
    <3>1. PICK k \in Jobs : k = [j EXCEPT !.pc = "confirm"]
      BY <1>0 DEF Jobs
    <3>2. Write(e, k, applied)
      BY <1>4, <2>1, <3>1 DEF StreamAcked
    <3>3. /\ k.edit = j.edit /\ k.plan = j.plan /\ k.src = j.src /\ k.over = j.over
          /\ k.fields = j.fields /\ k.known = j.known /\ k.tries = j.tries /\ k.pc = "confirm"
      BY <1>0, <3>1 DEF Jobs
    <3>4. JobOK(k)
      BY <1>1, <3>3 DEF JobOK, Streaming, FromSnapshot, Believed
    <3>5. JobOK(k)'
      BY <1>3, <3>2, <3>3, <3>4
    <3>6. QED
      BY <1>0, <1>1, <3>2, <3>5, WriteKeeps
  <2>2. CASE j.edit.kind # "reset"
    <3>1. Write(e, Ended(j, TRUE), applied)
      BY <1>4, <2>2 DEF StreamAcked
    <3>2. PICK k \in Jobs : k = Ended(j, TRUE) /\ JobOK(k)'
      BY <1>0, <2>2, EndedType, EndedOK
    <3>3. QED
      BY <1>0, <1>1, <3>1, <3>2, WriteKeeps
  <2>3. QED
    BY <2>1, <2>2
<1>5. CASE StreamUnacked(e, applied)
  <2>1. PICK k \in Jobs : k = Failed(j) /\ JobOK(k)
    BY <1>0, <1>1, FailedOK
  <2>2. Write(e, k, applied)
    BY <1>5, <2>1 DEF StreamUnacked
  <2>3. /\ k.edit = j.edit /\ k.plan = j.plan /\ k.src = j.src /\ k.over = j.over
        /\ k.fields = j.fields /\ k.known = j.known
    BY <1>0, <2>1 DEF Failed, Jobs
  <2>4. JobOK(k)'
    BY <1>3, <2>1, <2>2, <2>3
  <2>5. QED
    BY <1>0, <1>1, <2>2, <2>4, WriteKeeps
<1>6. QED
  BY <1>4, <1>5

\* A reset is read back.
LEMMA ConfirmKeeps == ASSUME Inv, NEW e \in Editors, Confirm(e) PROVE Inv'
<1> DEFINE j == J(e)
<1>0. j \in Jobs /\ JobOK(j) /\ j.pc = "confirm" /\ Local
  BY JobType DEF Confirm, Busy, J, Inv
<1>1. j.edit.kind \in Streams /\ Streaming(j)
  BY <1>0 DEF JobOK, Ranging
<1>2. ASSUME NEW shown \in {"unknown", "yes"}
      PROVE  /\ Ended([j EXCEPT !.shown = shown], TRUE) \in Jobs
             /\ JobOK(Ended([j EXCEPT !.shown = shown], TRUE))
  <2> DEFINE k == [j EXCEPT !.shown = shown]
  <2>1. k \in Jobs /\ k.shown # "no"
    BY <1>0 DEF Jobs
  <2> HIDE DEF k
  <2>2. Ended(k, TRUE) \in Jobs /\ JobOK(Ended(k, TRUE))
    BY <2>1, EndedType, EndedOK
  <2>3. QED
    BY <2>2 DEF k
<1>3. Failed(j) \in Jobs /\ JobOK(Failed(j))
  BY <1>0, <1>1, FailedOK
<1>4. PICK k \in Jobs : Set(e, k) /\ JobOK(k)
  BY <1>2, <1>3 DEF Confirm
<1>5. QED
  BY <1>0, <1>4, SetKeeps

\* A slider, the switch or set_battery_range goes on: what was cached stays.
LEMMA RangeKeeps ==
    ASSUME Inv, NEW e \in Editors, FreshHeader(e) \/ ChooseSlots(e) \/ RangeRaises(e)
    PROVE  Inv'
<1> DEFINE j == J(e)
<1>0. j \in Jobs /\ JobOK(j) /\ j.pc \in {"fresh", "slots"} /\ Local /\ History /\ j.edit \in Edits
  BY JobType DEF FreshHeader, ChooseSlots, RangeRaises, Busy, J, Inv
<1>1. j.edit.kind \notin Streams /\ Ranging(j) /\ j.edit.kind # "reset"
  BY <1>0 DEF JobOK, Streaming, Streams
<1>2. CASE FreshHeader(e)
  <2> DEFINE WithFields(fields) == [j EXCEPT !.pc = "slots", !.fields = fields]
  <2>1. PICK fields \in Headers : Set(e, WithFields(fields))
    <3>1. CASE Set(e, [j EXCEPT !.pc = "slots"])
      <4>1. j.fields \in Headers /\ WithFields(j.fields) = [j EXCEPT !.pc = "slots"]
        BY <1>0, <1>1 DEF Jobs, Ranging
      <4>2. QED
        BY <3>1, <4>1
    <3>2. ASSUME NEW frame \in Frames,
                 Set(e, WithFields([f \in Fields |-> IF f \in DOMAIN j.edit.given
                                                    THEN j.edit.given[f] ELSE frame.header[f]]))
          PROVE  \E fields \in Headers : Set(e, WithFields(fields))
      <4>1. frame.header \in Headers /\ j.edit.given \in Given
        BY <1>0, FrameType, RequestParts DEF States
      <4>2. [f \in Fields |-> IF f \in DOMAIN j.edit.given THEN j.edit.given[f]
                             ELSE frame.header[f]] \in Headers
        BY <4>1 DEF Headers, Given
      <4>3. QED
        BY <3>2, <4>2
    <3>3. QED
      BY <1>2, <3>1, <3>2 DEF FreshHeader
  <2> DEFINE k == WithFields(fields)
  <2>2. k \in Jobs
    <3>1. fields \in Given
      BY DEF Headers, Given
    <3>2. QED
      BY <1>0, <3>1 DEF Jobs
  <2>3. /\ k.pc = "slots" /\ k.edit = j.edit /\ k.cached = j.cached /\ k.known = j.known
        /\ k.plan = j.plan /\ k.fields \in Headers
    BY <1>0 DEF Jobs
  <2> HIDE DEF k
  <2>4. JobOK(k)
    BY <1>1, <2>3 DEF JobOK, Ranging, Believed
  <2>5. QED
    BY <1>0, <2>1, <2>2, <2>4, SetKeeps DEF k
<1>3. CASE ChooseSlots(e)
  <2> DEFINE With(slots, from) == [j EXCEPT !.pc = "oneshot", !.src = from, !.over = FALSE,
                                            !.plan = {[slots |-> slots, header |-> j.fields]}]
  <2> HIDE DEF With
  <2>1. PICK slots \in Vectors, from \in {"cache", "fresh", "nothing"} :
          /\ Set(e, With(slots, from))
          /\ j.cached # {} => slots \in j.cached
    <3>1. j.cached \in AtMostOne(Vectors) /\ device.slots \in Vectors /\ Empty \in Vectors
      BY <1>0 DEF Jobs, History, States, Empty, Vectors
    <3>2. j.cached # {} => Only(j.cached) \in j.cached /\ Only(j.cached) \in Vectors
      BY <3>1, OneOfMany
    <3>3. CASE j.cached # {}
      <4>1. Set(e, With(Only(j.cached), "cache"))
        BY <1>3, <3>3 DEF ChooseSlots, With
      <4>2. QED
        BY <3>2, <3>3, <4>1
    <3>4. CASE j.cached = {}
      <4>1. Set(e, With(device.slots, "fresh")) \/ Set(e, With(Empty, "nothing"))
        BY <1>3, <3>4 DEF ChooseSlots, With
      <4>2. QED
        BY <3>1, <3>4, <4>1
    <3>5. QED
      BY <3>3, <3>4
  <2> USE DEF With
  <2> DEFINE state == [slots |-> slots, header |-> j.fields]
             k == With(slots, from)
  <2>2. state \in States /\ j.fields \in Headers
    BY <1>0, <1>1, <2>1 DEF Ranging, States
  <2>3. /\ k.pc = "oneshot" /\ k.edit = j.edit /\ k.cached = j.cached /\ k.known = j.known
        /\ k.plan = {state} /\ k.fields = j.fields
    BY <1>0 DEF Jobs
  <2>4. Only(k.plan).slots = slots
    <3>1. Only({state}) = state /\ state.slots = slots
      BY OnlyOne
    <3> HIDE DEF k
    <3>2. QED
      BY <2>3, <3>1
  <2>5. k \in Jobs
    <3>1. {state} \in AtMostOne(States)
      BY <2>2, AtMostOneIn
    <3> HIDE DEF state
    <3>2. QED
      BY <1>0, <3>1 DEF Jobs, state
  <2> HIDE DEF k
  <2>6. JobOK(k)
    BY <1>1, <2>1, <2>2, <2>3, <2>4 DEF JobOK, Ranging, Believed
  <2>7. QED
    BY <1>0, <2>1, <2>5, <2>6, SetKeeps DEF k
<1>4. CASE RangeRaises(e)
  <2>1. Set(e, Ended(j, FALSE))
    BY <1>4 DEF RangeRaises
  <2>2. Ended(j, FALSE) \in Jobs /\ JobOK(Ended(j, FALSE))
    BY <1>0, EndedType, EndedOK
  <2>3. QED
    BY <1>0, <2>1, <2>2, SetKeeps
<1>5. QED
  BY <1>2, <1>3, <1>4

\* The one-shot session; a service gets there with its tries used up.
LEMMA OneShotKeeps ==
    ASSUME Inv, NEW e \in Editors, NEW acked \in BOOLEAN, NEW applied \in BOOLEAN,
           OneShot(e, acked, applied) \/ NothingToFallBackOn(e)
    PROVE  Inv'
<1> DEFINE j == J(e)
<1>0. j \in Jobs /\ JobOK(j) /\ j.pc = "oneshot" /\ job[e] # {}
  BY JobType DEF OneShot, NothingToFallBackOn, Busy, J
<1>1. j.edit.kind = "reset" => ~(j.tries < MaxTries)
  BY <1>0, EditAssumption DEF JobOK, Streaming, Streams
<1>2. CASE OneShot(e, acked, applied)
  <2>1. PICK k \in Jobs : k = Ended(j, acked) /\ JobOK(k)'
    BY <1>0, <1>1, EndedType, EndedOK
  <2>2. Write(e, k, applied) /\ j.plan # {}
    BY <1>2, <2>1 DEF OneShot
  <2>3. QED
    BY <1>0, <2>1, <2>2, WriteKeeps
<1>3. CASE NothingToFallBackOn(e)
  <2>1. Set(e, Ended(j, FALSE)) /\ Local
    BY <1>3 DEF NothingToFallBackOn
  <2>2. Ended(j, FALSE) \in Jobs /\ JobOK(Ended(j, FALSE))
    BY <1>0, EndedType, EndedOK
  <2>3. QED
    BY <2>1, <2>2, SetKeeps
<1>4. QED
  BY <1>2, <1>3

LEMMA StepInv == Inv /\ [Next]_vars => Inv'
<1> SUFFICES ASSUME Inv, [Next]_vars PROVE Inv'
  OBVIOUS
<1>1. ASSUME StartRead \/ StartRetry \/ Deliver("poll") \/ DeliverRetry PROVE Inv'
  BY <1>1, ReadKeeps DEF StartRead, StartRetry, DeliverRetry, Readers
<1>2. ASSUME NEW e \in Editors, Begin(e) PROVE Inv'
  BY <1>2, BeginKeeps DEF Begin
<1>3. ASSUME NEW e \in Editors, Edit(e) PROVE Inv'
  BY <1>3, AttemptKeeps, StreamWriteKeeps, ConfirmKeeps, RangeKeeps, OneShotKeeps DEF Edit
<1>4. CASE UNCHANGED vars
  BY <1>4 DEF vars, Inv, History, Recorded, JobOK, Streaming, FromSnapshot, Ranging, Believed, J
<1>5. QED
  BY <1>1, <1>2, <1>3, <1>4 DEF Next

\* The inductive invariant: what every editor is doing, what it has asked for, and
\* what the device, the relay and the snapshot may hold by then (Inv).
THEOREM Invariance == Spec => []Inv
  BY InitInv, StepInv, PTL DEF Spec

-----------------------------------------------------------------------------
(* The properties *)

\* The type invariant.
THEOREM TypeCorrect == Spec => []TypeOK
<1>1. ASSUME NEW T \in AtMostOne(Jobs) PROVE T \subseteq Jobs /\ Cardinality(T) <= 1
  <2>1. Cardinality({}) = 0 /\ \A x \in Jobs : Cardinality({x}) = 1
    BY FS_EmptySet, FS_Singleton
  <2>2. QED
    BY <2>1 DEF AtMostOne
<1>2. Inv => TypeOK
  BY <1>1 DEF Inv, History, Pasts, TypeOK
<1>3. QED
  BY <1>2, Invariance, PTL

\* A reset that reports success without the fallback has seen the cleared slots,
\* unless the read-back failed (_reset_one_device).
THEOREM ResetsAreConfirmed == Spec => []ResetConfirmed
<1>1. Inv => ResetConfirmed
  BY DEF Inv, ResetConfirmed, Busy, J, JobOK, Believed
<1>2. QED
  BY <1>1, Invariance, PTL

\* The device takes another state from the editor whose edit goes on in this step.
LEMMA WriterWrites ==
    ASSUME Inv, [Next]_vars, NEW e \in Editors, Writes(e)
    PROVE  device' = Written(e) /\ J(e).plan # {} /\ job[e] # {}
<1>1. PICK pc \in {"send", "oneshot"} : Busy(e, pc) /\ Only(job'[e]).pc # pc
  BY DEF Writes
<1>2. device' # device /\ job[e] # {}
  BY <1>1 DEF Writes, Busy
<1>3. ASSUME NEW o \in Editors, NEW j, NEW applied \in BOOLEAN, Write(o, j, applied)
      PROVE  o = e /\ device' = Written(e)
  <2>1. applied /\ device' = Only(J(o).plan)
    BY <1>2, <1>3 DEF Write
  <2>2. o # e => FALSE
    <3>1. o # e => job'[e] = {[J(e) EXCEPT !.over = TRUE]}
      BY <1>2, <1>3, <2>1 DEF Write
    <3>2. [J(e) EXCEPT !.over = TRUE].pc = J(e).pc
      BY <1>2, JobType DEF Jobs
    <3>3. o # e => Only(job'[e]).pc = J(e).pc
      BY <3>1, <3>2, OnlyOne
    <3>4. QED
      BY <1>1, <3>3 DEF Busy, J
  <2>3. QED
    BY <2>1, <2>2 DEF Written
<1>4. ASSUME NEW o \in Editors, Edit(o)
      PROVE  \E j : \E applied \in BOOLEAN : Write(o, j, applied)
  <2>1. \/ \E applied \in BOOLEAN : StreamAcked(o, applied) \/ StreamUnacked(o, applied)
        \/ \E acked, applied \in BOOLEAN : OneShot(o, acked, applied)
    BY <1>2, <1>4 DEF Edit, AttemptReads, AttemptUsesSnapshot, AttemptRaises, Confirm, FreshHeader,
                      ChooseSlots, RangeRaises, NothingToFallBackOn, Local
  <2>2. QED
    BY <2>1 DEF StreamAcked, StreamUnacked, OneShot
<1>5. PICK o \in Editors : Edit(o)
  BY <1>2 DEF Next, vars, StartRead, StartRetry, DeliverRetry, Fetch, Deliver, Begin, BeginStream,
              BeginRange, Local
<1>6. device' = Written(e)
  BY <1>3, <1>4, <1>5
<1>7. J(e).plan # {}
  <2>1. o = e
    BY <1>3, <1>4, <1>5
  <2>2. JobOK(J(e)) /\ J(e).pc \in {"send", "oneshot"}
    BY <1>1, <1>2, JobType DEF Busy, J
  <2>3. CASE J(e).pc = "send"
    BY <2>2, <2>3 DEF JobOK, Streaming, Ranging
  <2>4. CASE J(e).pc = "oneshot"
    <3>1. \E acked, applied \in BOOLEAN : OneShot(e, acked, applied)
      BY <1>2, <1>5, <2>1, <2>4
         DEF Edit, AttemptReads, AttemptUsesSnapshot, AttemptRaises, Confirm, FreshHeader,
             ChooseSlots, RangeRaises, NothingToFallBackOn, StreamAcked, StreamUnacked, Busy, J, Local
    <3>2. QED
      BY <3>1 DEF OneShot
  <2>5. QED
    BY <2>2, <2>3, <2>4
<1>8. QED
  BY <1>2, <1>6, <1>7

\* A service whose fields were settled with a snapshot writes, for those the caller
\* left out, the markers of one published snapshot: over all attempts and the fallback,
\* whatever its own reads returned and whatever was published meanwhile.
THEOREM EchoesOneSnapshot == Spec => PublishedEchoed
<1>1. ASSUME Inv, [Next]_vars, NEW e \in Editors, Writes(e), IsStream(e), J(e).known
      PROVE  Echoes(e, past.published)
  <2>1. device' = Only(J(e).plan) /\ J(e).plan # {} /\ Streaming(J(e))
    BY <1>1, WriterWrites, JobType DEF Written, JobOK, IsStream
  <2>2. device'.header = J(e).fields /\ FromSnapshot(J(e))
    BY <1>1, <2>1 DEF Streaming
  <2>3. QED
    BY <2>2 DEF FromSnapshot, Echoes
<1>2. Inv /\ [Next]_vars =>
        [\A e \in Editors :
           Writes(e) /\ IsStream(e) /\ J(e).known => Echoes(e, past.published)]_vars
  BY <1>1
<1>3. QED
  BY <1>2, Invariance, PTL DEF Spec, PublishedEchoed

\* A service that wrote over another editor's slot had not read the slots, or
\* the other wrote between its read and its write.
THEOREM LossNeedsOverlap == Spec => LostSlotsNeedOverlap
<1>1. ASSUME Inv, [Next]_vars, NEW e \in Editors, Writes(e), IsStream(e),
             J(e).src = "fresh", ~J(e).over, NEW s \in Slots \ DOMAIN J(e).edit.patch
      PROVE  device'.slots[s] = device.slots[s]
  <2>1. device' = Only(J(e).plan) /\ J(e).plan # {} /\ Streaming(J(e))
    BY <1>1, WriterWrites, JobType DEF Written, JobOK, IsStream
  <2>2. QED
    BY <1>1, <2>1 DEF Streaming
<1>2. Inv /\ [Next]_vars =>
        [\A e \in Editors :
           Writes(e) /\ IsStream(e) =>
              \/ J(e).src # "fresh" \/ J(e).over
              \/ \A s \in Slots \ DOMAIN J(e).edit.patch : device'.slots[s] = device.slots[s]]_vars
  BY <1>1
<1>3. QED
  BY <1>2, Invariance, PTL DEF Spec, LostSlotsNeedOverlap

\* A slider, the switch and set_battery_range make up no slots once the overrides
\* had been read: the cached ones are kept over failed reads.
THEOREM RangeWipesNothing == Spec => RangeNeverWipes
<1>1. ASSUME Inv, [Next]_vars, NEW e \in Editors, Writes(e), ~IsStream(e), J(e).known
      PROVE  device'.slots \in past.slots
  <2>1. device' = Only(J(e).plan) /\ J(e).plan # {} /\ Ranging(J(e))
    BY <1>1, WriterWrites, JobType DEF Written, JobOK, IsStream
  <2>2. QED
    BY <1>1, <2>1 DEF Ranging
<1>2. Inv /\ [Next]_vars =>
        [\A e \in Editors :
           Writes(e) /\ ~IsStream(e) /\ J(e).known => device'.slots \in past.slots]_vars
  BY <1>1
<1>3. QED
  BY <1>2, Invariance, PTL DEF Spec, RangeNeverWipes

-----------------------------------------------------------------------------
(* The timers of the schedule coordinator (ScheduleRetry) *)

USE DEF Kinds

\* No timer without its handle, and no handle without its timer.
Exact(t) ==
    /\ t.live \in [Kinds -> Nat]
    /\ t.handle \subseteq Kinds
    /\ \A k \in Kinds : t.live[k] = IF k \in t.handle THEN 1 ELSE 0

\* Cancelling keeps timers and handles together, and no timer of the kind is left.
LEMMA CancelExact ==
    ASSUME NEW t, Exact(t), NEW kind \in Kinds
    PROVE  Exact(Cancel(t, kind)) /\ Cancel(t, kind).handle = t.handle \ {kind}
BY DEF Exact, Cancel

\* A timer is set over none.
LEMMA SetExact ==
    ASSUME NEW t, Exact(t), NEW kind \in Kinds, kind \notin t.handle
    PROVE  Exact(SetTimer(t, kind)) /\ SetTimer(t, kind).handle = t.handle \cup {kind}
BY DEF Exact, SetTimer

LEMMA RearmedExact ==
    ASSUME NEW t, Exact(t), NEW kind \in Kinds
    PROVE  Exact(Rearmed(t, kind))
BY CancelExact, SetExact DEF Rearmed

LEMMA NoListenersExact ==
    ASSUME NEW t, Exact(t)
    PROVE  /\ Exact(NoListeners(t))
           /\ NoListeners(t).handle = t.handle \ {"interval", "slot"}
<1>1. /\ Exact(Cancel(t, "interval"))
      /\ Cancel(t, "interval").handle = t.handle \ {"interval"}
  BY CancelExact
<1>2. QED
  BY <1>1, CancelExact DEF NoListeners

\* After the shutdown's cancelling, no timer of any kind is left.
LEMMA NoTimersExact ==
    ASSUME NEW t, Exact(t)
    PROVE  /\ Exact(NoTimers(t))
           /\ \A k \in Kinds : NoTimers(t).live[k] = 0
<1> DEFINE u == NoListeners(t)
           v == Cancel(u, "e2e")
           w == Cancel(v, "retry")
<1>1. Exact(u) /\ u.handle = t.handle \ {"interval", "slot"}
  BY NoListenersExact
<1>2. Exact(v) /\ v.handle = u.handle \ {"e2e"}
  BY <1>1, CancelExact
<1>3. Exact(w) /\ w.handle = v.handle \ {"retry"}
  BY <1>2, CancelExact
<1>4. t.handle \subseteq Kinds
  BY DEF Exact
<1>5. w.handle = {}
  BY <1>1, <1>2, <1>3, <1>4
<1>6. \A k \in Kinds : w.live[k] = 0
  BY <1>3, <1>5 DEF Exact
<1>7. QED
  BY <1>3, <1>6 DEF NoTimers

-----------------------------------------------------------------------------
(* The invariant: timers are exact; after a clean shutdown nothing is left *)

\* What a clean shutdown has left behind, and that it was one.
RetryFinal == ShutdownFinal /\ (clean => phase # "up")

RetryInv ==
    /\ Exact(Now) /\ fetch \in [full : BOOLEAN, e2e : Nat] /\ asked \in BOOLEAN
    /\ RetryFinal

LEMMA BecomeExact ==
    ASSUME NEW t, Exact(t), Become(t)
    PROVE  Exact(Now)' /\ live' = t.live /\ handle' = t.handle
BY DEF Become, Now, Exact

\* A timer that fires takes its handle with it.
LEMMA FiresExact ==
    ASSUME NEW kind \in Kinds, Exact(Now), Fires(kind)
    PROVE  Exact(Now)' /\ (clean => ~RetryFinal)
<1>1. live[kind] = 1 /\ kind \in handle
  BY DEF Exact, Now, Fires
<1>2. Exact(Now)'
  <2>1. CASE kind \in {"interval", "slot"}
    BY <2>1, BecomeExact DEF Fires
  <2>2. CASE kind \notin {"interval", "slot"}
    <3> DEFINE t == [live |-> [live EXCEPT ![kind] = @ - 1], handle |-> handle \ {kind}]
    <3>1. Become(t)
      BY <1>1, <2>2 DEF Fires
    <3>2. Exact(t)
      BY <1>1 DEF Exact, Now
    <3>3. QED
      BY <3>1, <3>2, BecomeExact
  <2>3. QED
    BY <2>1, <2>2
<1>3. clean => ~RetryFinal
  BY <1>1 DEF RetryFinal, ShutdownFinal
<1>4. QED
  BY <1>2, <1>3

LEMMA RetryInit == TimersInit => RetryInv
<1> SUFFICES ASSUME TimersInit PROVE RetryInv
  OBVIOUS
<1>1. Exact(Now)
  BY DEF TimersInit, Exact, Now
<1>2. fetch \in [full : BOOLEAN, e2e : Nat] /\ asked \in BOOLEAN
  BY DEF TimersInit
<1>3. QED
  BY <1>1, <1>2 DEF TimersInit, RetryInv, RetryFinal, ShutdownFinal

\* Each step keeps the invariant; the shutdown is the one that makes it final.
LEMMA RetryStep == RetryInv /\ [TimersNext]_timersVars => RetryInv'
<1> SUFFICES ASSUME RetryInv, [TimersNext]_timersVars PROVE RetryInv'
  OBVIOUS
<1> USE DEF RetryInv
<1>1. ASSUME NEW kind \in {"interval", "retry"}, Poll(kind) PROVE RetryInv'
  <2>1. Fires(kind) /\ Request /\ UNCHANGED <<phase, clean>>
    BY <1>1 DEF Poll
  <2>2. Exact(Now)' /\ ~clean
    BY <1>1, <2>1, FiresExact
  <2>3. QED
    BY <2>1, <2>2 DEF Request, RetryFinal, ShutdownFinal
<1>2. CASE Refresh
  BY <1>2 DEF Refresh, Request, RetryFinal, ShutdownFinal, Exact, Now
<1>3. CASE Fails
  <2>1. Exact(Now)'
    BY <1>3, RearmedExact, BecomeExact DEF Fails
  <2>2. QED
    BY <1>3, <2>1 DEF Fails, FetchOver, RetryFinal, ShutdownFinal
<1>4. ASSUME NEW overrides \in BOOLEAN, Succeeds(overrides) PROVE RetryInv'
  <2> DEFINE t == Cancel(Now, "retry")
  <2>1. Exact(t)
    BY CancelExact
  <2>2. Exact(Cancel(t, "e2e")) /\ Exact(Rearmed(t, "e2e"))
    BY <2>1, CancelExact, RearmedExact
  <2>3. PICK u \in {Cancel(t, "e2e"), Rearmed(t, "e2e"), t} : Become(u)
    BY <1>4 DEF Succeeds
  <2>4. Exact(Now)'
    BY <2>1, <2>2, <2>3, BecomeExact
  <2>5. QED
    BY <1>4, <2>4 DEF Succeeds, FetchOver, RetryFinal, ShutdownFinal
<1>5. CASE RetryOverrides
  <2>1. Exact(Now)' /\ ~clean
    BY <1>5, FiresExact DEF RetryOverrides
  <2>2. QED
    BY <1>5, <2>1 DEF RetryOverrides, RetryFinal, ShutdownFinal
<1>6. ASSUME NEW overrides \in BOOLEAN, RetriedOverrides(overrides) PROVE RetryInv'
  <2>1. Exact(Cancel(Now, "e2e")) /\ Exact(Rearmed(Now, "e2e"))
    BY CancelExact, RearmedExact
  <2>2. PICK u \in {Cancel(Now, "e2e"), Rearmed(Now, "e2e"), Now} :
          Become(u)
    BY <1>6 DEF RetriedOverrides
  <2>3. Exact(Now)'
    BY <2>1, <2>2, BecomeExact
  <2>4. QED
    BY <1>6, <2>3 DEF RetriedOverrides, RetryFinal, ShutdownFinal
<1>7. CASE Options
  <2> DEFINE t == NoListeners(Now)
  <2>1. Exact(t) /\ {"interval", "slot"} \cap t.handle = {}
    BY NoListenersExact
  <2>2. Exact(SetTimer(t, "interval")) /\ "slot" \notin SetTimer(t, "interval").handle
    BY <2>1, SetExact
  <2>3. Exact(SetTimer(SetTimer(t, "interval"), "slot"))
    BY <2>2, SetExact
  <2>4. Exact(Now)'
    BY <1>7, <2>3, BecomeExact DEF Options
  <2>5. QED
    BY <1>7, <2>4 DEF Options, RetryFinal, ShutdownFinal
<1>8. CASE Shutdown
  <2>1. Exact(Now)' /\ live' = NoTimers(Now).live
    BY <1>8, NoTimersExact, BecomeExact DEF Shutdown
  <2>2. \A k \in Kinds : live'[k] = 0
    BY <2>1, NoTimersExact
  <2>3. QED
    BY <1>8, <2>1, <2>2 DEF Shutdown, RetryFinal, ShutdownFinal
<1>9. ASSUME NEW kept \in BOOLEAN, Closed(kept) PROVE RetryInv'
  BY <1>9 DEF Closed, RetryFinal, ShutdownFinal, Exact, Now
<1>10. CASE UNCHANGED timersVars
  BY <1>10 DEF timersVars, RetryFinal, ShutdownFinal, Exact, Now
<1>11. QED
  BY <1>1, <1>2, <1>3, <1>4, <1>5, <1>6, <1>7, <1>8, <1>9, <1>10 DEF TimersNext, FetchEnds

\* The timers and their handles are exact in every state, and stay as they are after
\* a clean shutdown (RetryInv).
THEOREM RetryInvariance == TimersSpec => []RetryInv
BY RetryInit, RetryStep, PTL DEF TimersSpec

-----------------------------------------------------------------------------

\* Whatever polls, retries, options and the shutdown do around each other, every
\* timer that will fire is known by its handle and can be cancelled.
THEOREM EveryTimerHasItsHandle == TimersSpec => []NoOrphan
<1>1. RetryInv => NoOrphan
  BY DEF RetryInv, Exact, Now, NoOrphan
<1>2. QED
  BY <1>1, RetryInvariance, PTL

\* A shutdown with no fetch under way leaves no timer and no fetch, for good.
THEOREM CleanShutdownIsFinal == TimersSpec => []ShutdownFinal
<1>1. RetryInv => ShutdownFinal
  BY DEF RetryInv, RetryFinal
<1>2. QED
  BY <1>1, RetryInvariance, PTL

-----------------------------------------------------------------------------
(* The types of the timers *)

\* What the timers' invariant leaves open: the phase and the counters.
Counted ==
    /\ phase \in {"up", "closing", "down"}
    /\ fetch \in [full : BOOLEAN, e2e : 0 .. 2] /\ asked \in BOOLEAN
    /\ known \in {"nothing", "schedule", "overrides"}
    /\ failures \in 0 .. MaxRetry /\ attempts \in 0 .. 3 /\ clean \in BOOLEAN

LEMMA CountedStep ==
    ASSUME Counted, [TimersNext]_timersVars
    PROVE  Counted'
<1> USE DEF Counted
<1>1. ASSUME NEW kind, Poll(kind) PROVE Counted'
  BY <1>1 DEF Poll, Request
<1>2. CASE Refresh
  BY <1>2 DEF Refresh, Request
<1>3. CASE Fails
  <2>1. failures' \in 0 .. MaxRetry
    BY <1>3, RetryAssumption DEF Fails
  <2>2. QED
    BY <1>3, <2>1 DEF Fails, FetchOver
<1>4. ASSUME NEW overrides \in BOOLEAN, Succeeds(overrides) PROVE Counted'
  <2>1. failures' \in 0 .. MaxRetry /\ attempts' \in 0 .. 3
    BY <1>4, RetryAssumption DEF Succeeds, More
  <2>2. QED
    BY <1>4, <2>1 DEF Succeeds, FetchOver
<1>5. CASE RetryOverrides
  BY <1>5 DEF RetryOverrides
<1>6. ASSUME NEW overrides \in BOOLEAN, RetriedOverrides(overrides) PROVE Counted'
  <2>1. attempts' \in 0 .. 3
    BY <1>6 DEF RetriedOverrides, More
  <2>2. QED
    BY <1>6, <2>1 DEF RetriedOverrides
<1>7. CASE Options
  BY <1>7 DEF Options
<1>8. CASE Shutdown
  BY <1>8 DEF Shutdown
<1>9. ASSUME NEW kept \in BOOLEAN, Closed(kept) PROVE Counted'
  BY <1>9 DEF Closed
<1>10. CASE UNCHANGED timersVars
  BY <1>10 DEF timersVars
<1>11. QED
  BY <1>1, <1>2, <1>3, <1>4, <1>5, <1>6, <1>7, <1>8, <1>9, <1>10 DEF TimersNext, FetchEnds

\* Types: no kind of timer has more than one, and every counter stays within
\* its bound.
THEOREM TimerTypes == TimersSpec => []TimersTypeOK
<1>1. TimersInit => Counted
  <2>1. SUFFICES ASSUME TimersInit PROVE Counted
    OBVIOUS
  <2>2. fetch \in [full : BOOLEAN, e2e : 0 .. 2]
    BY <2>1 DEF TimersInit
  <2>3. 0 \in 0 .. MaxRetry /\ 0 \in 0 .. 3
    BY RetryAssumption
  <2>4. QED
    BY <2>1, <2>2, <2>3 DEF TimersInit, Counted
<1>2. Counted /\ [TimersNext]_timersVars => Counted'
  BY CountedStep
<1>3. RetryInv /\ Counted => TimersTypeOK
  <2>1. RetryInv => live \in [Kinds -> 0 .. MaxLive] /\ handle \subseteq Kinds
    BY RetryAssumption DEF RetryInv, Exact, Now
  <2>2. QED
    BY <2>1 DEF Counted, TimersTypeOK
<1>4. QED
  BY <1>1, <1>2, <1>3, RetryInvariance, PTL DEF TimersSpec

=============================================================================
