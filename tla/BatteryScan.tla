---------------------------- MODULE BatteryScan ----------------------------
(***************************************************************************)
(* The battery modules of a cabinet: the scan that asks one slot after the *)
(* other over a socket of its own (emaldo_lib/e2e.py read_battery_info),   *)
(* its results in the realtime coordinator, their copy on disk, the        *)
(* sensors of the slots, and the water sensors of further cabinets.        *)
(*                                                                         *)
(* A reply says which module it is of and in which slot (the number with   *)
(* which the slot is asked); it may be lost, or come while a later slot is *)
(* asked.  An empty slot may answer with a short frame or not at all.      *)
(***************************************************************************)
EXTENDS Integers, Sequences, Functions, SequencesExt

CONSTANTS
    Modules,    \* battery modules, by serial number
    Tiers,      \* the slots in the order they are asked, tier by tier
    Cabinet,    \* the cabinet a slot is in
    Cabinets,   \* cabinets an accessory scan asks about (0 .. 3)
    Gate,       \* polls between two scans (60)
    MaxChanges, \* bound: modules put in, taken out or moved
    None

Slots == UNION {ToSet(Tiers[t]) : t \in DOMAIN Tiers}

ASSUME BatteryAssumption ==
    /\ None \notin Modules /\ Gate \in Nat \ {0} /\ MaxChanges \in Nat
    /\ Tiers \in Seq(Seq(Nat) \ {<<>>})
    /\ Cabinets \subseteq Nat /\ 0 \in Cabinets /\ Cabinet \in [Slots -> Cabinets]

VARIABLES
    installed,  \* the module in each slot, or None
    changes,    \* how often that has changed
    scan,       \* the scan under way, or None
    late,       \* replies on their way to its socket
    slots,      \* _battery_module_slots
    full_done,  \* _battery_startup_full_done
    counter,    \* _battery_modules_poll_counter
    store,      \* what was saved of the slots, or None
    water,      \* water_cabinets_created
    held,       \* history: cabinets in which a module has been
    excused     \* history: slots the last full scan had a reason to miss, until
                \* something moves

scanVars == <<installed, changes, scan, late, slots, full_done, counter, store, water, held, excused>>

Info(i) == [serial |-> installed[i], index |-> i, cabinet |-> Cabinet[i]]
Infos == [serial : Modules, index : Slots, cabinet : Cabinets]

\* The slots with a module in them, and their cabinets.
Filled == {i \in Slots : installed[i] # None}
Occupied == {Cabinet[i] : i \in Filled}

\* Nothing in the slots yet.
Empty == [i \in {} |-> None]

ScanInit ==
    /\ installed \in [Slots -> Modules \cup {None}]
    /\ IsInjective(Restrict(installed, Filled))
    /\ changes = 0 /\ scan = None /\ late = {}
    /\ slots = Empty /\ full_done = FALSE /\ counter = Gate - 1 /\ store = None
    /\ water = {0} /\ held = Occupied /\ excused = {}

-----------------------------------------------------------------------------
(* The scan *)

\* Every slot at first, afterwards those in which a module has been found. In a
\* full scan, history: the slots that were silent, and those with a module whose
\* own reply did not come while they were asked.
Begun ==
    LET known == SetToSortSeq(DOMAIN slots, <) IN
    [full |-> ~full_done, rest |-> IF full_done THEN <<known>> ELSE Tiers,
     timeouts |-> 0, found |-> {}, quiet |-> {}, missed |-> {}]

\* A successful poll of the realtime coordinator; one scan at a time.
PollScan ==
    /\ counter' = (counter + 1) % Gate
    /\ IF counter + 1 >= Gate /\ scan = None THEN scan' = Begun /\ late' = {}
                                             ELSE UNCHANGED <<scan, late>>
    /\ UNCHANGED <<installed, changes, slots, full_done, store, water, held, excused>>

Asked == Head(Head(scan.rest))

\* The slot's own reply, if there is a module in it.
Own == {Info(i) : i \in Filled \cap {Asked}}

\* What a probe receives: nothing, a frame too short for an answer, a reply, or
\* an acknowledgement and then, perhaps, one of these.
Ack == [kind |-> "ack"]
Short == [kind |-> "short"]

Received(replies) ==
    LET one == {<<Short>>} \cup {<<r>> : r \in replies} IN
    {<<>>, <<Ack>>, <<Ack, Ack>>} \cup one \cup {<<Ack>> \o x : x \in one}

\* Mutant: a module is taken to be in the slot that was asked.
ProbeIndex(info) == Asked

ScanIndex(info) == info.index

\* The module that a probe reports, if its serial is new to this scan.
Reported(got) ==
    {[r EXCEPT !.index = ScanIndex(r)] :
        r \in {x \in ToSet(got) \ {Ack, Short} : \A f \in scan.found : f.serial # x.serial}}

Timeouts(got) == IF got = <<>> THEN scan.timeouts + 1 ELSE 0

\* What is left to ask: a full scan leaves a tier after two timeouts in a row.
Rest(got) ==
    LET more == Tail(Head(scan.rest)) IN
    IF more = <<>> \/ (scan.full /\ Timeouts(got) >= 2) THEN Tail(scan.rest)
                                                         ELSE <<more>> \o Tail(scan.rest)

\* Mutant: the count is reset once, not for every tier.
CountedOn(got) == Timeouts(got)

\* Timeouts in a row; every tier begins with none.
Counted(got) == IF Len(Rest(got)) < Len(scan.rest) THEN 0 ELSE Timeouts(got)

\* History: the slot that is asked, in a full scan, if so; until something moves.
AskedIf(p) == IF scan.full /\ changes = 0 /\ p THEN {Asked} ELSE {}

\* Replies that came before are dropped; the slot is asked; its own reply is
\* taken, comes later or is lost.
ProbeSlot ==
    /\ scan # None /\ scan.rest # <<>>
    /\ \E pending \in SUBSET late, got \in Received(late \cup Own) :
        /\ ToSet(got) \subseteq pending \cup Own \cup {Ack, Short}
        /\ late' \in {(pending \cup coming) \ ToSet(got) : coming \in {{}, Own}}
        /\ scan' = [scan EXCEPT
                       !.rest = Rest(got),
                       !.timeouts = Counted(got),
                       !.found = @ \cup Reported(got),
                       !.quiet = @ \cup AskedIf(got = <<>>),
                       !.missed = @ \cup AskedIf(~Own \subseteq ToSet(got))]
    /\ UNCHANGED <<installed, changes, slots, full_done, counter, store, water, held, excused>>

-----------------------------------------------------------------------------
(* The coordinator *)

Merged(found) ==
    [i \in DOMAIN slots \cup {f.index : f \in found} |->
        IF \E f \in found : f.index = i THEN CHOOSE f \in found : f.index = i ELSE slots[i]]

\* Two slots in a row before slot i, in its tier, were silent.
CutOff(quiet, i) ==
    \E t \in DOMAIN Tiers : \E n \in DOMAIN Tiers[t] :
        /\ Tiers[t][n] = i
        /\ \E k \in 1 .. n - 2 : Tiers[t][k] \in quiet /\ Tiers[t][k + 1] \in quiet

Excuses == {i \in Filled : i \in scan.missed \/ CutOff(scan.quiet, i)}

\* A scan that has found modules: the slots keep what it did not see.
Land ==
    /\ scan # None /\ scan.rest = <<>> /\ scan.found # {}
    /\ slots' = Merged(scan.found) /\ full_done' = TRUE
    /\ store' \in {slots', store}       \* a failed save changes nothing
    /\ scan' = None /\ late' = {}
    /\ excused' = IF scan.full /\ changes = 0 THEN Excuses ELSE excused
    /\ UNCHANGED <<installed, changes, counter, water, held>>

\* A scan without a result, or one that failed, is due again at the next poll.
Fail ==
    /\ scan # None /\ (scan.rest # <<>> \/ scan.found = {})
    /\ counter' = Gate - 1
    /\ scan' = None /\ late' = {}
    /\ UNCHANGED <<installed, changes, slots, full_done, store, water, held, excused>>

\* The entry is loaded anew: what was saved comes back, if it can be read.
Reload ==
    /\ slots' \in {IF store = None THEN Empty ELSE store, Empty}
    /\ full_done' = FALSE /\ counter' = Gate - 1
    /\ scan' = None /\ late' = {} /\ water' = {0}
    /\ UNCHANGED <<installed, changes, store, held, excused>>

\* One module is put in, taken out or moved.
Change ==
    /\ changes < MaxChanges /\ changes' = changes + 1
    /\ \/ \E i \in Slots, m \in Modules \ Range(installed) :
            installed[i] = None /\ installed' = [installed EXCEPT ![i] = m]
       \/ \E i \in Slots : installed[i] # None /\ installed' = [installed EXCEPT ![i] = None]
       \/ \E i, j \in Slots :
            /\ installed[i] # None /\ installed[j] = None
            /\ installed' = [installed EXCEPT ![i] = None, ![j] = installed[i]]
    /\ held' = held \cup Occupied'
    /\ excused' = {}
    /\ UNCHANGED <<scan, late, slots, full_done, counter, store, water>>

-----------------------------------------------------------------------------
(* The accessories *)

\* Cabinets a scan reaches: it stops after two that are silent in a row.
Reached(answer) ==
    {c \in Cabinets : ~\E d \in Cabinets : d + 1 < c /\ answer[d] = "silent" /\ answer[d + 1] = "silent"}

\* A cabinet counts if the state it answers with bears its own number.
Answering(answer) == {c \in Reached(answer) : answer[c] = "own"}

\* Mutant: what the relay says is enough.
RelayOnly(answer) == Answering(answer) \ {0}

\* A further cabinet needs a battery module that says it is in it.
ConfirmedCabinets(answer) == (Answering(answer) \cap {slots[i].cabinet : i \in DOMAIN slots}) \ {0}

\* "own": the cabinet's number, which the relay may also invent for a cabinet
\* that is not there; "other": the state of another cabinet, as the relay echoes it.
ScanAccessories ==
    /\ \E answer \in [Cabinets -> {"silent", "own", "other"}] :
            water' = water \cup ConfirmedCabinets(answer)
    /\ UNCHANGED <<installed, changes, scan, late, slots, full_done, counter, store, held, excused>>

-----------------------------------------------------------------------------
ScanNext == PollScan \/ ProbeSlot \/ Land \/ Fail \/ Reload \/ Change \/ ScanAccessories

ScanSpec == ScanInit /\ [][ScanNext]_scanVars

-----------------------------------------------------------------------------
ScanTypeOK ==
    /\ installed \in [Slots -> Modules \cup {None}]
    /\ changes \in 0 .. MaxChanges /\ counter \in 0 .. Gate - 1
    /\ late \subseteq Infos /\ Range(slots) \subseteq Infos
    /\ DOMAIN slots \subseteq Slots /\ full_done \in BOOLEAN
    /\ water \cup held \subseteq Cabinets
    /\ scan # None => scan.found \subseteq Infos /\ scan.quiet \cup scan.missed \subseteq Slots
    /\ excused \subseteq Slots

\* The module a slot's sensors show, and the modules whose energy is summed.
Shown(i) == slots[i].serial
Summed == Range(slots)

\* As long as the modules stay where they are, every slot shows the one that is
\* in it: a reply that comes while the next slot is asked moves no module.
ModuleInPlace == changes = 0 => \A i \in DOMAIN slots : installed[i] = Shown(i)

\* The slots whose module no slot shows.
Unseen == {i \in Filled : \A j \in DOMAIN slots : Shown(j) # installed[i]}

\* The first scan that finds a module ends discovery: from then on, as long as
\* the modules stay where they are, none is left out but one whose own reply did
\* not come while its slot was asked, or before whose slot two in a row of its
\* tier were silent; short answers cut nothing off (_async_scan_battery_modules,
\* read_battery_info).
LeftOutForSilence == full_done /\ changes = 0 => Unseen \subseteq excused

\* A further cabinet has a water sensor only if a module has been in it.
CabinetProven == water \ {0} \subseteq held

\* Documented, and contradicted by the code (README, Findings):
\* read_battery_info: "a module installed in the third slot answers at probe
\* index 2 while indices 0-1 stay silent [...] so the full scan walks every
\* tier": a full scan that every module answers at once finds them all.
ThirdSlotFound ==
    scan # None /\ scan.rest = <<>> /\ changes = 0 /\ scan.full /\ scan.missed = {} =>
        {f.serial : f \in scan.found} = Range(installed) \ {None}

=============================================================================
