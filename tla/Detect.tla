------------------------------- MODULE Detect -------------------------------
(***************************************************************************)
(* Which carriers are in the phone (native/src/detect.rs, cmd_detect in    *)
(* native/src/main.rs, module/service.sh, module/customize.sh).            *)
(*                                                                         *)
(* Telephony publishes numbers, names and states of the SIMs as three      *)
(* properties; `getprop' reads one of them at a time, while the modem      *)
(* fills them in one field at a time.  `detect --save' leaves the carriers *)
(* for the next boot, whose apply runs before the modem is up.  A boot     *)
(* that finds nothing saved falls back on what telephony cached.           *)
(***************************************************************************)
EXTENDS Naturals, Sequences

CONSTANTS
    N,          \* SIM slots
    Sim,        \* SIMs: records of a number (MCCMNC) and a name (SPN)
    NoSim,      \* what is in an empty slot
    None,       \* an empty field of a property
    Generic,    \* carrier_list.pb: carriers by number
    Mvno,       \* carrier_list.pb: carriers by number and name
    NoFile,     \* no saved inventory
    Proc,       \* processes
    MaxBoots,   \* bound: boots explored
    MaxMoves    \* bound: SIMs put in or taken out

Slot   == 1..N
Number == {s.number : s \in Sim}
Name   == {s.name : s \in Sim}
Carriers == {Generic[n] : n \in DOMAIN Generic} \cup {Mvno[s] : s \in DOMAIN Mvno}
\* A carrier with the name its SIM reports.
Resolved == [carrier : Carriers, label : Name \cup {None}]

ASSUME DetectAssumption ==
    /\ N \in Nat \ {0}
    /\ \A s \in Sim : s = [number |-> s.number, name |-> s.name]
    /\ NoSim \notin Sim
    /\ None \notin Number \cup Name
    /\ DOMAIN Generic \subseteq Number
    /\ DOMAIN Mvno \subseteq [number : Number, name : Name]
    /\ \A found \in SUBSET Resolved : NoFile # found
    /\ MaxBoots \in Nat /\ MaxMoves \in Nat

VARIABLES
    phase,      \* "postfs": the boot script; "up": telephony runs
    boots,      \* boots so far
    moves,      \* SIMs moved so far
    slot,       \* the SIM in each slot, as telephony knows it
    numbers,    \* gsm.sim.operator.numeric, split at commas
    names,      \* gsm.sim.operator.alpha, split at commas
    state,      \* gsm.sim.state
    saved,      \* the inventory saved for the next boot
    cached,     \* the carriers telephony has cached configurations of
    settled,    \* history: no SIM has moved since the run that saved `saved' began
    job         \* the run each process is in

vars == <<phase, boots, moves, slot, numbers, names, state, saved, cached, settled, job>>

\* resolve prefers an MVNO of the name the SIM reports.
Resolvable(pair) == pair \in DOMAIN Mvno \/ pair.number \in DOMAIN Generic
Resolve(pair) ==
    [carrier |-> IF pair \in DOMAIN Mvno THEN Mvno[pair] ELSE Generic[pair.number],
     label   |-> pair.name]

\* The carriers of a list of SIMs; a SIM that carrier_list.pb does not know is
\* passed over.
Found(sims) == {Resolve(sims[i]) : i \in {k \in DOMAIN sims : Resolvable(sims[k])}}

\* What is in the phone, as a list of SIMs by slot.
Inserted == [i \in {k \in Slot : slot[k] # NoSim} |-> slot[i]]

\* pair_sims: a slot without a number has no SIM; names count only when the two
\* properties have the same length.
PairSims(nums, nams) ==
    [i \in {k \in DOMAIN nums : nums[k] # None} |->
        [number |-> nums[i], name |-> IF Len(nums) = Len(nams) THEN nams[i] ELSE None]]

\* A fault: the rule of an older version, which did not look at the states.
Usable(sims) == DOMAIN sims # {} /\ \A i \in DOMAIN sims : sims[i].name # None

\* sample_complete: every slot is known to be empty and is, or is ready and has
\* a number and a name.
Complete(sims) ==
    /\ \A i \in Slot :
          CASE state[i] = "ABSENT"  -> i \notin DOMAIN sims
            [] state[i] = "READY"   -> i \in DOMAIN sims /\ sims[i].name # None
            [] state[i] = "UNKNOWN" -> FALSE
    /\ DOMAIN sims \subseteq Slot

\* How many looks in a row have to agree with the one before.
STEADY == 2
-----------------------------------------------------------------------------
(* The runs *)

Idle == [pc |-> "idle", kind |-> "none", nums |-> << >>, sims |-> << >>, prev |-> NoFile,
         steady |-> 0, answer |-> {}, from |-> "none", unmoved |-> FALSE, sure |-> FALSE,
         there |-> {}]

\* At boot the three properties are empty and no modem is up.
Init ==
    /\ phase = "postfs"
    /\ boots = 1
    /\ moves = 0
    /\ slot \in [Slot -> Sim \cup {NoSim}]
    /\ \A i, j \in Slot : i # j /\ slot[i] = slot[j] => slot[i] = NoSim
    /\ numbers = <<None>>
    /\ names = <<None>>
    /\ state = [i \in Slot |-> "UNKNOWN"]
    /\ saved = NoFile
    /\ cached \in {{}, {r.carrier : r \in Found(Inserted)}}
    /\ settled = FALSE
    /\ job = [p \in Proc |-> Idle]

Goto(p, j) == job' = [job EXCEPT ![p] = j]
At(p, pc)  == job[p].pc = pc

\* Only the run of p changes, or the saved inventory with it.
OnlyJob == UNCHANGED <<phase, boots, moves, slot, numbers, names, state, saved, cached, settled>>

\* A run begins: "wait" is service.sh's detect --save --wait, "once" the
\* installer's detect --save, "apply" and "patch" are identify's callers.
Begin(p, kind) ==
    /\ job[p] = Idle
    /\ IF kind = "apply" THEN phase = "postfs" /\ \A q \in Proc : job[q] = Idle
                         ELSE phase = "up"
    /\ Goto(p, [Idle EXCEPT !.pc = "numbers", !.kind = kind, !.unmoved = TRUE,
                            !.sure = settled,
                            !.there = {<<i, slot[i]>> : i \in DOMAIN Inserted}])
    /\ OnlyJob

\* sims(): one getprop, and another.
ReadNumbers(p) ==
    /\ At(p, "numbers")
    /\ Goto(p, [job[p] EXCEPT !.pc = "names", !.nums = numbers])
    /\ OnlyJob

ReadNames(p) ==
    /\ At(p, "names")
    /\ Goto(p, [job[p] EXCEPT !.nums = << >>, !.sims = PairSims(job[p].nums, names),
                              !.pc = CASE job[p].kind = "wait" -> "judge"
                                       [] job[p].kind = "once" -> "complete"
                                       [] OTHER -> "live"])
    /\ OnlyJob

\* A fault: complete samples need not agree.
CountedAll(j) == IF Complete(j.sims) /\ j.steady < STEADY THEN j.steady + 1 ELSE 0

\* settled_sims: a complete sample that agrees with the one before it counts.
Counted(j) == IF Complete(j.sims) /\ j.prev = j.sims THEN j.steady + 1 ELSE 0

\* A fault: one more sample than needed is taken.
JudgeOn(p) ==
    /\ At(p, "judge")
    /\ LET steady == Counted(job[p])
       IN  \/ Goto(p, [job[p] EXCEPT !.pc = "complete", !.steady = steady, !.prev = NoFile])
           \/ /\ steady <= STEADY
              /\ Goto(p, [job[p] EXCEPT !.pc = "numbers", !.steady = steady,
                                        !.prev = job[p].sims])
    /\ OnlyJob

\* Enough samples agreed, or the time is up, and the last one is taken; else
\* another one follows.
Judge(p) ==
    /\ At(p, "judge")
    /\ LET steady == Counted(job[p])
       IN  \/ Goto(p, [job[p] EXCEPT !.pc = "complete", !.steady = steady, !.prev = NoFile])
           \/ /\ steady < STEADY
              /\ Goto(p, [job[p] EXCEPT !.pc = "numbers", !.steady = steady,
                                        !.prev = job[p].sims])
    /\ OnlyJob

\* cmd_detect looks at the states once more; an incomplete list is not saved.
CheckComplete(p) ==
    /\ At(p, "complete")
    /\ Complete(job[p].sims)
    /\ Goto(p, [job[p] EXCEPT !.pc = "save"])
    /\ OnlyJob

\* save.  Two runs may save, and the one that has looked at the SIMs earlier may
\* be the last: other runs are not sure of what they find then.
Save(p) ==
    /\ At(p, "save")
    /\ saved' = Found(job[p].sims)
    /\ settled' = job[p].unmoved
    /\ job' = [q \in Proc |-> IF q = p THEN Idle
                              ELSE [job[q] EXCEPT !.sure = @ /\ job[p].unmoved]]
    /\ UNCHANGED <<phase, boots, moves, slot, numbers, names, state, cached>>

\* identify: a complete sample is the answer, unless carrier_list.pb cannot be
\* read.
Live(p) ==
    /\ At(p, "live")
    /\ \/ /\ Complete(job[p].sims)
          /\ Goto(p, [job[p] EXCEPT !.pc = "answer", !.from = "live",
                                    !.answer = Found(job[p].sims)])
       \/ Goto(p, [job[p] EXCEPT !.pc = "marker"])
    /\ OnlyJob

\* A fault: an empty inventory is no inventory.
NoMarker(p) ==
    /\ At(p, "marker")
    /\ Goto(p, [job[p] EXCEPT !.pc = "saved"])
    /\ OnlyJob

\* The saved file is read: does it say that no carrier was found?
Marker(p) ==
    /\ At(p, "marker")
    /\ Goto(p, IF saved = {} THEN [job[p] EXCEPT !.pc = "answer", !.from = "empty"]
                             ELSE [job[p] EXCEPT !.pc = "saved"])
    /\ OnlyJob

\* It is read again, for its carriers; when there are none, telephony's cache
\* names them, without labels.
Saved(p) ==
    /\ At(p, "saved")
    /\ Goto(p, IF saved \notin {NoFile, {}}
               THEN [job[p] EXCEPT !.pc = "answer", !.from = "saved", !.answer = saved]
               ELSE [job[p] EXCEPT !.pc = "answer", !.from = "cache",
                                   !.answer = {[carrier |-> c, label |-> None] : c \in cached}])
    /\ OnlyJob

\* The run goes on and ends; an apply that gets far enough clears telephony's
\* cache, file by file, and the boot goes on after it.
Finish(p) ==
    /\ At(p, "answer")
    /\ cached' \in IF job[p].kind = "apply" THEN SUBSET cached ELSE {cached}
    /\ phase' = "up"
    /\ Goto(p, Idle)
    /\ UNCHANGED <<boots, moves, slot, numbers, names, state, saved, settled>>

\* A run ends early: an error, a kill, an incomplete inventory.
Fail(p) ==
    /\ job[p] # Idle
    /\ phase' = "up"
    /\ Goto(p, Idle)
    /\ UNCHANGED <<boots, moves, slot, numbers, names, state, saved, cached, settled>>
-----------------------------------------------------------------------------
(* The phone *)

\* The field of slot i becomes v; the property grows as far as that.
Field(prop, i, v) ==
    [k \in DOMAIN prop \cup 1..i |-> IF k = i THEN v ELSE IF k \in DOMAIN prop THEN prop[k] ELSE None]
FieldOf(prop, i) == IF i \in DOMAIN prop THEN prop[i] ELSE None

\* Telephony brings one field of one property up to date.
ReportNumber(i) ==
    LET now == IF slot[i] = NoSim THEN None ELSE slot[i].number
    IN  /\ phase = "up"
        /\ FieldOf(numbers, i) # now
        /\ numbers' = Field(numbers, i, now)
        /\ UNCHANGED <<phase, boots, moves, slot, names, state, saved, cached, settled, job>>

ReportName(i) ==
    LET now == IF slot[i] = NoSim THEN None ELSE slot[i].name
    IN  /\ phase = "up"
        /\ FieldOf(names, i) # now
        /\ names' = Field(names, i, now)
        /\ UNCHANGED <<phase, boots, moves, slot, numbers, state, saved, cached, settled, job>>

\* The state of a slot is known, and telephony caches the configuration of the
\* SIM it found there.
ReportState(i) ==
    /\ phase = "up"
    /\ state[i] = "UNKNOWN"
    /\ state' = [state EXCEPT ![i] = IF slot[i] = NoSim THEN "ABSENT" ELSE "READY"]
    /\ cached' = cached \cup (IF slot[i] # NoSim /\ Resolvable(slot[i])
                              THEN {Resolve(slot[i]).carrier} ELSE {})
    /\ UNCHANGED <<phase, boots, moves, slot, numbers, names, saved, settled, job>>

\* SIMs are elsewhere now: what earlier runs have read may be out of date.
Moved ==
    /\ settled' = FALSE
    /\ job' = [p \in Proc |->
                 IF job[p] = Idle THEN Idle
                 ELSE [job[p] EXCEPT !.unmoved = FALSE, !.sure = FALSE,
                          !.there = @ \cup {<<i, slot'[i]>> : i \in {k \in Slot : slot'[k] # NoSim}}]]

\* A SIM is taken out: its state says so at once, its number and name linger.
Remove(i) ==
    /\ phase = "up"
    /\ moves < MaxMoves
    /\ slot[i] # NoSim
    /\ slot' = [slot EXCEPT ![i] = NoSim]
    /\ state' = [state EXCEPT ![i] = "ABSENT"]
    /\ moves' = moves + 1
    /\ Moved
    /\ UNCHANGED <<phase, boots, numbers, names, saved, cached>>

\* A SIM is put in, once the fields of the one before it are cleared.
Insert(i, s) ==
    /\ phase = "up"
    /\ moves < MaxMoves
    /\ slot[i] = NoSim /\ \A k \in Slot : slot[k] # s
    /\ FieldOf(numbers, i) = None /\ FieldOf(names, i) = None
    /\ slot' = [slot EXCEPT ![i] = s]
    /\ state' = [state EXCEPT ![i] = "UNKNOWN"]
    /\ moves' = moves + 1
    /\ Moved
    /\ UNCHANGED <<phase, boots, numbers, names, saved, cached>>

\* The boot script ends without having run apply.
Skip ==
    /\ phase = "postfs"
    /\ \A p \in Proc : job[p] = Idle
    /\ phase' = "up"
    /\ UNCHANGED <<boots, moves, slot, numbers, names, state, saved, cached, settled, job>>

\* The phone starts again, perhaps with other SIMs, or with other slots.
Reboot(new) ==
    /\ boots < MaxBoots
    /\ new # slot => moves < MaxMoves
    /\ \A i, j \in Slot : i # j /\ new[i] = new[j] => new[i] = NoSim
    /\ boots' = boots + 1
    /\ moves' = IF new = slot THEN moves ELSE moves + 1
    /\ phase' = "postfs"
    /\ slot' = new
    /\ numbers' = <<None>>
    /\ names' = <<None>>
    /\ state' = [i \in Slot |-> "UNKNOWN"]
    /\ settled' = (settled /\ new = slot)
    /\ job' = [p \in Proc |-> Idle]
    /\ UNCHANGED <<saved, cached>>

RunStep(p) ==
    \/ ReadNumbers(p) \/ ReadNames(p) \/ Judge(p) \/ CheckComplete(p) \/ Save(p)
    \/ Live(p) \/ Marker(p) \/ Saved(p) \/ Finish(p) \/ Fail(p)

Next ==
    \/ \E p \in Proc :
          \/ \E kind \in {"wait", "once", "apply", "patch"} : Begin(p, kind)
          \/ RunStep(p)
    \/ \E i \in Slot :
          \/ ReportNumber(i) \/ ReportName(i) \/ ReportState(i)
          \/ Remove(i)
          \/ \E s \in Sim : Insert(i, s)
    \/ Skip
    \/ \E new \in [Slot -> Sim \cup {NoSim}] : Reboot(new)

Spec == Init /\ [][Next]_vars
-----------------------------------------------------------------------------
(* What the next boot relies on *)

\* A run: what it has read so far, how many looks agreed, what it will answer.
IsJob(j) ==
    /\ DOMAIN j = DOMAIN Idle /\ j = [f \in DOMAIN j |-> j[f]]
    /\ j.pc \in {"idle", "numbers", "names", "judge", "complete", "save",
                 "live", "marker", "saved", "answer"}
    /\ j.kind \in {"none", "wait", "once", "apply", "patch"}
    /\ j.nums \in Seq(Number \cup {None}) /\ DOMAIN j.nums \subseteq Slot
    /\ \A i \in DOMAIN j.sims :
          i \in Slot /\ j.sims[i] \in [number : Number, name : Name \cup {None}]
    /\ j.steady \in 0..STEADY
    /\ j.pc \in {"numbers", "names", "judge"} => j.steady < STEADY
    /\ j.answer \subseteq Resolved
    /\ j.unmoved \in BOOLEAN /\ j.sure \in BOOLEAN

\* Every variable keeps its kind of value.
TypeOK ==
    /\ phase \in {"postfs", "up"}
    /\ boots \in 1..MaxBoots \cup {1} /\ moves \in 0..MaxMoves
    /\ slot \in [Slot -> Sim \cup {NoSim}]
    /\ numbers \in Seq(Number \cup {None}) /\ DOMAIN numbers \subseteq Slot
    /\ names \in Seq(Name \cup {None}) /\ DOMAIN names \subseteq Slot
    /\ state \in [Slot -> {"UNKNOWN", "ABSENT", "READY"}]
    /\ saved = NoFile \/ saved \subseteq Resolved
    /\ cached \subseteq Carriers
    /\ settled \in BOOLEAN
    /\ job = [p \in Proc |-> job[p]]
    /\ \A p \in Proc : IsJob(job[p])

\* As long as no SIM has moved since the run that saved it began, the saved
\* inventory names each carrier in the phone, with the label of its own SIM,
\* and no other: a modem that is not through with a slot, or with one of the
\* properties, never leaves a part of the list for the next boot.
SavedIsInventory == settled => saved = Found(Inserted)

\* Whoever asks, at boot or later, while the properties are empty, half filled
\* in or complete, is told of the carriers that are in the phone, if they were
\* saved, no SIM has moved since and no older inventory was saved over them.
IdentifiedIsThere ==
    \A p \in Proc : At(p, "answer") /\ job[p].sure => job[p].answer = Found(Inserted)

\* What settled_sims returns before its time is up pairs each number with the
\* name of the same SIM, one that was in that slot during the run, although
\* SIMs may be exchanged between the two getprops ("carrying one carrier's name
\* against another's number").
SettledIsReal ==
    \A p \in Proc : job[p].steady = STEADY =>
        \A i \in DOMAIN job[p].sims : <<i, job[p].sims[i]>> \in job[p].there

\* What a test says of identify: an empty saved inventory cannot resurrect an
\* old carrier cache.
NoResurrection ==
    [][\A p \in Proc : At(p, "saved") /\ job'[p].from = "cache" => saved # {}]_vars
=============================================================================
