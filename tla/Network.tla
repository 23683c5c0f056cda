------------------------------ MODULE Network ------------------------------
(***************************************************************************)
(* The live network selection of `imsforge network' (native/src/           *)
(* network.rs): a run changes two preferences Android keeps for a          *)
(* subscription, the USER mask of allowed networks and the usage setting,  *)
(* and keeps a recovery record so that Restore previous can undo it.       *)
(*                                                                         *)
(* A run is a chain of external commands with no transaction around them.  *)
(* Between any two of them the user can choose other networks in Settings, *)
(* SIMs can move, a subscription can change operator, the run can fail or  *)
(* be killed.  A refusal of the code is a failure like any other: the step *)
(* that would go on is disabled and Fail is what is left.                  *)
(***************************************************************************)
EXTENDS Naturals

CONSTANTS
    Sub,        \* subscription IDs
    Slot,       \* SIM slots
    NoSub,      \* what is in an empty slot
    Plmn,       \* operators (mcc and mnc)
    Damaged,    \* a recovery file that does not parse
    Proc,       \* processes
    UserMasks,  \* the masks considered as the choice of the user
    UserUsages, \* the usage settings considered as the choice of the user
    Windows     \* the unprotected moments explored, among "swap" and "late"

Rat   == {"gsm", "lte", "lte_ca", "nr"}
Usage == {"default", "voice", "data"}
Sim   == [plmn : Plmn, mask : SUBSET Rat, usage : Usage]
\* Older recovery records hold no usage setting.
Saved == [plmn : Plmn, mask : SUBSET Rat, usage : Usage \cup {"unsaved"}]

ASSUME NetworkAssumption ==
    /\ NoSub \notin Sub
    /\ Damaged \notin Saved
    /\ UserMasks \subseteq SUBSET Rat
    /\ UserUsages \subseteq Usage
    /\ Windows \subseteq {"swap", "late"}

VARIABLES
    slot,   \* the subscription in each slot
    plmn,   \* the operator of each subscription
    radio,  \* Android's preferences by subscription: mask and usage
    ours,   \* which of the two hold a value imsforge chose (a history variable)
    saved,  \* the recovery files, by subscription
    job,    \* the runs in progress, by process: each of them holds the lock
    late    \* commands that were given up on and still take effect later

vars == <<slot, plmn, radio, ours, saved, job, late>>

LTE    == {"lte", "lte_ca"}
LTE_NR == LTE \cup {"nr"}

\* Android may represent LTE_CA as LTE when it stores a mask.
Normalize(m) == IF "lte_ca" \in m THEN (m \cup {"lte"}) \ {"lte_ca"} ELSE m
Equivalent(m, n) == Normalize(m) = Normalize(n)

Actions == {"lte", "lte-nr", "restore"}
Pcs     == {"persist", "migrate", "recheck", "usage", "recheck2", "mask", "verify", "drop"}

Init ==
    /\ slot \in [Slot -> Sub \cup {NoSub}]
    /\ \A s, t \in Slot : s # t /\ slot[s] = slot[t] => slot[s] = NoSub
    /\ plmn \in [Sub -> Plmn]
    \* Nothing saved, or the record of an older version, which knew only of the
    \* mask and may have changed it, or a file that was damaged since.
    /\ \E D \in SUBSET Sub :
          /\ saved \in [D -> {Damaged} \cup
                             [plmn : Plmn, mask : UserMasks, usage : {"unsaved"}]]
          /\ \E changed \in SUBSET D :
                /\ ours = [s \in Sub |-> IF s \in changed THEN {"mask"} ELSE {}]
                /\ radio \in [Sub -> [mask : UserMasks \cup {LTE, LTE_NR}, usage : UserUsages]]
                /\ \A s \in Sub : radio[s].mask \in
                      IF s \in changed THEN {LTE, LTE_NR} ELSE UserMasks
    /\ job = [p \in {} |-> {}]
    /\ late = {}
-----------------------------------------------------------------------------
\* The run of p is at pc `at'; it goes on at `next'; it ends, and the kernel
\* drops the lock.
At(p, at)   == p \in DOMAIN job /\ job[p].pc = at
Goto(p, next) == job' = [job EXCEPT ![p].pc = next]
End(p)      == job' = [q \in DOMAIN job \ {p} |-> job[q]]

\* read_sims finds the SIM of the run in its slot (same_sim).
Present(j) == slot[j.slot] = j.sub /\ plmn[j.sub] = j.sim.plmn

\* A fault: a record of an older version is taken as it is.
WantedSavedUsage(action, s) ==
    IF action # "restore" THEN "data" ELSE saved[s].usage

\* The mask and the usage setting an action asks for, given the recovery record
\* of the subscription (read only when restoring).
WantedMask(action, s) ==
    IF action = "restore" THEN saved[s].mask
    ELSE IF action = "lte" THEN LTE ELSE LTE_NR
WantedUsage(action, s) ==
    IF action # "restore" THEN "data"
    ELSE IF saved[s].usage = "unsaved" THEN radio[s].usage ELSE saved[s].usage

\* A fault: a record of an older version is not completed.
AfterAnySaved(s) == IF s \notin DOMAIN saved THEN "persist" ELSE "recheck"

\* Where the recovery record takes the run: there is none yet, there is one of
\* an older version, or it is complete.
AfterSaved(s) ==
    IF s \notin DOMAIN saved THEN "persist"
    ELSE IF saved[s].usage = "unsaved" THEN "migrate" ELSE "recheck"

\* A fault: the run does not mind that another one is in progress.
BeginUnlocked(p, action, sl, s) ==
    /\ p \notin DOMAIN job
    /\ slot[sl] = s
    /\ s \in DOMAIN saved => saved[s] # Damaged /\ saved[s].plmn = plmn[s]
    /\ action = "restore" => s \in DOMAIN saved
    /\ LET j == [pc |-> AfterSaved(s), action |-> action, slot |-> sl, sub |-> s,
                 sim |-> [plmn |-> plmn[s], mask |-> radio[s].mask, usage |-> radio[s].usage],
                 mask |-> WantedMask(action, s), usage |-> WantedUsage(action, s)]
       IN  job' = [q \in DOMAIN job \cup {p} |-> IF q = p THEN j ELSE job[q]]
    /\ UNCHANGED <<slot, plmn, radio, ours, saved, late>>

\* The run takes the lock, reads the SIMs and the recovery record, and knows
\* what it wants.  It refuses a SIM that is not in the slot, a record that is
\* damaged or another operator's, and a restore without a record.
Begin(p, action, sl, s) ==
    /\ DOMAIN job = {}
    /\ slot[sl] = s
    /\ s \in DOMAIN saved => saved[s] # Damaged /\ saved[s].plmn = plmn[s]
    /\ action = "restore" => s \in DOMAIN saved
    /\ job' = [q \in {p} |->
                 [pc |-> AfterSaved(s), action |-> action, slot |-> sl, sub |-> s,
                  sim |-> [plmn |-> plmn[s], mask |-> radio[s].mask, usage |-> radio[s].usage],
                  mask |-> WantedMask(action, s), usage |-> WantedUsage(action, s)]]
    /\ UNCHANGED <<slot, plmn, radio, ours, saved, late>>

\* Files written and removed in the state directory.
Write(s, r) == saved' = [x \in DOMAIN saved \cup {s} |-> IF x = s THEN r ELSE saved[x]]
Remove(s)   == saved' = [x \in DOMAIN saved \ {s} |-> saved[x]]

\* The usage setting of the moment joins a record that has none.
Migrate(p) ==
    /\ At(p, "migrate")
    /\ Write(job[p].sub, [saved[job[p].sub] EXCEPT !.usage = job[p].sim.usage])
    /\ Goto(p, "recheck")
    /\ UNCHANGED <<slot, plmn, radio, ours, late>>

\* The preferences that were read become the recovery record.
Persist(p) ==
    /\ At(p, "persist")
    /\ Write(job[p].sub, job[p].sim)
    /\ Goto(p, "recheck")
    /\ UNCHANGED <<slot, plmn, radio, ours, late>>

\* The SIM is looked for again; a usage setting that already was as wanted when
\* it was first read is not set.
Recheck(p) ==
    /\ At(p, "recheck")
    /\ Present(job[p])
    /\ Goto(p, IF job[p].sim.usage = job[p].usage THEN "recheck2" ELSE "usage")
    /\ UNCHANGED <<slot, plmn, radio, ours, saved, late>>

\* What a command does once it reaches telephony: of is the preference, s whose,
\* undo whether it brings back the value the user had there.
Apply(of, s, value, undo) ==
    /\ radio' = [radio EXCEPT ![s] = [mask  |-> IF of = "mask" THEN value ELSE radio[s].mask,
                                      usage |-> IF of = "usage" THEN value ELSE radio[s].usage]]
    /\ ours' = [ours EXCEPT ![s] = IF undo THEN ours[s] \ {of} ELSE ours[s] \cup {of}]

\* set_usage: the helper names the subscription.
SetUsage(p) ==
    /\ At(p, "usage")
    /\ Apply("usage", job[p].sub, job[p].usage, job[p].action = "restore")
    /\ Goto(p, "recheck2")
    /\ UNCHANGED <<slot, plmn, saved, late>>

\* A fault: the SIM is not looked for again.
NoRecheck2(p) ==
    /\ At(p, "recheck2")
    /\ Goto(p, "mask")
    /\ UNCHANGED <<slot, plmn, radio, ours, saved, late>>

\* The SIM is looked for once more before the slot is written to.
Recheck2(p) ==
    /\ At(p, "recheck2")
    /\ Present(job[p])
    /\ Goto(p, "mask")
    /\ UNCHANGED <<slot, plmn, radio, ours, saved, late>>

\* cmd phone names the slot: the mask goes to whatever subscription is there,
\* as it is or normalized.  The command may also succeed and change nothing.
SetMask(p) ==
    /\ At(p, "mask")
    /\ slot[job[p].slot] # NoSub
    /\ LET to == slot[job[p].slot]
       IN  \/ \E m \in {job[p].mask, Normalize(job[p].mask)} :
                Apply("mask", to, m, job[p].action = "restore" /\ to = job[p].sub)
           \/ UNCHANGED <<radio, ours>>
    /\ Goto(p, "verify")
    /\ UNCHANGED <<slot, plmn, saved, late>>

\* Both preferences are read back; after a restore they are the user's again.
Verify(p) ==
    /\ At(p, "verify")
    /\ Present(job[p])
    /\ Equivalent(radio[job[p].sub].mask, job[p].mask)
    /\ radio[job[p].sub].usage = job[p].usage
    /\ IF job[p].action = "restore" THEN Goto(p, "drop") ELSE End(p)
    /\ ours' = IF job[p].action = "restore" THEN [ours EXCEPT ![job[p].sub] = {}] ELSE ours
    /\ UNCHANGED <<slot, plmn, radio, saved, late>>

\* A confirmed restore removes the recovery record.
DropRecord(p) ==
    /\ At(p, "drop")
    /\ Remove(job[p].sub)
    /\ End(p)
    /\ UNCHANGED <<slot, plmn, radio, ours, late>>

\* The run ends early: a refusal, an error, a kill, a power loss.  (A command
\* that has its effect and then fails is its step and then this one.)
Fail(p) ==
    /\ p \in DOMAIN job
    /\ End(p)
    /\ UNCHANGED <<slot, plmn, radio, ours, saved, late>>
-----------------------------------------------------------------------------
(* the world around *)

\* No run is between its last look at the SIM and the command to the slot,
\* unless what can happen there is to be explored.
Settled == "swap" \in Windows \/ \A p \in DOMAIN job : job[p].pc # "mask"

\* A SIM is taken out of a slot or put into one.
MoveSim(sl, s) ==
    /\ Settled
    /\ slot[sl] # s
    /\ s = NoSub \/ \A t \in Slot : slot[t] # s
    /\ slot' = [slot EXCEPT ![sl] = s]
    /\ UNCHANGED <<plmn, radio, ours, saved, job, late>>

\* A subscription shows another operator.
ChangeOperator(s, x) ==
    /\ Settled
    /\ plmn[s] # x
    /\ plmn' = [plmn EXCEPT ![s] = x]
    /\ UNCHANGED <<slot, radio, ours, saved, job, late>>

\* The user, or Android, chooses other networks or another usage setting.
UserChooses(s, of, value) ==
    /\ radio[s][of] # value
    /\ \E sl \in Slot : slot[sl] = s
    /\ Apply(of, s, value, TRUE)
    /\ UNCHANGED <<slot, plmn, saved, job, late>>

\* A command takes longer than the twelve seconds it is given: the run fails,
\* and the request is still with telephony.  (One at a time is explored.)
GiveUp(p) ==
    /\ "late" \in Windows
    /\ late = {}
    /\ At(p, "usage") \/ (At(p, "mask") /\ slot[job[p].slot] # NoSub)
    /\ late' = {IF At(p, "usage")
                THEN [of |-> "usage", sub |-> job[p].sub, value |-> job[p].usage]
                ELSE [of |-> "mask", sub |-> slot[job[p].slot], value |-> job[p].mask]}
    /\ End(p)
    /\ UNCHANGED <<slot, plmn, radio, ours, saved>>

\* ... which acts on it later.
Land(call) ==
    /\ Apply(call.of, call.sub, call.value, FALSE)
    /\ late' = late \ {call}
    /\ UNCHANGED <<slot, plmn, saved, job>>

RunStep(p) ==
    \/ Migrate(p) \/ Persist(p) \/ Recheck(p) \/ SetUsage(p) \/ Recheck2(p)
    \/ SetMask(p) \/ Verify(p) \/ DropRecord(p) \/ Fail(p) \/ GiveUp(p)

World ==
    \/ \E sl \in Slot, s \in Sub \cup {NoSub} : MoveSim(sl, s)
    \/ \E s \in Sub, x \in Plmn : ChangeOperator(s, x)
    \/ \E s \in Sub, m \in UserMasks : UserChooses(s, "mask", m)
    \/ \E s \in Sub, u \in UserUsages : UserChooses(s, "usage", u)
    \/ \E call \in late : Land(call)

Next ==
    \/ \E p \in Proc :
          \/ \E action \in Actions, sl \in Slot, s \in Sub : Begin(p, action, sl, s)
          \/ RunStep(p)
    \/ World

Spec == Init /\ [][Next]_vars
-----------------------------------------------------------------------------
(* What Restore previous relies on *)

Job  == [pc : Pcs, action : Actions, slot : Slot, sub : Sub, sim : Sim,
         mask : SUBSET Rat, usage : Usage]
Call == [of : {"mask"}, sub : Sub, value : SUBSET Rat]
          \cup [of : {"usage"}, sub : Sub, value : Usage]

\* Every variable keeps its kind of value.
TypeOK ==
    /\ slot \in [Slot -> Sub \cup {NoSub}]
    /\ plmn \in [Sub -> Plmn]
    /\ radio \in [Sub -> [mask : SUBSET Rat, usage : Usage]]
    /\ ours \in [Sub -> SUBSET {"mask", "usage"}]
    /\ DOMAIN saved \subseteq Sub
    /\ \A s \in DOMAIN saved : saved[s] \in Saved \cup {Damaged}
    /\ DOMAIN job \subseteq Proc
    /\ \A p \in DOMAIN job : job[p] \in Job
    /\ late \subseteq Call

\* As long as no recovery record is there, both preferences are the user's own:
\* the record is on disk before the first change, and it goes only when both
\* values are back, whatever fails, moves or is chosen in between ("The original
\* mask and usage priority are saved per subscription ... before the first
\* change", "Restoration returns both values").
UntrackedIsUsers == \A s \in Sub : s \notin DOMAIN saved => ours[s] = {}

\* A record of an older version, which has no usage setting, lies with a usage
\* setting that is still the user's: migration comes before the first change.
UnsavedUsageIsUsers ==
    \A s \in DOMAIN saved :
        saved[s] # Damaged /\ saved[s].usage = "unsaved" => "usage" \notin ours[s]

\* A recovery point is kept: a later selection, a failure, or another run does
\* not replace what was saved, and a damaged record is not silently replaced.
\* Only a record without a usage setting gets one, and a record is removed only
\* by the restore of the very values it holds.
RecoveryKept ==
    [][\A s \in DOMAIN saved :
          \/ s \in DOMAIN saved' /\ saved'[s] = saved[s]
          \/ /\ s \in DOMAIN saved' /\ saved[s] # Damaged
             /\ saved[s].usage = "unsaved"
             /\ saved'[s] = [saved[s] EXCEPT !.usage = saved'[s].usage]
          \/ /\ s \notin DOMAIN saved' /\ saved[s] # Damaged
             /\ \E p \in DOMAIN job :
                   /\ job[p].action = "restore" /\ job[p].sub = s
                   /\ job[p].mask = saved[s].mask /\ job[p].usage = saved[s].usage]_vars
=============================================================================
