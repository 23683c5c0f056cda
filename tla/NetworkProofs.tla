--------------------------- MODULE NetworkProofs ---------------------------
(***************************************************************************)
(* Theorems about Network, for every set of subscriptions, slots,          *)
(* operators and processes.  What holds in every window (the types, that a *)
(* recovery point is kept, and completed with a value of the user's) is    *)
(* proved without an assumption on Windows; that an untracked subscription *)
(* is the user's needs them shut, its usage setting only one of them.      *)
(***************************************************************************)
EXTENDS Network, TLAPS

-----------------------------------------------------------------------------
(* Steps of a run *)

\* What a run does to its own job, and to nobody else's.
LEMMA GotoEffect ==
    ASSUME TypeOK, NEW p \in DOMAIN job, NEW next \in Pcs, Goto(p, next)
    PROVE  /\ DOMAIN job' = DOMAIN job
           /\ \A q \in DOMAIN job : job'[q] \in Job
           /\ \A q \in DOMAIN job : q # p => job'[q] = job[q]
           /\ job'[p].pc = next
           /\ job'[p].action = job[p].action /\ job'[p].slot = job[p].slot
           /\ job'[p].sub = job[p].sub /\ job'[p].sim = job[p].sim
           /\ job'[p].mask = job[p].mask /\ job'[p].usage = job[p].usage
<1>1. job' = [job EXCEPT ![p] = [job[p] EXCEPT !.pc = next]]
  BY DEF Goto
<1>2. job[p] \in Job
  BY DEF TypeOK
<1> DEFINE new == [job[p] EXCEPT !.pc = next]
<1>3. /\ new \in Job /\ new.pc = next
      /\ new.action = job[p].action /\ new.slot = job[p].slot /\ new.sub = job[p].sub
      /\ new.sim = job[p].sim /\ new.mask = job[p].mask /\ new.usage = job[p].usage
  BY <1>2 DEF Job
<1>4. DOMAIN job' = DOMAIN job /\ job'[p] = new
  BY <1>1
<1>5. \A q \in DOMAIN job : q # p => job'[q] = job[q]
  BY <1>1
<1> HIDE DEF new
<1>6. \A q \in DOMAIN job : job'[q] \in Job
  BY <1>3, <1>4, <1>5 DEF TypeOK
<1> QED
  BY <1>3, <1>4, <1>5, <1>6

\* A run that ends leaves the others as they were.
LEMMA EndEffect ==
    ASSUME TypeOK, NEW p \in DOMAIN job, End(p)
    PROVE  /\ DOMAIN job' = DOMAIN job \ {p}
           /\ \A q \in DOMAIN job' : job'[q] = job[q] /\ job'[q] \in Job
BY DEF End, TypeOK

\* What a command does to the preferences.
LEMMA ApplyEffect ==
    ASSUME TypeOK, NEW of \in {"mask", "usage"}, NEW s \in Sub, NEW value,
           NEW undo \in BOOLEAN,
           of = "mask" => value \in SUBSET Rat,
           of = "usage" => value \in Usage,
           Apply(of, s, value, undo)
    PROVE  /\ radio' \in [Sub -> [mask : SUBSET Rat, usage : Usage]]
           /\ ours' \in [Sub -> SUBSET {"mask", "usage"}]
           /\ \A t \in Sub : t # s => ours'[t] = ours[t]
           /\ ours'[s] = IF undo THEN ours[s] \ {of} ELSE ours[s] \cup {of}
<1> DEFINE new == [mask  |-> IF of = "mask" THEN value ELSE radio[s].mask,
                   usage |-> IF of = "usage" THEN value ELSE radio[s].usage]
<1>1. radio[s] \in [mask : SUBSET Rat, usage : Usage]
  BY DEF TypeOK
<1>2. new \in [mask : SUBSET Rat, usage : Usage]
  BY <1>1
<1>3. radio' = [radio EXCEPT ![s] = new]
  BY DEF Apply
<1> HIDE DEF new
<1>4. radio' \in [Sub -> [mask : SUBSET Rat, usage : Usage]]
  BY <1>2, <1>3 DEF TypeOK
<1>5. /\ ours' \in [Sub -> SUBSET {"mask", "usage"}]
      /\ \A t \in Sub : t # s => ours'[t] = ours[t]
      /\ ours'[s] = IF undo THEN ours[s] \ {of} ELSE ours[s] \cup {of}
  BY DEF Apply, TypeOK
<1> QED
  BY <1>4, <1>5

\* A mask as Android stores it is a mask.
LEMMA NormalMask == \A m \in SUBSET Rat : Normalize(m) \in SUBSET Rat
BY DEF Normalize, Rat

-----------------------------------------------------------------------------
(* Types, exclusion, and what a run knows about its record *)

\* At most one run is in progress.
Alone == \A p, q \in DOMAIN job : p = q

\* What the record of the run's subscription is, from step to step.
RecordSafe(j) ==
    /\ j.pc = "persist" => j.sub \notin DOMAIN saved /\ j.action # "restore"
    /\ j.pc # "persist" => j.sub \in DOMAIN saved /\ saved[j.sub] \in Saved
    /\ j.pc = "migrate" => saved[j.sub].usage = "unsaved"
    /\ j.pc \notin {"persist", "migrate"} => saved[j.sub].usage # "unsaved"
    /\ j.pc # "persist" /\ j.action = "restore" =>
          /\ j.mask = saved[j.sub].mask
          /\ j.usage = IF j.pc = "migrate" THEN j.sim.usage ELSE saved[j.sub].usage
    /\ j.pc = "drop" => j.action = "restore"

RecordsSafe == \A p \in DOMAIN job : RecordSafe(job[p])

LInv == TypeOK /\ Alone /\ RecordsSafe

LEMMA InitLInv == Init => LInv
<1> SUFFICES ASSUME Init PROVE LInv
  OBVIOUS
<1>1. DOMAIN job = {}
  BY DEF Init
<1>2. PICK D \in SUBSET Sub :
          saved \in [D -> {Damaged} \cup [plmn : Plmn, mask : UserMasks, usage : {"unsaved"}]]
  BY DEF Init
<1>3. [plmn : Plmn, mask : UserMasks, usage : {"unsaved"}] \subseteq Saved
  BY NetworkAssumption DEF Saved
<1>4. DOMAIN saved \subseteq Sub /\ \A s \in DOMAIN saved : saved[s] \in Saved \cup {Damaged}
  BY <1>2, <1>3
<1>5. radio \in [Sub -> [mask : SUBSET Rat, usage : Usage]]
  <2>1. UserMasks \cup {LTE, LTE_NR} \subseteq SUBSET Rat /\ UserUsages \subseteq Usage
    BY NetworkAssumption DEF LTE, LTE_NR, Rat
  <2>2. radio \in [Sub -> [mask : UserMasks \cup {LTE, LTE_NR}, usage : UserUsages]]
    BY DEF Init
  <2> QED
    BY <2>1, <2>2
<1>6. ours \in [Sub -> SUBSET {"mask", "usage"}]
  BY DEF Init
<1>7. slot \in [Slot -> Sub \cup {NoSub}] /\ plmn \in [Sub -> Plmn] /\ late = {}
  BY DEF Init
<1> QED
  BY <1>1, <1>4, <1>5, <1>6, <1>7 DEF LInv, TypeOK, Alone, RecordsSafe

\* A run begins alone, with a job of the right kind, knowing its record.
LEMMA BeginJob ==
    ASSUME LInv, NEW p \in Proc, NEW action \in Actions, NEW sl \in Slot, NEW s \in Sub,
           Begin(p, action, sl, s)
    PROVE  LInv'
<1> USE DEF LInv
<1> DEFINE sim == [plmn |-> plmn[s], mask |-> radio[s].mask, usage |-> radio[s].usage]
           new == [pc |-> AfterSaved(s), action |-> action, slot |-> sl, sub |-> s,
                   sim |-> sim, mask |-> WantedMask(action, s), usage |-> WantedUsage(action, s)]
<1>1. radio[s] \in [mask : SUBSET Rat, usage : Usage] /\ plmn[s] \in Plmn
  BY DEF TypeOK
<1>2. sim \in Sim
  BY <1>1 DEF Sim
<1>3. s \in DOMAIN saved => saved[s] \in Saved
  BY DEF Begin, TypeOK
<1>4. action = "restore" => s \in DOMAIN saved
  BY DEF Begin
<1>5. WantedMask(action, s) \in SUBSET Rat
  BY <1>3, <1>4 DEF WantedMask, LTE, LTE_NR, Rat, Saved
<1>6. WantedUsage(action, s) \in Usage
  BY <1>1, <1>3, <1>4 DEF WantedUsage, Saved, Usage
<1>7. AfterSaved(s) \in Pcs
  BY DEF AfterSaved, Pcs
<1>8. new \in Job
  BY <1>2, <1>5, <1>6, <1>7 DEF Job
<1>9. DOMAIN job' = {p} /\ job'[p] = new
  BY DEF Begin
<1>10. RecordSafe(new)
  BY <1>3, <1>4 DEF RecordSafe, AfterSaved, WantedMask, WantedUsage
<1> HIDE DEF new
<1>11. UNCHANGED <<slot, plmn, radio, ours, saved, late>>
  BY DEF Begin
<1>12. TypeOK'
  BY <1>8, <1>9, <1>11 DEF TypeOK
<1>13. RecordSafe(job[p])'
  BY <1>9, <1>10, <1>11 DEF RecordSafe
<1> QED
  BY <1>9, <1>12, <1>13 DEF Alone, RecordsSafe

\* When a run ends, none is left.
LEMMA EndAlone ==
    ASSUME LInv, NEW p \in DOMAIN job, End(p)
    PROVE  DOMAIN job' = {} /\ Alone' /\ RecordsSafe'
BY EndEffect DEF LInv, Alone, RecordsSafe

\* When a run goes on, it is still the only one: what is said of every run is
\* said of it.
LEMMA GotoAlone ==
    ASSUME LInv, NEW p \in DOMAIN job, NEW next \in Pcs, Goto(p, next), RecordSafe(job[p])'
    PROVE  Alone' /\ RecordsSafe' /\ \A q \in DOMAIN job' : job'[q] \in Job
BY GotoEffect DEF LInv, Alone, RecordsSafe

\* Each step of a run keeps what is known of it.
LEMMA RunLInv ==
    ASSUME LInv, NEW p \in Proc, RunStep(p)
    PROVE  LInv'
<1> USE DEF LInv
<1>0. /\ p \in DOMAIN job
      /\ job[p] \in Job /\ RecordSafe(job[p])
  BY DEF RunStep, At, Migrate, Persist, Recheck, SetUsage, Recheck2, SetMask, Verify,
         DropRecord, Fail, GiveUp, TypeOK, RecordsSafe
<1> DEFINE j == job[p]
<1>1. CASE Migrate(p)
  <2>1. j.pc = "migrate" /\ Goto(p, "recheck") /\ j.sub \in DOMAIN saved /\ saved[j.sub] \in Saved
    BY <1>0, <1>1 DEF Migrate, At, RecordSafe
  <2> DEFINE new == [saved[j.sub] EXCEPT !.usage = j.sim.usage]
  <2>2. /\ new \in Saved /\ new.usage = j.sim.usage /\ new.usage # "unsaved"
        /\ new.mask = saved[j.sub].mask
    BY <1>0, <2>1 DEF Saved, Job, Sim, Usage
  <2>3. saved' = [x \in DOMAIN saved \cup {j.sub} |-> IF x = j.sub THEN new ELSE saved[x]]
    BY <1>1 DEF Migrate, Write
  <2> HIDE DEF new
  <2>4. /\ DOMAIN saved' = DOMAIN saved /\ saved'[j.sub] = new
        /\ \A x \in DOMAIN saved : x # j.sub => saved'[x] = saved[x]
    BY <2>1, <2>3
  <2>5. "recheck" \in Pcs
    BY DEF Pcs
  <2>6. RecordSafe(job[p])'
    BY <1>0, <2>1, <2>2, <2>4, <2>5, GotoEffect DEF RecordSafe
  <2>7. TypeOK'
    BY <1>0, <1>1, <2>1, <2>2, <2>4, <2>5, GotoEffect DEF Migrate, TypeOK
  <2> QED
    BY <1>0, <2>1, <2>5, <2>6, <2>7, GotoAlone
<1>2. CASE Persist(p)
  <2>1. j.pc = "persist" /\ Goto(p, "recheck") /\ j.action # "restore" /\ j.sub \in Sub
    BY <1>0, <1>2 DEF Persist, At, RecordSafe, Job
  <2>2. j.sim \in Saved /\ j.sim.usage # "unsaved"
    BY <1>0 DEF Job, Sim, Saved, Usage
  <2>3. saved' = [x \in DOMAIN saved \cup {j.sub} |-> IF x = j.sub THEN j.sim ELSE saved[x]]
    BY <1>2 DEF Persist, Write
  <2>4. /\ DOMAIN saved' = DOMAIN saved \cup {j.sub} /\ saved'[j.sub] = j.sim
        /\ \A x \in DOMAIN saved : x # j.sub => saved'[x] = saved[x]
    BY <2>1, <2>3
  <2>5. "recheck" \in Pcs
    BY DEF Pcs
  <2>6. RecordSafe(job[p])'
    BY <1>0, <2>1, <2>2, <2>4, <2>5, GotoEffect DEF RecordSafe
  <2>7. TypeOK'
    BY <1>0, <1>2, <2>1, <2>2, <2>4, <2>5, GotoEffect DEF Persist, TypeOK
  <2> QED
    BY <1>0, <2>1, <2>5, <2>6, <2>7, GotoAlone
<1>3. CASE Recheck(p)
  <2>1. PICK next \in {"recheck2", "usage"} : Goto(p, next)
    BY <1>3 DEF Recheck
  <2>2. j.pc = "recheck" /\ next \in Pcs
    BY <1>3 DEF Recheck, At, Pcs
  <2>3. RecordSafe(job[p])'
    BY <1>0, <1>3, <2>1, <2>2, GotoEffect DEF RecordSafe, Recheck
  <2>4. TypeOK'
    BY <1>0, <1>3, <2>1, <2>2, GotoEffect DEF Recheck, TypeOK
  <2> QED
    BY <1>0, <2>1, <2>2, <2>3, <2>4, GotoAlone
<1>4. CASE SetUsage(p)
  <2>1. j.pc = "usage" /\ Goto(p, "recheck2") /\ "recheck2" \in Pcs
    BY <1>4 DEF SetUsage, At, Pcs
  <2>2. RecordSafe(job[p])'
    BY <1>0, <1>4, <2>1, GotoEffect DEF RecordSafe, SetUsage
  <2>3. /\ radio' \in [Sub -> [mask : SUBSET Rat, usage : Usage]]
        /\ ours' \in [Sub -> SUBSET {"mask", "usage"}]
    <3>1. Apply("usage", j.sub, j.usage, j.action = "restore")
      BY <1>4 DEF SetUsage
    <3>2. j.sub \in Sub /\ j.usage \in Usage
      BY <1>0 DEF Job
    <3> QED
      BY <3>1, <3>2, ApplyEffect
  <2>4. TypeOK'
    BY <1>0, <1>4, <2>1, <2>3, GotoEffect DEF SetUsage, TypeOK
  <2> QED
    BY <1>0, <2>1, <2>2, <2>4, GotoAlone
<1>5. CASE Recheck2(p)
  <2>1. j.pc = "recheck2" /\ Goto(p, "mask") /\ "mask" \in Pcs
    BY <1>5 DEF Recheck2, At, Pcs
  <2>2. RecordSafe(job[p])'
    BY <1>0, <1>5, <2>1, GotoEffect DEF RecordSafe, Recheck2
  <2>3. TypeOK'
    BY <1>0, <1>5, <2>1, GotoEffect DEF Recheck2, TypeOK
  <2> QED
    BY <1>0, <2>1, <2>2, <2>3, GotoAlone
<1>6. CASE SetMask(p)
  <2>1. j.pc = "mask" /\ Goto(p, "verify") /\ "verify" \in Pcs
    BY <1>6 DEF SetMask, At, Pcs
  <2>2. RecordSafe(job[p])'
    BY <1>0, <1>6, <2>1, GotoEffect DEF RecordSafe, SetMask
  <2>3. /\ radio' \in [Sub -> [mask : SUBSET Rat, usage : Usage]]
        /\ ours' \in [Sub -> SUBSET {"mask", "usage"}]
    <3> DEFINE to == slot[j.slot]
    <3>1. to \in Sub
      BY <1>0, <1>6 DEF SetMask, TypeOK, Job
    <3>2. CASE UNCHANGED <<radio, ours>>
      BY <3>2 DEF TypeOK
    <3>3. ASSUME NEW m \in {j.mask, Normalize(j.mask)},
                 Apply("mask", to, m, j.action = "restore" /\ to = j.sub)
          PROVE  <2>3
      <4>1. m \in SUBSET Rat
        BY <1>0, NormalMask DEF Job
      <4>2. (j.action = "restore" /\ to = j.sub) \in BOOLEAN
        OBVIOUS
      <4> HIDE DEF j, to
      <4> QED
        BY <3>1, <3>3, <4>1, <4>2, ApplyEffect
    <3> QED
      BY <1>6, <3>2, <3>3 DEF SetMask
  <2>4. TypeOK'
    BY <1>0, <1>6, <2>1, <2>3, GotoEffect DEF SetMask, TypeOK
  <2> QED
    BY <1>0, <2>1, <2>2, <2>4, GotoAlone
<1>7. CASE Verify(p)
  <2>1. ours' \in [Sub -> SUBSET {"mask", "usage"}]
    BY <1>7 DEF Verify, TypeOK
  <2>2. CASE j.action = "restore"
    <3>1. j.pc = "verify" /\ Goto(p, "drop") /\ "drop" \in Pcs
      BY <1>7, <2>2 DEF Verify, At, Pcs
    <3>2. RecordSafe(job[p])'
      BY <1>0, <1>7, <2>2, <3>1, GotoEffect DEF RecordSafe, Verify
    <3>3. TypeOK'
      BY <1>0, <1>7, <2>1, <3>1, GotoEffect DEF Verify, TypeOK
    <3> QED
      BY <1>0, <3>1, <3>2, <3>3, GotoAlone
  <2>3. CASE j.action # "restore"
    <3>1. End(p)
      BY <1>7, <2>3 DEF Verify
    <3>2. TypeOK'
      BY <1>0, <1>7, <2>1, <3>1, EndAlone DEF Verify, TypeOK
    <3> QED
      BY <1>0, <3>1, <3>2, EndAlone
  <2> QED
    BY <2>2, <2>3
<1>8. CASE DropRecord(p)
  <2>1. End(p) /\ Remove(j.sub)
    BY <1>8 DEF DropRecord
  <2>2. TypeOK'
    BY <1>0, <1>8, <2>1, EndAlone DEF DropRecord, TypeOK, Remove
  <2> QED
    BY <1>0, <2>1, <2>2, EndAlone
<1>9. CASE Fail(p)
  <2>1. TypeOK'
    BY <1>0, <1>9, EndAlone DEF Fail, TypeOK
  <2> QED
    BY <1>0, <1>9, <2>1, EndAlone DEF Fail
<1>10. CASE GiveUp(p)
  <2>1. late' \subseteq Call
    BY <1>0, <1>10 DEF GiveUp, Call, Job, TypeOK
  <2>2. TypeOK'
    BY <1>0, <1>10, <2>1, EndAlone DEF GiveUp, TypeOK
  <2> QED
    BY <1>0, <1>10, <2>2, EndAlone DEF GiveUp
<1> QED
  BY <1>1, <1>2, <1>3, <1>4, <1>5, <1>6, <1>7, <1>8, <1>9, <1>10 DEF RunStep

\* The world leaves the runs and the records alone.
LEMMA WorldLInv == LInv /\ World => LInv'
<1> SUFFICES ASSUME LInv, World PROVE LInv'
  OBVIOUS
<1> USE DEF LInv
<1>1. UNCHANGED <<saved, job>>
  BY DEF World, MoveSim, ChangeOperator, UserChooses, Land
<1>2. Alone' /\ RecordsSafe'
  BY <1>1 DEF Alone, RecordsSafe, RecordSafe
<1>3. ASSUME NEW sl \in Slot, NEW s \in Sub \cup {NoSub}, MoveSim(sl, s)
      PROVE  TypeOK'
  BY <1>1, <1>3 DEF MoveSim, TypeOK
<1>4. ASSUME NEW s \in Sub, NEW x \in Plmn, ChangeOperator(s, x)
      PROVE  TypeOK'
  BY <1>1, <1>4 DEF ChangeOperator, TypeOK
<1>5. ASSUME NEW s \in Sub, NEW m \in UserMasks, UserChooses(s, "mask", m)
      PROVE  TypeOK'
  <2>1. Apply("mask", s, m, TRUE) /\ m \in SUBSET Rat
    BY <1>5, NetworkAssumption DEF UserChooses
  <2>2. /\ radio' \in [Sub -> [mask : SUBSET Rat, usage : Usage]]
        /\ ours' \in [Sub -> SUBSET {"mask", "usage"}]
    BY <2>1, ApplyEffect
  <2> QED
    BY <1>1, <1>5, <2>2 DEF UserChooses, TypeOK
<1>6. ASSUME NEW s \in Sub, NEW u \in UserUsages, UserChooses(s, "usage", u)
      PROVE  TypeOK'
  <2>1. Apply("usage", s, u, TRUE) /\ u \in Usage
    BY <1>6, NetworkAssumption DEF UserChooses
  <2>2. /\ radio' \in [Sub -> [mask : SUBSET Rat, usage : Usage]]
        /\ ours' \in [Sub -> SUBSET {"mask", "usage"}]
    BY <2>1, ApplyEffect
  <2> QED
    BY <1>1, <1>6, <2>2 DEF UserChooses, TypeOK
<1>7. ASSUME NEW call \in late, Land(call)
      PROVE  TypeOK'
  <2>1. /\ call.of \in {"mask", "usage"} /\ call.sub \in Sub
        /\ call.of = "mask" => call.value \in SUBSET Rat
        /\ call.of = "usage" => call.value \in Usage
    BY DEF TypeOK, Call
  <2>2. Apply(call.of, call.sub, call.value, FALSE)
    BY <1>7 DEF Land
  <2>3. /\ radio' \in [Sub -> [mask : SUBSET Rat, usage : Usage]]
        /\ ours' \in [Sub -> SUBSET {"mask", "usage"}]
    BY <2>1, <2>2, ApplyEffect
  <2> QED
    BY <1>1, <1>7, <2>3 DEF Land, TypeOK
<1> QED
  BY <1>2, <1>3, <1>4, <1>5, <1>6, <1>7 DEF World

LEMMA NextLInv == LInv /\ [Next]_vars => LInv'
<1> SUFFICES ASSUME LInv, [Next]_vars PROVE LInv'
  OBVIOUS
<1>1. CASE UNCHANGED vars
  BY <1>1 DEF vars, LInv, TypeOK, Alone, RecordsSafe, RecordSafe
<1> QED
  BY <1>1, BeginJob, RunLInv, WorldLInv DEF Next

LEMMA LInvariance == Spec => []LInv
BY InitLInv, NextLInv, PTL DEF Spec

\* Every variable keeps its kind of value, whatever runs, moves or is chosen.
THEOREM NetworkTypeCorrect == Spec => []TypeOK
<1>1. LInv => TypeOK
  BY DEF LInv
<1> QED
  BY <1>1, LInvariance, PTL

-----------------------------------------------------------------------------
(* Recovery points are kept, in every window *)

\* A recovery record is changed only to complete one of an older version, and
\* removed only by a restore of the values it holds: a later selection, another
\* run, a failure or a moved SIM never costs the user the recovery point.
THEOREM RecoveryPointsKept == Spec => RecoveryKept
<1> DEFINE Kept(s) ==
      \/ s \in DOMAIN saved' /\ saved'[s] = saved[s]
      \/ /\ s \in DOMAIN saved' /\ saved[s] # Damaged
         /\ saved[s].usage = "unsaved"
         /\ saved'[s] = [saved[s] EXCEPT !.usage = saved'[s].usage]
      \/ /\ s \notin DOMAIN saved' /\ saved[s] # Damaged
         /\ \E p \in DOMAIN job :
               /\ job[p].action = "restore" /\ job[p].sub = s
               /\ job[p].mask = saved[s].mask /\ job[p].usage = saved[s].usage
<1>1. ASSUME LInv, [Next]_vars, NEW s \in DOMAIN saved
      PROVE  Kept(s)
  <2>1. CASE saved' = saved
    BY <1>1, <2>1
  <2>2. ASSUME NEW p \in DOMAIN job, Migrate(p)
        PROVE  Kept(s)
    <3> DEFINE j == job[p]
    <3>1. j.pc = "migrate" /\ RecordSafe(j)
      BY <1>1, <2>2 DEF Migrate, At, LInv, RecordsSafe
    <3>2. /\ j.sub \in DOMAIN saved /\ saved[j.sub] \in Saved
          /\ saved[j.sub].usage = "unsaved" /\ saved[j.sub] # Damaged
      BY <3>1, NetworkAssumption DEF RecordSafe
    <3> DEFINE new == [saved[j.sub] EXCEPT !.usage = j.sim.usage]
    <3>3. saved' = [x \in DOMAIN saved \cup {j.sub} |-> IF x = j.sub THEN new ELSE saved[x]]
      BY <2>2 DEF Migrate, Write
    <3>4. CASE s # j.sub
      BY <1>1, <3>3, <3>4
    <3>5. CASE s = j.sub
      <4>1. new = [saved[j.sub] EXCEPT !.usage = new.usage]
        BY <3>2 DEF Saved
      <4>2. s \in DOMAIN saved' /\ saved'[s] = new
        BY <3>2, <3>3, <3>5
      <4> HIDE DEF new
      <4> QED
        BY <3>2, <3>5, <4>1, <4>2
    <3> QED
      BY <3>4, <3>5
  <2>3. ASSUME NEW p \in DOMAIN job, Persist(p)
        PROVE  Kept(s)
    <3>1. job[p].sub \notin DOMAIN saved
      BY <1>1, <2>3 DEF Persist, At, LInv, RecordsSafe, RecordSafe
    <3> QED
      BY <1>1, <2>3, <3>1 DEF Persist, Write
  <2>4. ASSUME NEW p \in DOMAIN job, DropRecord(p)
        PROVE  Kept(s)
    <3>1. /\ job[p].action = "restore"
          /\ job[p].mask = saved[job[p].sub].mask /\ job[p].usage = saved[job[p].sub].usage
          /\ saved[job[p].sub] # Damaged
      BY <1>1, <2>4, NetworkAssumption DEF DropRecord, At, LInv, RecordsSafe, RecordSafe
    <3>2. CASE s = job[p].sub
      BY <2>4, <3>1, <3>2 DEF DropRecord, Remove
    <3>3. CASE s # job[p].sub
      BY <1>1, <2>4, <3>3 DEF DropRecord, Remove
    <3> QED
      BY <3>2, <3>3
  <2>5. ASSUME NEW p \in Proc, RunStep(p)
        PROVE  saved' = saved \/ (p \in DOMAIN job /\ (Migrate(p) \/ Persist(p) \/ DropRecord(p)))
    BY <2>5 DEF RunStep, Migrate, Persist, Recheck, SetUsage, Recheck2, SetMask, Verify,
                DropRecord, Fail, GiveUp, At
  <2>6. World => saved' = saved
    BY DEF World, MoveSim, ChangeOperator, UserChooses, Land
  <2>7. ASSUME NEW p \in Proc, NEW action \in Actions, NEW sl \in Slot, NEW t \in Sub,
               Begin(p, action, sl, t)
        PROVE  saved' = saved
    BY <2>7 DEF Begin
  <2>8. UNCHANGED vars => saved' = saved
    BY DEF vars
  <2> HIDE DEF Kept
  <2> QED
    BY <1>1, <2>1, <2>2, <2>3, <2>4, <2>5, <2>6, <2>7, <2>8 DEF Next
<1>2. LInv /\ [Next]_vars => [\A s \in DOMAIN saved : Kept(s)]_vars
  BY <1>1
<1> QED
  BY <1>2, LInvariance, PTL DEF Spec, RecoveryKept

-----------------------------------------------------------------------------
(* Records are completed in time, in every window *)

\* A record of an older version, which has no usage setting.
Unsaved(s) == s \in DOMAIN saved /\ saved[s] # Damaged /\ saved[s].usage = "unsaved"

\* No step writes such a record.
LEMMA NoneIsUnsaved ==
    ASSUME LInv, [Next]_vars, NEW s, Unsaved(s)'
    PROVE  Unsaved(s)
<1>1. CASE saved' = saved
  BY <1>1 DEF Unsaved
<1>2. ASSUME NEW p \in DOMAIN job, Migrate(p) PROVE Unsaved(s)
  <2> DEFINE j == job[p]
  <2>1. j.sub \in DOMAIN saved /\ saved[j.sub] \in Saved /\ j.sim.usage # "unsaved"
    BY <1>2 DEF Migrate, At, LInv, RecordsSafe, RecordSafe, TypeOK, Job, Sim, Usage
  <2>2. /\ DOMAIN saved' = DOMAIN saved
        /\ saved'[j.sub].usage = j.sim.usage
        /\ \A x \in DOMAIN saved : x # j.sub => saved'[x] = saved[x]
    BY <1>2, <2>1 DEF Migrate, Write, Saved
  <2> QED
    BY <2>1, <2>2 DEF Unsaved
<1>3. ASSUME NEW p \in DOMAIN job, Persist(p) PROVE Unsaved(s)
  <2> DEFINE j == job[p]
  <2>1. j.sim.usage # "unsaved"
    BY <1>3 DEF LInv, TypeOK, Job, Sim, Usage
  <2>2. /\ DOMAIN saved' = DOMAIN saved \cup {j.sub}
        /\ saved'[j.sub] = j.sim
        /\ \A x \in DOMAIN saved : x # j.sub => saved'[x] = saved[x]
    BY <1>3 DEF Persist, Write
  <2> QED
    BY <2>1, <2>2 DEF Unsaved
<1>4. ASSUME NEW p \in DOMAIN job, DropRecord(p) PROVE Unsaved(s)
  BY <1>4 DEF DropRecord, Remove, Unsaved
<1>5. ASSUME NEW p \in Proc, RunStep(p)
      PROVE  saved' = saved \/ (p \in DOMAIN job /\ (Migrate(p) \/ Persist(p) \/ DropRecord(p)))
  BY <1>5 DEF RunStep, Migrate, Persist, Recheck, SetUsage, Recheck2, SetMask, Verify,
              DropRecord, Fail, GiveUp, At
<1>6. ASSUME ~\E p \in Proc : RunStep(p) PROVE saved' = saved
  BY <1>6 DEF Next, Begin, World, MoveSim, ChangeOperator, UserChooses, Land, vars
<1> QED
  BY <1>1, <1>2, <1>3, <1>4, <1>5, <1>6

\* A usage setting becomes one of ours only when a run is at that step for that
\* very subscription, or a command of such a run lands.
LEMMA UsageFromRun ==
    ASSUME LInv, [Next]_vars, NEW s \in Sub, "usage" \in ours'[s]
    PROVE  \/ "usage" \in ours[s]
           \/ \E p \in DOMAIN job : job[p].pc = "usage" /\ job[p].sub = s
           \/ \E call \in late : call.of = "usage" /\ call.sub = s
<1>0. ours \in [Sub -> SUBSET {"mask", "usage"}] /\ \A p \in DOMAIN job : job[p] \in Job
  BY DEF LInv, TypeOK
<1>a. ASSUME NEW of, NEW t, NEW value, NEW undo \in BOOLEAN, Apply(of, t, value, undo),
             "usage" \notin ours[s]
      PROVE  of = "usage" /\ t = s
  BY <1>0, <1>a DEF Apply
<1>1. ASSUME NEW p \in DOMAIN job, SetUsage(p) PROVE "usage" \in ours[s] \/ (job[p].pc = "usage" /\ job[p].sub = s)
  <2> DEFINE undo == job[p].action = "restore"
  <2>1. Apply("usage", job[p].sub, job[p].usage, undo) /\ job[p].pc = "usage"
    BY <1>1 DEF SetUsage, At
  <2>2. undo \in BOOLEAN
    OBVIOUS
  <2> HIDE DEF undo
  <2> QED
    BY <1>a, <2>1, <2>2
<1>2. ASSUME NEW p \in DOMAIN job, SetMask(p) PROVE "usage" \in ours[s]
  <2> DEFINE undo == job[p].action = "restore" /\ slot[job[p].slot] = job[p].sub
  <2>1. UNCHANGED ours \/ \E m : Apply("mask", slot[job[p].slot], m, undo)
    BY <1>2 DEF SetMask
  <2>2. undo \in BOOLEAN
    OBVIOUS
  <2> HIDE DEF undo
  <2>3. "usage" # "mask"
    OBVIOUS
  <2> QED
    BY <1>a, <2>1, <2>2, <2>3
<1>3. ASSUME NEW p \in DOMAIN job, Verify(p) PROVE "usage" \in ours[s]
  BY <1>0, <1>3 DEF Verify
<1>4. ASSUME NEW t \in Sub, NEW of, NEW value, UserChooses(t, of, value) PROVE "usage" \in ours[s]
  BY <1>0, <1>4 DEF UserChooses, Apply
<1>5. ASSUME NEW call \in late, Land(call)
      PROVE  "usage" \in ours[s] \/ (call.of = "usage" /\ call.sub = s)
  <2>1. Apply(call.of, call.sub, call.value, FALSE)
    BY <1>5 DEF Land
  <2>2. ours' = [ours EXCEPT ![call.sub] = ours[call.sub] \cup {call.of}]
    BY <2>1 DEF Apply
  <2>3. call.of \in {"mask", "usage"} /\ call.sub \in Sub
    BY DEF LInv, TypeOK, Call
  <2> QED
    BY <1>0, <2>2, <2>3
<1>6. ASSUME NEW p \in Proc, RunStep(p)
      PROVE  UNCHANGED ours \/ (p \in DOMAIN job /\ (SetUsage(p) \/ SetMask(p) \/ Verify(p)))
  BY <1>6 DEF RunStep, Migrate, Persist, Recheck, SetUsage, Recheck2, SetMask, Verify,
              DropRecord, Fail, GiveUp, At
<1>7. ASSUME World
      PROVE  \/ UNCHANGED ours
             \/ \E t \in Sub : \E of, value : UserChooses(t, of, value)
             \/ \E call \in late : Land(call)
  BY <1>7 DEF World, MoveSim, ChangeOperator
<1>8. ASSUME ~World, ~\E p \in Proc : RunStep(p) PROVE UNCHANGED ours
  BY <1>8 DEF Next, Begin, vars
<1> QED
  BY <1>1, <1>2, <1>3, <1>4, <1>5, <1>6, <1>7, <1>8

\* A command that is given up on to land later is one of a run at its step.
LEMMA LateFromRun ==
    ASSUME LInv, [Next]_vars, NEW call \in late', call.of = "usage"
    PROVE  \/ call \in late
           \/ \E p \in DOMAIN job : job[p].pc = "usage" /\ job[p].sub = call.sub
<1>1. ASSUME NEW p \in Proc, GiveUp(p)
      PROVE  p \in DOMAIN job /\ job[p].pc = "usage" /\ job[p].sub = call.sub
  BY <1>1 DEF GiveUp, At
<1>2. ASSUME NEW p \in Proc, RunStep(p), ~GiveUp(p) PROVE UNCHANGED late
  BY <1>2 DEF RunStep, Migrate, Persist, Recheck, SetUsage, Recheck2, SetMask, Verify,
              DropRecord, Fail
<1>3. ASSUME ~\E p \in Proc : RunStep(p) PROVE late' \subseteq late
  BY <1>3 DEF Next, Begin, World, MoveSim, ChangeOperator, UserChooses, Land, vars
<1> QED
  BY <1>1, <1>2, <1>3

\* No pending command is about the usage setting of a record that lacks it.
MInv ==
    /\ UnsavedUsageIsUsers
    /\ \A call \in late : call.of = "usage" => ~Unsaved(call.sub)

LEMMA InitMInv == Init => MInv
<1> SUFFICES ASSUME Init PROVE MInv
  OBVIOUS
<1>1. PICK changed \in SUBSET DOMAIN saved :
             ours = [s \in Sub |-> IF s \in changed THEN {"mask"} ELSE {}]
  BY DEF Init
<1>2. DOMAIN saved \subseteq Sub
  BY InitLInv DEF LInv, TypeOK
<1>3. UnsavedUsageIsUsers
  BY <1>1, <1>2 DEF UnsavedUsageIsUsers
<1> QED
  BY <1>3 DEF Init, MInv

LEMMA NextMInv == LInv /\ LInv' /\ MInv /\ [Next]_vars => MInv'
<1> SUFFICES ASSUME LInv, LInv', MInv, [Next]_vars PROVE MInv'
  OBVIOUS
<1>1. ASSUME NEW p \in DOMAIN job, job[p].pc = "usage" PROVE ~Unsaved(job[p].sub)
  BY <1>1 DEF LInv, RecordsSafe, RecordSafe, Unsaved
<1>2. ASSUME NEW s \in DOMAIN saved', saved'[s] # Damaged, saved'[s].usage = "unsaved"
      PROVE  "usage" \notin ours'[s]
  <2>1. s \in Sub
    BY DEF LInv, TypeOK
  <2>2. Unsaved(s)
    BY <1>2, NoneIsUnsaved DEF Unsaved
  <2>3. "usage" \notin ours[s]
    BY <2>2 DEF MInv, UnsavedUsageIsUsers, Unsaved
  <2>4. \A call \in late : call.of = "usage" => call.sub # s
    BY <2>2 DEF MInv
  <2> QED
    BY <1>1, <2>1, <2>2, <2>3, <2>4, UsageFromRun
<1>3. ASSUME NEW call \in late', call.of = "usage" PROVE ~Unsaved(call.sub)'
  BY <1>1, <1>3, LateFromRun, NoneIsUnsaved DEF MInv
<1> QED
  BY <1>2, <1>3 DEF MInv, UnsavedUsageIsUsers

\* A record that lacks the usage setting lies with a usage setting nobody but the
\* user has chosen, so completing it is right; whatever SIM moves, and whatever
\* command lands late.
THEOREM MigrationIsRight == Spec => []UnsavedUsageIsUsers
<1>1. MInv => UnsavedUsageIsUsers
  BY DEF MInv
<1>2. LInv /\ MInv /\ [Next]_vars => LInv' /\ MInv'
  BY NextLInv, NextMInv
<1> QED
  BY <1>1, <1>2, InitLInv, InitMInv, PTL DEF Spec

-----------------------------------------------------------------------------
(* What a SIM that moves at the wrong moment can cost: the mask only *)

\* Without a recovery record, the usage setting is the user's.
UntrackedUsageIsUsers == \A s \in Sub : s \notin DOMAIN saved => "usage" \notin ours[s]

UsageInv ==
    /\ UntrackedUsageIsUsers
    /\ late = {}
    /\ \A p \in DOMAIN job : job[p].pc = "drop" => "usage" \notin ours[job[p].sub]

LEMMA InitUsageInv == Init => UsageInv
BY DEF Init, UsageInv, UntrackedUsageIsUsers

\* Nothing lands late if no command is given up on.
LEMMA NothingLate ==
    ASSUME "late" \notin Windows, late = {}, [Next]_vars
    PROVE  late' = {}
<1>1. ASSUME NEW p \in Proc, RunStep(p) PROVE UNCHANGED late
  BY <1>1 DEF RunStep, Migrate, Persist, Recheck, SetUsage, Recheck2, SetMask, Verify,
              DropRecord, Fail, GiveUp
<1>2. ASSUME ~\E p \in Proc : RunStep(p) PROVE UNCHANGED late
  BY <1>2 DEF Next, Begin, World, MoveSim, ChangeOperator, UserChooses, Land, vars
<1> QED
  BY <1>1, <1>2

\* A record goes only where a confirmed restore drops it.
LEMMA RecordDropped ==
    ASSUME LInv, [Next]_vars, NEW s \in DOMAIN saved, s \notin DOMAIN saved'
    PROVE  \E p \in DOMAIN job : job[p].pc = "drop" /\ job[p].sub = s
<1>1. ASSUME NEW p \in Proc, RunStep(p)
      PROVE  saved' = saved \/ (p \in DOMAIN job /\ (Migrate(p) \/ Persist(p) \/ DropRecord(p)))
  BY <1>1 DEF RunStep, Migrate, Persist, Recheck, SetUsage, Recheck2, SetMask, Verify,
              DropRecord, Fail, GiveUp, At
<1>2. ASSUME ~\E p \in Proc : RunStep(p) PROVE saved' = saved
  BY <1>2 DEF Next, Begin, World, MoveSim, ChangeOperator, UserChooses, Land, vars
<1>3. ASSUME NEW p \in DOMAIN job, Migrate(p) \/ Persist(p) PROVE s \in DOMAIN saved'
  BY <1>3 DEF Migrate, Persist, Write
<1>4. ASSUME NEW p \in DOMAIN job, DropRecord(p) PROVE job[p].pc = "drop" /\ job[p].sub = s
  BY <1>4 DEF DropRecord, At, Remove
<1> QED
  BY <1>1, <1>2, <1>3, <1>4

\* A run that is about to drop its record has confirmed both values, or had done so.
LEMMA DropConfirmed ==
    ASSUME LInv, [Next]_vars, NEW p \in DOMAIN job', job'[p].pc = "drop"
    PROVE  \/ p \in DOMAIN job /\ job[p].pc = "drop" /\ job'[p].sub = job[p].sub
           \/ ours'[job'[p].sub] = {}
<1>1. CASE UNCHANGED job
  BY <1>1
<1>2. ASSUME NEW q \in Proc, RunStep(q)
      PROVE  \/ p \in DOMAIN job /\ job[p].pc = "drop" /\ job'[p].sub = job[p].sub
             \/ ours'[job'[p].sub] = {}
  <2>1. q \in DOMAIN job
    BY <1>2 DEF RunStep, Migrate, Persist, Recheck, SetUsage, Recheck2, SetMask, Verify,
                DropRecord, Fail, GiveUp, At
  <2>2. CASE End(q)
    <3>1. DOMAIN job' = DOMAIN job \ {q} /\ \A r \in DOMAIN job' : job'[r] = job[r]
      BY <2>1, <2>2, EndEffect DEF LInv
    <3> QED
      BY <3>1
  <2>3. ASSUME NEW next \in Pcs, Goto(q, next), next # "drop" \/ Verify(q)
        PROVE  \/ p \in DOMAIN job /\ job[p].pc = "drop" /\ job'[p].sub = job[p].sub
               \/ ours'[job'[p].sub] = {}
    <3>1. /\ DOMAIN job' = DOMAIN job
          /\ \A r \in DOMAIN job : r # q => job'[r] = job[r]
          /\ job'[q].pc = next /\ job'[q].sub = job[q].sub /\ job'[q].action = job[q].action
      BY <2>1, <2>3, GotoEffect DEF LInv
    <3>2. CASE p # q
      BY <3>1, <3>2
    <3>3. CASE p = q
      <4>1. Verify(q) /\ next = "drop"
        BY <2>3, <3>1, <3>3
      <4>2. job[q].action = "restore"
        <5>1. CASE job[q].action # "restore"
          <6>1. End(q)
            BY <4>1, <5>1 DEF Verify
          <6>2. DOMAIN job' = DOMAIN job \ {q}
            BY <2>1, <6>1, EndEffect DEF LInv
          <6> QED
            BY <2>1, <3>1, <6>2
        <5> QED
          BY <5>1
      <4>3. ours' = [ours EXCEPT ![job[q].sub] = {}]
        BY <4>1, <4>2 DEF Verify
      <4>4. job[q].sub \in Sub /\ ours \in [Sub -> SUBSET {"mask", "usage"}]
        BY <2>1 DEF LInv, TypeOK, Job
      <4> QED
        BY <3>1, <3>3, <4>3, <4>4
    <3> QED
      BY <3>2, <3>3
  <2>4. End(q) \/ \E next \in Pcs : Goto(q, next) /\ (next # "drop" \/ Verify(q))
    <3>1. {"recheck", "usage", "recheck2", "mask", "verify", "drop"} \subseteq Pcs
      BY DEF Pcs
    <3> QED
      BY <1>2, <3>1 DEF RunStep, Migrate, Persist, Recheck, SetUsage, Recheck2, SetMask,
                        Verify, DropRecord, Fail, GiveUp
  <2> QED
    BY <2>2, <2>3, <2>4
<1>3. ASSUME NEW q \in Proc, NEW action \in Actions, NEW sl \in Slot, NEW s \in Sub,
             Begin(q, action, sl, s)
      PROVE  FALSE
  BY <1>3 DEF Begin, AfterSaved
<1>4. World => UNCHANGED job
  BY DEF World, MoveSim, ChangeOperator, UserChooses, Land
<1> QED
  BY <1>1, <1>2, <1>3, <1>4 DEF Next, vars

LEMMA NextUsageInv ==
    ASSUME "late" \notin Windows, LInv, LInv', UsageInv, [Next]_vars
    PROVE  UsageInv'
<1>1. ASSUME NEW s \in Sub, "usage" \in ours'[s]
      PROVE  "usage" \in ours[s] \/ \E p \in DOMAIN job : job[p].pc = "usage" /\ job[p].sub = s
  BY <1>1, UsageFromRun DEF UsageInv
<1>2. ASSUME NEW s \in Sub, s \notin DOMAIN saved' PROVE "usage" \notin ours'[s]
  <2>1. \A p \in DOMAIN job : job[p].pc = "usage" => job[p].sub \in DOMAIN saved
    BY DEF LInv, RecordsSafe, RecordSafe
  <2>2. CASE s \notin DOMAIN saved
    BY <1>1, <2>1, <2>2 DEF UsageInv, UntrackedUsageIsUsers
  <2>3. CASE s \in DOMAIN saved
    <3>1. PICK p \in DOMAIN job : job[p].pc = "drop" /\ job[p].sub = s
      BY <1>2, <2>3, RecordDropped
    <3>2. "usage" \notin ours[s] /\ \A q \in DOMAIN job : q = p
      BY <3>1 DEF UsageInv, LInv, Alone
    <3> QED
      BY <1>1, <3>1, <3>2
  <2> QED
    BY <2>2, <2>3
<1>3. ASSUME NEW p \in DOMAIN job', job'[p].pc = "drop" PROVE "usage" \notin ours'[job'[p].sub]
  <2>1. job'[p].sub \in Sub
    BY DEF LInv, TypeOK, Job
  <2>2. CASE p \in DOMAIN job /\ job[p].pc = "drop" /\ job'[p].sub = job[p].sub
    <3>1. "usage" \notin ours[job[p].sub] /\ \A q \in DOMAIN job : q = p
      BY <2>2 DEF UsageInv, LInv, Alone
    <3> QED
      BY <1>1, <2>1, <2>2, <3>1
  <2> QED
    BY <1>3, <2>2, DropConfirmed
<1>4. late' = {}
  BY NothingLate DEF UsageInv
<1> QED
  BY <1>2, <1>3, <1>4 DEF UsageInv, UntrackedUsageIsUsers

\* A SIM that moves between the last look and the command to its slot costs no
\* subscription its usage setting: the helper names the subscription and not the
\* slot, and a restore that was confirmed has put it back.
THEOREM UsageSurvivesMoves == "late" \notin Windows => (Spec => []UntrackedUsageIsUsers)
<1> SUFFICES ASSUME "late" \notin Windows PROVE Spec => []UntrackedUsageIsUsers
  OBVIOUS
<1>1. UsageInv => UntrackedUsageIsUsers
  BY DEF UsageInv
<1>2. LInv /\ UsageInv /\ [Next]_vars => LInv' /\ UsageInv'
  BY NextLInv, NextUsageInv
<1> QED
  BY <1>1, <1>2, InitLInv, InitUsageInv, PTL DEF Spec

-----------------------------------------------------------------------------
(* What is not tracked is the user's *)

\* With no command that lands late, and no SIM that moves between the last look
\* at it and the command to its slot.
WindowsShut ==
    /\ late = {}
    /\ \A p \in DOMAIN job :
          /\ job[p].pc = "mask" => slot[job[p].slot] = job[p].sub
          /\ job[p].pc = "drop" => ours[job[p].sub] = {}

UInv == UntrackedIsUsers /\ WindowsShut

LEMMA InitUInv == Init => UInv
<1> SUFFICES ASSUME Init PROVE UInv
  OBVIOUS
<1>1. PICK changed \in SUBSET DOMAIN saved :
             ours = [s \in Sub |-> IF s \in changed THEN {"mask"} ELSE {}]
  BY DEF Init
<1>2. UntrackedIsUsers
  <2>1. DOMAIN saved \subseteq Sub
    BY InitLInv DEF LInv, TypeOK
  <2>2. \A s \in Sub : ours[s] = IF s \in changed THEN {"mask"} ELSE {}
    BY <1>1
  <2> QED
    BY <2>1, <2>2 DEF UntrackedIsUsers
<1>3. WindowsShut
  BY DEF Init, WindowsShut
<1> QED
  BY <1>2, <1>3 DEF UInv

LEMMA BeginUInv ==
    ASSUME LInv, UInv, NEW p \in Proc, NEW action \in Actions, NEW sl \in Slot, NEW s \in Sub,
           Begin(p, action, sl, s)
    PROVE  UInv'
<1>1. UNCHANGED <<ours, saved, late>>
  BY DEF Begin
<1>2. DOMAIN job' = {p} /\ job'[p].pc = AfterSaved(s)
  BY DEF Begin
<1>3. AfterSaved(s) \notin {"mask", "drop"}
  BY DEF AfterSaved
<1> QED
  BY <1>1, <1>2, <1>3 DEF UInv, UntrackedIsUsers, WindowsShut

\* Each step of a run leaves what is not tracked to the user.
LEMMA RunUInv ==
    ASSUME LInv, UInv, "late" \notin Windows, NEW p \in Proc, RunStep(p)
    PROVE  UInv'
<1> USE DEF LInv, UInv
<1>0. /\ p \in DOMAIN job /\ \A q \in DOMAIN job : q = p
      /\ job[p] \in Job /\ RecordSafe(job[p])
  BY DEF RunStep, At, Migrate, Persist, Recheck, SetUsage, Recheck2, SetMask, Verify,
         DropRecord, Fail, GiveUp, TypeOK, RecordsSafe, Alone
<1> DEFINE j == job[p]
<1>1. /\ j.sub \in Sub /\ j.sim.usage # "unsaved"
      /\ ours \in [Sub -> SUBSET {"mask", "usage"}]
  BY <1>0 DEF Job, Sim, Usage, TypeOK
\* Unless the run is about to write to the slot or to drop the record, the third
\* part of the invariant asks nothing of where it goes.
<1>2. ASSUME NEW next \in Pcs \ {"mask", "drop"}, Goto(p, next), UNCHANGED late
      PROVE  WindowsShut'
  BY <1>0, <1>2, GotoEffect DEF WindowsShut
<1>3. ASSUME End(p), UNCHANGED late
      PROVE  WindowsShut'
  BY <1>0, <1>3, EndAlone DEF WindowsShut
<1>4. CASE Migrate(p)
  <2>1. j.sub \in DOMAIN saved /\ saved[j.sub] \in Saved
    BY <1>0, <1>4 DEF Migrate, At, RecordSafe
  <2>2. /\ DOMAIN saved' = DOMAIN saved
        /\ saved'[j.sub].usage = j.sim.usage
        /\ \A x \in DOMAIN saved : x # j.sub => saved'[x] = saved[x]
    BY <1>4, <2>1 DEF Migrate, Write, Saved
  <2>3. UntrackedIsUsers'
    BY <1>1, <1>4, <2>2 DEF Migrate, UntrackedIsUsers
  <2> QED
    BY <1>2, <1>4, <2>3 DEF Migrate, Pcs
<1>5. CASE Persist(p)
  <2>1. /\ DOMAIN saved' = DOMAIN saved \cup {j.sub}
        /\ saved'[j.sub].usage = j.sim.usage
        /\ \A x \in DOMAIN saved : x # j.sub => saved'[x] = saved[x]
    BY <1>5 DEF Persist, Write
  <2>2. UntrackedIsUsers'
    BY <1>1, <1>5, <2>1 DEF Persist, UntrackedIsUsers
  <2> QED
    BY <1>2, <1>5, <2>2 DEF Persist, Pcs
<1>6. CASE Recheck(p)
  <2>1. UntrackedIsUsers'
    BY <1>6 DEF Recheck, UntrackedIsUsers
  <2> QED
    BY <1>2, <1>6, <2>1 DEF Recheck, Pcs
<1>7. CASE SetUsage(p)
  <2>1. j.sub \in DOMAIN saved /\ saved[j.sub].usage # "unsaved"
    BY <1>0, <1>7 DEF SetUsage, At, RecordSafe
  <2>2. \A t \in Sub : t # j.sub => ours'[t] = ours[t]
    <3>1. Apply("usage", j.sub, j.usage, j.action = "restore") /\ j.usage \in Usage
      BY <1>0, <1>7 DEF SetUsage, Job
    <3> QED
      BY <1>1, <3>1, ApplyEffect
  <2>3. UNCHANGED saved /\ DOMAIN saved \subseteq Sub
    BY <1>7 DEF SetUsage, TypeOK
  <2>4. UntrackedIsUsers'
    BY <2>1, <2>2, <2>3 DEF UntrackedIsUsers
  <2> QED
    BY <1>2, <1>7, <2>4 DEF SetUsage, Pcs
<1>8. CASE Recheck2(p)
  <2>1. UntrackedIsUsers'
    BY <1>8 DEF Recheck2, UntrackedIsUsers
  <2>2. slot[j.slot] = j.sub /\ Goto(p, "mask") /\ "mask" \in Pcs /\ UNCHANGED <<slot, late>>
    BY <1>8 DEF Recheck2, Present, Pcs
  <2>3. WindowsShut'
    BY <1>0, <2>2, GotoEffect DEF WindowsShut
  <2> QED
    BY <2>1, <2>3
<1>9. CASE SetMask(p)
  <2>1. slot[j.slot] = j.sub /\ j.sub \in DOMAIN saved
    BY <1>0, <1>9 DEF SetMask, At, RecordSafe, WindowsShut
  <2>2. /\ \A t \in Sub : t # j.sub => ours'[t] = ours[t]
        /\ "usage" \in ours'[j.sub] => "usage" \in ours[j.sub]
    <3>1. CASE UNCHANGED <<radio, ours>>
      BY <3>1
    <3>2. ASSUME NEW m \in {j.mask, Normalize(j.mask)},
                 Apply("mask", j.sub, m, j.action = "restore" /\ j.sub = j.sub)
          PROVE  <2>2
      <4>1. \/ ours' = [ours EXCEPT ![j.sub] = ours[j.sub] \ {"mask"}]
            \/ ours' = [ours EXCEPT ![j.sub] = ours[j.sub] \cup {"mask"}]
        BY <3>2 DEF Apply
      <4> HIDE DEF j
      <4> QED
        BY <1>1, <4>1
    <3> QED
      BY <1>9, <2>1, <3>1, <3>2 DEF SetMask
  <2>3. UNCHANGED saved /\ DOMAIN saved \subseteq Sub
    BY <1>9 DEF SetMask, TypeOK
  <2>4. UntrackedIsUsers'
    BY <2>1, <2>2, <2>3 DEF UntrackedIsUsers
  <2> QED
    BY <1>2, <1>9, <2>4 DEF SetMask, Pcs
<1>10. CASE Verify(p)
  <2>1. CASE j.action = "restore"
    <3>1. ours' = [ours EXCEPT ![j.sub] = {}] /\ UNCHANGED <<slot, saved, late>>
      BY <1>10, <2>1 DEF Verify
    <3>2. DOMAIN saved \subseteq Sub
      BY DEF TypeOK
    <3>3. UntrackedIsUsers'
      BY <1>1, <3>1, <3>2 DEF UntrackedIsUsers
    <3>4. Goto(p, "drop") /\ "drop" \in Pcs
      BY <1>10, <2>1 DEF Verify, Pcs
    <3>5. WindowsShut'
      BY <1>0, <1>1, <3>1, <3>4, GotoEffect DEF WindowsShut
    <3> QED
      BY <3>3, <3>5
  <2>2. CASE j.action # "restore"
    <3>1. End(p) /\ UNCHANGED <<ours, saved, late>>
      BY <1>10, <2>2 DEF Verify
    <3> QED
      BY <1>3, <3>1 DEF UntrackedIsUsers
  <2> QED
    BY <2>1, <2>2
<1>11. CASE DropRecord(p)
  <2>1. ours[j.sub] = {}
    BY <1>0, <1>11 DEF DropRecord, At, WindowsShut
  <2>2. UntrackedIsUsers'
    BY <1>11, <2>1 DEF DropRecord, Remove, UntrackedIsUsers
  <2> QED
    BY <1>3, <1>11, <2>2 DEF DropRecord
<1>12. CASE Fail(p)
  BY <1>3, <1>12 DEF Fail, UntrackedIsUsers
<1> QED
  BY <1>4, <1>5, <1>6, <1>7, <1>8, <1>9, <1>10, <1>11, <1>12 DEF RunStep, GiveUp

\* The world, with the windows shut, leaves what is not tracked to the user.
LEMMA WorldUInv ==
    ASSUME LInv, UInv, "swap" \notin Windows, World
    PROVE  UInv'
<1> USE DEF LInv, UInv
<1>1. UNCHANGED <<saved, job>> /\ UNCHANGED late
  BY DEF World, MoveSim, ChangeOperator, UserChooses, Land, WindowsShut
<1>2. ASSUME UNCHANGED ours
      PROVE  UntrackedIsUsers'
  BY <1>1, <1>2 DEF UntrackedIsUsers
<1>3. ASSUME NEW sl \in Slot, NEW s \in Sub \cup {NoSub}, MoveSim(sl, s)
      PROVE  UInv'
  <2>1. WindowsShut'
    BY <1>1, <1>3 DEF MoveSim, Settled, WindowsShut
  <2> QED
    BY <1>2, <1>3, <2>1 DEF MoveSim
<1>4. ASSUME NEW s \in Sub, NEW x \in Plmn, ChangeOperator(s, x)
      PROVE  UInv'
  <2>1. WindowsShut'
    BY <1>1, <1>4 DEF ChangeOperator, WindowsShut
  <2> QED
    BY <1>2, <1>4, <2>1 DEF ChangeOperator
<1>5. ASSUME NEW s \in Sub, NEW of \in {"mask", "usage"}, NEW value, UserChooses(s, of, value)
      PROVE  UInv'
  <2>1. ours' = [ours EXCEPT ![s] = ours[s] \ {of}] /\ UNCHANGED slot
    BY <1>5 DEF UserChooses, Apply
  <2>2. /\ ours \in [Sub -> SUBSET {"mask", "usage"}]
        /\ DOMAIN saved \subseteq Sub
        /\ \A q \in DOMAIN job : job[q].sub \in Sub
    BY DEF TypeOK, Job
  <2>3. \A t \in Sub : ours'[t] \subseteq ours[t]
    BY <2>1, <2>2
  <2>4. WindowsShut'
    BY <1>1, <2>1, <2>2, <2>3 DEF WindowsShut
  <2>5. UntrackedIsUsers'
    BY <1>1, <2>2, <2>3 DEF UntrackedIsUsers
  <2> QED
    BY <2>4, <2>5
<1> QED
  BY <1>3, <1>4, <1>5 DEF World, WindowsShut

LEMMA NextUInv ==
    ASSUME Windows = {}, LInv, UInv, [Next]_vars
    PROVE  UInv'
<1>1. CASE UNCHANGED vars
  BY <1>1 DEF vars, UInv, UntrackedIsUsers, WindowsShut
<1> QED
  BY <1>1, BeginUInv, RunUInv, WorldUInv DEF Next

LEMMA UInvariance == Windows = {} => (Spec => []UInv)
<1> SUFFICES ASSUME Windows = {} PROVE Spec => []UInv
  OBVIOUS
<1>1. LInv /\ UInv /\ [Next]_vars => UInv'
  BY NextUInv
<1> QED
  BY InitUInv, LInvariance, <1>1, PTL DEF Spec

\* As long as the two windows of the code are not hit, a subscription without a
\* recovery record has the mask and the usage setting its user chose: every
\* change of imsforge is preceded by a record, and undone before it goes.
THEOREM RestoreUndoesAll == Windows = {} => (Spec => []UntrackedIsUsers)
<1>1. UInv => UntrackedIsUsers
  BY DEF UInv
<1> QED
  BY <1>1, UInvariance, PTL
=============================================================================
