---------------------------- MODULE DetectProofs ----------------------------
(***************************************************************************)
(* Proofs about Detect, for any number of slots, SIMs and processes: what  *)
(* is saved for the next boot, and what a run is told, is what is in the   *)
(* phone.                                                                  *)
(***************************************************************************)
EXTENDS Detect, SequenceTheorems, TLAPS

\* The modem never claims more than is there, and leaves no field of one SIM to
\* the next.
PhoneTells ==
    \A i \in Slot :
        /\ state[i] = "READY" => slot[i] # NoSim
        /\ state[i] = "ABSENT" => slot[i] = NoSim
        /\ slot[i] # NoSim => /\ FieldOf(numbers, i) \in {None, slot[i].number}
                              /\ FieldOf(names, i) \in {None, slot[i].name}

\* What a run has read, if no SIM has moved since it began, may lack a part of a
\* SIM and has nothing of another one; what it is about to save lacks nothing.
ReadsTrue(j) ==
    j.unmoved =>
        /\ \A i \in DOMAIN j.nums :
              slot[i] # NoSim => j.nums[i] \in {None, slot[i].number}
        /\ \A i \in DOMAIN j.sims :
              slot[i] # NoSim => /\ j.sims[i].number = slot[i].number
                                 /\ j.sims[i].name \in {None, slot[i].name}
        /\ j.pc = "save" => Found(j.sims) = Found(Inserted)

\* What a run that may rely on the saved inventory knows.
KnowsSaved(j) ==
    /\ j.pc # "answer" => j.answer = {}
    /\ j.sure => /\ j.unmoved
                 /\ saved = Found(Inserted)
                 /\ j.pc = "saved" => Found(Inserted) # {}
                 /\ j.pc = "answer" => j.answer = Found(Inserted)

IInv ==
    /\ TypeOK
    /\ PhoneTells
    /\ SavedIsInventory
    /\ \A p \in Proc : ReadsTrue(job[p]) /\ KnowsSaved(job[p])
-----------------------------------------------------------------------------
(* The operators *)

USE DEF Slot

LEMMA FoundResolved ==
    ASSUME NEW sims,
           \A i \in DOMAIN sims : /\ sims[i].number \in Number
                                  /\ sims[i].name \in Name \cup {None}
    PROVE  Found(sims) \subseteq Resolved
<1> SUFFICES ASSUME NEW i \in DOMAIN sims, Resolvable(sims[i])
             PROVE  Resolve(sims[i]) \in Resolved
  BY DEF Found
<1>1. CASE sims[i] \in DOMAIN Mvno
  BY <1>1 DEF Resolve, Resolved, Carriers
<1>2. CASE sims[i] \notin DOMAIN Mvno
  <2>1. sims[i].number \in DOMAIN Generic
    BY <1>2 DEF Resolvable
  <2> QED
    BY <1>2, <2>1 DEF Resolve, Resolved, Carriers
<1> QED
  BY <1>1, <1>2

LEMMA InsertedResolved == TypeOK => Found(Inserted) \subseteq Resolved
<1> SUFFICES ASSUME TypeOK PROVE Found(Inserted) \subseteq Resolved
  OBVIOUS
<1>1. \A i \in DOMAIN Inserted : Inserted[i] \in Sim
  BY DEF Inserted, TypeOK
<1> QED
  BY <1>1, FoundResolved DEF Number, Name

\* A field brought up to date, and no other one.
LEMMA FieldWritten ==
    ASSUME NEW S, None \in S, NEW prop \in Seq(S), DOMAIN prop \subseteq Slot,
           NEW i \in Slot, NEW v \in S
    PROVE  /\ Field(prop, i, v) \in Seq(S)
           /\ DOMAIN Field(prop, i, v) \subseteq Slot
           /\ \A k \in Slot : FieldOf(Field(prop, i, v), k)
                                 = IF k = i THEN v ELSE FieldOf(prop, k)
<1> DEFINE m == IF i > Len(prop) THEN i ELSE Len(prop)
<1>1. DOMAIN prop = 1..Len(prop) /\ Len(prop) \in Nat
  OBVIOUS
<1>2. m \in Nat /\ DOMAIN prop \cup 1..i = 1..m
  BY <1>1
<1>3. \A k \in DOMAIN prop : prop[k] \in S
  OBVIOUS
<1>4. Field(prop, i, v) \in [1..m -> S]
  BY <1>2, <1>3 DEF Field
<1>5. Field(prop, i, v) \in Seq(S)
  BY <1>2, <1>4, SeqDef
<1>6. DOMAIN Field(prop, i, v) \subseteq Slot
  BY <1>1, <1>2, <1>4, DetectAssumption
<1>7. \A k \in Slot : FieldOf(Field(prop, i, v), k)
                         = IF k = i THEN v ELSE FieldOf(prop, k)
  BY <1>2 DEF FieldOf, Field
<1> QED
  BY <1>5, <1>6, <1>7

\* A list that lacks nothing, read while no SIM moved, is what is in the phone.
LEMMA CompleteIsInserted ==
    ASSUME IInv, NEW j, IsJob(j), ReadsTrue(j), j.unmoved, Complete(j.sims)
    PROVE  Found(j.sims) = Found(Inserted)
<1>1. \A i \in Slot : slot[i] \in Sim \cup {NoSim} /\ state[i] \in {"UNKNOWN", "ABSENT", "READY"}
  BY DEF IInv, TypeOK
<1>2. DOMAIN j.sims = DOMAIN Inserted
  BY <1>1 DEF IInv, PhoneTells, Complete, Inserted
<1>3. ASSUME NEW i \in DOMAIN j.sims
      PROVE  /\ slot[i] \in Sim
             /\ j.sims[i].number = slot[i].number /\ j.sims[i].name = slot[i].name
             /\ Inserted[i] = slot[i]
  <2>1. i \in Slot /\ slot[i] # NoSim /\ Inserted[i] = slot[i]
    BY <1>2, <1>3 DEF Inserted
  <2>2. state[i] = "READY"
    BY <1>1, <2>1 DEF Complete, IInv, PhoneTells
  <2>3. j.sims[i].name # None
    BY <2>1, <2>2 DEF Complete
  <2> QED
    BY <1>1, <2>1, <2>3 DEF ReadsTrue
<1>4. ASSUME NEW i \in DOMAIN j.sims PROVE Inserted[i] = j.sims[i]
  <2>1. j.sims[i] = [number |-> j.sims[i].number, name |-> j.sims[i].name]
    BY DEF IsJob
  <2> QED
    BY <1>3, <2>1, DetectAssumption
<1> QED
  BY <1>2, <1>4 DEF Found
-----------------------------------------------------------------------------
(* The runs *)

\* No run is a run that knows nothing.
LEMMA IdleKnows == IsJob(Idle) /\ ReadsTrue(Idle) /\ KnowsSaved(Idle)
<1>1. /\ Idle.pc = "idle" /\ Idle.kind = "none" /\ Idle.nums = << >> /\ Idle.sims = << >>
      /\ Idle.steady = 0 /\ Idle.answer = {} /\ Idle.unmoved = FALSE /\ Idle.sure = FALSE
  BY DEF Idle
<1>2. Idle = [f \in DOMAIN Idle |-> Idle[f]]
  BY DEF Idle
<1>3. << >> \in Seq(Number \cup {None}) /\ DOMAIN << >> = {}
  OBVIOUS
<1>4. Idle.nums \in Seq(Number \cup {None}) /\ DOMAIN Idle.nums \subseteq Slot /\ DOMAIN Idle.sims = {}
  BY <1>1, <1>3
<1>5. IsJob(Idle)
  <2>1. Idle.unmoved \in BOOLEAN /\ Idle.sure \in BOOLEAN
    BY <1>1, Zenon
  <2>2. Idle.steady \in 0..STEADY
    BY <1>1 DEF STEADY
  <2> QED
    BY <1>1, <1>2, <1>4, <2>1, <2>2 DEF IsJob
<1>6. ReadsTrue(Idle)
  BY <1>1 DEF ReadsTrue
<1>7. KnowsSaved(Idle)
  BY <1>1 DEF KnowsSaved
<1> QED
  BY <1>5, <1>6, <1>7

\* A step that changes nothing but the run of one process.
LEMMA JobStep ==
    ASSUME IInv, OnlyJob, NEW p \in Proc, NEW j, Goto(p, j),
           IsJob(j), ReadsTrue(j), KnowsSaved(j)
    PROVE  IInv'
<1>1. /\ UNCHANGED <<phase, boots, moves, slot, numbers, names, state, saved, cached, settled>>
      /\ Inserted' = Inserted
  BY DEF OnlyJob, Inserted
<1>2. /\ job' = [q \in Proc |-> job'[q]]
      /\ \A q \in Proc : job'[q] = IF q = p THEN j ELSE job[q]
  BY DEF Goto, IInv, TypeOK
<1>3. \A q \in Proc : IsJob(job'[q])
  BY <1>2 DEF IInv, TypeOK
<1>4. TypeOK'
  BY <1>1, <1>2, <1>3 DEF IInv, TypeOK
<1>5. PhoneTells' /\ SavedIsInventory'
  BY <1>1 DEF IInv, PhoneTells, SavedIsInventory
<1>6. ASSUME NEW q \in Proc PROVE ReadsTrue(job[q])' /\ KnowsSaved(job[q])'
  <2>1. ReadsTrue(job'[q]) /\ KnowsSaved(job'[q])
    BY <1>2 DEF IInv
  <2> QED
    BY <1>1, <2>1 DEF ReadsTrue, KnowsSaved
<1> QED
  BY <1>4, <1>5, <1>6 DEF IInv

LEMMA BeginIInv ==
    ASSUME IInv, NEW p \in Proc, NEW kind \in {"wait", "once", "apply", "patch"},
           Begin(p, kind)
    PROVE  IInv'
<1>1. PICK seen : Goto(p, [Idle EXCEPT !.pc = "numbers", !.kind = kind, !.unmoved = TRUE,
                                       !.sure = settled, !.there = seen])
  BY DEF Begin
<1> DEFINE j == [Idle EXCEPT !.pc = "numbers", !.kind = kind, !.unmoved = TRUE,
                             !.sure = settled, !.there = seen]
<1>2. DOMAIN j = DOMAIN Idle /\ j = [f \in DOMAIN j |-> j[f]]
  BY DEF Idle
<1>3. /\ j.pc = "numbers" /\ j.kind = kind /\ j.nums = << >> /\ j.sims = << >>
      /\ j.steady = 0 /\ j.answer = {} /\ j.unmoved = TRUE /\ j.sure = settled
  BY DEF Idle
<1> HIDE DEF j
<1>4. IsJob(j)
  <2>1. << >> \in Seq(Number \cup {None}) /\ DOMAIN << >> = {}
    OBVIOUS
  <2>2. settled \in BOOLEAN
    BY DEF IInv, TypeOK
  <2>3. j.nums \in Seq(Number \cup {None}) /\ DOMAIN j.nums \subseteq Slot /\ DOMAIN j.sims = {}
    BY <1>3, <2>1
  <2>4. /\ j.pc \in {"idle", "numbers", "names", "judge", "complete", "save",
                    "live", "marker", "saved", "answer"}
        /\ j.kind \in {"none", "wait", "once", "apply", "patch"}
        /\ j.steady \in 0..STEADY /\ j.steady < STEADY
        /\ j.answer \subseteq Resolved
    BY <1>3 DEF STEADY
  <2>5. j.unmoved \in BOOLEAN /\ j.sure \in BOOLEAN
    BY <1>3, <2>2, Zenon
  <2> QED
    BY <1>2, <2>3, <2>4, <2>5 DEF IsJob
<1>5. ReadsTrue(j)
  BY <1>3 DEF ReadsTrue
<1>6. KnowsSaved(j)
  BY <1>3 DEF KnowsSaved, IInv, SavedIsInventory
<1>7. Goto(p, j) /\ OnlyJob
  BY <1>1 DEF Begin, j
<1> QED
  BY <1>4, <1>5, <1>6, <1>7, JobStep
\* A run that only goes on, with what it knows.
LEMMA GoOn ==
    ASSUME IInv, OnlyJob, NEW p \in Proc,
           NEW pc \in {"numbers", "names", "judge", "complete", "save",
                       "live", "marker", "saved"},
           NEW steady \in 0..STEADY, NEW prev,
           Goto(p, [job[p] EXCEPT !.pc = pc, !.steady = steady, !.prev = prev]),
           job[p].pc # "answer",
           pc \in {"numbers", "names", "judge"} => steady < STEADY,
           pc = "save" /\ job[p].unmoved => Found(job[p].sims) = Found(Inserted),
           pc = "saved" /\ job[p].sure => Found(Inserted) # {}
    PROVE  IInv'
<1>1. PICK k : k = job[p]
  OBVIOUS
<1>2. IsJob(k) /\ ReadsTrue(k) /\ KnowsSaved(k)
  BY <1>1 DEF IInv, TypeOK
<1> DEFINE j == [k EXCEPT !.pc = pc, !.steady = steady, !.prev = prev]
<1>3. DOMAIN j = DOMAIN Idle /\ j = [f \in DOMAIN j |-> j[f]]
  BY <1>2 DEF IsJob
<1>4. /\ j.pc = pc /\ j.steady = steady /\ j.kind = k.kind /\ j.nums = k.nums
      /\ j.sims = k.sims /\ j.answer = k.answer /\ j.unmoved = k.unmoved /\ j.sure = k.sure
  BY <1>2 DEF IsJob, Idle
<1>5. Goto(p, j)
  BY <1>1
<1> HIDE DEF j
<1>6. IsJob(j)
  <2>1. j.pc \in {"idle", "numbers", "names", "judge", "complete", "save",
                  "live", "marker", "saved", "answer"}
    BY <1>4
  <2> QED
    BY <1>2, <1>3, <1>4, <2>1 DEF IsJob
<1>7. ReadsTrue(j)
  BY <1>1, <1>2, <1>4 DEF ReadsTrue
<1>8. KnowsSaved(j)
  BY <1>1, <1>2, <1>4 DEF KnowsSaved
<1> QED
  BY <1>5, <1>6, <1>7, <1>8, JobStep
LEMMA ReadNumbersIInv ==
    ASSUME IInv, NEW p \in Proc, ReadNumbers(p)
    PROVE  IInv'
<1>1. PICK k : k = job[p]
  OBVIOUS
<1>2. IsJob(k) /\ ReadsTrue(k) /\ KnowsSaved(k) /\ k.pc = "numbers"
  BY <1>1 DEF IInv, TypeOK, ReadNumbers, At
<1> DEFINE j == [k EXCEPT !.pc = "names", !.nums = numbers]
<1>3. DOMAIN j = DOMAIN Idle /\ j = [f \in DOMAIN j |-> j[f]]
  BY <1>2 DEF IsJob
<1>4. /\ j.pc = "names" /\ j.steady = k.steady /\ j.kind = k.kind /\ j.nums = numbers
      /\ j.sims = k.sims /\ j.answer = k.answer /\ j.unmoved = k.unmoved /\ j.sure = k.sure
  BY <1>2 DEF IsJob, Idle
<1>5. Goto(p, j) /\ OnlyJob
  BY <1>1 DEF ReadNumbers
<1> HIDE DEF j
<1>6. IsJob(j)
  <2>1. numbers \in Seq(Number \cup {None}) /\ DOMAIN numbers \subseteq Slot
    BY DEF IInv, TypeOK
  <2> QED
    BY <1>2, <1>3, <1>4, <2>1 DEF IsJob
<1>7. ReadsTrue(j)
  <2>1. \A i \in DOMAIN numbers : slot[i] # NoSim => numbers[i] \in {None, slot[i].number}
    BY DEF IInv, TypeOK, PhoneTells, FieldOf
  <2> QED
    BY <1>2, <1>4, <2>1 DEF ReadsTrue
<1>8. KnowsSaved(j)
  BY <1>2, <1>4 DEF KnowsSaved
<1> QED
  BY <1>5, <1>6, <1>7, <1>8, JobStep

\* What pairing two properties yields is of the right kind, and true if they are.
LEMMA Pairing ==
    ASSUME IInv, NEW k, IsJob(k), ReadsTrue(k),
           NEW i \in DOMAIN PairSims(k.nums, names)
    PROVE  /\ i \in Slot
           /\ PairSims(k.nums, names)[i] \in [number : Number, name : Name \cup {None}]
           /\ k.unmoved /\ slot[i] # NoSim =>
                 /\ PairSims(k.nums, names)[i].number = slot[i].number
                 /\ PairSims(k.nums, names)[i].name \in {None, slot[i].name}
<1>1. i \in DOMAIN k.nums /\ k.nums[i] # None
  BY DEF PairSims
<1>2. PICK n, m : /\ PairSims(k.nums, names)[i] = [number |-> n, name |-> m]
                  /\ n = k.nums[i]
                  /\ m = IF Len(k.nums) = Len(names) THEN names[i] ELSE None
  BY <1>1 DEF PairSims
<1>3. i \in Slot /\ n \in Number
  BY <1>1, <1>2 DEF IsJob
<1>4. k.unmoved /\ slot[i] # NoSim => n = slot[i].number
  BY <1>1, <1>2 DEF ReadsTrue
<1>5. m \in Name \cup {None} /\ (slot[i] # NoSim => m \in {None, slot[i].name})
  <2>1. CASE m = None
    BY <2>1
  <2>2. CASE m = names[i] /\ Len(k.nums) = Len(names)
    <3>1. names \in Seq(Name \cup {None})
      BY DEF IInv, TypeOK
    <3>2. i \in DOMAIN names
      BY <1>1, <2>2, <3>1 DEF IsJob
    <3> QED
      BY <1>3, <2>2, <3>1, <3>2 DEF IInv, PhoneTells, FieldOf
  <2> QED
    BY <1>2, <2>1, <2>2
<1> QED
  BY <1>2, <1>3, <1>4, <1>5

LEMMA ReadNamesIInv ==
    ASSUME IInv, NEW p \in Proc, ReadNames(p)
    PROVE  IInv'
<1>1. PICK k : k = job[p]
  OBVIOUS
<1>2. IsJob(k) /\ ReadsTrue(k) /\ KnowsSaved(k) /\ k.pc = "names"
  BY <1>1 DEF IInv, TypeOK, ReadNames, At
<1>3. PICK pc \in {"judge", "complete", "live"} :
          Goto(p, [k EXCEPT !.nums = << >>, !.sims = PairSims(k.nums, names), !.pc = pc])
  <2>1. k.kind = "wait" \/ k.kind = "once" \/ k.kind \notin {"wait", "once"}
    OBVIOUS
  <2> QED
    BY <1>1, <2>1 DEF ReadNames
<1> DEFINE sims == PairSims(k.nums, names)
           j == [k EXCEPT !.nums = << >>, !.sims = sims, !.pc = pc]
<1>4. DOMAIN j = DOMAIN Idle /\ j = [f \in DOMAIN j |-> j[f]]
  BY <1>2 DEF IsJob
<1>5. /\ j.pc = pc /\ j.steady = k.steady /\ j.kind = k.kind /\ j.nums = << >>
      /\ j.sims = sims /\ j.answer = k.answer /\ j.unmoved = k.unmoved /\ j.sure = k.sure
  BY <1>2 DEF IsJob, Idle
<1>6. Goto(p, j) /\ OnlyJob
  BY <1>3 DEF ReadNames
<1>7. ASSUME NEW i \in DOMAIN sims
      PROVE  /\ i \in Slot /\ sims[i] \in [number : Number, name : Name \cup {None}]
             /\ k.unmoved /\ slot[i] # NoSim => /\ sims[i].number = slot[i].number
                                                /\ sims[i].name \in {None, slot[i].name}
  BY <1>2, Pairing
<1> HIDE DEF j, sims
<1>8. IsJob(j)
  <2>1. j.pc \in {"idle", "numbers", "names", "judge", "complete", "save",
                  "live", "marker", "saved", "answer"}
    BY <1>5
  <2>2. << >> \in Seq(Number \cup {None}) /\ DOMAIN << >> = {}
    OBVIOUS
  <2> QED
    BY <1>2, <1>4, <1>5, <1>7, <2>1, <2>2 DEF IsJob
<1>9. ReadsTrue(j)
  BY <1>5, <1>7 DEF ReadsTrue
<1>10. KnowsSaved(j)
  BY <1>2, <1>5 DEF KnowsSaved
<1> QED
  BY <1>6, <1>8, <1>9, <1>10, JobStep
\* A run in which only the step changes.
LEMMA NextPc ==
    ASSUME NEW k, IsJob(k), NEW pc
    PROVE  [k EXCEPT !.pc = pc] = [k EXCEPT !.pc = pc, !.steady = k.steady, !.prev = k.prev]
BY DEF IsJob, Idle

LEMMA JudgeIInv ==
    ASSUME IInv, NEW p \in Proc, Judge(p)
    PROVE  IInv'
<1>1. PICK k : k = job[p]
  OBVIOUS
<1>2. IsJob(k) /\ KnowsSaved(k) /\ k.pc = "judge" /\ OnlyJob
  BY <1>1 DEF IInv, TypeOK, Judge, At
<1> DEFINE steady == Counted(k)
<1>3. steady \in 0..STEADY
  BY <1>2 DEF Counted, IsJob, STEADY
<1>4. \/ Goto(p, [k EXCEPT !.pc = "complete", !.steady = steady, !.prev = NoFile])
      \/ /\ steady < STEADY
         /\ Goto(p, [k EXCEPT !.pc = "numbers", !.steady = steady, !.prev = k.sims])
  BY <1>1 DEF Judge
<1> HIDE DEF steady
<1>5. CASE Goto(p, [k EXCEPT !.pc = "complete", !.steady = steady, !.prev = NoFile])
  BY <1>1, <1>2, <1>3, <1>5, GoOn
<1>6. CASE /\ steady < STEADY
           /\ Goto(p, [k EXCEPT !.pc = "numbers", !.steady = steady, !.prev = k.sims])
  BY <1>1, <1>2, <1>3, <1>6, GoOn
<1> QED
  BY <1>4, <1>5, <1>6

LEMMA CheckCompleteIInv ==
    ASSUME IInv, NEW p \in Proc, CheckComplete(p)
    PROVE  IInv'
<1>1. PICK k : k = job[p]
  OBVIOUS
<1>2. /\ IsJob(k) /\ ReadsTrue(k) /\ k.pc = "complete" /\ Complete(k.sims) /\ OnlyJob
      /\ Goto(p, [k EXCEPT !.pc = "save"])
  BY <1>1 DEF IInv, TypeOK, CheckComplete, At
<1>3. k.unmoved => Found(k.sims) = Found(Inserted)
  BY <1>2, CompleteIsInserted
<1>4. k.steady \in 0..STEADY
  BY <1>2 DEF IsJob
<1>5. Goto(p, [k EXCEPT !.pc = "save", !.steady = k.steady, !.prev = k.prev])
  BY <1>2, NextPc
<1> QED
  BY <1>1, <1>2, <1>3, <1>4, <1>5, GoOn

\* A run that has its answer.
LEMMA Answers ==
    ASSUME IInv, OnlyJob, NEW p \in Proc, NEW from, NEW answer \in SUBSET Resolved,
           Goto(p, [job[p] EXCEPT !.pc = "answer", !.from = from, !.answer = answer]),
           job[p].sure => answer = Found(Inserted)
    PROVE  IInv'
<1>1. PICK k : k = job[p]
  OBVIOUS
<1>2. IsJob(k) /\ ReadsTrue(k) /\ KnowsSaved(k)
  BY <1>1 DEF IInv, TypeOK
<1> DEFINE j == [k EXCEPT !.pc = "answer", !.from = from, !.answer = answer]
<1>3. DOMAIN j = DOMAIN Idle /\ j = [f \in DOMAIN j |-> j[f]]
  BY <1>2 DEF IsJob
<1>4. /\ j.pc = "answer" /\ j.steady = k.steady /\ j.kind = k.kind /\ j.nums = k.nums
      /\ j.sims = k.sims /\ j.answer = answer /\ j.unmoved = k.unmoved /\ j.sure = k.sure
  BY <1>2 DEF IsJob, Idle
<1>5. Goto(p, j)
  BY <1>1
<1> HIDE DEF j
<1>6. IsJob(j)
  BY <1>2, <1>3, <1>4 DEF IsJob
<1>7. ReadsTrue(j)
  BY <1>2, <1>4 DEF ReadsTrue
<1>8. KnowsSaved(j)
  BY <1>1, <1>2, <1>4 DEF KnowsSaved
<1> QED
  BY <1>5, <1>6, <1>7, <1>8, JobStep

LEMMA LiveIInv ==
    ASSUME IInv, NEW p \in Proc, Live(p)
    PROVE  IInv'
<1>1. PICK k : k = job[p]
  OBVIOUS
<1>2. IsJob(k) /\ ReadsTrue(k) /\ KnowsSaved(k) /\ k.pc = "live" /\ OnlyJob
  BY <1>1 DEF IInv, TypeOK, Live, At
<1>3. CASE /\ Complete(k.sims)
           /\ Goto(p, [k EXCEPT !.pc = "answer", !.from = "live", !.answer = Found(k.sims)])
  <2>1. k.sure => Found(k.sims) = Found(Inserted)
    BY <1>2, <1>3, CompleteIsInserted DEF KnowsSaved
  <2>2. Found(k.sims) \in SUBSET Resolved
    BY <1>2, FoundResolved DEF IsJob
  <2> QED
    BY <1>1, <1>2, <1>3, <2>1, <2>2, Answers
<1>4. CASE Goto(p, [k EXCEPT !.pc = "marker"])
  <2>1. Goto(p, [k EXCEPT !.pc = "marker", !.steady = k.steady, !.prev = k.prev])
    BY <1>2, <1>4, NextPc
  <2>2. k.steady \in 0..STEADY
    BY <1>2 DEF IsJob
  <2> QED
    BY <1>1, <1>2, <2>1, <2>2, GoOn
<1> QED
  BY <1>1, <1>3, <1>4 DEF Live
LEMMA MarkerIInv ==
    ASSUME IInv, NEW p \in Proc, Marker(p)
    PROVE  IInv'
<1>1. PICK k : k = job[p]
  OBVIOUS
<1>2. IsJob(k) /\ ReadsTrue(k) /\ KnowsSaved(k) /\ k.pc = "marker" /\ OnlyJob
  BY <1>1 DEF IInv, TypeOK, Marker, At
<1>3. CASE saved = {} /\ Goto(p, [k EXCEPT !.pc = "answer", !.from = "empty"])
  <2>1. k.answer = {} /\ (k.sure => Found(Inserted) = {})
    BY <1>2, <1>3 DEF KnowsSaved
  <2>2. [k EXCEPT !.pc = "answer", !.from = "empty"]
           = [k EXCEPT !.pc = "answer", !.from = "empty", !.answer = {}]
    BY <1>2, <2>1 DEF IsJob, Idle
  <2>3. Goto(p, [job[p] EXCEPT !.pc = "answer", !.from = "empty", !.answer = {}])
    BY <1>1, <1>3, <2>2
  <2>4. job[p].sure => {} = Found(Inserted)
    BY <1>1, <2>1
  <2>5. {} \in SUBSET Resolved
    OBVIOUS
  <2> QED
    BY <1>2, <2>3, <2>4, <2>5, Answers
<1>4. CASE saved # {} /\ Goto(p, [k EXCEPT !.pc = "saved"])
  <2>1. Goto(p, [k EXCEPT !.pc = "saved", !.steady = k.steady, !.prev = k.prev])
    BY <1>2, <1>4, NextPc
  <2>2. k.steady \in 0..STEADY
    BY <1>2 DEF IsJob
  <2>3. k.sure => Found(Inserted) # {}
    BY <1>2, <1>4 DEF KnowsSaved
  <2> QED
    BY <1>1, <1>2, <2>1, <2>2, <2>3, GoOn
<1> QED
  BY <1>1, <1>3, <1>4 DEF Marker

LEMMA SavedIInv ==
    ASSUME IInv, NEW p \in Proc, Saved(p)
    PROVE  IInv'
<1>1. PICK k : k = job[p]
  OBVIOUS
<1>2. IsJob(k) /\ ReadsTrue(k) /\ KnowsSaved(k) /\ k.pc = "saved" /\ OnlyJob
  BY <1>1 DEF IInv, TypeOK, Saved, At
<1>3. k.sure => saved = Found(Inserted) /\ saved # {} /\ saved # NoFile
  <2>1. Found(Inserted) # NoFile
    BY InsertedResolved, DetectAssumption DEF IInv
  <2> QED
    BY <1>2, <2>1 DEF KnowsSaved
<1>4. CASE /\ saved \notin {NoFile, {}}
           /\ Goto(p, [k EXCEPT !.pc = "answer", !.from = "saved", !.answer = saved])
  <2>1. saved \in SUBSET Resolved
    BY <1>4 DEF IInv, TypeOK
  <2> QED
    BY <1>1, <1>2, <1>3, <1>4, <2>1, Answers
<1>5. CASE /\ saved \in {NoFile, {}}
           /\ Goto(p, [k EXCEPT !.pc = "answer", !.from = "cache",
                         !.answer = {[carrier |-> c, label |-> None] : c \in cached}])
  <2>1. {[carrier |-> c, label |-> None] : c \in cached} \in SUBSET Resolved
    BY DEF IInv, TypeOK, Resolved
  <2>2. ~k.sure
    BY <1>3, <1>5
  <2> QED
    BY <1>1, <1>2, <1>5, <2>1, <2>2, Answers
<1> QED
  BY <1>1, <1>4, <1>5 DEF Saved

LEMMA SaveIInv ==
    ASSUME IInv, NEW p \in Proc, Save(p)
    PROVE  IInv'
<1>1. PICK k : k = job[p]
  OBVIOUS
<1>2. IsJob(k) /\ ReadsTrue(k) /\ KnowsSaved(k) /\ k.pc = "save"
  BY <1>1 DEF IInv, TypeOK, Save, At
<1>3. /\ saved' = Found(k.sims) /\ settled' = k.unmoved
      /\ UNCHANGED <<phase, boots, moves, slot, numbers, names, state, cached>>
      /\ Inserted' = Inserted
  BY <1>1 DEF Save, Inserted
<1>4. /\ k.unmoved \in BOOLEAN
      /\ k.unmoved => Found(k.sims) = Found(Inserted)
  BY <1>2 DEF IsJob, ReadsTrue
<1>5. saved' \subseteq Resolved
  BY <1>2, <1>3, FoundResolved DEF IsJob
<1>6. ASSUME NEW q \in Proc
      PROVE  IsJob(job[q])' /\ ReadsTrue(job[q])' /\ KnowsSaved(job[q])'
  <2>1. CASE q = p
    <3>1. job'[q] = Idle
      BY <2>1 DEF Save
    <3>2. ReadsTrue(Idle)' /\ KnowsSaved(Idle)'
      BY DEF ReadsTrue, KnowsSaved, Idle
    <3> QED
      BY <3>1, <3>2, IdleKnows
  <2>2. CASE q # p
    <3>1. PICK l : l = job[q] /\ IsJob(l) /\ ReadsTrue(l) /\ KnowsSaved(l)
      BY DEF IInv, TypeOK
    <3> DEFINE j == [l EXCEPT !.sure = l.sure /\ k.unmoved]
    <3>2. job'[q] = j
      BY <1>1, <2>2, <3>1 DEF Save
    <3>3. DOMAIN j = DOMAIN Idle /\ j = [f \in DOMAIN j |-> j[f]]
      BY <3>1 DEF IsJob
    <3>4. /\ j.pc = l.pc /\ j.steady = l.steady /\ j.kind = l.kind /\ j.nums = l.nums
          /\ j.sims = l.sims /\ j.answer = l.answer /\ j.unmoved = l.unmoved
          /\ j.sure = (l.sure /\ k.unmoved)
      BY <3>1 DEF IsJob, Idle
    <3> HIDE DEF j
    <3>5. j.sure \in BOOLEAN /\ (j.sure => l.sure /\ k.unmoved)
      BY <1>4, <3>1, <3>4 DEF IsJob
    <3>6. IsJob(j)
      BY <3>1, <3>3, <3>4, <3>5 DEF IsJob
    <3>7. ReadsTrue(job[q])'
      BY <1>3, <3>1, <3>2, <3>4 DEF ReadsTrue
    <3>8. KnowsSaved(job[q])'
      BY <1>3, <1>4, <3>1, <3>2, <3>4, <3>5 DEF KnowsSaved
    <3> QED
      BY <3>2, <3>6, <3>7, <3>8
  <2> QED
    BY <2>1, <2>2
<1>7. job' = [q \in Proc |-> job'[q]]
  BY DEF Save
<1>8. TypeOK'
  BY <1>3, <1>4, <1>5, <1>6, <1>7 DEF IInv, TypeOK
<1>9. PhoneTells' /\ SavedIsInventory'
  BY <1>3, <1>4 DEF IInv, PhoneTells, SavedIsInventory
<1> QED
  BY <1>6, <1>8, <1>9 DEF IInv
\* A run that ends, well or not.
LEMMA EndIInv ==
    ASSUME IInv, NEW p \in Proc, Finish(p) \/ Fail(p)
    PROVE  IInv'
<1>1. /\ phase' = "up" /\ Goto(p, Idle)
      /\ UNCHANGED <<boots, moves, slot, numbers, names, state, saved, settled>>
      /\ cached' \subseteq cached
  <2>1. CASE Finish(p)
    <3>1. cached' \in SUBSET cached \/ cached' \in {cached}
      BY <2>1 DEF Finish
    <3> QED
      BY <2>1, <3>1 DEF Finish
  <2>2. CASE Fail(p)
    BY <2>2 DEF Fail
  <2> QED
    BY <2>1, <2>2
<1>2. Inserted' = Inserted
  BY <1>1 DEF Inserted
<1>3. /\ job' = [q \in Proc |-> job'[q]]
      /\ \A q \in Proc : job'[q] = IF q = p THEN Idle ELSE job[q]
  BY <1>1 DEF Goto, IInv, TypeOK
<1>4. \A q \in Proc : IsJob(job'[q])
  BY <1>3, IdleKnows DEF IInv, TypeOK
<1>5. TypeOK'
  BY <1>1, <1>3, <1>4 DEF IInv, TypeOK
<1>6. PhoneTells' /\ SavedIsInventory'
  BY <1>1, <1>2 DEF IInv, PhoneTells, SavedIsInventory
<1>7. ASSUME NEW q \in Proc PROVE ReadsTrue(job[q])' /\ KnowsSaved(job[q])'
  <2>1. ReadsTrue(job'[q]) /\ KnowsSaved(job'[q])
    BY <1>3, IdleKnows DEF IInv
  <2> QED
    BY <1>1, <1>2, <2>1 DEF ReadsTrue, KnowsSaved
<1> QED
  BY <1>5, <1>6, <1>7 DEF IInv
-----------------------------------------------------------------------------
(* The phone *)

\* What a run has read, and what is saved, stays true while no SIM moves.
LEMMA SimsStay ==
    ASSUME IInv, UNCHANGED <<slot, saved, settled, job>>
    PROVE  /\ SavedIsInventory'
           /\ \A p \in Proc : ReadsTrue(job[p])' /\ KnowsSaved(job[p])'
<1>1. Inserted' = Inserted
  BY DEF Inserted
<1> QED
  BY <1>1 DEF IInv, SavedIsInventory, ReadsTrue, KnowsSaved

LEMMA ReportIInv ==
    ASSUME IInv, NEW i \in Slot, ReportNumber(i) \/ ReportName(i) \/ ReportState(i)
    PROVE  IInv'
<1>1. slot[i] \in Sim \cup {NoSim}
  BY DEF IInv, TypeOK
<1>2. CASE ReportNumber(i)
  <2>1. PICK now : /\ now = IF slot[i] = NoSim THEN None ELSE slot[i].number
                   /\ numbers' = Field(numbers, i, now)
    BY <1>2 DEF ReportNumber
  <2>2. UNCHANGED <<phase, boots, moves, slot, names, state, saved, cached, settled, job>>
    BY <1>2 DEF ReportNumber
  <2>3. now \in Number \cup {None}
    BY <1>1, <2>1 DEF Number
  <2>4. /\ numbers' \in Seq(Number \cup {None}) /\ DOMAIN numbers' \subseteq Slot
        /\ \A k \in Slot : FieldOf(numbers', k) = IF k = i THEN now ELSE FieldOf(numbers, k)
    <3>1. numbers \in Seq(Number \cup {None}) /\ DOMAIN numbers \subseteq Slot
      BY DEF IInv, TypeOK
    <3>2. PICK S : S = Number \cup {None}
      OBVIOUS
    <3>3. None \in S /\ now \in S /\ numbers \in Seq(S) /\ DOMAIN numbers \subseteq Slot
      BY <2>3, <3>1, <3>2
    <3>4. /\ Field(numbers, i, now) \in Seq(S) /\ DOMAIN Field(numbers, i, now) \subseteq Slot
          /\ \A k \in Slot : FieldOf(Field(numbers, i, now), k)
                               = IF k = i THEN now ELSE FieldOf(numbers, k)
      BY <3>3, FieldWritten
    <3> QED
      BY <2>1, <3>2, <3>4
  <2>5. TypeOK'
    BY <2>2, <2>4 DEF IInv, TypeOK
  <2>6. \A k \in Slot : FieldOf(names', k) = FieldOf(names, k)
    BY <2>2
  <2>7. PhoneTells'
    BY <2>1, <2>2, <2>4, <2>6 DEF IInv, PhoneTells
  <2> QED
    BY <2>2, <2>5, <2>7, SimsStay DEF IInv
<1>3. CASE ReportName(i)
  <2>1. PICK now : /\ now = IF slot[i] = NoSim THEN None ELSE slot[i].name
                   /\ names' = Field(names, i, now)
    BY <1>3 DEF ReportName
  <2>2. UNCHANGED <<phase, boots, moves, slot, numbers, state, saved, cached, settled, job>>
    BY <1>3 DEF ReportName
  <2>3. now \in Name \cup {None}
    BY <1>1, <2>1 DEF Name
  <2>4. /\ names' \in Seq(Name \cup {None}) /\ DOMAIN names' \subseteq Slot
        /\ \A k \in Slot : FieldOf(names', k) = IF k = i THEN now ELSE FieldOf(names, k)
    <3>1. names \in Seq(Name \cup {None}) /\ DOMAIN names \subseteq Slot
      BY DEF IInv, TypeOK
    <3>2. PICK S : S = Name \cup {None}
      OBVIOUS
    <3>3. None \in S /\ now \in S /\ names \in Seq(S) /\ DOMAIN names \subseteq Slot
      BY <2>3, <3>1, <3>2
    <3>4. /\ Field(names, i, now) \in Seq(S) /\ DOMAIN Field(names, i, now) \subseteq Slot
          /\ \A k \in Slot : FieldOf(Field(names, i, now), k)
                               = IF k = i THEN now ELSE FieldOf(names, k)
      BY <3>3, FieldWritten
    <3> QED
      BY <2>1, <3>2, <3>4
  <2>5. TypeOK'
    BY <2>2, <2>4 DEF IInv, TypeOK
  <2>6. \A k \in Slot : FieldOf(numbers', k) = FieldOf(numbers, k)
    BY <2>2
  <2>7. PhoneTells'
    BY <2>1, <2>2, <2>4, <2>6 DEF IInv, PhoneTells
  <2> QED
    BY <2>2, <2>5, <2>7, SimsStay DEF IInv
<1>4. CASE ReportState(i)
  <2>1. /\ UNCHANGED <<phase, boots, moves, slot, numbers, names, saved, settled, job>>
        /\ state' = [state EXCEPT ![i] = IF slot[i] = NoSim THEN "ABSENT" ELSE "READY"]
    BY <1>4 DEF ReportState
  <2>2. cached' \subseteq Carriers
    <3>1. slot[i] # NoSim /\ Resolvable(slot[i]) => Resolve(slot[i]).carrier \in Carriers
      BY <1>1, DetectAssumption DEF Resolvable, Resolve, Carriers
    <3> QED
      BY <1>4, <3>1 DEF ReportState, IInv, TypeOK
  <2>3. state \in [Slot -> {"UNKNOWN", "ABSENT", "READY"}]
    BY DEF IInv, TypeOK
  <2>4. state' \in [Slot -> {"UNKNOWN", "ABSENT", "READY"}]
    BY <2>1, <2>3
  <2>5. TypeOK'
    BY <2>1, <2>2, <2>4 DEF IInv, TypeOK
  <2>6. \A k \in Slot : FieldOf(numbers', k) = FieldOf(numbers, k)
                        /\ FieldOf(names', k) = FieldOf(names, k)
    BY <2>1
  <2>7. PhoneTells'
    BY <2>1, <2>3, <2>6 DEF IInv, PhoneTells
  <2> QED
    BY <2>1, <2>5, <2>7, SimsStay DEF IInv
<1> QED
  BY <1>2, <1>3, <1>4

\* After a move nobody relies on what was read before it.
LEMMA MovedKnows ==
    ASSUME IInv, Moved
    PROVE  /\ settled' = FALSE
           /\ job' = [p \in Proc |-> job'[p]]
           /\ \A p \in Proc : IsJob(job[p])' /\ ReadsTrue(job[p])' /\ KnowsSaved(job[p])'
<1>1. settled' = FALSE /\ job' = [p \in Proc |-> job'[p]]
  BY DEF Moved
<1>2. ASSUME NEW p \in Proc
      PROVE  IsJob(job[p])' /\ ReadsTrue(job[p])' /\ KnowsSaved(job[p])'
  <2>1. CASE job[p] = Idle
    <3>1. job'[p] = Idle
      BY <2>1 DEF Moved
    <3>2. ReadsTrue(Idle)' /\ KnowsSaved(Idle)'
      BY DEF ReadsTrue, KnowsSaved, Idle
    <3> QED
      BY <3>1, <3>2, IdleKnows
  <2>2. CASE job[p] # Idle
    <3>1. PICK k : k = job[p] /\ IsJob(k) /\ KnowsSaved(k)
      BY DEF IInv, TypeOK
    <3>2. PICK there : job'[p] = [k EXCEPT !.unmoved = FALSE, !.sure = FALSE, !.there = there]
      BY <2>2, <3>1 DEF Moved
    <3> DEFINE j == [k EXCEPT !.unmoved = FALSE, !.sure = FALSE, !.there = there]
    <3>3. DOMAIN j = DOMAIN Idle /\ j = [f \in DOMAIN j |-> j[f]]
      BY <3>1 DEF IsJob
    <3>4. /\ j.pc = k.pc /\ j.steady = k.steady /\ j.kind = k.kind /\ j.nums = k.nums
          /\ j.sims = k.sims /\ j.answer = k.answer /\ j.unmoved = FALSE /\ j.sure = FALSE
      BY <3>1 DEF IsJob, Idle
    <3>5. job'[p] = j
      BY <3>2
    <3> HIDE DEF j
    <3>6. j.unmoved \in BOOLEAN /\ j.sure \in BOOLEAN
      BY <3>4, Zenon
    <3>7. IsJob(j)
      BY <3>1, <3>3, <3>4, <3>6 DEF IsJob
    <3>8. ReadsTrue(job[p])' /\ KnowsSaved(job[p])'
      BY <3>1, <3>4, <3>5 DEF ReadsTrue, KnowsSaved
    <3> QED
      BY <3>5, <3>7, <3>8
  <2> QED
    BY <2>1, <2>2
<1> QED
  BY <1>1, <1>2
LEMMA MoveIInv ==
    ASSUME IInv, NEW i \in Slot, NEW s \in Sim, Remove(i) \/ Insert(i, s)
    PROVE  IInv'
<1>1. /\ moves < MaxMoves /\ moves' = moves + 1 /\ Moved
      /\ UNCHANGED <<phase, boots, numbers, names, saved, cached>>
  BY DEF Remove, Insert
<1>2. PICK new \in Sim \cup {NoSim}, known \in {"UNKNOWN", "ABSENT"} :
          /\ slot' = [slot EXCEPT ![i] = new]
          /\ state' = [state EXCEPT ![i] = known]
          /\ new = NoSim \/ (known = "UNKNOWN" /\ FieldOf(numbers, i) = None
                                               /\ FieldOf(names, i) = None)
  BY DEF Remove, Insert
<1>3. /\ slot \in [Slot -> Sim \cup {NoSim}]
      /\ state \in [Slot -> {"UNKNOWN", "ABSENT", "READY"}]
  BY DEF IInv, TypeOK
<1>4. /\ slot' \in [Slot -> Sim \cup {NoSim}]
      /\ state' \in [Slot -> {"UNKNOWN", "ABSENT", "READY"}]
      /\ \A k \in Slot : /\ slot'[k] = IF k = i THEN new ELSE slot[k]
                         /\ state'[k] = IF k = i THEN known ELSE state[k]
  BY <1>2, <1>3
<1>5. moves' \in 0..MaxMoves
  BY <1>1, DetectAssumption DEF IInv, TypeOK
<1>6. TypeOK'
  BY <1>1, <1>4, <1>5, MovedKnows DEF IInv, TypeOK
<1>7. \A k \in Slot : FieldOf(numbers', k) = FieldOf(numbers, k)
                      /\ FieldOf(names', k) = FieldOf(names, k)
  BY <1>1
<1>8. PhoneTells'
  BY <1>2, <1>4, <1>7 DEF IInv, PhoneTells
<1>9. SavedIsInventory'
  BY <1>1, MovedKnows DEF SavedIsInventory
<1> QED
  BY <1>1, <1>6, <1>8, <1>9, MovedKnows DEF IInv

LEMMA SkipIInv == ASSUME IInv, Skip PROVE IInv'
<1>1. phase' = "up" /\ UNCHANGED <<boots, moves, slot, numbers, names, state, saved, cached, settled, job>>
  BY DEF Skip
<1>2. TypeOK' /\ PhoneTells'
  BY <1>1 DEF IInv, TypeOK, PhoneTells
<1> QED
  BY <1>1, <1>2, SimsStay DEF IInv

\* The properties of a modem that is not up yet.
LEMMA NothingReported ==
    /\ <<None>> \in Seq(Number \cup {None}) /\ <<None>> \in Seq(Name \cup {None})
    /\ DOMAIN <<None>> \subseteq Slot
    /\ \A k \in Slot : FieldOf(<<None>>, k) = None
<1>1. DOMAIN <<None>> = {1} /\ 1 \in Slot
  BY DetectAssumption
<1> QED
  BY <1>1 DEF FieldOf

LEMMA RebootIInv ==
    ASSUME IInv, NEW new \in [Slot -> Sim \cup {NoSim}], Reboot(new)
    PROVE  IInv'
<1>1. /\ slot' = new /\ numbers' = <<None>> /\ names' = <<None>>
      /\ state' = [i \in Slot |-> "UNKNOWN"] /\ job' = [p \in Proc |-> Idle]
      /\ phase' = "postfs" /\ boots' = boots + 1 /\ boots < MaxBoots
      /\ settled' = (settled /\ new = slot)
      /\ UNCHANGED <<saved, cached>>
  BY DEF Reboot
<1>2. boots' \in 1..MaxBoots \cup {1}
  BY <1>1, DetectAssumption DEF IInv, TypeOK
<1>3. moves' \in 0..MaxMoves
  BY DetectAssumption DEF Reboot, IInv, TypeOK
<1>4. settled' \in BOOLEAN
  BY <1>1
<1>5. TypeOK'
  BY <1>1, <1>2, <1>3, <1>4, NothingReported, IdleKnows DEF IInv, TypeOK
<1>6. PhoneTells'
  BY <1>1, NothingReported DEF PhoneTells
<1>7. SavedIsInventory'
  BY <1>1 DEF IInv, SavedIsInventory, Inserted
<1>8. ReadsTrue(Idle)' /\ KnowsSaved(Idle)'
  BY DEF ReadsTrue, KnowsSaved, Idle
<1> QED
  BY <1>1, <1>5, <1>6, <1>7, <1>8 DEF IInv

LEMMA InitIInv == Init => IInv
<1> SUFFICES ASSUME Init PROVE IInv
  OBVIOUS
<1>1. cached \subseteq Carriers
  <2>1. Found(Inserted) \subseteq Resolved
    <3>1. \A i \in DOMAIN Inserted : Inserted[i] \in Sim
      BY DEF Inserted, Init
    <3> QED
      BY <3>1, FoundResolved DEF Number, Name
  <2> QED
    BY <2>1 DEF Init, Resolved
<1>2. TypeOK
  <2>1. phase \in {"postfs", "up"} /\ boots \in 1..MaxBoots \cup {1} /\ moves \in 0..MaxMoves
    BY DetectAssumption DEF Init
  <2>2. /\ slot \in [Slot -> Sim \cup {NoSim}]
        /\ state \in [Slot -> {"UNKNOWN", "ABSENT", "READY"}]
        /\ saved = NoFile /\ settled \in BOOLEAN
    BY DEF Init
  <2>3. job = [p \in Proc |-> job[p]] /\ \A p \in Proc : IsJob(job[p])
    BY IdleKnows DEF Init
  <2>4. numbers = <<None>> /\ names = <<None>>
    BY DEF Init
  <2> QED
    BY <1>1, <2>1, <2>2, <2>3, <2>4, NothingReported DEF TypeOK
<1>3. PhoneTells /\ SavedIsInventory
  BY NothingReported DEF Init, PhoneTells, SavedIsInventory
<1> QED
  BY <1>2, <1>3, IdleKnows DEF Init, IInv

LEMMA NextIInv == IInv /\ [Next]_vars => IInv'
<1> SUFFICES ASSUME IInv, [Next]_vars PROVE IInv'
  OBVIOUS
<1>1. CASE UNCHANGED vars
  BY <1>1, SimsStay DEF vars, IInv, TypeOK, PhoneTells
<1>2. ASSUME NEW p \in Proc, NEW kind \in {"wait", "once", "apply", "patch"}, Begin(p, kind)
      PROVE  IInv'
  BY <1>2, BeginIInv
<1>3. ASSUME NEW p \in Proc, RunStep(p)
      PROVE  IInv'
  BY <1>3, ReadNumbersIInv, ReadNamesIInv, JudgeIInv, CheckCompleteIInv, SaveIInv,
     LiveIInv, MarkerIInv, SavedIInv, EndIInv DEF RunStep
<1>4. ASSUME NEW i \in Slot,
             \/ ReportNumber(i) \/ ReportName(i) \/ ReportState(i)
             \/ Remove(i)
             \/ \E s \in Sim : Insert(i, s)
      PROVE  IInv'
  <2>1. CASE Remove(i)
    <3>1. slot[i] \in Sim
      BY <2>1 DEF Remove, IInv, TypeOK
    <3> QED
      BY <2>1, <3>1, MoveIInv
  <2> QED
    BY <1>4, <2>1, ReportIInv, MoveIInv
<1> QED
  BY <1>1, <1>2, <1>3, <1>4, SkipIInv, RebootIInv DEF Next
-----------------------------------------------------------------------------
(* The theorems *)

LEMMA Invariance == Spec => []IInv
BY InitIInv, NextIInv, PTL DEF Spec

\* Every variable keeps its kind of value.
THEOREM DetectTypeCorrect == Spec => []TypeOK
<1>1. IInv => TypeOK
  BY DEF IInv
<1> QED
  BY <1>1, Invariance, PTL

\* What is saved for the next boot is what is in the phone, for any number of
\* SIMs, moves, boots and runs at once, however the modem fills its properties in.
THEOREM SavedStaysTrue == Spec => []SavedIsInventory
<1>1. IInv => SavedIsInventory
  BY DEF IInv
<1> QED
  BY <1>1, Invariance, PTL

\* What a run is told is what is in the phone, whichever source it is told from.
THEOREM RunsAreToldTrue == Spec => []IdentifiedIsThere
<1>1. IInv => IdentifiedIsThere
  BY DEF IInv, IdentifiedIsThere, KnowsSaved, At
<1> QED
  BY <1>1, Invariance, PTL
-----------------------------------------------------------------------------
(* What the wait returns before its time is up *)

Sampling == {"numbers", "names", "judge"}

\* The samples of a run agree on a SIM that was not in slot i during the run.
Doubt(j, i) ==
    /\ j.pc \in Sampling /\ j.steady >= 1
    /\ i \in DOMAIN j.prev /\ <<i, j.prev[i]>> \notin j.there

\* The moves it takes to get there.
Cost(j, i) == IF Doubt(j, i) THEN 2 ELSE 0

\* What is read of slot i is of a SIM that has left it: that was one more move,
\* and another one if there is a SIM in the slot again.
Gone(j, i) ==
    \/ slot[i] = NoSim /\ moves >= Cost(j, i) + 1
    \/ moves >= Cost(j, i) + 2

\* What a run has read of the SIM in slot i, and how many moves it took if that
\* is not true.
Accounted(j, i) ==
    /\ Doubt(j, i) => (slot[i] # NoSim /\ moves >= 2) \/ moves >= 3
    /\ j.pc = "names" /\ i \in DOMAIN j.nums =>
          \/ j.nums[i] = None
          \/ slot[i] # NoSim /\ j.nums[i] = slot[i].number
          \/ Gone(j, i)
    /\ j.pc = "judge" /\ i \in DOMAIN j.sims =>
          \/ j.sims[i].name = None
          \/ <<i, j.sims[i]>> \in j.there
          \/ Gone(j, i)
    /\ j.steady = STEADY /\ i \in DOMAIN j.sims => <<i, j.sims[i]>> \in j.there
    /\ j.pc # "idle" /\ slot[i] # NoSim => <<i, slot[i]>> \in j.there

\* A number in an empty slot is one of a SIM that was taken out.
Lingering == \A i \in Slot : slot[i] = NoSim /\ FieldOf(numbers, i) # None => moves >= 1

SettledInv ==
    /\ IInv
    /\ Lingering
    /\ \A p \in Proc : \A i \in Slot : Accounted(job[p], i)

LEMMA IdleAccounted == \A i \in Slot : Accounted(Idle, i)
<1>1. Idle.pc = "idle" /\ Idle.steady = 0
  BY DEF Idle
<1> QED
  BY <1>1 DEF Accounted, Doubt, Sampling, STEADY

\* A step that changes nothing but the run of one process.
LEMMA JobSettled ==
    ASSUME SettledInv, IInv', NEW p \in Proc, NEW j, Goto(p, j),
           UNCHANGED <<slot, moves, numbers>>, \A i \in Slot : Accounted(j, i)
    PROVE  SettledInv'
<1>1. \A q \in Proc : job'[q] = IF q = p THEN j ELSE job[q]
  BY DEF Goto, SettledInv, IInv, TypeOK
<1>2. ASSUME NEW q \in Proc, NEW i \in Slot PROVE Accounted(job[q], i)'
  <2>1. Accounted(job'[q], i)
    BY <1>1 DEF SettledInv
  <2> QED
    BY <2>1 DEF Accounted, Gone, Cost, Doubt
<1>3. Lingering'
  BY DEF SettledInv, Lingering
<1> QED
  BY <1>2, <1>3 DEF SettledInv

LEMMA BeginSettled ==
    ASSUME SettledInv, IInv', NEW p \in Proc,
           NEW kind \in {"wait", "once", "apply", "patch"}, Begin(p, kind)
    PROVE  SettledInv'
<1> DEFINE seen == {<<i, slot[i]>> : i \in DOMAIN Inserted}
           j == [Idle EXCEPT !.pc = "numbers", !.kind = kind, !.unmoved = TRUE,
                             !.sure = settled, !.there = seen]
<1>1. Goto(p, j) /\ UNCHANGED <<slot, moves, numbers>>
  BY DEF Begin, OnlyJob
<1>2. j.pc = "numbers" /\ j.steady = 0 /\ j.there = seen
  BY DEF Idle
<1>3. \A i \in Slot : slot[i] # NoSim => <<i, slot[i]>> \in seen
  BY DEF Inserted
<1> HIDE DEF j, seen
<1>4. \A i \in Slot : Accounted(j, i)
  BY <1>2, <1>3 DEF Accounted, Doubt, Sampling, STEADY
<1> QED
  BY <1>1, <1>4, JobSettled

LEMMA ReadNumbersSettled ==
    ASSUME SettledInv, IInv', NEW p \in Proc, ReadNumbers(p)
    PROVE  SettledInv'
<1>1. PICK k : k = job[p]
  OBVIOUS
<1>2. IsJob(k) /\ k.pc = "numbers"
  BY <1>1 DEF SettledInv, IInv, TypeOK, ReadNumbers, At
<1>3. k.pc = "numbers" /\ \A i \in Slot : Accounted(k, i)
  BY <1>1, <1>2 DEF SettledInv
<1> DEFINE j == [k EXCEPT !.pc = "names", !.nums = numbers]
<1>4. /\ j.pc = "names" /\ j.nums = numbers /\ j.steady = k.steady
      /\ j.prev = k.prev /\ j.sims = k.sims /\ j.there = k.there
  BY <1>2 DEF IsJob, Idle
<1>5. Goto(p, j) /\ UNCHANGED <<slot, moves, numbers>>
  BY <1>1 DEF ReadNumbers, OnlyJob
<1> HIDE DEF j
<1>6. k.steady < STEADY /\ moves \in Nat
  BY <1>2, DetectAssumption DEF IsJob, SettledInv, IInv, TypeOK
<1>7. ASSUME NEW i \in Slot PROVE Accounted(j, i)
  <2>1. Doubt(j, i) <=> Doubt(k, i)
    BY <1>3, <1>4 DEF Doubt, Sampling
  <2>2. Cost(j, i) = Cost(k, i)
    BY <2>1 DEF Cost
  <2>3. ASSUME i \in DOMAIN numbers, numbers[i] # None, slot[i] = NoSim
        PROVE  Gone(j, i)
    <3>1. moves >= 1
      BY <2>3 DEF SettledInv, Lingering, FieldOf
    <3>2. Doubt(k, i) => moves >= 3
      BY <1>3, <2>3 DEF Accounted
    <3> QED
      BY <2>2, <2>3, <3>1, <3>2 DEF Gone, Cost
  <2>4. ASSUME i \in DOMAIN numbers, slot[i] # NoSim
        PROVE  numbers[i] \in {None, slot[i].number}
    BY <2>4 DEF SettledInv, IInv, PhoneTells, FieldOf
  <2>5. j.pc # "judge" /\ j.steady # STEADY
    BY <1>2, <1>4, <1>6 DEF IsJob, STEADY
  <2>6. Doubt(j, i) => (slot[i] # NoSim /\ moves >= 2) \/ moves >= 3
    BY <1>3, <2>1 DEF Accounted
  <2>7. slot[i] # NoSim => <<i, slot[i]>> \in j.there
    BY <1>3, <1>4 DEF Accounted
  <2> QED
    BY <1>4, <2>3, <2>4, <2>5, <2>6, <2>7 DEF Accounted
<1> QED
  BY <1>5, <1>7, JobSettled

\* The pair read of a slot: of the SIM that is there, or of one that was moved.
LEMMA PairAccounted ==
    ASSUME SettledInv, NEW k, IsJob(k), k.pc = "names",
           NEW i \in Slot, Accounted(k, i),
           i \in DOMAIN PairSims(k.nums, names), PairSims(k.nums, names)[i].name # None
    PROVE  <<i, PairSims(k.nums, names)[i]>> \in k.there \/ Gone(k, i)
<1>1. i \in DOMAIN k.nums /\ k.nums[i] # None
  BY DEF PairSims
<1>2. PICK m : /\ PairSims(k.nums, names)[i] = [number |-> k.nums[i], name |-> m]
               /\ m = IF Len(k.nums) = Len(names) THEN names[i] ELSE None
  BY <1>1 DEF PairSims
<1>3. m # None /\ m = names[i] /\ Len(k.nums) = Len(names)
  BY <1>2
<1>4. CASE slot[i] # NoSim /\ k.nums[i] = slot[i].number
  <2>1. i \in DOMAIN names
    <3>1. names \in Seq(Name \cup {None}) /\ k.nums \in Seq(Number \cup {None})
      BY DEF SettledInv, IInv, TypeOK, IsJob
    <3> QED
      BY <1>1, <1>3, <3>1
  <2>2. m = slot[i].name
    BY <1>3, <1>4, <2>1 DEF SettledInv, IInv, PhoneTells, FieldOf
  <2>3. slot[i] \in Sim
    BY <1>4 DEF SettledInv, IInv, TypeOK
  <2>4. PairSims(k.nums, names)[i] = slot[i]
    BY <1>2, <1>4, <2>2, <2>3, DetectAssumption
  <2>5. <<i, slot[i]>> \in k.there
    BY <1>4 DEF Accounted
  <2> QED
    BY <2>4, <2>5
<1> QED
  BY <1>1, <1>4 DEF Accounted

LEMMA ReadNamesSettled ==
    ASSUME SettledInv, IInv', NEW p \in Proc, ReadNames(p)
    PROVE  SettledInv'
<1>1. PICK k : k = job[p]
  OBVIOUS
<1>2. IsJob(k) /\ k.pc = "names" /\ \A i \in Slot : Accounted(k, i)
  BY <1>1 DEF SettledInv, IInv, TypeOK, ReadNames, At
<1>3. PICK pc \in {"judge", "complete", "live"} :
          Goto(p, [k EXCEPT !.nums = << >>, !.sims = PairSims(k.nums, names), !.pc = pc])
  <2>1. k.kind = "wait" \/ k.kind = "once" \/ k.kind \notin {"wait", "once"}
    OBVIOUS
  <2> QED
    BY <1>1, <2>1 DEF ReadNames
<1> DEFINE sims == PairSims(k.nums, names)
           j == [k EXCEPT !.nums = << >>, !.sims = sims, !.pc = pc]
<1>4. /\ j.pc = pc /\ j.steady = k.steady /\ j.prev = k.prev
      /\ j.sims = sims /\ j.there = k.there
  BY <1>2 DEF IsJob, Idle
<1>5. Goto(p, j) /\ UNCHANGED <<slot, moves, numbers>>
  BY <1>3 DEF ReadNames, OnlyJob
<1>6. ASSUME NEW i \in Slot, i \in DOMAIN sims, sims[i].name # None
      PROVE  <<i, sims[i]>> \in k.there \/ Gone(k, i)
  BY <1>2, <1>6, PairAccounted
<1> HIDE DEF j, sims
<1>7. j.steady # STEADY /\ j.pc # "names"
  BY <1>2, <1>4 DEF IsJob, STEADY
<1>8. ASSUME NEW i \in Slot PROVE Accounted(j, i)
  <2>1. Doubt(j, i) => Doubt(k, i)
    BY <1>2, <1>4 DEF Doubt, Sampling
  <2>2. j.pc = "judge" => (Doubt(j, i) <=> Doubt(k, i))
    BY <1>2, <1>4 DEF Doubt, Sampling
  <2>3. j.pc = "judge" => (Gone(j, i) <=> Gone(k, i))
    BY <2>2 DEF Gone, Cost
  <2>4. slot[i] # NoSim => <<i, slot[i]>> \in j.there
    BY <1>2, <1>4 DEF Accounted
  <2>5. Doubt(j, i) => (slot[i] # NoSim /\ moves >= 2) \/ moves >= 3
    BY <1>2, <2>1 DEF Accounted
  <2> QED
    BY <1>4, <1>6, <1>7, <2>3, <2>4, <2>5 DEF Accounted
<1> QED
  BY <1>5, <1>8, JobSettled

\* Where it matters that few SIMs were moved: two agreeing samples of a SIM that
\* was not there take two more moves than one.
LEMMA JudgeSettled ==
    ASSUME MaxMoves <= 3, SettledInv, IInv', NEW p \in Proc, Judge(p)
    PROVE  SettledInv'
<1>1. PICK k : k = job[p]
  OBVIOUS
<1>2. IsJob(k) /\ k.pc = "judge" /\ \A i \in Slot : Accounted(k, i)
  BY <1>1 DEF SettledInv, IInv, TypeOK, Judge, At
<1>3. UNCHANGED <<slot, moves, numbers>>
  BY DEF Judge, OnlyJob
<1>4. moves \in Nat /\ moves <= 3
  BY DetectAssumption DEF SettledInv, IInv, TypeOK
<1> DEFINE steady == Counted(k)
<1>5. PICK j :
          /\ Goto(p, j)
          /\ j.pc \in {"complete", "numbers"}
          /\ j.steady = steady /\ j.sims = k.sims /\ j.there = k.there
          /\ j.pc = "numbers" => j.prev = k.sims
  <2> DEFINE done == [k EXCEPT !.pc = "complete", !.steady = steady, !.prev = NoFile]
             more == [k EXCEPT !.pc = "numbers", !.steady = steady, !.prev = k.sims]
  <2>1. Goto(p, done) \/ Goto(p, more)
    BY <1>1 DEF Judge
  <2>2. done.pc = "complete" /\ done.steady = steady /\ done.sims = k.sims /\ done.there = k.there
    BY <1>2 DEF IsJob, Idle
  <2>3. /\ more.pc = "numbers" /\ more.steady = steady /\ more.sims = k.sims
        /\ more.there = k.there /\ more.prev = k.sims
    BY <1>2 DEF IsJob, Idle
  <2> HIDE DEF done, more, steady
  <2> QED
    BY <2>1, <2>2, <2>3
<1>6. steady # 0 => /\ Complete(k.sims) /\ k.prev = k.sims
                    /\ steady = k.steady + 1
  BY DEF Counted
<1>7. k.steady \in 0..1
  BY <1>2 DEF IsJob, STEADY
<1> HIDE DEF steady
\* A sample that is counted is of a SIM that was there, unless two moves were made.
<1>9. ASSUME steady # 0, NEW i \in Slot, i \in DOMAIN k.sims,
             <<i, k.sims[i]>> \notin k.there
      PROVE  slot[i] # NoSim /\ moves >= Cost(k, i) + 2
  <2>1. Complete(k.sims)
    BY <1>6, <1>9
  <2>2. state[i] \in {"UNKNOWN", "ABSENT", "READY"}
    BY DEF SettledInv, IInv, TypeOK
  <2>3. state[i] = "READY" /\ k.sims[i].name # None
    BY <1>9, <2>1, <2>2 DEF Complete
  <2>4. slot[i] # NoSim
    BY <2>3 DEF SettledInv, IInv, PhoneTells
  <2>5. Gone(k, i)
    BY <1>2, <1>9, <2>3 DEF Accounted
  <2> QED
    BY <2>4, <2>5 DEF Gone
\* The second one would take four.
<1>10. ASSUME steady = STEADY, NEW i \in Slot, i \in DOMAIN k.sims
       PROVE  <<i, k.sims[i]>> \in k.there
  <2>1. steady # 0 /\ k.steady = 1 /\ k.prev = k.sims
    BY <1>6, <1>7, <1>10 DEF STEADY
  <2>2. <<i, k.sims[i]>> \notin k.there => Doubt(k, i)
    BY <1>2, <1>10, <2>1 DEF Doubt, Sampling
  <2>3. <<i, k.sims[i]>> \notin k.there => moves >= 4
    BY <1>9, <1>10, <2>1, <2>2 DEF Cost
  <2> QED
    BY <1>4, <2>3
<1>11. ASSUME NEW i \in Slot PROVE Accounted(j, i)
  <2>1. ASSUME Doubt(j, i) PROVE slot[i] # NoSim /\ moves >= 2
    <3>1. j.prev = k.sims /\ steady # 0
      BY <1>5, <2>1 DEF Doubt, Sampling
    <3>2. i \in DOMAIN k.sims /\ <<i, k.sims[i]>> \notin k.there
      BY <1>5, <2>1, <3>1 DEF Doubt
    <3>3. moves >= Cost(k, i) + 2 /\ slot[i] # NoSim
      BY <1>9, <3>1, <3>2
    <3> QED
      BY <1>4, <3>3 DEF Cost
  <2>2. j.pc \notin {"names", "judge"}
    BY <1>5
  <2>3. slot[i] # NoSim => <<i, slot[i]>> \in j.there
    BY <1>2, <1>5 DEF Accounted
  <2> QED
    BY <1>5, <1>10, <2>1, <2>2, <2>3 DEF Accounted
<1> QED
  BY <1>3, <1>5, <1>11, JobSettled

\* A run that has its list, and goes on with it.
LEMMA GoOnSettled ==
    ASSUME SettledInv, IInv', NEW p \in Proc, NEW j, Goto(p, j),
           UNCHANGED <<slot, moves, numbers>>,
           job[p].pc # "idle", j.pc \notin Sampling,
           j.sims = job[p].sims, j.steady = job[p].steady, j.there = job[p].there
    PROVE  SettledInv'
<1>1. \A i \in Slot : Accounted(j, i)
  BY DEF SettledInv, Accounted, Doubt, Sampling
<1> QED
  BY <1>1, JobSettled

LEMMA ListedSettled ==
    ASSUME SettledInv, IInv', NEW p \in Proc,
           CheckComplete(p) \/ Live(p) \/ Marker(p) \/ Saved(p)
    PROVE  SettledInv'
<1>1. PICK k : k = job[p] /\ IsJob(k)
  BY DEF SettledInv, IInv, TypeOK
<1>2. k.pc # "idle" /\ UNCHANGED <<slot, moves, numbers>>
  BY <1>1 DEF CheckComplete, Live, Marker, Saved, At, OnlyJob
<1>3. PICK j :
          /\ Goto(p, j)
          /\ j.pc \in {"save", "answer", "marker", "saved"}
          /\ j.sims = k.sims /\ j.steady = k.steady /\ j.there = k.there
  <2> DEFINE step(pc) == [k EXCEPT !.pc = pc]
             told(from) == [k EXCEPT !.pc = "answer", !.from = from]
             given(from, answer) == [k EXCEPT !.pc = "answer", !.from = from, !.answer = answer]
             Same(j) == j.sims = k.sims /\ j.steady = k.steady /\ j.there = k.there
  <2>1. \A pc : step(pc).pc = pc /\ Same(step(pc))
    BY <1>1 DEF IsJob, Idle
  <2>2. \A from : told(from).pc = "answer" /\ Same(told(from))
    BY <1>1 DEF IsJob, Idle
  <2>3. \A from, answer : given(from, answer).pc = "answer" /\ Same(given(from, answer))
    BY <1>1 DEF IsJob, Idle
  <2>4. \/ Goto(p, step("save")) \/ Goto(p, step("marker")) \/ Goto(p, step("saved"))
        \/ Goto(p, told("empty"))
        \/ Goto(p, given("live", Found(k.sims)))
        \/ Goto(p, given("saved", saved))
        \/ Goto(p, given("cache", {[carrier |-> c, label |-> None] : c \in cached}))
    BY <1>1 DEF CheckComplete, Live, Marker, Saved
  <2> HIDE DEF step, told, given
  <2> QED
    BY <2>1, <2>2, <2>3, <2>4
<1> QED
  BY <1>1, <1>2, <1>3, GoOnSettled DEF Sampling

\* Runs that end; a run that saves tells the others no more than to doubt it.
LEMMA EndSettled ==
    ASSUME SettledInv, IInv', NEW p \in Proc, Save(p) \/ Finish(p) \/ Fail(p)
    PROVE  SettledInv'
<1>1. UNCHANGED <<slot, moves, numbers>>
  BY DEF Save, Finish, Fail
<1>2. CASE Finish(p) \/ Fail(p)
  <2>1. Goto(p, Idle)
    BY <1>2 DEF Finish, Fail
  <2> QED
    BY <1>1, <2>1, IdleAccounted, JobSettled
<1>3. CASE Save(p)
  <2>1. ASSUME NEW q \in Proc, NEW i \in Slot PROVE Accounted(job[q], i)'
    <3>1. PICK l : l = job[q] /\ IsJob(l) /\ Accounted(l, i)
      BY DEF SettledInv, IInv, TypeOK
    <3>2. CASE q = p
      <4>1. job'[q] = Idle
        BY <1>3, <3>2 DEF Save
      <4>2. Accounted(job'[q], i)
        BY <4>1, IdleAccounted
      <4> QED
        BY <1>1, <4>2 DEF Accounted, Gone, Cost, Doubt
    <3>3. CASE q # p
      <4>1. PICK sure : job'[q] = [l EXCEPT !.sure = sure]
        BY <1>3, <3>1, <3>3 DEF Save
      <4> DEFINE j == [l EXCEPT !.sure = sure]
      <4>2. /\ j.pc = l.pc /\ j.steady = l.steady /\ j.prev = l.prev /\ j.nums = l.nums
            /\ j.sims = l.sims /\ j.there = l.there
        BY <3>1 DEF IsJob, Idle
      <4>3. job'[q] = j
        BY <4>1
      <4> HIDE DEF j
      <4>4. Accounted(j, i)
        BY <3>1, <4>2 DEF Accounted, Gone, Cost, Doubt
      <4> QED
        BY <1>1, <4>3, <4>4 DEF Accounted, Gone, Cost, Doubt
    <3> QED
      BY <3>2, <3>3
  <2>2. Lingering'
    BY <1>1 DEF SettledInv, Lingering
  <2> QED
    BY <2>1, <2>2 DEF SettledInv
<1> QED
  BY <1>2, <1>3

LEMMA ReportSettled ==
    ASSUME SettledInv, IInv', NEW i \in Slot, ReportNumber(i) \/ ReportName(i) \/ ReportState(i)
    PROVE  SettledInv'
<1>1. UNCHANGED <<slot, moves, job>>
  BY DEF ReportNumber, ReportName, ReportState
<1>2. \A p \in Proc : \A k \in Slot : Accounted(job[p], k)'
  BY <1>1 DEF SettledInv, Accounted, Gone, Cost, Doubt
<1>3. Lingering'
  <2>1. CASE ReportNumber(i)
    <3>1. PICK now : /\ now = IF slot[i] = NoSim THEN None ELSE slot[i].number
                     /\ numbers' = Field(numbers, i, now)
      BY <2>1 DEF ReportNumber
    <3>2. now \in Number \cup {None}
      BY <3>1 DEF Number, SettledInv, IInv, TypeOK
    <3>3. PICK S : S = Number \cup {None}
      OBVIOUS
    <3>4. None \in S /\ now \in S /\ numbers \in Seq(S) /\ DOMAIN numbers \subseteq Slot
      BY <3>2, <3>3 DEF SettledInv, IInv, TypeOK
    <3>5. \A k \in Slot : FieldOf(Field(numbers, i, now), k)
                             = IF k = i THEN now ELSE FieldOf(numbers, k)
      BY <3>4, FieldWritten
    <3> QED
      BY <1>1, <3>1, <3>5 DEF SettledInv, Lingering
  <2>2. CASE ReportName(i) \/ ReportState(i)
    <3>1. UNCHANGED numbers
      BY <2>2 DEF ReportName, ReportState
    <3> QED
      BY <1>1, <3>1 DEF SettledInv, Lingering
  <2> QED
    BY <2>1, <2>2
<1> QED
  BY <1>2, <1>3 DEF SettledInv

\* A SIM that leaves, or comes, makes what was read of its slot one move dearer.
LEMMA MoveSettled ==
    ASSUME SettledInv, IInv', NEW i \in Slot, NEW s \in Sim, Remove(i) \/ Insert(i, s)
    PROVE  SettledInv'
<1>1. /\ moves' = moves + 1 /\ Moved /\ UNCHANGED numbers
      /\ \A k \in Slot : k # i => slot'[k] = slot[k]
      /\ \/ slot[i] # NoSim /\ slot'[i] = NoSim
         \/ slot[i] = NoSim /\ slot'[i] # NoSim
  <2>1. slot \in [Slot -> Sim \cup {NoSim}]
    BY DEF SettledInv, IInv, TypeOK
  <2> QED
    BY <2>1, DetectAssumption DEF Remove, Insert
<1>2. moves \in Nat
  BY DetectAssumption DEF SettledInv, IInv, TypeOK
<1>3. Lingering'
  <2>1. \A k \in Slot : FieldOf(numbers', k) = FieldOf(numbers, k)
    BY <1>1
  <2> QED
    BY <1>1, <1>2, <2>1 DEF SettledInv, Lingering
<1>4. ASSUME NEW p \in Proc, NEW k \in Slot PROVE Accounted(job[p], k)'
  <2>1. CASE job[p] = Idle
    <3>1. job'[p] = Idle
      BY <1>1, <2>1 DEF Moved
    <3>2. job'[p].pc = "idle" /\ job'[p].steady = 0
      BY <3>1 DEF Idle
    <3> QED
      BY <3>2 DEF Accounted, Doubt, Sampling, STEADY
  <2>2. CASE job[p] # Idle
    <3>1. PICK l : l = job[p] /\ IsJob(l) /\ Accounted(l, k)
      BY DEF SettledInv, IInv, TypeOK
    <3> DEFINE there == l.there \cup {<<m, slot'[m]>> : m \in {n \in Slot : slot'[n] # NoSim}}
               j == [l EXCEPT !.unmoved = FALSE, !.sure = FALSE, !.there = there]
    <3>2. job'[p] = j
      BY <1>1, <2>2, <3>1 DEF Moved
    <3>3. /\ j.pc = l.pc /\ j.steady = l.steady /\ j.prev = l.prev /\ j.nums = l.nums
          /\ j.sims = l.sims /\ j.there = there
      BY <3>1 DEF IsJob, Idle
    <3>4. l.there \subseteq there /\ (slot'[k] # NoSim => <<k, slot'[k]>> \in there)
      OBVIOUS
    <3> HIDE DEF j, there
    <3>5. Doubt(j, k) => Doubt(l, k)
      BY <3>3, <3>4 DEF Doubt
    <3>6. Cost(j, k) <= Cost(l, k) /\ Cost(j, k) \in {0, 2} /\ Cost(l, k) \in {0, 2}
      BY <3>5 DEF Cost
    <3>7. slot[k] # NoSim /\ Doubt(l, k) => moves >= 2
      BY <1>2, <3>1 DEF Accounted
    <3>8. Doubt(j, k) => (slot'[k] # NoSim /\ moves' >= 2) \/ moves' >= 3
      BY <1>1, <1>2, <3>1, <3>5 DEF Accounted
    <3>9. Gone(l, k) => (slot'[k] = NoSim /\ moves' >= Cost(j, k) + 1) \/ moves' >= Cost(j, k) + 2
      BY <1>1, <1>2, <3>6 DEF Gone
    <3>10. slot[k] # NoSim =>
              \/ slot'[k] = slot[k]
              \/ slot'[k] = NoSim /\ moves' >= Cost(j, k) + 1
      BY <1>1, <1>2, <3>5, <3>7 DEF Cost
    <3>11. Gone(job[p], k)' <=> (slot'[k] = NoSim /\ moves' >= Cost(j, k) + 1)
                                  \/ moves' >= Cost(j, k) + 2
      BY <3>2 DEF Gone, Cost, Doubt
    <3>12. j.pc = "names" /\ k \in DOMAIN j.nums =>
              \/ j.nums[k] = None
              \/ slot'[k] # NoSim /\ j.nums[k] = slot'[k].number
              \/ Gone(job[p], k)'
      BY <3>1, <3>3, <3>9, <3>10, <3>11 DEF Accounted
    <3>13. j.pc = "judge" /\ k \in DOMAIN j.sims =>
              \/ j.sims[k].name = None
              \/ <<k, j.sims[k]>> \in j.there
              \/ Gone(job[p], k)'
      BY <3>1, <3>3, <3>4, <3>9, <3>11 DEF Accounted
    <3>14. j.steady = STEADY /\ k \in DOMAIN j.sims => <<k, j.sims[k]>> \in j.there
      BY <3>1, <3>3, <3>4 DEF Accounted
    <3>15. j.pc # "idle" /\ slot'[k] # NoSim => <<k, slot'[k]>> \in j.there
      BY <3>3, <3>4
    <3>16. Doubt(job[p], k)' <=> Doubt(j, k)
      BY <3>2 DEF Doubt
    <3> QED
      BY <3>2, <3>8, <3>12, <3>13, <3>14, <3>15, <3>16 DEF Accounted
  <2> QED
    BY <2>1, <2>2
<1> QED
  BY <1>3, <1>4 DEF SettledInv

LEMMA RebootSettled ==
    ASSUME SettledInv, IInv', NEW new \in [Slot -> Sim \cup {NoSim}], Reboot(new)
    PROVE  SettledInv'
<1>1. numbers' = <<None>> /\ job' = [p \in Proc |-> Idle]
  BY DEF Reboot
<1>2. Lingering'
  BY <1>1, NothingReported DEF Lingering
<1>3. Idle.pc = "idle" /\ Idle.steady = 0
  BY DEF Idle
<1>4. \A p \in Proc : \A i \in Slot : Accounted(job[p], i)'
  BY <1>1, <1>3 DEF Accounted, Doubt, Sampling, STEADY
<1> QED
  BY <1>2, <1>4 DEF SettledInv

LEMMA InitSettled == Init => SettledInv
<1> SUFFICES ASSUME Init PROVE SettledInv
  OBVIOUS
<1>1. Lingering
  BY NothingReported DEF Init, Lingering
<1> QED
  BY <1>1, InitIInv, IdleAccounted DEF Init, SettledInv

LEMMA NextSettled ==
    ASSUME MaxMoves <= 3
    PROVE  SettledInv /\ [Next]_vars => SettledInv'
<1> SUFFICES ASSUME SettledInv, [Next]_vars PROVE SettledInv'
  OBVIOUS
<1>1. IInv'
  BY NextIInv DEF SettledInv
<1>2. CASE UNCHANGED vars
  BY <1>1, <1>2 DEF vars, SettledInv, Lingering, Accounted, Gone, Cost, Doubt
<1>3. ASSUME NEW p \in Proc, RunStep(p) PROVE SettledInv'
  BY <1>1, <1>3, ReadNumbersSettled, ReadNamesSettled, JudgeSettled, ListedSettled,
     EndSettled DEF RunStep
<1>4. ASSUME NEW i \in Slot,
             \/ ReportNumber(i) \/ ReportName(i) \/ ReportState(i)
             \/ Remove(i)
             \/ \E s \in Sim : Insert(i, s)
      PROVE  SettledInv'
  <2>1. CASE Remove(i)
    <3>1. slot[i] \in Sim
      BY <2>1 DEF Remove, SettledInv, IInv, TypeOK
    <3> QED
      BY <1>1, <2>1, <3>1, MoveSettled
  <2> QED
    BY <1>1, <1>4, <2>1, ReportSettled, MoveSettled
<1>5. CASE Skip
  BY <1>1, <1>5 DEF Skip, SettledInv, Lingering, Accounted, Gone, Cost, Doubt
<1> QED
  BY <1>1, <1>2, <1>3, <1>4, <1>5, BeginSettled, RebootSettled DEF Next

\* The wait before its limit never pairs one SIM's number with another's name, or
\* takes a SIM that has left for one that is there, unless SIMs are moved four
\* times: the modem may fill in its properties in any order between the reads.
THEOREM SettledSamplesAreReal == MaxMoves <= 3 => (Spec => []SettledIsReal)
<1> SUFFICES ASSUME MaxMoves <= 3 PROVE Spec => []SettledIsReal
  OBVIOUS
<1>1. SettledInv /\ [Next]_vars => SettledInv'
  BY NextSettled
<1>2. SettledInv => SettledIsReal
  <2>1. \A p \in Proc : \A i \in DOMAIN job[p].sims : SettledInv => i \in Slot
    BY DEF SettledInv, IInv, TypeOK, IsJob
  <2> QED
    BY <2>1 DEF SettledInv, Accounted, SettledIsReal
<1> QED
  BY <1>1, <1>2, InitSettled, PTL DEF Spec
=============================================================================
