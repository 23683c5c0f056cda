----------------------------- MODULE BootProofs -----------------------------
(***************************************************************************)
(* That the report of a boot is true of what telephony uses and of what    *)
(* the page is told (TelephonyReadsPatch and StatusTells of Publish).      *)
(*                                                                         *)
(* Both rest on the phone's own files never being taken for an output of   *)
(* ours (StockIsNotOurs).  That is no fact about the code alone: Google    *)
(* could ship a file that equals one imsforge once wrote.  So they are     *)
(* proved for phones on which it never happens, and from there, with       *)
(* BuildsAreNotOurs, for all builds that tell themselves apart.            *)
(***************************************************************************)
EXTENDS OriginProofs

\* The settings of a carrier in the output laid over the files it was made from:
\* patched for the carriers of the plan, as they were for all others.
LEMMA PatchShows ==
    ASSUME NEW stock, IsDir(stock), OTHERS \in DOMAIN stock,
           \A n \in DOMAIN stock \ {OTHERS} : DOMAIN stock[n].set = {n},
           NEW want, DOMAIN want \subseteq Carrier,
           NEW c \in Carrier, Known(stock, c)
    PROVE  SettingsOf(Over(Output(stock, want), stock), c) =
             IF c \in DOMAIN want THEN PatchSettings(SettingsOf(stock, c), want[c])
                                  ELSE SettingsOf(stock, c)
<1> DEFINE made == Output(stock, want)
           seen == Over(made, stock)
<1>1. c # OTHERS
  BY FilesAssumption
<1>2. DOMAIN made = IF DOMAIN want = {} THEN {} ELSE {OTHERS} \cup (DOMAIN want \cap DOMAIN stock)
  BY DEF Output
<1>3. \A n \in DOMAIN made : made[n] = PatchFile(stock[n], want)
  BY DEF Output
<1>4. DOMAIN seen = DOMAIN stock
  BY <1>2 DEF Over
<1>5. \A n \in DOMAIN stock : seen[n] = IF n \in DOMAIN made THEN PatchFile(stock[n], want)
                                                             ELSE stock[n]
  BY <1>3 DEF Over
<1> HIDE DEF made, seen
<1>6. CASE c \in DOMAIN stock
  <2>1. c \in DOMAIN stock[c].set
    BY <1>1, <1>6
  <2>2. seen[c] = IF c \in DOMAIN want THEN PatchFile(stock[c], want) ELSE stock[c]
    BY <1>1, <1>2, <1>5, <1>6
  <2>3. c \in DOMAIN want => PatchFile(stock[c], want).set[c] = PatchSettings(stock[c].set[c], want[c])
    BY <2>1 DEF PatchFile
  <2> QED
    BY <1>4, <1>6, <2>2, <2>3 DEF SettingsOf, seen, made
<1>7. CASE c \notin DOMAIN stock
  <2>1. c \in DOMAIN stock[OTHERS].set
    BY <1>7 DEF Known
  <2>2. CASE DOMAIN want = {}
    BY <1>2, <1>4, <1>5, <1>7, <2>2 DEF SettingsOf, seen, made
  <2>3. CASE DOMAIN want # {}
    <3>1. seen[OTHERS] = PatchFile(stock[OTHERS], want)
      BY <1>2, <1>5, <2>3
    <3>2. PatchFile(stock[OTHERS], want).set[c] =
            IF c \in DOMAIN want THEN PatchSettings(stock[OTHERS].set[c], want[c])
                                 ELSE stock[OTHERS].set[c]
      BY <2>1 DEF PatchFile
    <3> QED
      BY <1>4, <1>7, <3>1, <3>2 DEF SettingsOf, seen, made
  <2> QED
    BY <2>2, <2>3
<1> QED
  BY <1>6, <1>7
-----------------------------------------------------------------------------
(* The steps of a boot *)

\* What an apply past generate carries was made from the files of this build.
Generated(j) ==
    /\ j.config \in Configs
    /\ j.plan = Plan(j.config, Image[image], j.present)
    /\ j.stage = Output(Image[image], j.plan)

\* What has been established at each step of the boot's own run.
BootJob(j) ==
    /\ j.pc = "clear" => j.kind = "apply"
    /\ j.kind = "apply" =>
          /\ j.pc \in Working \ {"generate"} => Generated(j)
          /\ j.pc \in {"exchange", "report"} => phoneCache = Nothing
          /\ j.pc = "report" => out = j.stage

\* The report says how this build was patched.
ReportTrue ==
    /\ status.config \in Configs
    /\ status.plan = Plan(status.config, Image[image], status.present)
    /\ status.files = Output(Image[image], status.plan)

\* This boot is reported as applied.
Applied == status.boot = boot /\ status.phase = "applied"

\* The report, telephony's cache and the mount agree, from the moment the boot's
\* run writes that it has applied.
AppliedIsTrue ==
    Applied =>
        /\ phase # "postfs"
        /\ ReportTrue
        /\ phase = "ready" => phoneCache = Nothing /\ out = status.files
        /\ phase = "up" => /\ phoneCache = Over(status.files, Image[image])
                           /\ mount = status.files

BootInv ==
    /\ status.boot \in 0..boot
    /\ \A p \in Proc : BootJob(job[p])
    /\ AppliedIsTrue

\* A process that runs nothing has established nothing.
LEMMA IdleBoots == BootJob(Idle)
BY DEF BootJob, Idle, NewJob

\* What the run of one process has to establish, when no other is in a run.
LEMMA OneBoots ==
    ASSUME Exclusive, NEW p \in Proc, job[p].pc # "idle",
           \A q \in Proc \ {p} : job'[q] = job[q], BootJob(job[p])'
    PROVE  \A q \in Proc : BootJob(job[q])'
<1>1. \A q \in Proc \ {p} : job'[q] = Idle
  BY Alone
<1>2. \A q \in Proc \ {p} : BootJob(job[q])'
  BY <1>1 DEF BootJob, Idle, NewJob
<1> QED
  BY <1>2

\* A step of a run keeps its plan too.
LEMMA StepPlan ==
    ASSUME TypeOK, NEW p \in Proc, NEW at, NEW next, Step(p, at, next)
    PROVE  job'[p].plan = job[p].plan
<1>1. job'[p] = [job[p] EXCEPT !.pc = next]
  BY GotoEffect DEF Step
<1>2. IsJob(job[p])
  BY DEF TypeOK
<1> QED
  BY <1>1, <1>2 DEF IsJob

\* A run that ends without a word leaves the boot as it was.
LEMMA ExitBoots ==
    ASSUME TypeOK, Exclusive, BootInv, NEW p \in Proc, job[p].pc # "idle", Exit(p),
           UNCHANGED <<image, boot, mount, out, status, phoneCache>>
    PROVE  BootInv'
<1>1. \A q \in Proc : BootJob(job[q])'
  <2>1. \A q \in Proc : job'[q] = Idle
    BY ExitEffect
  <2> QED
    BY <2>1 DEF BootJob, Idle, NewJob
<1>2. Applied => phase' = phase
  BY Alone DEF BootInv, AppliedIsTrue, Exit
<1>3. AppliedIsTrue'
  BY <1>2 DEF BootInv, AppliedIsTrue, Applied, ReportTrue
<1> QED
  BY <1>1, <1>3 DEF BootInv

\* Before the mount, a run reads what Google ships, and nothing else.
LEMMA GenerateBoots ==
    ASSUME TypeOK, Exclusive, StockIsNotOurs, NEW p \in Proc, Generate(p)
    PROVE  BootJob(job[p])'
<1>1. PICK src \in SourcesNow, present \in Presents :
          LET dir  == Read(src)
              plan == Plan(config, dir, present)
          IN  Goto(p, [pc |-> AfterGenerate(src, dir, plan), kind |-> job[p].kind,
                       src |-> src, place |-> STOCK, plan |-> plan,
                       stage |-> Output(dir, plan),
                       config |-> config, present |-> present])
  BY DEF Generate
<1> DEFINE dir  == Read(src)
           plan == Plan(config, dir, present)
<1>2. job'[p] = [pc |-> AfterGenerate(src, dir, plan), kind |-> job[p].kind,
                 src |-> src, place |-> STOCK, plan |-> plan, stage |-> Output(dir, plan),
                 config |-> config, present |-> present]
  BY <1>1, GotoEffect
<1>3. AfterGenerate(src, dir, plan) \in {"prepare", "refresh", "remember"}
  BY DEF AfterGenerate
<1>4. ASSUME job[p].kind = "apply" PROVE dir = Image[image]
  <2>1. phase = "postfs"
    BY <1>4, Alone DEF Generate
  <2>2. View = Image[image]
    BY <2>1 DEF View
  <2>3. Sources(gens, View) = {}
    BY <2>2 DEF StockIsNotOurs, Sources, Claimants
  <2> QED
    BY <2>2, <2>3 DEF SourcesNow, Read
<1>5. config \in Configs
  BY DEF Generate, TypeOK
<1>6. job[p].kind = "apply" => Generated(job[p])'
  BY <1>2, <1>4, <1>5 DEF Generated, Generate
<1> QED
  BY <1>2, <1>3, <1>6 DEF BootJob
-----------------------------------------------------------------------------
(* The steps preserve it *)

LEMMA InitBoots == Init => BootInv
BY IdleBoots DEF Init, BootInv, AppliedIsTrue, Applied, NoReport

LEMMA RunBoots ==
    ASSUME TypeOK, Exclusive, BootInv, StockIsNotOurs, NEW p \in Proc, RunStep(p)
    PROVE  BootInv'
<1>a. ASSUME UNCHANGED <<image, boot, phase, mount, out, status, phoneCache>>,
             job[p].pc # "idle", \A q \in Proc \ {p} : job'[q] = job[q], BootJob(job[p])'
      PROVE  BootInv'
  <2>1. \A q \in Proc : BootJob(job[q])'
    BY <1>a, OneBoots
  <2>2. AppliedIsTrue'
    BY <1>a DEF BootInv, AppliedIsTrue, Applied, ReportTrue
  <2> QED
    BY <1>a, <2>1, <2>2 DEF BootInv
<1>b. BootJob(job[p])
  BY DEF BootInv
<1>c. boot \in 0..boot
  BY PublishAssumption DEF TypeOK
<1>1. CASE \/ SnapshotCurrent(p) \/ SnapshotFirst(p) \/ SealArchive(p) \/ ReplaceStock(p)
           \/ RememberOutput(p) \/ Prepare(p)
  <2>1. PICK at \in Working \ {"generate"}, next \in Working :
            /\ Step(p, at, next)
            /\ job[p].kind = "apply" => next \notin {"exchange", "report"}
            /\ next = "clear" => job[p].kind = "apply"
    BY <1>1 DEF SnapshotCurrent, SnapshotFirst, SealArchive, ReplaceStock, RememberOutput,
       Prepare, Working
  <2>2. UNCHANGED <<image, boot, phase, mount, out, status, phoneCache>>
    BY <1>1 DEF SnapshotCurrent, SnapshotFirst, SealArchive, ReplaceStock, RememberOutput, Prepare
  <2>3. BootJob(job[p])'
    BY <1>b, <2>1, <2>2, StepEffect, StepPlan DEF BootJob, Generated
  <2> QED
    BY <1>a, <2>1, <2>2, <2>3, StepEffect DEF Working
<1>2. CASE ArchiveStock(p)
  <2>1. IsJob(job[p])
    BY DEF TypeOK
  <2>2. /\ job[p].pc = "refresh"
        /\ UNCHANGED <<image, boot, phase, mount, out, status, phoneCache>>
        /\ job'[p] = [job[p] EXCEPT !.pc = "seal", !.place = FreshArchive]
        /\ \A q \in Proc \ {p} : job'[q] = job[q]
    BY <1>2, GotoEffect DEF ArchiveStock
  <2>3. /\ job'[p].pc = "seal" /\ job'[p].kind = job[p].kind
        /\ job'[p].config = job[p].config /\ job'[p].present = job[p].present
        /\ job'[p].plan = job[p].plan /\ job'[p].stage = job[p].stage
    BY <2>1, <2>2 DEF IsJob
  <2>4. BootJob(job[p])'
    BY <1>b, <2>2, <2>3 DEF BootJob, Generated, Working
  <2> QED
    BY <1>a, <2>2, <2>4
<1>3. CASE Generate(p)
  <2>1. /\ job[p].pc # "idle"
        /\ UNCHANGED <<image, boot, phase, mount, out, status, phoneCache>>
        /\ \A q \in Proc \ {p} : job'[q] = job[q]
    BY <1>3, GotoEffect DEF Generate
  <2> QED
    BY <1>a, <1>3, <2>1, GenerateBoots
<1>4. CASE WritePreparing(p)
  <2>1. Step(p, "preparing", "generate")
    BY <1>4 DEF WritePreparing
  <2>2. BootJob(job[p])'
    BY <2>1, StepEffect DEF BootJob
  <2>3. \A q \in Proc : BootJob(job[q])'
    BY <2>1, <2>2, StepEffect, OneBoots
  <2>4. status'.boot = boot /\ status'.phase = "preparing" /\ boot' = boot
    BY <1>4 DEF WritePreparing, Report, NoReport
  <2> QED
    BY <1>c, <2>3, <2>4 DEF BootInv, AppliedIsTrue, Applied
<1>5. CASE ClearPhoneCache(p)
  <2>1. /\ Step(p, "clear", "exchange") /\ phoneCache' = Nothing
        /\ UNCHANGED <<image, boot, phase, mount, out, status>>
    BY <1>5 DEF ClearPhoneCache
  <2>2. job[p].kind = "apply"
    BY <1>b, <2>1 DEF BootJob, Step
  <2>3. phase = "postfs"
    BY <2>1, <2>2, Alone DEF Step
  <2>4. BootJob(job[p])'
    BY <1>b, <2>1, StepEffect, StepPlan DEF BootJob, Generated, Working
  <2>5. \A q \in Proc : BootJob(job[q])'
    BY <2>1, <2>4, StepEffect, OneBoots
  <2>6. AppliedIsTrue'
    BY <2>1, <2>3 DEF BootInv, AppliedIsTrue, Applied
  <2> QED
    BY <2>1, <2>5, <2>6 DEF BootInv
<1>6. CASE Exchange(p)
  <2>1. /\ Step(p, "exchange", "report")
        /\ job[p].kind = "apply" => out' = job[p].stage
        /\ UNCHANGED <<image, boot, phase, mount, status, phoneCache>>
    BY <1>6 DEF Exchange
  <2>2. BootJob(job[p])'
    BY <1>b, <2>1, StepEffect, StepPlan DEF BootJob, Generated, Working
  <2>3. \A q \in Proc : BootJob(job[q])'
    BY <2>1, <2>2, StepEffect, OneBoots
  <2>4. phase # "ready"
    BY <2>1, Alone DEF Step
  <2>5. AppliedIsTrue'
    BY <2>1, <2>4 DEF BootInv, AppliedIsTrue, Applied, ReportTrue
  <2> QED
    BY <2>1, <2>3, <2>5 DEF BootInv
<1>7. CASE WriteReport(p)
  <2>1. /\ job[p].pc = "report" /\ Exit(p)
        /\ UNCHANGED <<image, boot, mount, out, phoneCache>>
    BY <1>7 DEF WriteReport
  <2>2. CASE job[p].kind # "apply"
    BY <1>7, <2>1, <2>2, ExitBoots DEF WriteReport
  <2>3. CASE job[p].kind = "apply"
    <3>1. status' = [boot |-> boot, phase |-> "applied", config |-> job[p].config,
                     present |-> job[p].present, plan |-> job[p].plan, files |-> job[p].stage]
      BY <1>7, <2>3 DEF WriteReport
    <3>2. Generated(job[p]) /\ phoneCache = Nothing /\ out = job[p].stage
      BY <1>b, <2>1, <2>3 DEF BootJob, Working
    <3>3. phase' = "ready"
      BY <2>1, <2>3 DEF Exit
    <3>4. AppliedIsTrue'
      BY <2>1, <3>1, <3>2, <3>3 DEF AppliedIsTrue, ReportTrue, Generated
    <3>5. \A q \in Proc : job'[q] = Idle
      BY <2>1, ExitEffect
    <3>6. \A q \in Proc : BootJob(job[q])'
      BY <3>5 DEF BootJob, Idle, NewJob
    <3>7. status'.boot \in 0..boot'
      BY <2>1, <3>1 DEF TypeOK
    <3> QED
      BY <3>4, <3>6, <3>7 DEF BootInv
  <2> QED
    BY <2>2, <2>3
<1>8. CASE Fail(p)
  <2>1. job[p].pc # "idle"
    BY <1>8 DEF Fail, Working
  <2>2. CASE job[p].kind = "apply"
    <3>1. IsJob(job[p])
      BY DEF TypeOK
    <3>2. /\ UNCHANGED <<image, boot, phase, mount, out, status, phoneCache>>
          /\ job'[p] = [job[p] EXCEPT !.pc = "failing"]
          /\ \A q \in Proc \ {p} : job'[q] = job[q]
      BY <1>8, <2>2, GotoEffect DEF Fail
    <3>3. job'[p].pc = "failing"
      BY <3>1, <3>2 DEF IsJob
    <3>4. BootJob(job[p])'
      BY <3>3 DEF BootJob, Working
    <3> QED
      BY <1>a, <2>1, <3>2, <3>4
  <2>3. CASE job[p].kind # "apply"
    BY <1>8, <2>1, <2>3, ExitBoots DEF Fail
  <2> QED
    BY <2>2, <2>3
<1>9. CASE RecordFailure(p)
  <2>1. /\ job[p].pc = "failing" /\ Exit(p)
        /\ status' \in {status, Report("failed")}
        /\ UNCHANGED <<image, boot, mount, out, phoneCache>>
    BY <1>9 DEF RecordFailure
  <2>2. CASE status' = status
    BY <2>1, <2>2, ExitBoots
  <2>3. CASE status' = Report("failed")
    <3>1. status'.boot = boot /\ status'.phase = "failed"
      BY <2>3 DEF Report, NoReport
    <3>2. \A q \in Proc : job'[q] = Idle
      BY <2>1, ExitEffect
    <3>3. \A q \in Proc : BootJob(job[q])'
      BY <3>2 DEF BootJob, Idle, NewJob
    <3> QED
      BY <1>c, <2>1, <3>1, <3>3 DEF BootInv, AppliedIsTrue, Applied
  <2> QED
    BY <2>1, <2>2, <2>3
<1>10. CASE PreparingFails(p) \/ Kill(p)
  BY <1>10, ExitBoots DEF PreparingFails, Kill
<1> QED
  BY <1>1, <1>2, <1>3, <1>4, <1>5, <1>6, <1>7, <1>8, <1>9, <1>10 DEF RunStep

LEMMA NextBoots == IInv /\ BootInv /\ StockIsNotOurs /\ [Next]_vars => BootInv'
<1> SUFFICES ASSUME TypeOK, Exclusive, BootInv, StockIsNotOurs, [Next]_vars PROVE BootInv'
  BY DEF IInv
<1>1. ASSUME NEW p \in Proc, BeginApply(p) PROVE BootInv'
  <2>1. /\ job'[p] = NewJob("apply", "preparing")
        /\ \A q \in Proc \ {p} : job'[q] = Idle
        /\ UNCHANGED <<image, boot, phase, mount, out, status, phoneCache>>
    BY <1>1, GotoEffect DEF BeginApply
  <2>2. \A q \in Proc : BootJob(job[q])'
    BY <2>1 DEF BootJob, Idle, NewJob, Working
  <2> QED
    BY <2>1, <2>2 DEF BootInv, AppliedIsTrue, Applied, ReportTrue
<1>2. ASSUME NEW p \in Proc, NEW kind \in {"patch", "scratch"}, BeginPatch(p, kind)
      PROVE  BootInv'
  <2>1. /\ job'[p] = NewJob(kind, "generate")
        /\ \A q \in Proc \ {p} : job'[q] = Idle
        /\ UNCHANGED <<image, boot, phase, mount, out, status, phoneCache>>
    BY <1>2, GotoEffect DEF BeginPatch, Exclusive
  <2>2. \A q \in Proc : BootJob(job[q])'
    BY <2>1 DEF BootJob, Idle, NewJob, Working
  <2> QED
    BY <2>1, <2>2 DEF BootInv, AppliedIsTrue, Applied, ReportTrue
<1>3. ASSUME NEW p \in Proc, RunStep(p) PROVE BootInv'
  BY <1>3, RunBoots
<1>4. CASE ScriptAborts
  <2>1. ~Applied
    BY <1>4 DEF ScriptAborts, BootInv, AppliedIsTrue
  <2> QED
    BY <1>4, <2>1 DEF ScriptAborts, BootInv, AppliedIsTrue, Applied, BootJob, Generated
<1>5. CASE Start
  <2>1. /\ phase = "ready" /\ phase' = "up" /\ mount' = out
        /\ phoneCache = Nothing => phoneCache' = Over(out, Image[image])
        /\ UNCHANGED <<image, boot, out, status, job>>
    BY <1>5 DEF Start
  <2>2. \A q \in Proc : job[q] = Idle
    BY <2>1 DEF Exclusive
  <2>3. \A q \in Proc : BootJob(job[q])'
    BY <2>1, <2>2 DEF BootJob, Idle, NewJob
  <2> QED
    BY <2>1, <2>3 DEF BootInv, AppliedIsTrue, Applied, ReportTrue
<1>6. ASSUME NEW c, EditConfig(c) PROVE BootInv'
  BY <1>6 DEF EditConfig, BootInv, AppliedIsTrue, Applied, ReportTrue, BootJob, Generated
<1>7. ASSUME NEW i, Reboot(i) PROVE BootInv'
  <2>1. /\ boot' = boot + 1 /\ status' = status
        /\ \A q \in Proc : job'[q] = Idle
    BY <1>7 DEF Reboot
  <2>2. boot \in Nat
    BY PublishAssumption DEF TypeOK
  <2>3. \A q \in Proc : BootJob(job[q])'
    BY <2>1 DEF BootJob, Idle, NewJob
  <2> QED
    BY <2>1, <2>2, <2>3 DEF BootInv, AppliedIsTrue, Applied
<1>8. CASE UNCHANGED vars
  BY <1>8 DEF vars, BootInv, AppliedIsTrue, Applied, ReportTrue, BootJob, Generated
<1> QED
  BY <1>1, <1>2, <1>3, <1>4, <1>5, <1>6, <1>7, <1>8 DEF Next

LEMMA BootInvariance == Spec /\ []StockIsNotOurs => [](IInv /\ BootInv)
BY InitIInv, NextIInv, InitBoots, NextBoots, PTL DEF Spec
-----------------------------------------------------------------------------
(* The theorems *)

\* When this boot is reported as applied, telephony uses the patched settings of
\* the carriers of the plan and Google's of all others, for any builds, crashes,
\* failures and manual runs, as long as Google ships no file that is ours.
THEOREM ReportIsTrue == Spec /\ []StockIsNotOurs => []TelephonyReadsPatch
<1>1. IInv /\ BootInv => TelephonyReadsPatch
  <2> SUFFICES ASSUME IInv, BootInv, phase = "up", Applied,
                      NEW c \in Carrier, Known(Image[image], c)
               PROVE  LET stock == Image[image]
                          want  == Plan(status.config, stock, status.present)
                      IN  SettingsOf(phoneCache, c) =
                            IF c \in DOMAIN want
                            THEN PatchSettings(SettingsOf(stock, c), want[c])
                            ELSE SettingsOf(stock, c)
    BY DEF TelephonyReadsPatch, Applied
  <2> DEFINE stock == Image[image]
             want  == Plan(status.config, stock, status.present)
  <2>1. ReportTrue /\ phoneCache = Over(status.files, stock)
    BY DEF BootInv, AppliedIsTrue
  <2>2. phoneCache = Over(Output(stock, want), stock)
    BY <2>1 DEF ReportTrue
  <2>3. image \in Images
    BY DEF IInv, TypeOK
  <2>4. /\ IsDir(stock) /\ OTHERS \in DOMAIN stock
        /\ \A n \in DOMAIN stock \ {OTHERS} : DOMAIN stock[n].set = {n}
    BY <2>3, PublishAssumption
  <2>5. DOMAIN want \subseteq Carrier
    BY DEF Plan
  <2> HIDE DEF stock, want
  <2> QED
    BY <2>2, <2>4, <2>5, PatchShows DEF stock, want
<1> QED
  BY <1>1, BootInvariance, PTL

\* What the page is told of an applied boot agrees with what is mounted, under
\* the same hypothesis.
THEOREM StatusIsTrue == Spec /\ []StockIsNotOurs => []StatusTells
<1>1. IInv /\ BootInv /\ StockIsNotOurs => StatusTells
  <2> SUFFICES ASSUME IInv, BootInv, StockIsNotOurs, phase = "up", backend = "bind", Applied
               PROVE  IF DOMAIN status.files = {} THEN Product(gens, View) # "ours"
                      ELSE /\ MatchesRun
                           /\ \/ Product(gens, View) = "ours"
                              \/ \A n \in DOMAIN status.files : GoogleFile(n, status.files[n])
    BY DEF StatusTells, Applied
  <2>1. mount = status.files /\ View = Over(status.files, Image[image])
    BY DEF BootInv, AppliedIsTrue, View
  <2>2. IsDir(Image[image]) /\ OTHERS \in DOMAIN Image[image]
    BY PublishAssumption DEF IInv, TypeOK
  <2>3. CASE DOMAIN status.files = {}
    <3>1. View = Image[image]
      BY <2>1, <2>2, <2>3 DEF Over, IsDir
    <3>2. \A l \in Usable(gens) : ~Ours(View, gens[l])
      BY <3>1 DEF StockIsNotOurs
    <3> QED
      BY <2>3, <3>2 DEF Product
  <2>4. CASE DOMAIN status.files # {}
    <3>1. MatchesRun
      BY <2>1, <2>4 DEF MatchesRun, Matches, Over
    <3>2. Recognised(gens, status.files)
      BY <2>1 DEF IInv, OutputKnown
    <3>3. ASSUME NEW l \in Usable(gens), NEW m \in Manifests(gens[l]), Matches(status.files, m)
          PROVE  Product(gens, View) = "ours"
      <4>1. Matches(View, m)
        BY <2>1, <3>3 DEF Matches, Over
      <4>2. OTHERS \in DOMAIN View
        BY <2>1, <2>2 DEF Over
      <4> QED
        BY <4>1, <4>2 DEF Product, Ours
    <3> QED
      BY <2>4, <3>1, <3>2, <3>3 DEF Recognised
  <2> QED
    BY <2>3, <2>4
<1> QED
  BY <1>1, BootInvariance, PTL

\* So the report is true wherever Google's builds tell themselves apart.
THEOREM PhoneUsesPatch == OthersTell => (Spec => []TelephonyReadsPatch)
BY BuildsAreNotOurs, ReportIsTrue, PTL

\* And so is what the page is told.
THEOREM PageIsToldTrue == OthersTell => (Spec => []StatusTells)
BY BuildsAreNotOurs, StatusIsTrue, PTL
=============================================================================
