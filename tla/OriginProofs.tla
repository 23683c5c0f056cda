---------------------------- MODULE OriginProofs ----------------------------
(***************************************************************************)
(* What can be said of sources in bytes, when Google's builds tell         *)
(* themselves apart.                                                       *)
(*                                                                         *)
(* Publish compares files, and its unconditional promises are about        *)
(* settings: Google could ship a file imsforge once wrote, two builds      *)
(* could share an others.pb, and a run that changes nothing still writes   *)
(* a new version.  The hypotheses OthersTell, OthersIdentify and           *)
(* NoIdleRuns, all about constants, each rule out one of these, and the    *)
(* theorems say which promise needs which.                                 *)
(***************************************************************************)
EXTENDS PublishProofs

-----------------------------------------------------------------------------
(* Plans and the versions they write *)

\* What a run plans is one of the plans.
LEMMA PlanInPlans ==
    ASSUME NEW cfg \in Configs, NEW dir, NEW present
    PROVE  Plan(cfg, dir, present) \in Plans
<1> DEFINE plan == Plan(cfg, dir, present)
<1>1. \A c \in DOMAIN plan : plan[c] \in Entries
  BY DEF Plan, Entries
<1>2. plan \in [DOMAIN plan -> Entries] /\ DOMAIN plan \subseteq Carrier
  BY <1>1 DEF Plan
<1> HIDE DEF plan
<1>3. plan \in Plans
  BY <1>2, PartialIntro DEF Plans
<1> QED
  BY <1>3 DEF plan

\* An others.pb is no older than any that Google ships with the same settings.
NotOlder(f) == \A j \in Images : f.set = Image[j][OTHERS].set => f.ver >= Image[j][OTHERS].ver
Dated(d) == OTHERS \in DOMAIN d => NotOlder(d[OTHERS])

\* An output, if there is one, has an others.pb, and not one of Google's.
NotGoogles(m) ==
    DOMAIN m # {} => OTHERS \in DOMAIN m /\ \A j \in Images : m[OTHERS] # Image[j][OTHERS]

\* What is made of an others.pb with Google's settings is newer than any of
\* Google's that says the same, so it is none of them.
LEMMA PatchedIsNewer ==
    ASSUME OthersTell, NEW f \in File, GoogleFile(OTHERS, f), NotOlder(f), NEW want \in Plans
    PROVE  /\ NotOlder(PatchFile(f, want))
           /\ \A j \in Images : PatchFile(f, want) # Image[j][OTHERS]
<1>1. PICK i \in Images : Image[i][OTHERS].set = f.set
  BY DEF GoogleFile
<1>2. PatchFile(f, want).set = PatchFile(Image[i][OTHERS], want).set
  BY <1>1 DEF PatchFile
<1>3. PatchFile(f, want).ver = f.ver + 1 /\ f.ver \in Nat
  BY DEF PatchFile, File
<1>4. ASSUME NEW j \in Images, PatchFile(f, want).set = Image[j][OTHERS].set
      PROVE  PatchFile(f, want).ver > Image[j][OTHERS].ver
  <2>1. Image[i][OTHERS] = Image[j][OTHERS]
    BY <1>2, <1>4 DEF OthersTell
  <2>2. f.ver >= Image[j][OTHERS].ver
    BY <1>1, <2>1 DEF NotOlder
  <2>3. Image[j][OTHERS] \in File
    BY PublishAssumption DEF IsDir
  <2>4. Image[j][OTHERS].ver \in Nat
    BY <2>3 DEF File
  <2> QED
    BY <1>3, <2>2, <2>4
<1>5. \A j \in Images : Image[j][OTHERS].ver \in Nat
  <2>1. \A j \in Images : Image[j][OTHERS] \in File
    BY PublishAssumption DEF IsDir
  <2> QED
    BY <2>1 DEF File
<1>6. NotOlder(PatchFile(f, want))
  BY <1>3, <1>4, <1>5 DEF NotOlder
<1>7. ASSUME NEW j \in Images, PatchFile(f, want) = Image[j][OTHERS] PROVE FALSE
  <2>1. PatchFile(f, want).ver > PatchFile(f, want).ver
    BY <1>4, <1>7
  <2> QED
    BY <1>3, <2>1
<1> QED
  BY <1>6, <1>7

\* The same of what a run writes from a directory with Google's settings.
LEMMA OutputIsNewer ==
    ASSUME OthersTell, NEW dir, IsDir(dir), GoogleDir(dir), Dated(dir),
           NEW cfg \in Configs, NEW present
    PROVE  LET made == Output(dir, Plan(cfg, dir, present))
           IN  Dated(made) /\ NotGoogles(made)
<1> DEFINE want == Plan(cfg, dir, present)
           made == Output(dir, want)
<1>1. want \in Plans
  BY PlanInPlans
<1> HIDE DEF want
<1>2. OTHERS \in DOMAIN dir /\ dir[OTHERS] \in File
  BY DEF GoogleDir, IsDir
<1>3. GoogleFile(OTHERS, dir[OTHERS]) /\ NotOlder(dir[OTHERS])
  BY <1>2 DEF GoogleDir, Dated
<1>4. /\ NotOlder(PatchFile(dir[OTHERS], want))
      /\ \A j \in Images : PatchFile(dir[OTHERS], want) # Image[j][OTHERS]
  BY <1>1, <1>2, <1>3, PatchedIsNewer
<1>5. /\ DOMAIN made # {} => OTHERS \in DOMAIN made
      /\ OTHERS \in DOMAIN made => made[OTHERS] = PatchFile(dir[OTHERS], want)
  BY DEF Output
<1> HIDE DEF made
<1>6. Dated(made) /\ NotGoogles(made)
  BY <1>4, <1>5 DEF Dated, NotGoogles
<1> QED
  BY <1>6 DEF made, want

\* Google's own builds are no older than themselves.
LEMMA ImageIsDated ==
    ASSUME OthersTell, NEW i \in Images
    PROVE  Dated(Image[i])
<1> SUFFICES ASSUME NEW j \in Images, Image[i][OTHERS].set = Image[j][OTHERS].set
             PROVE  Image[i][OTHERS].ver >= Image[j][OTHERS].ver
  BY DEF Dated, NotOlder
<1>1. \A k \in Images : Image[k][OTHERS] \in File
  BY PublishAssumption DEF IsDir
<1>2. \A k \in Images : Image[k][OTHERS].ver \in Nat /\ Image[k][OTHERS].set \in Partial(Carrier, Settings)
  BY <1>1 DEF File
<1>3. Nothing \in Plans
  <2>1. Nothing \in [DOMAIN Nothing -> Entries] /\ DOMAIN Nothing \subseteq Carrier
    BY DEF Nothing
  <2> QED
    BY <2>1, PartialIntro DEF Plans
<1>4. PatchFile(Image[i][OTHERS], Nothing).set = Image[i][OTHERS].set
  <2>1. Image[i][OTHERS].set \in [DOMAIN Image[i][OTHERS].set -> Settings]
    BY <1>2, PartialElim
  <2> QED
    BY <2>1 DEF PatchFile, Nothing
<1>5. Image[i][OTHERS] = Image[j][OTHERS]
  BY <1>3, <1>4 DEF OthersTell
<1> QED
  BY <1>2, <1>5
-----------------------------------------------------------------------------
(* No generation claims a build *)

\* Every others.pb that a run may read, and every one it has made, is dated; and
\* no registered output has one of Google's.
Ages ==
    /\ \A l \in Usable(gens) :
          /\ Dated(gens[l].files)
          /\ \A m \in Manifests(gens[l]) : NotGoogles(m)
    /\ Dated(out) /\ Dated(mount)
    /\ \A p \in Proc : Dated(job[p].stage)

LEMMA NothingIsDated == Dated(Nothing)
BY DEF Dated, Nothing

LEMMA ViewIsDated ==
    ASSUME OthersTell, TypeOK, Ages
    PROVE  Dated(View)
<1>1. Dated(Image[image])
  BY ImageIsDated DEF TypeOK
<1>2. Dated(Over(out, Image[image])) /\ Dated(Over(mount, Image[image]))
  BY <1>1 DEF Ages, Dated, Over
<1> QED
  BY <1>1, <1>2 DEF View

\* Where a staged output comes from.
LEMMA StageOrigin ==
    ASSUME TypeOK, [Next]_vars, NEW p \in Proc
    PROVE  \/ job'[p].stage = job[p].stage
           \/ job'[p].stage = Nothing
           \/ \E src \in SourcesNow, present \in Presents :
                 /\ config \in Configs
                 /\ job'[p].stage = Output(Read(src), Plan(config, Read(src), present))
<1> DEFINE Kept(q) == job'[q].stage = job[q].stage \/ job'[q].stage = Nothing
<1>a. \A q \in Proc : IsJob(job[q])
  BY DEF TypeOK
<1>b. Idle.stage = Nothing /\ \A k, pc : NewJob(k, pc).stage = Nothing
  BY DEF Idle, NewJob
<1>1. ASSUME NEW q \in Proc, NEW at, NEW next, Step(q, at, next) PROVE Kept(p)
  BY <1>1, StepEffect
<1>2. ASSUME NEW q \in Proc, Exit(q) \/ Goto(q, Idle) PROVE Kept(p)
  BY <1>2, <1>b, GotoEffect DEF Exit
<1>3. ASSUME NEW q \in Proc, NEW k, NEW pc, Goto(q, NewJob(k, pc)) PROVE Kept(p)
  BY <1>3, <1>b, GotoEffect
<1>4. ASSUME NEW q \in Proc, ArchiveStock(q) PROVE Kept(p)
  <2>1. Goto(q, [job[q] EXCEPT !.pc = "seal", !.place = FreshArchive])
    BY <1>4 DEF ArchiveStock
  <2>2. [job[q] EXCEPT !.pc = "seal", !.place = FreshArchive].stage = job[q].stage
    BY <1>a DEF IsJob
  <2> QED
    BY <2>1, <2>2, GotoEffect
<1>5. ASSUME NEW q \in Proc, Fail(q) PROVE Kept(p)
  <2>1. [job[q] EXCEPT !.pc = "failing"].stage = job[q].stage
    BY <1>a DEF IsJob
  <2> QED
    BY <1>2, <1>5, <2>1, GotoEffect DEF Fail
<1>6. ASSUME NEW q \in Proc, Generate(q), ~Kept(p)
      PROVE  \E src \in SourcesNow, present \in Presents :
                 /\ config \in Configs
                 /\ job'[p].stage = Output(Read(src), Plan(config, Read(src), present))
  <2>1. PICK src \in SourcesNow, present \in Presents :
            LET dir  == Read(src)
                plan == Plan(config, dir, present)
            IN  Goto(q, [pc |-> AfterGenerate(src, dir, plan), kind |-> job[q].kind,
                         src |-> src, place |-> STOCK, plan |-> plan,
                         stage |-> Output(dir, plan),
                         config |-> config, present |-> present])
    BY <1>6 DEF Generate
  <2>2. p = q
    BY <1>6, <2>1, GotoEffect
  <2>3. config \in Configs
    BY <1>6 DEF Generate, TypeOK
  <2>4. job'[p].stage = Output(Read(src), Plan(config, Read(src), present))
    BY <2>1, <2>2, GotoEffect
  <2> QED
    BY <2>3, <2>4
<1>7. ASSUME NEW q \in Proc, RunStep(q), ~Generate(q) PROVE Kept(p)
  <2>1. CASE \/ WritePreparing(q) \/ SnapshotCurrent(q) \/ SnapshotFirst(q)
             \/ SealArchive(q) \/ ReplaceStock(q) \/ RememberOutput(q)
             \/ Prepare(q) \/ ClearPhoneCache(q) \/ Exchange(q)
    <3>1. \E at, next : Step(q, at, next)
      BY <2>1 DEF WritePreparing, SnapshotCurrent, SnapshotFirst, SealArchive, ReplaceStock,
         RememberOutput, Prepare, ClearPhoneCache, Exchange
    <3> QED
      BY <1>1, <3>1
  <2>2. CASE PreparingFails(q) \/ WriteReport(q) \/ RecordFailure(q) \/ Kill(q)
    BY <1>2, <2>2 DEF PreparingFails, WriteReport, RecordFailure, Kill
  <2> QED
    BY <1>4, <1>5, <1>7, <2>1, <2>2 DEF RunStep
<1>8. ASSUME ~\E q \in Proc : RunStep(q) PROVE Kept(p)
  <2>1. CASE \E q \in Proc : BeginApply(q) \/ \E k \in {"patch", "scratch"} : BeginPatch(q, k)
    BY <1>3, <2>1 DEF BeginApply, BeginPatch
  <2>2. CASE \E i \in Images : Reboot(i)
    BY <1>b, <2>2 DEF Reboot
  <2>3. CASE \/ ScriptAborts \/ Start \/ UNCHANGED vars
             \/ \E c \in Configs \cup {BadConfig} : EditConfig(c)
    BY <2>3 DEF ScriptAborts, Start, vars, EditConfig
  <2> QED
    BY <1>8, <2>1, <2>2, <2>3 DEF Next
<1> QED
  BY <1>6, <1>7, <1>8

\* A phone that is new, or comes from format 1, has nothing of Google's as ours.
LEMMA InitAges == OthersTell /\ Init => Ages
<1> SUFFICES ASSUME OthersTell, Init PROVE Ages
  OBVIOUS
<1>1. Dated(mount) /\ \A p \in Proc : Dated(job[p].stage)
  BY NothingIsDated DEF Init, Idle, NewJob
<1>2. CASE Fresh
  BY <1>1, <1>2, NothingIsDated DEF Fresh, Ages, Usable, Nothing
<1>3. CASE Legacy
  <2>1. PICK i \in Images, c \in Configs, q \in Presents :
            LET made == Output(Image[i], Plan(c, Image[i], q))
            IN  /\ DOMAIN made # {}
                /\ out = made
                /\ gens = Put(Nothing, STOCK,
                              [files |-> Image[i], outputs |-> {},
                               legacy |-> {made[OTHERS]}, sealed |-> FALSE])
    BY <1>3 DEF Legacy
  <2>2. /\ Usable(gens) = {STOCK}
        /\ gens[STOCK] = [files |-> Image[i], outputs |-> {},
                          legacy |-> {out[OTHERS]}, sealed |-> FALSE]
    BY <2>1 DEF Usable, Put, Nothing
  <2>3. IsDir(Image[i]) /\ GoogleDir(Image[i]) /\ Dated(Image[i])
    BY PublishAssumption, ImageIsDated DEF GoogleDir, GoogleFile
  <2>4. Dated(out) /\ NotGoogles(out)
    <3>1. out = Output(Image[i], Plan(c, Image[i], q))
      BY <2>1
    <3> QED
      BY <2>3, <3>1, OutputIsNewer
  <2>5. OTHERS \in DOMAIN out
    BY <2>1 DEF Output
  <2>6. NotGoogles([n \in {OTHERS} |-> out[OTHERS]])
    BY <2>4, <2>5 DEF NotGoogles
  <2>7. Manifests(gens[STOCK]) = {[n \in {OTHERS} |-> out[OTHERS]]}
    BY <2>2 DEF Manifests
  <2>8. gens[STOCK].files = Image[i]
    BY <2>2
  <2>9. Usable(gens) = {STOCK}
    BY <2>2
  <2>10. \A l \in Usable(gens) :
            /\ Dated(gens[l].files)
            /\ \A m \in Manifests(gens[l]) : NotGoogles(m)
    BY <2>3, <2>6, <2>7, <2>8, <2>9
  <2> QED
    BY <1>1, <2>4, <2>10 DEF Ages
<1> QED
  BY <1>2, <1>3 DEF Init

LEMMA NextAges == OthersTell /\ IInv /\ Ages /\ [Next]_vars => Ages'
<1> SUFFICES ASSUME OthersTell, TypeOK, RunSafe, NoPatchInStock, OutputKnown, Ages, [Next]_vars
             PROVE  Ages'
  BY DEF IInv
<1>1. ASSUME NEW l \in Usable(gens')
      PROVE  Dated(gens'[l].files) /\ \A m \in Manifests(gens'[l]) : NotGoogles(m)
  <2> DEFINE g == gens'[l]
  <2>1. ASSUME NEW k \in Usable(gens), g.files = gens[k].files,
               g.outputs = gens[k].outputs, g.legacy = gens[k].legacy
        PROVE  Dated(g.files) /\ \A m \in Manifests(g) : NotGoogles(m)
    BY <2>1 DEF Ages, Manifests
  <2>2. ASSUME g.files = View, g.outputs = {}, g.legacy = {}
        PROVE  Dated(g.files) /\ \A m \in Manifests(g) : NotGoogles(m)
    BY <2>2, ViewIsDated DEF Manifests
  <2>3. ASSUME NEW k \in Usable(gens), NEW c \in Configs, NEW present \in Presents,
               g.files = gens[k].files,
               g.outputs = Manifests(gens[k]) \cup {Output(g.files, Plan(c, g.files, present))}
        PROVE  Dated(g.files) /\ \A m \in Manifests(g) : NotGoogles(m)
    <3>1. IsDir(g.files) /\ GoogleDir(g.files) /\ Dated(g.files)
      BY <2>3 DEF TypeOK, IsGeneration, NoPatchInStock, Ages, Usable
    <3>2. NotGoogles(Output(g.files, Plan(c, g.files, present)))
      BY <3>1, OutputIsNewer
    <3>3. Manifests(g) = g.outputs
      BY <2>3 DEF Manifests
    <3> HIDE DEF g
    <3> QED
      BY <2>3, <3>1, <3>2, <3>3 DEF Ages
  <2> HIDE DEF g
  <2>4. \/ \E k \in Usable(gens) : /\ g.files = gens[k].files
                                   /\ g.outputs = gens[k].outputs
                                   /\ g.legacy = gens[k].legacy
        \/ g.files = View /\ g.outputs = {} /\ g.legacy = {}
        \/ \E k \in Usable(gens), c \in Configs, present \in Presents :
              /\ g.files = gens[k].files
              /\ g.outputs = Manifests(gens[k]) \cup
                              {Output(g.files, Plan(c, g.files, present))}
    BY GenerationOrigin DEF g
  <2>5. Dated(g.files) /\ \A m \in Manifests(g) : NotGoogles(m)
    BY <2>1, <2>2, <2>3, <2>4
  <2> QED
    BY <2>5 DEF g
<1>2. Dated(out') /\ Dated(mount')
  BY InstalledOrigin, NothingIsDated DEF Ages
<1>3. ASSUME NEW p \in Proc PROVE Dated(job'[p].stage)
  <2>1. CASE \E src \in SourcesNow, present \in Presents :
                /\ config \in Configs
                /\ job'[p].stage = Output(Read(src), Plan(config, Read(src), present))
    <3>1. PICK src \in SourcesNow, present \in Presents :
              /\ config \in Configs
              /\ job'[p].stage = Output(Read(src), Plan(config, Read(src), present))
      BY <2>1
    <3>2. IsDir(Read(src)) /\ GoogleDir(Read(src))
      BY SourceIsDir, SourceIsGoogle
    <3>3. Dated(Read(src))
      BY ViewIsDated, SourceIsDir DEF Read, Ages
    <3> QED
      BY <3>1, <3>2, <3>3, OutputIsNewer
  <2>2. CASE job'[p].stage = job[p].stage \/ job'[p].stage = Nothing
    BY <2>2, NothingIsDated DEF Ages
  <2> QED
    BY <2>1, <2>2, StageOrigin
<1> QED
  BY <1>1, <1>2, <1>3 DEF Ages

\* Where builds tell themselves apart, no generation ever claims what the present
\* build ships: a boot reads the new build and never the cache in its place.
THEOREM BuildsAreNotOurs == OthersTell => (Spec => []StockIsNotOurs)
<1> SUFFICES ASSUME OthersTell PROVE Spec => []StockIsNotOurs
  OBVIOUS
<1>1. Init => IInv /\ Ages
  BY InitIInv, InitAges
<1>2. IInv /\ Ages /\ [Next]_vars => IInv' /\ Ages'
  BY NextIInv, NextAges
<1>3. IInv /\ Ages => StockIsNotOurs
  <2> SUFFICES ASSUME IInv, Ages, NEW l \in Usable(gens), NEW m \in Manifests(gens[l]),
                      Matches(Image[image], m)
               PROVE  FALSE
    BY DEF StockIsNotOurs, Ours
  <2>1. image \in Images
    BY DEF IInv, TypeOK
  <2>2. OTHERS \in DOMAIN m /\ m[OTHERS] # Image[image][OTHERS]
    BY <2>1 DEF Ages, NotGoogles, Matches
  <2> QED
    BY <2>2 DEF Matches
<1> QED
  BY <1>1, <1>2, <1>3, PTL DEF Spec
-----------------------------------------------------------------------------
(* The cache holds builds, byte for byte *)

\* A directory of ours that a generation answers to; or nothing.
Claimed(cache, d) ==
    \/ DOMAIN d = {}
    \/ \E l \in Usable(cache) : \E m \in Manifests(cache[l]) : Matches(d, m)

\* What a generation answers to was made from its own others.pb.
MadeHere(g) ==
    \A m \in Manifests(g) :
        /\ OTHERS \in DOMAIN m
        /\ \E want \in Plans : m[OTHERS] = PatchFile(g.files[OTHERS], want)

\* What halfway through a run is exactly a build, and what is ours.
ByteJob(j) ==
    /\ j.pc \in {"refresh", "seal", "swap"} => View = Image[image]
    /\ j.pc \in {"prepare", "clear", "exchange"} => Claimed(gens, j.stage)

Bytes ==
    /\ StockIsGoogles
    /\ \A l \in Usable(gens) : MadeHere(gens[l])
    /\ Claimed(gens, out) /\ Claimed(gens, mount)
    /\ \A p \in Proc : ByteJob(job[p])

\* If no generation claims what is seen, it is the build and nothing else.
LEMMA LiveIsBuild ==
    ASSUME TypeOK, NoPatchInStock, Claimed(gens, out), Claimed(gens, mount),
           Claimants(gens, View) = {}
    PROVE  View = Image[image]
<1> DEFINE stock == Image[image]
<1>1. IsDir(stock) /\ OTHERS \in DOMAIN stock
  BY PublishAssumption DEF TypeOK
<1>2. CASE phase # "up"
  BY <1>2 DEF View
<1>3. CASE phase = "up"
  <2>1. PICK d \in {out, mount} : View = Over(d, stock)
    BY <1>3 DEF View
  <2>2. ASSUME NEW l \in Usable(gens), NEW m \in Manifests(gens[l]), Matches(d, m)
        PROVE  FALSE
    <3>1. Matches(View, m)
      BY <2>1, <2>2 DEF Matches, Over
    <3>2. OTHERS \in DOMAIN View
      BY <1>1, <2>1 DEF Over
    <3>3. OTHERS \in DOMAIN gens[l].files
      BY DEF NoPatchInStock, GoogleDir
    <3>4. l \in Claimants(gens, View)
      BY <3>1, <3>2, <3>3 DEF Claimants, Ours
    <3> QED
      BY <3>4
  <2>3. DOMAIN d = {}
    BY <2>1, <2>2 DEF Claimed
  <2>4. stock = [n \in DOMAIN stock |-> stock[n]]
    BY <1>1 DEF IsDir
  <2> QED
    BY <2>1, <2>3, <2>4 DEF Over
<1> QED
  BY <1>2, <1>3

\* What is claimed stays claimed while no registration is lost.
LEMMA KeepsClaimed ==
    ASSUME NEW old, NEW new, Keeps(old, new), NEW d, Claimed(old, d)
    PROVE  Claimed(new, d)
BY DEF Keeps, Claimed

\* An output is claimed once it is registered.
LEMMA RememberClaims ==
    ASSUME NEW cache, NEW l \in Usable(cache), IsGeneration(cache[l]), NEW m
    PROVE  Claimed(Remember(cache, l, m), m)
<1> DEFINE new == Remember(cache, l, m)
<1>1. l \in DOMAIN cache
  BY DEF Usable
<1>2. CASE DOMAIN m = {}
  BY <1>2 DEF Claimed
<1>3. CASE DOMAIN m # {}
  <2>1. l \in Usable(new) /\ new[l].outputs = Manifests(cache[l]) \cup {m}
    BY <1>1, <1>3, RememberEffect
  <2> HIDE DEF new
  <2>2. m \in Manifests(new[l])
    BY <2>1 DEF Manifests
  <2>3. Claimed(new, m)
    BY <1>3, <2>1, <2>2 DEF Claimed, Matches
  <2> QED
    BY <2>3 DEF new
<1> QED
  BY <1>2, <1>3

\* What is written from a directory was made from its others.pb.
LEMMA OutputMadeHere ==
    ASSUME NEW dir, NEW cfg \in Configs, NEW present,
           DOMAIN Output(dir, Plan(cfg, dir, present)) # {}
    PROVE  LET made == Output(dir, Plan(cfg, dir, present))
           IN  /\ OTHERS \in DOMAIN made
               /\ \E want \in Plans : made[OTHERS] = PatchFile(dir[OTHERS], want)
<1>1. Plan(cfg, dir, present) \in Plans
  BY PlanInPlans
<1> QED
  BY <1>1 DEF Output

\* Every generation has what it answers to made from its own others.pb.
LEMMA NextMadeHere ==
    ASSUME TypeOK, RunSafe, \A k \in Usable(gens) : MadeHere(gens[k]), [Next]_vars,
           NEW l \in Usable(gens')
    PROVE  MadeHere(gens'[l])
<1> DEFINE g == gens'[l]
<1>1. ASSUME NEW k \in Usable(gens), g.files = gens[k].files,
             g.outputs = gens[k].outputs, g.legacy = gens[k].legacy
      PROVE  MadeHere(g)
  BY <1>1 DEF MadeHere, Manifests
<1>2. ASSUME g.outputs = {}, g.legacy = {}
      PROVE  MadeHere(g)
  BY <1>2 DEF MadeHere, Manifests
<1>3. ASSUME NEW k \in Usable(gens), NEW c \in Configs, NEW present \in Presents,
             g.files = gens[k].files,
             g.outputs = Manifests(gens[k]) \cup {Output(g.files, Plan(c, g.files, present))},
             DOMAIN Output(g.files, Plan(c, g.files, present)) # {}
      PROVE  MadeHere(g)
  <2>1. Manifests(g) = g.outputs
    BY <1>3 DEF Manifests
  <2>2. LET made == Output(g.files, Plan(c, g.files, present))
        IN  /\ OTHERS \in DOMAIN made
            /\ \E want \in Plans : made[OTHERS] = PatchFile(g.files[OTHERS], want)
    BY <1>3, OutputMadeHere
  <2> HIDE DEF g
  <2> QED
    BY <1>3, <2>1, <2>2 DEF MadeHere
<1> HIDE DEF g
<1>4. \/ \E k \in Usable(gens) : /\ g.files = gens[k].files
                                 /\ g.outputs = gens[k].outputs
                                 /\ g.legacy = gens[k].legacy
      \/ g.outputs = {} /\ g.legacy = {}
      \/ \E k \in Usable(gens), c \in Configs, present \in Presents :
            /\ g.files = gens[k].files
            /\ g.outputs = Manifests(gens[k]) \cup
                            {Output(g.files, Plan(c, g.files, present))}
            /\ DOMAIN Output(g.files, Plan(c, g.files, present)) # {}
  BY GenerationOrigin DEF g
<1>5. MadeHere(g)
  BY <1>1, <1>2, <1>3, <1>4
<1> QED
  BY <1>5 DEF g

\* The decision of generate: a run that reads /product reads the build, and what
\* goes on without being registered is nothing.
LEMMA GenerateBytes ==
    ASSUME NoIdleRuns, TypeOK, NoPatchInStock, Bytes, NEW p \in Proc, Generate(p)
    PROVE  ByteJob(job[p])'
<1>1. PICK src \in SourcesNow, present \in Presents :
          LET dir  == Read(src)
              plan == Plan(config, dir, present)
          IN  Goto(p, [pc |-> AfterGenerate(src, dir, plan), kind |-> job[p].kind,
                       src |-> src, place |-> STOCK, plan |-> plan,
                       stage |-> Output(dir, plan),
                       config |-> config, present |-> present])
  BY DEF Generate
<1> DEFINE dir  == Read(src)
           plan == Plan(config, dir, present)
<1>2. job'[p].pc = AfterGenerate(src, dir, plan) /\ job'[p].stage = Output(dir, plan)
  BY <1>1, GotoEffect
<1>3. config \in Configs /\ image \in Images
  BY DEF Generate, TypeOK
<1>4. View' = View /\ gens' = gens /\ image' = image
  BY DEF Generate, View
<1>5. ASSUME src = LIVE PROVE dir = Image[image] /\ View = Image[image]
  <2>1. View = Image[image]
    BY <1>5, SourceIsDir, LiveIsBuild DEF Bytes
  <2> QED
    BY <1>5, <2>1 DEF Read
<1>6. CASE AfterGenerate(src, dir, plan) = "prepare"
  <2>1. DOMAIN plan = {}
    <3>1. CASE src = LIVE /\ ~Changed(dir, plan)
      BY <1>3, <1>5, <3>1 DEF NoIdleRuns, Writes
    <3> QED
      BY <1>6, <3>1 DEF AfterGenerate
  <2> HIDE DEF plan
  <2>2. DOMAIN job'[p].stage = {}
    BY <1>2, <2>1 DEF Output
  <2> QED
    BY <1>2, <1>6, <2>2 DEF ByteJob, Claimed
<1>7. CASE AfterGenerate(src, dir, plan) = "refresh"
  <2>1. src = LIVE
    BY <1>7 DEF AfterGenerate
  <2> QED
    BY <1>2, <1>4, <1>5, <1>7, <2>1 DEF ByteJob
<1>8. CASE AfterGenerate(src, dir, plan) = "remember"
  BY <1>2, <1>8 DEF ByteJob
<1> QED
  BY <1>6, <1>7, <1>8 DEF AfterGenerate

\* Each step of a run keeps that.
LEMMA StepBytes ==
    ASSUME NoIdleRuns, TypeOK, RunSafe, NoPatchInStock, Bytes, NEW p \in Proc, RunStep(p)
    PROVE  ByteJob(job[p])'
<1>0. ByteJob(job[p]) /\ IsJob(job[p])
  BY DEF Bytes, TypeOK
<1>1. CASE WritePreparing(p)
  BY <1>1, StepEffect DEF WritePreparing, ByteJob
<1>2. CASE Generate(p)
  BY <1>2, GenerateBytes
<1>3. CASE SnapshotCurrent(p) \/ ReplaceStock(p)
  BY <1>3, StepEffect DEF SnapshotCurrent, ReplaceStock, ByteJob
<1>4. CASE SnapshotFirst(p) \/ SealArchive(p)
  <2>1. job[p].pc \in {"refresh", "seal"} /\ job'[p].pc = "swap"
    BY <1>4, StepEffect DEF SnapshotFirst, SealArchive
  <2>2. View' = View /\ image' = image
    BY <1>4 DEF SnapshotFirst, SealArchive, View
  <2> QED
    BY <1>0, <2>1, <2>2 DEF ByteJob
<1>5. CASE ArchiveStock(p)
  <2>1. /\ job[p].pc = "refresh"
        /\ job'[p] = [job[p] EXCEPT !.pc = "seal", !.place = FreshArchive]
    BY <1>5, GotoEffect DEF ArchiveStock
  <2>2. job'[p].pc = "seal"
    BY <1>0, <2>1 DEF IsJob
  <2>3. View' = View /\ image' = image
    BY <1>5 DEF ArchiveStock, View
  <2> QED
    BY <1>0, <2>1, <2>2, <2>3 DEF ByteJob
<1>6. CASE RememberOutput(p)
  <2>1. job'[p].pc = "prepare" /\ job'[p].stage = job[p].stage
    BY <1>6, StepEffect DEF RememberOutput
  <2>2. Claimed(gens', job[p].stage)
    BY <1>6, RememberHome, RememberClaims
  <2> QED
    BY <2>1, <2>2 DEF ByteJob
<1>7. CASE Prepare(p) \/ ClearPhoneCache(p)
  <2>1. /\ job[p].pc \in {"prepare", "clear"} /\ job'[p].pc \in {"clear", "exchange"}
        /\ job'[p].stage = job[p].stage
    BY <1>7, StepEffect DEF Prepare, ClearPhoneCache
  <2>2. gens' = gens
    BY <1>7 DEF Prepare, ClearPhoneCache
  <2> QED
    BY <1>0, <2>1, <2>2 DEF ByteJob
<1>8. CASE Exchange(p)
  BY <1>8, StepEffect DEF Exchange, ByteJob
<1>9. CASE PreparingFails(p) \/ WriteReport(p) \/ RecordFailure(p) \/ Kill(p)
  BY <1>9, GotoEffect, IdlePc DEF PreparingFails, WriteReport, RecordFailure, Kill, Exit, ByteJob
<1>10. CASE Fail(p)
  <2>1. job'[p] = [job[p] EXCEPT !.pc = "failing"] \/ job'[p] = Idle
    BY <1>10, GotoEffect DEF Fail, Exit
  <2>2. job'[p].pc \in {"failing", "idle"}
    BY <1>0, <2>1, IdlePc DEF IsJob
  <2> QED
    BY <2>2 DEF ByteJob
<1> QED
  BY <1>1, <1>2, <1>3, <1>4, <1>5, <1>6, <1>7, <1>8, <1>9, <1>10 DEF RunStep

LEMMA NextByteJobs ==
    ASSUME NoIdleRuns, TypeOK, Exclusive, RunSafe, NoPatchInStock, Bytes, [Next]_vars,
           NEW q \in Proc
    PROVE  ByteJob(job[q])'
<1>a. ASSUME job'[q].pc \in {"idle", "preparing", "generate"} PROVE ByteJob(job[q])'
  BY <1>a DEF ByteJob
<1>b. ASSUME job'[q] = Idle PROVE ByteJob(job[q])'
  BY <1>a, <1>b, IdlePc
<1>1. ASSUME NEW p \in Proc, RunStep(p) PROVE ByteJob(job[q])'
  <2>1. CASE p = q
    BY <1>1, <2>1, StepBytes
  <2>2. CASE p # q
    <3>1. job[p].pc # "idle"
      BY <1>1 DEF RunStep, WritePreparing, PreparingFails, Generate, SnapshotCurrent,
         SnapshotFirst, ArchiveStock, SealArchive, ReplaceStock, RememberOutput, Prepare,
         ClearPhoneCache, Exchange, WriteReport, Fail, RecordFailure, Kill, Step, Working
    <3>2. job'[q] = job[q]
      BY <1>1, <2>2, StepEffect, GotoEffect
      DEF RunStep, WritePreparing, PreparingFails, Generate, SnapshotCurrent, SnapshotFirst,
          ArchiveStock, SealArchive, ReplaceStock, RememberOutput, Prepare, ClearPhoneCache,
          Exchange, WriteReport, Fail, RecordFailure, Kill, Exit
    <3>3. job[q] = Idle
      BY <2>2, <3>1, Alone
    <3> QED
      BY <1>b, <3>2, <3>3
  <2> QED
    BY <2>1, <2>2
<1>2. ASSUME NEW p \in Proc,
             BeginApply(p) \/ \E k \in {"patch", "scratch"} : BeginPatch(p, k)
      PROVE  ByteJob(job[q])'
  <2>1. job[q] = Idle
    BY <1>2 DEF BeginApply, BeginPatch, Exclusive
  <2>2. job'[q].pc \in {"idle", "preparing", "generate"}
    <3>1. PICK k \in Kinds, pc \in {"preparing", "generate"} : Goto(p, NewJob(k, pc))
      BY <1>2 DEF BeginApply, BeginPatch, Kinds
    <3>2. job'[q] = NewJob(k, pc) \/ job'[q] = Idle
      BY <2>1, <3>1, GotoEffect
    <3> QED
      BY <3>2, IdlePc DEF NewJob
  <2> QED
    BY <1>a, <2>2
<1>3. CASE ScriptAborts \/ Start
  <2>1. job'[q] = Idle
    BY <1>3 DEF ScriptAborts, Start, Exclusive
  <2> QED
    BY <1>b, <2>1
<1>4. ASSUME NEW i, Reboot(i) PROVE ByteJob(job[q])'
  BY <1>4, <1>b DEF Reboot
<1>5. CASE UNCHANGED vars \/ \E c : EditConfig(c)
  <2>1. UNCHANGED <<job, gens, phase, image, backend, out, mount>>
    BY <1>5 DEF vars, EditConfig
  <2>2. View' = View
    BY <2>1 DEF View
  <2>3. ByteJob(job[q])
    BY DEF Bytes
  <2> QED
    BY <2>1, <2>2, <2>3 DEF ByteJob
<1> QED
  BY <1>1, <1>2, <1>3, <1>4, <1>5 DEF Next

LEMMA InitBytes == Init => Bytes
<1> SUFFICES ASSUME Init PROVE Bytes
  OBVIOUS
<1>1. Claimed(gens, mount) /\ \A p \in Proc : ByteJob(job[p])
  BY IdlePc DEF Init, ByteJob, Claimed, Nothing
<1>2. CASE Fresh
  BY <1>1, <1>2 DEF Fresh, Bytes, Usable, Nothing, StockIsGoogles, Claimed
<1>3. CASE Legacy
  <2>1. PICK i \in Images, c \in Configs, q \in Presents :
            LET made == Output(Image[i], Plan(c, Image[i], q))
            IN  /\ DOMAIN made # {}
                /\ out = made
                /\ gens = Put(Nothing, STOCK,
                              [files |-> Image[i], outputs |-> {},
                               legacy |-> {made[OTHERS]}, sealed |-> FALSE])
    BY <1>3 DEF Legacy
  <2>2. /\ Usable(gens) = {STOCK}
        /\ gens[STOCK] = [files |-> Image[i], outputs |-> {},
                          legacy |-> {out[OTHERS]}, sealed |-> FALSE]
    BY <2>1 DEF Usable, Put, Nothing
  <2>3. /\ gens[STOCK].files = Image[i]
        /\ Manifests(gens[STOCK]) = {[n \in {OTHERS} |-> out[OTHERS]]}
    BY <2>2 DEF Manifests
  <2>4. out = Output(Image[i], Plan(c, Image[i], q)) /\ DOMAIN out # {}
    BY <2>1
  <2>5. OTHERS \in DOMAIN out /\ \E want \in Plans : out[OTHERS] = PatchFile(Image[i][OTHERS], want)
    <3> DEFINE made == Output(Image[i], Plan(c, Image[i], q))
    <3>1. DOMAIN made # {} /\ out = made
      BY <2>4
    <3>2. OTHERS \in DOMAIN made /\ \E want \in Plans : made[OTHERS] = PatchFile(Image[i][OTHERS], want)
      <4> DEFINE dir == Image[i]
      <4>1. DOMAIN Output(dir, Plan(c, dir, q)) # {}
        BY <3>1
      <4>2. made = Output(dir, Plan(c, dir, q))
        OBVIOUS
      <4> HIDE DEF dir, made
      <4>3. OTHERS \in DOMAIN made /\ \E want \in Plans : made[OTHERS] = PatchFile(dir[OTHERS], want)
        BY <4>1, <4>2, OutputMadeHere
      <4> QED
        BY <4>3 DEF dir
    <3> HIDE DEF made
    <3> QED
      BY <3>1, <3>2
  <2>6. MadeHere(gens[STOCK])
    BY <2>3, <2>5 DEF MadeHere
  <2>7. Matches(out, [n \in {OTHERS} |-> out[OTHERS]])
    BY <2>5 DEF Matches
  <2>8. Usable(gens) = {STOCK}
    BY <2>2
  <2>9. Claimed(gens, out)
    BY <2>3, <2>7, <2>8 DEF Claimed
  <2>10. StockIsGoogles
    BY <2>3, <2>8 DEF StockIsGoogles
  <2> QED
    BY <1>1, <2>6, <2>8, <2>9, <2>10 DEF Bytes
<1> QED
  BY <1>2, <1>3 DEF Init

LEMMA NextBytes == NoIdleRuns /\ IInv /\ Bytes /\ [Next]_vars => Bytes'
<1> SUFFICES ASSUME NoIdleRuns, IInv, Bytes, [Next]_vars PROVE Bytes'
  OBVIOUS
<1> USE DEF IInv
<1>1. ASSUME NEW l \in Usable(gens') PROVE \E i \in Images : gens'[l].files = Image[i]
  <2>1. ASSUME NEW p \in Proc, job[p].pc = "swap" PROVE \E i \in Images : View = Image[i]
    BY <2>1 DEF Bytes, ByteJob, TypeOK
  <2> QED
    BY <2>1, GenerationOrigin DEF Bytes, StockIsGoogles
<1>2. ASSUME NEW l \in Usable(gens') PROVE MadeHere(gens'[l])
  BY NextMadeHere DEF Bytes
<1>3. Keeps(gens, gens')
  BY NextKeeps
<1>4. Claimed(gens, out') /\ Claimed(gens, mount')
  <2>1. Claimed(gens, Nothing)
    BY DEF Claimed, Nothing
  <2> QED
    BY <2>1, InstalledOrigin DEF Bytes, ByteJob
<1>5. Claimed(gens', out') /\ Claimed(gens', mount')
  BY <1>3, <1>4, KeepsClaimed
<1>6. \A q \in Proc : ByteJob(job[q])'
  BY NextByteJobs
<1> QED
  BY <1>1, <1>2, <1>5, <1>6 DEF Bytes, StockIsGoogles

LEMMA BytesInvariance == NoIdleRuns => (Spec => [](IInv /\ Bytes))
<1> SUFFICES ASSUME NoIdleRuns PROVE Spec => [](IInv /\ Bytes)
  OBVIOUS
<1>1. Init => IInv /\ Bytes
  BY InitIInv, InitBytes
<1>2. IInv /\ Bytes /\ [Next]_vars => IInv' /\ Bytes'
  BY NextIInv, NextBytes
<1> QED
  BY <1>1, <1>2, PTL DEF Spec

\* The cache holds Google's files byte for byte, as a comment of generate has it,
\* if no run is idle: a run that changes nothing is what breaks it.
THEOREM StockIsExact == NoIdleRuns => (Spec => []StockIsGoogles)
<1> SUFFICES ASSUME NoIdleRuns PROVE Spec => []StockIsGoogles
  OBVIOUS
<1>1. IInv /\ Bytes => StockIsGoogles
  BY DEF Bytes
<1> QED
  BY <1>1, BytesInvariance, PTL

\* A mounted output resolves to the files it was made from, if no run is idle and
\* what is made of others.pb tells the build.
THEOREM OutputsFindTheirSource == NoIdleRuns /\ OthersIdentify => (Spec => []OwnSource)
<1> SUFFICES ASSUME NoIdleRuns, OthersIdentify PROVE Spec => []OwnSource
  OBVIOUS
<1>1. IInv /\ Bytes => OwnSource
  <2> SUFFICES ASSUME IInv, Bytes, phase = "up", backend = "bind",
                      NEW h \in Usable(gens), mount \in Manifests(gens[h]),
                      NEW l \in Sources(gens, View)
               PROVE  gens[l].files = gens[h].files
    BY DEF OwnSource
  <2>1. l \in Usable(gens) /\ Ours(View, gens[l])
    BY DEF Sources, Claimants
  <2>2. PICK m \in Manifests(gens[l]) : Matches(View, m)
    BY <2>1 DEF Ours
  <2>3. PICK x \in Plans : OTHERS \in DOMAIN m /\ m[OTHERS] = PatchFile(gens[l].files[OTHERS], x)
    BY <2>1 DEF Bytes, MadeHere
  <2>4. PICK y \in Plans : OTHERS \in DOMAIN mount /\ mount[OTHERS] = PatchFile(gens[h].files[OTHERS], y)
    BY DEF Bytes, MadeHere
  <2>5. m[OTHERS] = mount[OTHERS]
    BY <2>2, <2>3, <2>4 DEF Matches, View, Over
  <2>6. PICK i \in Images : gens[l].files = Image[i]
    BY <2>1 DEF Bytes, StockIsGoogles
  <2>7. PICK j \in Images : gens[h].files = Image[j]
    BY DEF Bytes, StockIsGoogles
  <2>8. PatchFile(Image[i][OTHERS], x) = PatchFile(Image[j][OTHERS], y)
    BY <2>3, <2>4, <2>5, <2>6, <2>7
  <2> QED
    BY <2>6, <2>7, <2>8 DEF OthersIdentify
<1> QED
  BY <1>1, BytesInvariance, PTL
=============================================================================
