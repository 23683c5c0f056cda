--------------------------- MODULE PublishProofs ---------------------------
(***************************************************************************)
(* Theorems about Publish, for every set of carriers, keys, builds,        *)
(* configurations and processes, and every number of boots and runs.       *)
(***************************************************************************)
EXTENDS Publish, TLAPS

-----------------------------------------------------------------------------
(* The data *)

\* A map is one by its domain and its values.
LEMMA PartialIntro ==
    ASSUME NEW S, NEW T, NEW f, f \in [DOMAIN f -> T], DOMAIN f \subseteq S
    PROVE  f \in Partial(S, T)
BY DEF Partial

LEMMA PartialElim ==
    ASSUME NEW S, NEW T, NEW f \in Partial(S, T)
    PROVE  f \in [DOMAIN f -> T] /\ DOMAIN f \subseteq S
BY DEF Partial

\* Laying one map over another gives a map.
LEMMA OverPartial ==
    ASSUME NEW S, NEW T, NEW f \in Partial(S, T), NEW g \in Partial(S, T)
    PROVE  Over(f, g) \in Partial(S, T)
<1>1. f \in [DOMAIN f -> T] /\ DOMAIN f \subseteq S
  BY PartialElim
<1>2. g \in [DOMAIN g -> T] /\ DOMAIN g \subseteq S
  BY PartialElim
<1>3. /\ DOMAIN Over(f, g) = DOMAIN f \cup DOMAIN g
      /\ Over(f, g) \in [DOMAIN Over(f, g) -> T]
  BY <1>1, <1>2 DEF Over
<1> QED
  BY <1>1, <1>2, <1>3, PartialIntro

\* Patching the settings of a carrier gives settings.
LEMMA PatchedSettings ==
    ASSUME NEW s \in Settings, NEW e \in Entry
    PROVE  PatchSettings(s, e) \in Settings
<1>1. Base \in Partial(Key, Value)
  BY FilesAssumption
<1>2. e.over \in Partial(Key, Value) /\ e.apn \in BOOLEAN
  BY DEF Entry
<1>3. s.keys \in Partial(Key, Value) /\ s.apn \in BOOLEAN
  BY DEF Settings
<1>4. Over(Configs2Write(e), s.keys) \in Partial(Key, Value)
  BY <1>1, <1>2, <1>3, OverPartial DEF Configs2Write
<1>5. (s.apn \/ e.apn) \in BOOLEAN
  OBVIOUS
<1> QED
  BY <1>4, <1>5 DEF PatchSettings, Settings

\* Patching a file gives a file.
LEMMA PatchedFile ==
    ASSUME NEW f \in File, NEW want, \A c \in DOMAIN want : want[c] \in Entry
    PROVE  PatchFile(f, want) \in File
<1> DEFINE new == [c \in DOMAIN f.set |-> IF c \in DOMAIN want
                                          THEN PatchSettings(f.set[c], want[c])
                                          ELSE f.set[c]]
<1>1. f.ver \in Nat /\ f.set \in Partial(Carrier, Settings)
  BY DEF File
<1>2. f.set \in [DOMAIN f.set -> Settings] /\ DOMAIN f.set \subseteq Carrier
  BY <1>1, PartialElim
<1>3. \A c \in DOMAIN f.set : new[c] \in Settings
  BY <1>2, PatchedSettings
<1>4. new \in [DOMAIN new -> Settings] /\ DOMAIN new \subseteq Carrier
  BY <1>2, <1>3
<1>5. new \in Partial(Carrier, Settings)
  <2> HIDE DEF new
  <2> QED BY <1>4, PartialIntro
<1>6. f.ver + 1 \in Nat
  BY <1>1
<1> QED
  BY <1>5, <1>6 DEF PatchFile, File

\* The plan of a run holds entries for carriers.
LEMMA PlanEntries ==
    ASSUME NEW cfg \in Config, NEW dir, NEW present
    PROVE  \A c \in DOMAIN Plan(cfg, dir, present) :
              c \in Carrier /\ Plan(cfg, dir, present)[c] \in Entry
<1>1. DefaultEntry \in Entry
  <2>1. Nothing \in Partial(Key, Value)
    <3>1. Nothing \in [DOMAIN Nothing -> Value] /\ DOMAIN Nothing \subseteq Key
      BY DEF Nothing
    <3> QED BY <3>1, PartialIntro
  <2> QED BY <2>1 DEF DefaultEntry, Entry
<1>2. cfg.carriers \in Partial(Carrier, Entry)
  BY DEF Config
<1>3. cfg.carriers \in [DOMAIN cfg.carriers -> Entry]
  BY <1>2, PartialElim
<1> QED
  BY <1>1, <1>3 DEF Plan

\* What a run writes is a directory, if what it read is one with others.pb.
LEMMA OutputIsDir ==
    ASSUME NEW dir, IsDir(dir), OTHERS \in DOMAIN dir,
           NEW cfg \in Config, NEW present
    PROVE  IsDir(Output(dir, Plan(cfg, dir, present)))
<1> DEFINE want == Plan(cfg, dir, present)
<1>1. \A c \in DOMAIN want : want[c] \in Entry
  BY PlanEntries
<1> HIDE DEF want
<1>2. DOMAIN Output(dir, want) \subseteq DOMAIN dir
  BY DEF Output
<1>3. \A n \in DOMAIN dir : dir[n] \in File
  BY DEF IsDir
<1>4. \A n \in DOMAIN dir : PatchFile(dir[n], want) \in File
  BY <1>1, <1>3, PatchedFile
<1>5. Output(dir, want) \in [DOMAIN Output(dir, want) -> File]
  BY <1>2, <1>4 DEF Output
<1>6. IsDir(Output(dir, want))
  BY <1>2, <1>5 DEF IsDir
<1> QED
  BY <1>6 DEF want

\* One directory laid over another is a directory.
LEMMA OverIsDir ==
    ASSUME NEW d, IsDir(d), NEW e, IsDir(e)
    PROVE  IsDir(Over(d, e))
BY DEF IsDir, Over

LEMMA NothingIsDir == IsDir(Nothing)
BY DEF IsDir, Nothing
-----------------------------------------------------------------------------
(* The stock cache *)

\* Registering an output adds a manifest to one generation and changes nothing
\* else: not its files, not which generations are usable.
LEMMA RememberEffect ==
    ASSUME NEW cache, NEW l \in DOMAIN cache, IsGeneration(cache[l]), NEW m
    PROVE  LET new == Remember(cache, l, m)
           IN  /\ DOMAIN new = DOMAIN cache
               /\ Usable(new) = Usable(cache)
               /\ \A k \in DOMAIN cache : /\ new[k].files = cache[k].files
                                          /\ new[k].legacy = cache[k].legacy
                                          /\ new[k].sealed = cache[k].sealed
               /\ \A k \in DOMAIN cache \ {l} : new[k] = cache[k]
               /\ DOMAIN m # {} => new[l].outputs = Manifests(cache[l]) \cup {m}
               /\ DOMAIN m = {} => new = cache
<1> DEFINE new == Remember(cache, l, m)
<1>1. CASE DOMAIN m = {}
  BY <1>1 DEF Remember
<1>2. CASE DOMAIN m # {}
  <2>1. new = Put(cache, l, [cache[l] EXCEPT !.outputs = Manifests(cache[l]) \cup {m}])
    BY <1>2 DEF Remember
  <2>2. /\ DOMAIN new = DOMAIN cache
        /\ \A k \in DOMAIN cache \ {l} : new[k] = cache[k]
        /\ new[l] = [cache[l] EXCEPT !.outputs = Manifests(cache[l]) \cup {m}]
    BY <2>1 DEF Put
  <2>3. /\ new[l].files = cache[l].files
        /\ new[l].legacy = cache[l].legacy
        /\ new[l].sealed = cache[l].sealed
        /\ new[l].outputs = Manifests(cache[l]) \cup {m}
    BY <2>2 DEF IsGeneration
  <2>4. \A k \in DOMAIN cache : new[k].sealed = cache[k].sealed
    BY <2>2, <2>3
  <2>5. Usable(new) = Usable(cache)
    BY <2>2, <2>4 DEF Usable
  <2> QED
    BY <1>2, <2>2, <2>3, <2>5
<1> QED
  BY <1>1, <1>2

\* Nothing registered before is lost by a registration, and the new output is
\* recognised.
LEMMA RememberKeeps ==
    ASSUME NEW cache, NEW l \in Usable(cache), IsGeneration(cache[l]), NEW m
    PROVE  /\ Keeps(cache, Remember(cache, l, m))
           /\ Recognised(Remember(cache, l, m), m)
<1> DEFINE new == Remember(cache, l, m)
<1>1. l \in DOMAIN cache
  BY DEF Usable
<1>2. CASE DOMAIN m = {}
  <2>1. new = cache
    BY <1>2 DEF Remember
  <2>2. Keeps(cache, cache)
    BY DEF Keeps
  <2>3. Recognised(cache, m)
    BY <1>2 DEF Recognised
  <2> QED
    BY <2>1, <2>2, <2>3
<1>3. CASE DOMAIN m # {}
  <2>1. /\ Usable(new) = Usable(cache)
        /\ \A k \in DOMAIN cache : new[k].files = cache[k].files
        /\ \A k \in DOMAIN cache \ {l} : new[k] = cache[k]
        /\ new[l].outputs = Manifests(cache[l]) \cup {m}
    BY <1>1, <1>3, RememberEffect
  <2> HIDE DEF new
  <2>2. Manifests(new[l]) = Manifests(cache[l]) \cup {m}
    BY <2>1 DEF Manifests
  <2>3. ASSUME NEW k \in Usable(cache)
        PROVE  Manifests(cache[k]) \subseteq Manifests(new[k])
    <3>1. CASE k = l
      BY <3>1, <2>2
    <3>2. CASE k # l
      BY <3>2, <2>1 DEF Usable
    <3> QED
      BY <3>1, <3>2
  <2>4. Keeps(cache, new)
    BY <2>1, <2>3 DEF Keeps, Usable
  <2>5. Matches(m, m)
    BY <1>3 DEF Matches
  <2>6. Recognised(new, m)
    BY <2>1, <2>2, <2>5 DEF Recognised
  <2> QED
    BY <2>4, <2>6 DEF new
<1> QED
  BY <1>2, <1>3

\* What a directory is recognised by survives a step that keeps registrations.
LEMMA KeepsRecognised ==
    ASSUME NEW old, NEW new, Keeps(old, new), NEW d, Recognised(old, d)
    PROVE  Recognised(new, d)
BY DEF Keeps, Recognised

\* A change to a directory that no run may read from yet loses nothing.
LEMMA PutKeeps ==
    ASSUME NEW cache, NEW l, l \notin Usable(cache), NEW g
    PROVE  Keeps(cache, Put(cache, l, g))
<1>1. \A k \in Usable(cache) : k \in Usable(Put(cache, l, g)) /\ Put(cache, l, g)[k] = cache[k]
  BY DEF Put, Usable
<1> QED
  BY <1>1 DEF Keeps

\* Neither does its removal.
LEMMA RemoveKeeps ==
    ASSUME NEW cache, NEW l, l \notin Usable(cache)
    PROVE  Keeps(cache, Only(cache, DOMAIN cache \ {l}))
<1>1. \A k \in Usable(cache) : /\ k \in Usable(Only(cache, DOMAIN cache \ {l}))
                              /\ Only(cache, DOMAIN cache \ {l})[k] = cache[k]
  BY DEF Only, Usable
<1> QED
  BY <1>1 DEF Keeps

\* Replacing the primary loses nothing if an archive holds what it held.
LEMMA ReplaceKeeps ==
    ASSUME NEW cache, STOCK \in DOMAIN cache => Archived(cache), NEW g
    PROVE  Keeps(cache, Put(cache, STOCK, g))
<1> DEFINE new == Put(cache, STOCK, g)
<1>1. \A k \in Usable(cache) \ {STOCK} : k \in Usable(new) /\ new[k] = cache[k]
  BY DEF Put, Usable
<1>2. STOCK \in Usable(cache) => Archived(cache)
  BY DEF Usable
<1> HIDE DEF new
<1>3. Keeps(cache, new)
  BY <1>1, <1>2 DEF Keeps, Archived
<1> QED
  BY <1>3 DEF new
-----------------------------------------------------------------------------
(* Type correctness *)

\* What /product shows is a directory with others.pb.
LEMMA ViewIsDir ==
    ASSUME TypeOK
    PROVE  IsDir(View) /\ OTHERS \in DOMAIN View
<1>1. IsDir(Image[image]) /\ OTHERS \in DOMAIN Image[image]
  BY PublishAssumption DEF TypeOK
<1>2. IsDir(Over(out, Image[image])) /\ IsDir(Over(mount, Image[image]))
  BY <1>1, OverIsDir DEF TypeOK
<1>3. /\ OTHERS \in DOMAIN Over(out, Image[image])
      /\ OTHERS \in DOMAIN Over(mount, Image[image])
  BY <1>1 DEF Over
<1> QED
  BY <1>1, <1>2, <1>3 DEF View

\* So is every source a run may pick.
LEMMA SourceIsDir ==
    ASSUME TypeOK, NEW src \in SourcesNow
    PROVE  /\ IsDir(Read(src)) /\ OTHERS \in DOMAIN Read(src)
           /\ src # LIVE => src \in Usable(gens)
           /\ src = LIVE => Claimants(gens, View) = {}
           /\ src \in Place \cup {LIVE}
<1>1. src = LIVE \/ src \in Claimants(gens, View)
  BY DEF SourcesNow, Sources
<1>2. LIVE \notin Claimants(gens, View)
  BY PublishAssumption DEF TypeOK, Claimants, Usable
<1>3. CASE src = LIVE
  <2>1. Claimants(gens, View) = {}
    BY <1>2, <1>3 DEF SourcesNow, Sources
  <2> QED
    BY <1>3, <2>1, ViewIsDir DEF Read
<1>4. CASE src # LIVE
  <2>1. src \in Usable(gens) /\ OTHERS \in DOMAIN gens[src].files
    BY <1>1, <1>4 DEF Claimants
  <2>2. src \in DOMAIN gens
    BY <2>1 DEF Usable
  <2> QED
    BY <1>4, <2>1, <2>2 DEF Read, TypeOK, IsGeneration
<1> QED
  BY <1>3, <1>4

LEMMA NewIsJob ==
    ASSUME NEW kind \in Kinds \cup {"none"}, NEW pc \in Pcs
    PROVE  IsJob(NewJob(kind, pc))
BY NothingIsDir DEF IsJob, NewJob, Place

LEMMA IdleIsJob == IsJob(Idle)
BY NewIsJob DEF Idle, Pcs

\* Giving a process another job leaves every process with a job.
LEMMA GotoType ==
    ASSUME TypeOK, NEW p \in Proc, NEW j, IsJob(j), Goto(p, j)
    PROVE  /\ job' = [q \in Proc |-> job'[q]]
           /\ \A q \in Proc : IsJob(job'[q])
<1>1. job = [q \in Proc |-> job[q]]
  BY DEF TypeOK
<1>2. job' = [q \in Proc |-> IF q = p THEN j ELSE job[q]]
  BY <1>1 DEF Goto
<1> QED
  BY <1>2 DEF TypeOK

\* A job that only moves on is a job.
LEMMA PcIsJob ==
    ASSUME NEW j, IsJob(j), NEW pc \in Pcs
    PROVE  IsJob([j EXCEPT !.pc = pc])
BY DEF IsJob

LEMMA PlaceIsJob ==
    ASSUME NEW j, IsJob(j), NEW pc \in Pcs, NEW l \in Place
    PROVE  IsJob([j EXCEPT !.pc = pc, !.place = l])
<1> DEFINE k == [j EXCEPT !.pc = pc]
<1>1. IsJob(k)
  BY PcIsJob
<1>2. [j EXCEPT !.pc = pc, !.place = l] = [k EXCEPT !.place = l]
  OBVIOUS
<1> HIDE DEF k
<1>3. IsJob([k EXCEPT !.place = l])
  BY <1>1 DEF IsJob
<1> QED
  BY <1>2, <1>3

\* Putting a generation in a place, or removing one, leaves a cache.
LEMMA PutType ==
    ASSUME NEW cache, DOMAIN cache \subseteq Place,
           \A l \in DOMAIN cache : IsGeneration(cache[l]),
           NEW l \in Place, NEW g, IsGeneration(g)
    PROVE  /\ DOMAIN Put(cache, l, g) \subseteq Place
           /\ \A k \in DOMAIN Put(cache, l, g) : IsGeneration(Put(cache, l, g)[k])
BY DEF Put

LEMMA SnapshotIsGeneration ==
    ASSUME NEW d, IsDir(d)
    PROVE  IsGeneration(Snapshot(d))
BY DEF IsGeneration, Snapshot

\* So is what an archive holds, halfway and in the end.
LEMMA CopyIsGeneration ==
    ASSUME NEW g, IsGeneration(g), NEW names
    PROVE  IsGeneration(PartialCopy(g, names)) /\ IsGeneration(SealedCopy(g))
<1>1. IsDir(Only(g.files, names))
  BY DEF IsGeneration, IsDir, Only
<1>2. IsGeneration(PartialCopy(g, names))
  BY <1>1 DEF IsGeneration, PartialCopy
<1>3. IsGeneration(SealedCopy(g))
  BY DEF IsGeneration, SealedCopy
<1> QED
  BY <1>2, <1>3

\* The manifests a generation answers to are directories.
LEMMA ManifestIsDir ==
    ASSUME NEW g, IsGeneration(g), NEW m \in Manifests(g)
    PROVE  IsDir(m)
BY DEF IsGeneration, Manifests, IsDir, FileName

LEMMA RememberType ==
    ASSUME NEW cache, DOMAIN cache \subseteq Place,
           \A l \in DOMAIN cache : IsGeneration(cache[l]),
           NEW l \in DOMAIN cache, NEW m, IsDir(m)
    PROVE  /\ DOMAIN Remember(cache, l, m) \subseteq Place
           /\ \A k \in DOMAIN Remember(cache, l, m) : IsGeneration(Remember(cache, l, m)[k])
<1> DEFINE g == [cache[l] EXCEPT !.outputs = Manifests(cache[l]) \cup {m}]
<1>1. IsGeneration(g)
  BY ManifestIsDir DEF IsGeneration
<1> HIDE DEF g
<1>2. /\ DOMAIN Put(cache, l, g) \subseteq Place
      /\ \A k \in DOMAIN Put(cache, l, g) : IsGeneration(Put(cache, l, g)[k])
  BY <1>1, PutType
<1> QED
  BY <1>2 DEF Remember, g

\* Init gives every variable its kind of value.
LEMMA InitType == Init => TypeOK
<1> SUFFICES ASSUME Init PROVE TypeOK
  OBVIOUS
<1> USE DEF Init
<1>1. IsDir(out)
  <2>1. CASE Fresh
    BY <2>1, NothingIsDir DEF Fresh
  <2>2. CASE Legacy
    <3>1. PICK i \in Images, c \in Configs, q \in Presents :
              out = Output(Image[i], Plan(c, Image[i], q))
      BY <2>2 DEF Legacy
    <3>2. IsDir(Image[i]) /\ OTHERS \in DOMAIN Image[i] /\ c \in Config
      BY PublishAssumption
    <3> QED
      BY <3>1, <3>2, OutputIsDir
  <2> QED
    BY <2>1, <2>2
<1>2. DOMAIN gens \subseteq Place /\ \A l \in DOMAIN gens : IsGeneration(gens[l])
  <2>1. CASE Fresh
    BY <2>1 DEF Fresh, Nothing
  <2>2. CASE Legacy
    <3>1. PICK i \in Images, c \in Configs, q \in Presents :
              LET made == Output(Image[i], Plan(c, Image[i], q))
              IN  /\ DOMAIN made # {}
                  /\ out = made
                  /\ gens = Put(Nothing, STOCK,
                                [files |-> Image[i], outputs |-> {},
                                 legacy |-> {made[OTHERS]}, sealed |-> FALSE])
      BY <2>2 DEF Legacy
    <3>2. OTHERS \in DOMAIN out
      BY <3>1 DEF Output
    <3>3. out[OTHERS] \in File
      BY <1>1, <3>2 DEF IsDir
    <3>4. IsDir(Image[i])
      BY PublishAssumption
    <3> DEFINE g == [files |-> Image[i], outputs |-> {},
                     legacy |-> {out[OTHERS]}, sealed |-> FALSE]
    <3>5. IsGeneration(g)
      BY <3>3, <3>4 DEF IsGeneration
    <3>6. gens = Put(Nothing, STOCK, g)
      BY <3>1
    <3> HIDE DEF g
    <3> QED
      BY <3>5, <3>6 DEF Put, Nothing, Place
  <2> QED
    BY <2>1, <2>2
<1>3. job = [p \in Proc |-> job[p]] /\ \A p \in Proc : IsJob(job[p])
  BY IdleIsJob
<1> QED
  BY <1>1, <1>2, <1>3, NothingIsDir, PublishAssumption DEF TypeOK

\* Every step keeps them; the steps that copy a generation rely on RunSafe for
\* the generation to be there.
LEMMA NextType == TypeOK /\ RunSafe /\ [Next]_vars => TypeOK'
<1> SUFFICES ASSUME TypeOK, RunSafe, [Next]_vars PROVE TypeOK'
  OBVIOUS
<1> USE PublishAssumption
<1> DEFINE Jobs(j) == j = [q \in Proc |-> j[q]] /\ \A q \in Proc : IsJob(j[q])
<1>a. ASSUME NEW p \in Proc, NEW pc \in Pcs, Goto(p, [job[p] EXCEPT !.pc = pc])
      PROVE  Jobs(job')
  <2>1. IsJob([job[p] EXCEPT !.pc = pc])
    BY PcIsJob DEF TypeOK
  <2> QED
    BY <1>a, <2>1, GotoType
<1>b. ASSUME NEW p \in Proc, Goto(p, Idle) PROVE Jobs(job')
  BY <1>b, IdleIsJob, GotoType
<1>c. ASSUME NEW p \in Proc, Exit(p)
      PROVE  Jobs(job') /\ lock' \subseteq Proc /\ phase' \in {"postfs", "ready", "up"}
  <2>1. Jobs(job')
    BY <1>b, <1>c DEF Exit
  <2> QED
    BY <1>c, <2>1 DEF Exit, TypeOK
<1>1. ASSUME NEW p \in Proc, BeginApply(p) PROVE TypeOK'
  <2>1. IsJob(NewJob("apply", "preparing"))
    BY NewIsJob DEF Pcs, Kinds
  <2>2. Jobs(job')
    BY <1>1, <2>1, GotoType DEF BeginApply
  <2> QED
    BY <1>1, <2>2 DEF BeginApply, TypeOK
<1>2. ASSUME NEW p \in Proc, NEW kind \in {"patch", "scratch"}, BeginPatch(p, kind)
      PROVE  TypeOK'
  <2>1. IsJob(NewJob(kind, "generate"))
    BY NewIsJob DEF Pcs, Working, Kinds
  <2>2. Jobs(job')
    BY <1>2, <2>1, GotoType DEF BeginPatch
  <2>3. runs' \in 0..MaxRuns
    BY <1>2 DEF BeginPatch, TypeOK
  <2> QED
    BY <1>2, <2>2, <2>3 DEF BeginPatch, TypeOK
<1>3. ASSUME NEW p \in Proc, WritePreparing(p) PROVE TypeOK'
  <2>1. Jobs(job')
    BY <1>a, <1>3 DEF WritePreparing, Step, Pcs, Working
  <2> QED
    BY <1>3, <2>1 DEF WritePreparing, TypeOK
<1>4. ASSUME NEW p \in Proc, PreparingFails(p) PROVE TypeOK'
  BY <1>c, <1>4 DEF PreparingFails, TypeOK
<1>5. ASSUME NEW p \in Proc, Generate(p) PROVE TypeOK'
  <2>1. PICK src \in SourcesNow, present \in Presents :
            LET dir  == Read(src)
                plan == Plan(config, dir, present)
            IN  Goto(p, [pc |-> AfterGenerate(src, dir, plan), kind |-> job[p].kind,
                         src |-> src, place |-> STOCK, plan |-> plan,
                         stage |-> Output(dir, plan),
                         config |-> config, present |-> present])
    BY <1>5 DEF Generate
  <2> DEFINE dir  == Read(src)
             plan == Plan(config, dir, present)
             pc   == AfterGenerate(src, dir, plan)
  <2>2. config \in Config
    BY <1>5 DEF Generate, TypeOK
  <2>3. IsDir(dir) /\ OTHERS \in DOMAIN dir /\ src \in Place \cup {LIVE}
    BY SourceIsDir
  <2>4. IsDir(Output(dir, plan))
    BY <2>2, <2>3, OutputIsDir
  <2>5. pc \in Pcs
    BY DEF AfterGenerate, Pcs, Working
  <2>6. IsJob(job[p])
    BY DEF TypeOK
  <2> HIDE DEF dir, plan, pc
  <2>7. IsJob([pc |-> pc, kind |-> job[p].kind, src |-> src, place |-> STOCK,
               plan |-> plan, stage |-> Output(dir, plan),
               config |-> config, present |-> present])
    BY <2>3, <2>4, <2>5, <2>6 DEF IsJob, Place
  <2>8. Jobs(job')
    BY <2>1, <2>7, GotoType DEF dir, plan, pc
  <2> QED
    BY <1>5, <2>8 DEF Generate, TypeOK
<1>6. ASSUME NEW p \in Proc, SnapshotCurrent(p) PROVE TypeOK'
  <2>1. Jobs(job')
    BY <1>a, <1>6 DEF SnapshotCurrent, Step, Pcs, Working
  <2> QED
    BY <1>6, <2>1 DEF SnapshotCurrent, TypeOK
<1>7. ASSUME NEW p \in Proc, SnapshotFirst(p) PROVE TypeOK'
  <2>1. Jobs(job')
    BY <1>a, <1>7 DEF SnapshotFirst, Step, Pcs, Working
  <2> QED
    BY <1>7, <2>1 DEF SnapshotFirst, TypeOK
<1>8. ASSUME NEW p \in Proc, ArchiveStock(p) PROVE TypeOK'
  <2>1. FreshArchive \in Place
    BY <1>8 DEF ArchiveStock, FreshArchive, Place
  <2>2. PICK names : gens' = Put(gens, FreshArchive, PartialCopy(gens[STOCK], names))
    BY <1>8 DEF ArchiveStock
  <2>3. IsGeneration(PartialCopy(gens[STOCK], names))
    BY <1>8, CopyIsGeneration DEF ArchiveStock, HasPrimary, TypeOK
  <2>4. DOMAIN gens' \subseteq Place /\ \A l \in DOMAIN gens' : IsGeneration(gens'[l])
    BY <2>1, <2>2, <2>3, PutType DEF TypeOK
  <2>5. IsJob([job[p] EXCEPT !.pc = "seal", !.place = FreshArchive])
    BY <2>1, PlaceIsJob DEF TypeOK, Pcs, Working
  <2>6. Jobs(job')
    BY <1>8, <2>5, GotoType DEF ArchiveStock
  <2> QED
    BY <1>8, <2>4, <2>6 DEF ArchiveStock, TypeOK
<1>9. ASSUME NEW p \in Proc, SealArchive(p) PROVE TypeOK'
  <2>1. Jobs(job')
    BY <1>a, <1>9 DEF SealArchive, Step, Pcs, Working
  <2>2. job[p].place \in DOMAIN gens /\ STOCK \in DOMAIN gens
    BY <1>9 DEF SealArchive, Step, RunSafe, SafeJob, HasPrimary
  <2>3. IsGeneration(SealedCopy(gens[STOCK]))
    BY <2>2, CopyIsGeneration DEF TypeOK
  <2>4. DOMAIN gens' \subseteq Place /\ \A l \in DOMAIN gens' : IsGeneration(gens'[l])
    BY <1>9, <2>2, <2>3, PutType DEF SealArchive, TypeOK
  <2> QED
    BY <1>9, <2>1, <2>4 DEF SealArchive, TypeOK
<1>10. ASSUME NEW p \in Proc, ReplaceStock(p) PROVE TypeOK'
  <2>1. Jobs(job')
    BY <1>a, <1>10 DEF ReplaceStock, Step, Pcs, Working
  <2>2. IsGeneration(Snapshot(View))
    BY ViewIsDir, SnapshotIsGeneration
  <2>3. DOMAIN gens' \subseteq Place /\ \A l \in DOMAIN gens' : IsGeneration(gens'[l])
    BY <1>10, <2>2, PutType DEF ReplaceStock, TypeOK, Place
  <2> QED
    BY <1>10, <2>1, <2>3 DEF ReplaceStock, TypeOK
<1>11. ASSUME NEW p \in Proc, RememberOutput(p) PROVE TypeOK'
  <2> DEFINE home == IF job[p].src = LIVE THEN STOCK ELSE job[p].src
  <2>1. Jobs(job')
    BY <1>a, <1>11 DEF RememberOutput, Step, Pcs, Working
  <2>2. home \in DOMAIN gens
    BY <1>11 DEF RememberOutput, Step, RunSafe, SafeJob, Usable
  <2>3. IsDir(job[p].stage)
    BY DEF TypeOK, IsJob
  <2>4. gens' = Remember(gens, home, job[p].stage)
    BY <1>11 DEF RememberOutput
  <2> HIDE DEF home
  <2>5. DOMAIN gens' \subseteq Place /\ \A l \in DOMAIN gens' : IsGeneration(gens'[l])
    BY <2>2, <2>3, <2>4, RememberType DEF TypeOK
  <2> QED
    BY <1>11, <2>1, <2>5 DEF RememberOutput, TypeOK
<1>12. ASSUME NEW p \in Proc, Prepare(p) PROVE TypeOK'
  <2>1. Jobs(job')
    BY <1>a, <1>12 DEF Prepare, Step, Pcs, Working
  <2> QED
    BY <1>12, <2>1 DEF Prepare, TypeOK
<1>13. ASSUME NEW p \in Proc, ClearPhoneCache(p) PROVE TypeOK'
  <2>1. Jobs(job')
    BY <1>a, <1>13 DEF ClearPhoneCache, Step, Pcs, Working
  <2> QED
    BY <1>13, <2>1, NothingIsDir DEF ClearPhoneCache, TypeOK
<1>14. ASSUME NEW p \in Proc, Exchange(p) PROVE TypeOK'
  <2>1. Jobs(job')
    BY <1>a, <1>14 DEF Exchange, Step, Pcs, Working
  <2>2. IsDir(out')
    BY <1>14 DEF Exchange, TypeOK, IsJob
  <2> QED
    BY <1>14, <2>1, <2>2 DEF Exchange, TypeOK
<1>15. ASSUME NEW p \in Proc, WriteReport(p) PROVE TypeOK'
  BY <1>c, <1>15 DEF WriteReport, TypeOK
<1>16. ASSUME NEW p \in Proc, Fail(p) PROVE TypeOK'
  <2>1. Jobs(job') /\ lock' \subseteq Proc /\ phase' \in {"postfs", "ready", "up"}
    <3>1. CASE job[p].kind = "apply"
      BY <1>a, <1>16, <3>1 DEF Fail, Pcs, TypeOK
    <3>2. CASE job[p].kind # "apply"
      BY <1>c, <1>16, <3>2 DEF Fail
    <3> QED
      BY <3>1, <3>2
  <2>2. DOMAIN gens' \subseteq Place /\ \A l \in DOMAIN gens' : IsGeneration(gens'[l])
    BY <1>16 DEF Fail, Only, TypeOK
  <2> QED
    BY <1>16, <2>1, <2>2 DEF Fail, TypeOK
<1>17. ASSUME NEW p \in Proc, RecordFailure(p) PROVE TypeOK'
  BY <1>c, <1>17 DEF RecordFailure, TypeOK
<1>18. ASSUME NEW p \in Proc, Kill(p) PROVE TypeOK'
  BY <1>c, <1>18 DEF Kill, TypeOK
<1>19. CASE ScriptAborts
  BY <1>19 DEF ScriptAborts, TypeOK
<1>20. CASE Start
  <2>1. IsDir(Over(out, Image[image]))
    BY OverIsDir DEF TypeOK
  <2> QED
    BY <1>20, <2>1 DEF Start, TypeOK
<1>21. ASSUME NEW c \in Configs \cup {BadConfig}, EditConfig(c) PROVE TypeOK'
  BY <1>21 DEF EditConfig, TypeOK
<1>22. ASSUME NEW i \in Images, Reboot(i) PROVE TypeOK'
  <2>1. Jobs(job')
    BY <1>22, IdleIsJob DEF Reboot
  <2>2. boot' \in 1..MaxBoots
    BY <1>22 DEF Reboot, TypeOK
  <2>3. IsDir(phoneCache')
    BY <1>22, NothingIsDir DEF Reboot, TypeOK
  <2> QED
    BY <1>22, <2>1, <2>2, <2>3, NothingIsDir DEF Reboot, TypeOK
<1>23. CASE UNCHANGED vars
  BY <1>23 DEF vars, TypeOK
<1> QED
  BY <1>1, <1>2, <1>3, <1>4, <1>5, <1>6, <1>7, <1>8, <1>9, <1>10, <1>11, <1>12, <1>13,
     <1>14, <1>15, <1>16, <1>17, <1>18, <1>19, <1>20, <1>21, <1>22, <1>23
  DEF Next, RunStep
-----------------------------------------------------------------------------
(* Runs one at a time *)

\* What a change of one process's job does to the jobs.
LEMMA GotoEffect ==
    ASSUME TypeOK, NEW p \in Proc, NEW j, Goto(p, j)
    PROVE  job'[p] = j /\ \A q \in Proc \ {p} : job'[q] = job[q]
<1>1. job = [q \in Proc |-> job[q]]
  BY DEF TypeOK
<1> QED
  BY <1>1 DEF Goto

\* A step of a run moves that run on and changes nothing else of any run.
LEMMA StepEffect ==
    ASSUME TypeOK, NEW p \in Proc, NEW at, NEW next, Step(p, at, next)
    PROVE  /\ job[p].pc = at /\ job'[p].pc = next
           /\ job'[p].kind = job[p].kind
           /\ job'[p].src = job[p].src
           /\ job'[p].place = job[p].place
           /\ job'[p].stage = job[p].stage
           /\ job'[p].config = job[p].config
           /\ job'[p].present = job[p].present
           /\ \A q \in Proc \ {p} : job'[q] = job[q]
<1>1. job'[p] = [job[p] EXCEPT !.pc = next] /\ \A q \in Proc \ {p} : job'[q] = job[q]
  BY GotoEffect DEF Step
<1>2. IsJob(job[p])
  BY DEF TypeOK
<1> QED
  BY <1>1, <1>2 DEF Step, IsJob

LEMMA IdlePc == Idle.pc = "idle"
BY DEF Idle, NewJob

\* While one process is in a run no other is.
LEMMA Alone ==
    ASSUME Exclusive, NEW p \in Proc, job[p].pc # "idle"
    PROVE  /\ lock = {p}
           /\ phase = IF job[p].kind = "apply" THEN "postfs" ELSE "up"
           /\ \A q \in Proc \ {p} : job[q] = Idle
BY IdlePc DEF Exclusive

\* After a process has left its run none is in one.
LEMMA ExitEffect ==
    ASSUME TypeOK, Exclusive, NEW p \in Proc, job[p].pc # "idle", Exit(p)
    PROVE  \A q \in Proc : job'[q] = Idle
<1>1. job'[p] = Idle /\ \A q \in Proc \ {p} : job'[q] = job[q]
  BY GotoEffect DEF Exit
<1> QED
  BY <1>1, Alone

\* The lock keeps runs apart, and the phase keeps apply before the mount.
LEMMA NextExclusive == TypeOK /\ Exclusive /\ [Next]_vars => Exclusive'
<1> SUFFICES ASSUME TypeOK, Exclusive, [Next]_vars PROVE Exclusive'
  OBVIOUS
<1>a. ASSUME NEW p \in Proc, job[p].pc # "idle", UNCHANGED <<lock, phase>>,
             job'[p].kind = job[p].kind, \A q \in Proc \ {p} : job'[q] = job[q]
      PROVE  Exclusive'
  BY <1>a, Alone DEF Exclusive
<1>b. ASSUME \A q \in Proc : job'[q] = Idle
      PROVE  Exclusive'
  BY <1>b DEF Exclusive
<1>c. ASSUME NEW p \in Proc, job[p].pc # "idle", Exit(p)
      PROVE  Exclusive'
  BY <1>b, <1>c, ExitEffect
<1>1. ASSUME NEW p \in Proc, BeginApply(p) PROVE Exclusive'
  BY <1>1, GotoEffect DEF BeginApply, Exclusive, NewJob
<1>2. ASSUME NEW p \in Proc, NEW kind \in {"patch", "scratch"}, BeginPatch(p, kind)
      PROVE  Exclusive'
  <2>1. \A q \in Proc : job[q] = Idle
    BY <1>2 DEF BeginPatch, Exclusive
  <2> QED
    BY <1>2, <2>1, GotoEffect DEF BeginPatch, Exclusive, NewJob
<1>3. ASSUME NEW p \in Proc, RunStep(p) PROVE Exclusive'
  <2>1. CASE \/ WritePreparing(p) \/ SnapshotCurrent(p) \/ SnapshotFirst(p)
             \/ SealArchive(p) \/ ReplaceStock(p) \/ RememberOutput(p)
             \/ Prepare(p) \/ ClearPhoneCache(p) \/ Exchange(p)
    <3>1. PICK at \in {"preparing", "refresh", "seal", "swap", "remember", "prepare",
                       "clear", "exchange"}, next \in Pcs : Step(p, at, next)
      BY <2>1 DEF WritePreparing, SnapshotCurrent, SnapshotFirst, SealArchive, ReplaceStock,
         RememberOutput, Prepare, ClearPhoneCache, Exchange, Pcs, Working
    <3>2. UNCHANGED <<lock, phase>>
      BY <2>1 DEF WritePreparing, SnapshotCurrent, SnapshotFirst, SealArchive, ReplaceStock,
         RememberOutput, Prepare, ClearPhoneCache, Exchange
    <3> QED
      BY <1>a, <3>1, <3>2, StepEffect
  <2>2. CASE Generate(p)
    <3>1. /\ job[p].pc # "idle" /\ UNCHANGED <<lock, phase>>
          /\ job'[p].kind = job[p].kind
          /\ \A q \in Proc \ {p} : job'[q] = job[q]
      BY <2>2, GotoEffect DEF Generate
    <3> QED
      BY <1>a, <3>1
  <2>3. CASE ArchiveStock(p)
    <3>1. IsJob(job[p])
      BY DEF TypeOK
    <3>2. /\ job[p].pc # "idle" /\ UNCHANGED <<lock, phase>>
          /\ job'[p] = [job[p] EXCEPT !.pc = "seal", !.place = FreshArchive]
          /\ \A q \in Proc \ {p} : job'[q] = job[q]
      BY <2>3, GotoEffect DEF ArchiveStock
    <3>3. job'[p].kind = job[p].kind
      BY <3>1, <3>2 DEF IsJob
    <3> QED
      BY <1>a, <3>2, <3>3
  <2>4. CASE Fail(p)
    <3>1. job[p].pc # "idle"
      BY <2>4 DEF Fail, Working
    <3>2. CASE job[p].kind = "apply"
      <4>1. IsJob(job[p])
        BY DEF TypeOK
      <4>2. /\ UNCHANGED <<lock, phase>>
            /\ job'[p] = [job[p] EXCEPT !.pc = "failing"]
            /\ \A q \in Proc \ {p} : job'[q] = job[q]
        BY <2>4, <3>2, GotoEffect DEF Fail
      <4>3. job'[p].kind = job[p].kind
        BY <4>1, <4>2 DEF IsJob
      <4> QED
        BY <1>a, <3>1, <4>2, <4>3
    <3>3. CASE job[p].kind # "apply"
      BY <1>c, <2>4, <3>1, <3>3 DEF Fail
    <3> QED
      BY <3>2, <3>3
  <2>5. CASE PreparingFails(p) \/ WriteReport(p) \/ RecordFailure(p) \/ Kill(p)
    BY <1>c, <2>5 DEF PreparingFails, WriteReport, RecordFailure, Kill
  <2> QED
    BY <1>3, <2>1, <2>2, <2>3, <2>4, <2>5 DEF RunStep
<1>4. CASE ScriptAborts
  BY <1>4 DEF ScriptAborts, Exclusive
<1>5. CASE Start
  <2>1. \A q \in Proc : job[q] = Idle
    BY <1>5 DEF Start, Exclusive
  <2> QED
    BY <1>b, <1>5, <2>1 DEF Start
<1>6. ASSUME NEW c, EditConfig(c) PROVE Exclusive'
  BY <1>6 DEF EditConfig, Exclusive
<1>7. ASSUME NEW i, Reboot(i) PROVE Exclusive'
  BY <1>b, <1>7 DEF Reboot
<1>8. CASE UNCHANGED vars
  BY <1>8 DEF vars, Exclusive
<1> QED
  BY <1>1, <1>2, <1>3, <1>4, <1>5, <1>6, <1>7, <1>8 DEF Next
-----------------------------------------------------------------------------
(* What the cache keeps *)

LEMMA NewNames ==
    ASSUME TypeOK, NEW p \in Proc, ArchiveStock(p)
    PROVE  FreshArchive \in Archive /\ FreshArchive \notin DOMAIN gens /\ FreshArchive # STOCK
BY CacheAssumption DEF ArchiveStock, FreshArchive

\* A job that remembers its output does so in a generation that is there.
LEMMA RememberHome ==
    ASSUME TypeOK, RunSafe, NEW p \in Proc, RememberOutput(p)
    PROVE  LET home == IF job[p].src = LIVE THEN STOCK ELSE job[p].src
           IN  /\ home \in Usable(gens) /\ home \in DOMAIN gens
               /\ IsGeneration(gens[home])
               /\ Made(job[p], gens[home].files)
               /\ gens' = Remember(gens, home, job[p].stage)
BY DEF RememberOutput, Step, RunSafe, SafeJob, Usable, TypeOK

\* No step loses a registration.
LEMMA NextKeeps == TypeOK /\ RunSafe /\ [Next]_vars => Keeps(gens, gens')
<1> SUFFICES ASSUME TypeOK, RunSafe, [Next]_vars PROVE Keeps(gens, gens')
  OBVIOUS
<1>a. ASSUME UNCHANGED gens PROVE Keeps(gens, gens')
  BY <1>a DEF Keeps
<1>1. ASSUME NEW p \in Proc, ArchiveStock(p) PROVE Keeps(gens, gens')
  <2>1. FreshArchive \notin Usable(gens)
    BY <1>1, NewNames DEF Usable
  <2>2. PICK names : gens' = Put(gens, FreshArchive, PartialCopy(gens[STOCK], names))
    BY <1>1 DEF ArchiveStock
  <2> QED
    BY <2>1, <2>2, PutKeeps
<1>2. ASSUME NEW p \in Proc, SealArchive(p) PROVE Keeps(gens, gens')
  <2>1. job[p].place \notin Usable(gens)
    BY <1>2 DEF SealArchive, Step, RunSafe, SafeJob, Usable
  <2> QED
    BY <1>2, <2>1, PutKeeps DEF SealArchive
<1>3. ASSUME NEW p \in Proc, ReplaceStock(p) PROVE Keeps(gens, gens')
  <2>1. STOCK \in DOMAIN gens => Archived(gens)
    BY <1>3 DEF ReplaceStock, Step, RunSafe, SafeJob
  <2> QED
    BY <1>3, <2>1, ReplaceKeeps DEF ReplaceStock
<1>4. ASSUME NEW p \in Proc, RememberOutput(p) PROVE Keeps(gens, gens')
  BY <1>4, RememberHome, RememberKeeps
<1>5. ASSUME NEW p \in Proc, Fail(p) PROVE Keeps(gens, gens')
  <2>1. CASE job[p].pc = "seal"
    <3>1. job[p].place \notin Usable(gens)
      BY <2>1 DEF RunSafe, SafeJob, Usable
    <3> QED
      BY <1>5, <2>1, <3>1, RemoveKeeps DEF Fail
  <2>2. CASE job[p].pc # "seal"
    BY <1>a, <1>5, <2>2 DEF Fail
  <2> QED
    BY <2>1, <2>2
<1>6. ASSUME NEW p \in Proc, RunStep(p) PROVE Keeps(gens, gens')
  <2>1. CASE \/ WritePreparing(p) \/ PreparingFails(p) \/ Generate(p)
             \/ SnapshotCurrent(p) \/ SnapshotFirst(p) \/ Prepare(p)
             \/ ClearPhoneCache(p) \/ Exchange(p) \/ WriteReport(p)
             \/ RecordFailure(p) \/ Kill(p)
    <3>1. UNCHANGED gens
      BY <2>1 DEF WritePreparing, PreparingFails, Generate, SnapshotCurrent, SnapshotFirst,
         Prepare, ClearPhoneCache, Exchange, WriteReport, RecordFailure, Kill
    <3> QED
      BY <1>a, <3>1
  <2> QED
    BY <1>1, <1>2, <1>3, <1>4, <1>5, <1>6, <2>1 DEF RunStep
<1>7. CASE \/ \E p \in Proc : BeginApply(p) \/ \E k \in {"patch", "scratch"} : BeginPatch(p, k)
           \/ ScriptAborts \/ Start \/ UNCHANGED vars
           \/ \E c \in Configs \cup {BadConfig} : EditConfig(c)
           \/ \E i \in Images : Reboot(i)
  <2>1. UNCHANGED gens
    BY <1>7 DEF BeginApply, BeginPatch, ScriptAborts, Start, vars, EditConfig, Reboot
  <2> QED
    BY <1>a, <2>1
<1> QED
  BY <1>6, <1>7 DEF Next
-----------------------------------------------------------------------------
(* Whose files a run reads *)

\* What a process that may read /product sees is Google's, unless a generation
\* claims it: the heart of effective_src.
LEMMA LiveIsGoogle ==
    ASSUME TypeOK, NoPatchInStock, OutputKnown, Claimants(gens, View) = {}
    PROVE  GoogleDir(View)
<1> DEFINE stock == Image[image]
<1>1. image \in Images /\ IsDir(stock) /\ OTHERS \in DOMAIN stock
  BY PublishAssumption DEF TypeOK
<1>2. \A n \in DOMAIN stock : GoogleFile(n, stock[n])
  BY <1>1 DEF GoogleFile
<1>3. CASE phase # "up"
  BY <1>1, <1>2, <1>3 DEF View, GoogleDir
<1>4. CASE phase = "up"
  <2>1. PICK d \in {out, mount} : View = Over(d, stock)
    BY <1>4 DEF View
  <2>2. Recognised(gens, d)
    BY DEF OutputKnown
  <2>3. ASSUME NEW l \in Usable(gens), NEW m \in Manifests(gens[l]), Matches(d, m)
        PROVE  FALSE
    <3>1. Matches(View, m)
      BY <2>1, <2>3 DEF Matches, Over
    <3>2. OTHERS \in DOMAIN View
      BY <1>1, <2>1 DEF Over
    <3>3. OTHERS \in DOMAIN gens[l].files
      BY DEF NoPatchInStock, GoogleDir
    <3>4. l \in Claimants(gens, View)
      BY <3>1, <3>2, <3>3 DEF Claimants, Ours
    <3> QED
      BY <3>4
  <2>4. \A n \in DOMAIN d : GoogleFile(n, d[n])
    BY <2>2, <2>3 DEF Recognised
  <2> QED
    BY <1>1, <1>2, <2>1, <2>4 DEF Over, GoogleDir
<1> QED
  BY <1>3, <1>4

\* Every source a run may pick has Google's settings only.
LEMMA SourceIsGoogle ==
    ASSUME TypeOK, NoPatchInStock, OutputKnown, NEW src \in SourcesNow
    PROVE  GoogleDir(Read(src))
<1>1. CASE src = LIVE
  BY <1>1, SourceIsDir, LiveIsGoogle DEF Read
<1>2. CASE src # LIVE
  BY <1>2, SourceIsDir DEF Read, NoPatchInStock
<1> QED
  BY <1>1, <1>2

\* An output that changed nothing still has Google's settings, so nobody has to
\* recognise it.
LEMMA UnchangedIsGoogle ==
    ASSUME NEW dir, GoogleDir(dir), NEW want, ~Changed(dir, want), NEW cache
    PROVE  Recognised(cache, Output(dir, want))
<1>1. ASSUME NEW n \in DOMAIN Output(dir, want)
      PROVE  GoogleFile(n, Output(dir, want)[n])
  <2>1. n \in DOMAIN dir
    BY DEF Output, GoogleDir
  <2>2. Output(dir, want)[n].set = dir[n].set
    BY DEF Changed, Output
  <2> QED
    BY <2>1, <2>2 DEF GoogleDir, GoogleFile
<1> QED
  BY <1>1 DEF Recognised

\* Where a generation a run may read from comes from: it, or one like it, was
\* there before; or it is a new snapshot; or a run registered its output with it.
LEMMA GenerationOrigin ==
    ASSUME TypeOK, RunSafe, [Next]_vars, NEW l \in Usable(gens')
    PROVE  LET g == gens'[l]
           IN  \/ \E k \in Usable(gens) : /\ g.files = gens[k].files
                                          /\ g.outputs = gens[k].outputs
                                          /\ g.legacy = gens[k].legacy
               \/ /\ g.files = View /\ g.outputs = {} /\ g.legacy = {}
                  /\ GoogleDir(View)
                  /\ \E p \in Proc : job[p].pc = "swap"
               \/ \E k \in Usable(gens), c \in Configs, present \in Presents :
                     /\ g.files = gens[k].files
                     /\ g.legacy = gens[k].legacy
                     /\ g.outputs = Manifests(gens[k]) \cup
                                     {Output(g.files, Plan(c, g.files, present))}
                     /\ DOMAIN Output(g.files, Plan(c, g.files, present)) # {}
<1> DEFINE Before == \E k \in Usable(gens) : /\ gens'[l].files = gens[k].files
                                            /\ gens'[l].outputs = gens[k].outputs
                                            /\ gens'[l].legacy = gens[k].legacy
<1>a. ASSUME l \in Usable(gens), gens'[l] = gens[l] PROVE Before
  BY <1>a
<1>1. ASSUME UNCHANGED gens PROVE Before
  BY <1>1
<1>2. ASSUME NEW p \in Proc, ArchiveStock(p) PROVE Before
  <2>1. PICK names : gens' = Put(gens, FreshArchive, PartialCopy(gens[STOCK], names))
    BY <1>2 DEF ArchiveStock
  <2>2. l # FreshArchive
    BY <1>2, <2>1, NewNames DEF Usable, Put, PartialCopy
  <2> QED
    BY <1>a, <2>1, <2>2 DEF Usable, Put
<1>3. ASSUME NEW p \in Proc, SealArchive(p) PROVE Before
  <2>1. STOCK \in Usable(gens) /\ gens' = Put(gens, job[p].place, SealedCopy(gens[STOCK]))
    BY <1>3 DEF SealArchive, Step, RunSafe, SafeJob, HasPrimary, Usable
  <2>2. CASE l = job[p].place
    BY <2>1, <2>2 DEF Put, SealedCopy
  <2>3. CASE l # job[p].place
    BY <1>a, <2>1, <2>3 DEF Usable, Put
  <2> QED
    BY <2>2, <2>3
<1>4. ASSUME NEW p \in Proc, ReplaceStock(p)
      PROVE  \/ Before
             \/ /\ gens'[l].files = View /\ gens'[l].outputs = {} /\ gens'[l].legacy = {}
                /\ GoogleDir(View)
                /\ \E q \in Proc : job[q].pc = "swap"
  <2>1. gens' = Put(gens, STOCK, Snapshot(View)) /\ GoogleDir(View) /\ job[p].pc = "swap"
    BY <1>4 DEF ReplaceStock, Step, RunSafe, SafeJob
  <2>2. CASE l = STOCK
    BY <2>1, <2>2 DEF Put, Snapshot
  <2>3. CASE l # STOCK
    BY <1>a, <2>1, <2>3 DEF Usable, Put
  <2> QED
    BY <2>2, <2>3
<1>5. ASSUME NEW p \in Proc, RememberOutput(p)
      PROVE  \/ Before
             \/ \E k \in Usable(gens), c \in Configs, present \in Presents :
                   /\ gens'[l].files = gens[k].files
                   /\ gens'[l].legacy = gens[k].legacy
                   /\ gens'[l].outputs = Manifests(gens[k]) \cup
                        {Output(gens'[l].files, Plan(c, gens'[l].files, present))}
                   /\ DOMAIN Output(gens'[l].files, Plan(c, gens'[l].files, present)) # {}
  <2> DEFINE home == IF job[p].src = LIVE THEN STOCK ELSE job[p].src
             m    == job[p].stage
  <2>1. /\ home \in Usable(gens) /\ home \in DOMAIN gens
        /\ IsGeneration(gens[home])
        /\ Made(job[p], gens[home].files)
        /\ gens' = Remember(gens, home, m)
    BY <1>5, RememberHome
  <2> HIDE DEF home, m
  <2>0. LET new == Remember(gens, home, m)
        IN  /\ DOMAIN new = DOMAIN gens
            /\ Usable(new) = Usable(gens)
            /\ \A k \in DOMAIN gens : /\ new[k].files = gens[k].files
                                      /\ new[k].legacy = gens[k].legacy
                                      /\ new[k].sealed = gens[k].sealed
            /\ \A k \in DOMAIN gens \ {home} : new[k] = gens[k]
            /\ DOMAIN m # {} => new[home].outputs = Manifests(gens[home]) \cup {m}
            /\ DOMAIN m = {} => new = gens
    BY <2>1, RememberEffect
  <2>2. /\ DOMAIN gens' = DOMAIN gens
        /\ Usable(gens') = Usable(gens)
        /\ \A k \in DOMAIN gens : /\ gens'[k].files = gens[k].files
                                  /\ gens'[k].legacy = gens[k].legacy
        /\ \A k \in DOMAIN gens \ {home} : gens'[k] = gens[k]
        /\ DOMAIN m # {} => gens'[home].outputs = Manifests(gens[home]) \cup {m}
        /\ DOMAIN m = {} => gens' = gens
    BY <2>0, <2>1
  <2>3. CASE DOMAIN m = {} \/ l # home
    BY <1>a, <2>2, <2>3 DEF Usable
  <2>4. CASE DOMAIN m # {} /\ l = home
    <3>1. \E c \in Configs, present \in Presents :
              m = Output(gens[home].files, Plan(c, gens[home].files, present))
      BY <2>1 DEF Made, m
    <3> QED
      BY <2>1, <2>2, <2>4, <3>1
  <2> QED
    BY <2>3, <2>4
<1>6. ASSUME NEW p \in Proc, Fail(p) PROVE Before
  <2>1. CASE job[p].pc = "seal"
    <3>1. gens' = Only(gens, DOMAIN gens \ {job[p].place})
      BY <1>6, <2>1 DEF Fail
    <3> QED
      BY <1>a, <3>1 DEF Only, Usable
  <2>2. CASE job[p].pc # "seal"
    BY <1>1, <1>6, <2>2 DEF Fail
  <2> QED
    BY <2>1, <2>2
<1>7. ASSUME NEW p \in Proc,
             \/ WritePreparing(p) \/ PreparingFails(p) \/ Generate(p)
             \/ SnapshotCurrent(p) \/ SnapshotFirst(p) \/ Prepare(p)
             \/ ClearPhoneCache(p) \/ Exchange(p) \/ WriteReport(p)
             \/ RecordFailure(p) \/ Kill(p)
      PROVE  Before
  <2>1. UNCHANGED gens
    BY <1>7 DEF WritePreparing, PreparingFails, Generate, SnapshotCurrent, SnapshotFirst,
       Prepare, ClearPhoneCache, Exchange, WriteReport, RecordFailure, Kill
  <2> QED
    BY <1>1, <2>1
<1>8. ASSUME \/ \E p \in Proc : BeginApply(p) \/ \E k \in {"patch", "scratch"} : BeginPatch(p, k)
             \/ ScriptAborts \/ Start \/ UNCHANGED vars
             \/ \E c \in Configs \cup {BadConfig} : EditConfig(c)
             \/ \E i \in Images : Reboot(i)
      PROVE  Before
  <2>1. UNCHANGED gens
    BY <1>8 DEF BeginApply, BeginPatch, ScriptAborts, Start, vars, EditConfig, Reboot
  <2> QED
    BY <1>1, <2>1
<1> HIDE DEF Before
<1>9. CASE \E p \in Proc : RunStep(p)
  <2>1. PICK p \in Proc : RunStep(p)
    BY <1>9
  <2>2. CASE ReplaceStock(p)
    BY <1>4, <2>2 DEF Before
  <2>3. CASE RememberOutput(p)
    BY <1>5, <2>3 DEF Before
  <2>4. CASE ~ReplaceStock(p) /\ ~RememberOutput(p)
    <3>1. Before
      BY <1>2, <1>3, <1>6, <1>7, <2>1, <2>4 DEF RunStep
    <3> QED
      BY <3>1 DEF Before
  <2> QED
    BY <2>2, <2>3, <2>4
<1>10. CASE ~\E p \in Proc : RunStep(p)
  <2>1. Before
    BY <1>8, <1>10 DEF Next
  <2> QED
    BY <2>1 DEF Before
<1> QED
  BY <1>9, <1>10

\* The cache keeps holding Google's settings only.
LEMMA NextStock == TypeOK /\ RunSafe /\ NoPatchInStock /\ [Next]_vars => NoPatchInStock'
<1> SUFFICES ASSUME TypeOK, RunSafe, NoPatchInStock, [Next]_vars, NEW l \in Usable(gens')
             PROVE  GoogleDir(gens'[l].files)
  BY DEF NoPatchInStock
<1> QED
  BY GenerationOrigin DEF NoPatchInStock

\* A generation whose files, manifests and old fingerprint are those of one with
\* nothing but its own outputs is such a generation too.
LEMMA OwnCopy ==
    ASSUME NEW g, NEW h, Own(h), g.files = h.files, g.outputs = h.outputs, g.legacy = h.legacy
    PROVE  Own(g)
BY DEF Own

\* So is one that has in addition an output made from its files.
LEMMA OwnMore ==
    ASSUME NEW g, NEW h, Own(h), g.files = h.files, g.legacy = h.legacy,
           NEW c \in Configs, NEW present \in Presents,
           g.outputs = Manifests(h) \cup {Output(g.files, Plan(c, g.files, present))}
    PROVE  Own(g)
<1> SUFFICES ASSUME NEW m \in g.outputs
             PROVE  \/ \E x \in Configs, q \in Presents :
                          m = Output(g.files, Plan(x, g.files, q))
                    \/ \E f \in g.legacy : m = [n \in {OTHERS} |-> f]
  BY DEF Own
<1>1. CASE m = Output(g.files, Plan(c, g.files, present))
  BY <1>1
<1>2. CASE m \in Manifests(h) /\ h.outputs # {}
  BY <1>2 DEF Manifests, Own
<1>3. CASE m \in Manifests(h) /\ h.outputs = {}
  BY <1>3 DEF Manifests
<1> QED
  BY <1>1, <1>2, <1>3

\* Every manifest stays with the generation it was made from.
LEMMA NextOwn == TypeOK /\ RunSafe /\ OwnGeneration /\ [Next]_vars => OwnGeneration'
<1> SUFFICES ASSUME TypeOK, RunSafe, OwnGeneration, [Next]_vars, NEW l \in Usable(gens')
             PROVE  Own(gens'[l])
  BY DEF OwnGeneration
<1> DEFINE g == gens'[l]
<1>1. ASSUME NEW k \in Usable(gens), g.files = gens[k].files,
             g.outputs = gens[k].outputs, g.legacy = gens[k].legacy
      PROVE  Own(g)
  BY <1>1, OwnCopy DEF OwnGeneration
<1>2. ASSUME g.outputs = {} PROVE Own(g)
  BY <1>2 DEF Own
<1>3. ASSUME NEW k \in Usable(gens), NEW c \in Configs, NEW present \in Presents,
             g.files = gens[k].files, g.legacy = gens[k].legacy,
             g.outputs = Manifests(gens[k]) \cup {Output(g.files, Plan(c, g.files, present))}
      PROVE  Own(g)
  <2>1. Own(gens[k])
    BY DEF OwnGeneration
  <2> HIDE DEF g
  <2> QED
    BY <1>3, <2>1, OwnMore
<1> QED
  BY <1>1, <1>2, <1>3, GenerationOrigin
-----------------------------------------------------------------------------
(* What is installed stays recognised *)

\* What becomes the output or is mounted is recognised, and stays so.
LEMMA NextKnown == TypeOK /\ RunSafe /\ OutputKnown /\ [Next]_vars => OutputKnown'
<1> SUFFICES ASSUME TypeOK, RunSafe, OutputKnown, [Next]_vars PROVE OutputKnown'
  OBVIOUS
<1>1. \A d : Recognised(gens, d) => Recognised(gens', d)
  <2>1. Keeps(gens, gens')
    BY NextKeeps
  <2> QED
    BY <2>1, KeepsRecognised
<1>2. Recognised(gens, out')
  <2>1. ASSUME NEW p \in Proc, Exchange(p) PROVE Recognised(gens, out')
    BY <2>1 DEF Exchange, Step, RunSafe, SafeJob, OutputKnown
  <2>2. CASE UNCHANGED out
    BY <2>2 DEF OutputKnown
  <2>3. UNCHANGED out \/ \E p \in Proc : Exchange(p)
    BY DEF Next, RunStep, BeginApply, BeginPatch, WritePreparing, PreparingFails, Generate,
       SnapshotCurrent, SnapshotFirst, ArchiveStock, SealArchive, ReplaceStock,
       RememberOutput, Prepare, ClearPhoneCache, WriteReport, Fail, RecordFailure, Kill,
       ScriptAborts, Start, EditConfig, Reboot, vars
  <2> QED
    BY <2>1, <2>2, <2>3
<1>3. Recognised(gens, mount')
  <2>1. mount' \in {mount, out, Nothing}
    BY DEF Next, RunStep, BeginApply, BeginPatch, WritePreparing, PreparingFails, Generate,
       SnapshotCurrent, SnapshotFirst, ArchiveStock, SealArchive, ReplaceStock,
       RememberOutput, Prepare, ClearPhoneCache, Exchange, WriteReport, Fail, RecordFailure,
       Kill, ScriptAborts, Start, EditConfig, Reboot, vars
  <2>2. Recognised(gens, Nothing)
    BY DEF Recognised, Nothing
  <2> QED
    BY <2>1, <2>2 DEF OutputKnown
<1> QED
  BY <1>1, <1>2, <1>3 DEF OutputKnown

\* Where what is installed and what is mounted come from.
LEMMA InstalledOrigin ==
    ASSUME TypeOK, [Next]_vars
    PROVE  /\ out' = out \/ \E p \in Proc : /\ job[p].pc = "exchange"
                                           /\ out' = job[p].stage
           /\ mount' \in {mount, out, Nothing}
<1>1. UNCHANGED out \/ \E p \in Proc : Exchange(p)
  BY DEF Next, RunStep, BeginApply, BeginPatch, WritePreparing, PreparingFails, Generate,
     SnapshotCurrent, SnapshotFirst, ArchiveStock, SealArchive, ReplaceStock,
     RememberOutput, Prepare, ClearPhoneCache, WriteReport, Fail, RecordFailure, Kill,
     ScriptAborts, Start, EditConfig, Reboot, vars
<1>2. ASSUME NEW p \in Proc, Exchange(p)
      PROVE  out' = out \/ (job[p].pc = "exchange" /\ out' = job[p].stage)
  BY <1>2 DEF Exchange, Step
<1>3. mount' \in {mount, out, Nothing}
  BY DEF Next, RunStep, BeginApply, BeginPatch, WritePreparing, PreparingFails, Generate,
     SnapshotCurrent, SnapshotFirst, ArchiveStock, SealArchive, ReplaceStock,
     RememberOutput, Prepare, ClearPhoneCache, Exchange, WriteReport, Fail, RecordFailure,
     Kill, ScriptAborts, Start, EditConfig, Reboot, vars
<1> QED
  BY <1>1, <1>2, <1>3
-----------------------------------------------------------------------------
(* What is true halfway through a run *)

\* A process outside the steps that rely on something.
LEMMA QuietIsSafe ==
    ASSUME NEW j, j.pc \notin {"refresh", "seal", "swap", "remember",
                              "prepare", "clear", "exchange"}
    PROVE  SafeJob(j)
BY DEF SafeJob

\* The decision of generate leaves the run with what its next steps rely on.
LEMMA GenerateSafe ==
    ASSUME TypeOK, NoPatchInStock, OutputKnown, NEW p \in Proc, Generate(p)
    PROVE  SafeJob(job[p])'
<1>1. PICK src \in SourcesNow, present \in Presents :
          LET dir  == Read(src)
              plan == Plan(config, dir, present)
          IN  Goto(p, [pc |-> AfterGenerate(src, dir, plan), kind |-> job[p].kind,
                       src |-> src, place |-> STOCK, plan |-> plan,
                       stage |-> Output(dir, plan),
                       config |-> config, present |-> present])
  BY DEF Generate
<1> DEFINE dir  == Read(src)
           plan == Plan(config, dir, present)
<1>2. /\ job'[p].pc = AfterGenerate(src, dir, plan)
      /\ job'[p].src = src
      /\ job'[p].stage = Output(dir, plan)
      /\ job'[p].config = config /\ job'[p].present = present
  BY <1>1, GotoEffect
<1>3. config \in Configs
  BY DEF Generate, TypeOK
<1>4. Made(job'[p], dir)
  BY <1>2, <1>3 DEF Made
<1>5. GoogleDir(dir)
  BY SourceIsGoogle
<1>6. View' = View /\ gens' = gens
  BY DEF Generate, View
<1>7. src # LIVE => src \in Usable(gens)
  BY SourceIsDir
<1> HIDE DEF plan
<1>8. CASE AfterGenerate(src, dir, plan) = "prepare"
  <2>1. ~Changed(dir, plan)
    BY <1>8 DEF AfterGenerate, Changed, Output
  <2>2. Recognised(gens', job'[p].stage)
    BY <1>2, <1>5, <2>1, UnchangedIsGoogle
  <2> QED
    BY <1>2, <1>8, <2>2 DEF SafeJob
<1>9. CASE AfterGenerate(src, dir, plan) = "refresh"
  <2>1. src = LIVE
    BY <1>9 DEF AfterGenerate
  <2>2. dir = View'
    BY <1>6, <2>1 DEF Read
  <2> HIDE DEF dir
  <2> QED
    BY <1>2, <1>4, <1>5, <1>9, <2>1, <2>2 DEF SafeJob
<1>10. CASE AfterGenerate(src, dir, plan) = "remember"
  <2>1. src # LIVE
    BY <1>10 DEF AfterGenerate
  <2>2. dir = gens'[src].files
    BY <1>6, <2>1 DEF Read
  <2>3. src \in Usable(gens')
    BY <1>6, <1>7, <2>1
  <2> HIDE DEF dir
  <2> QED
    BY <1>2, <1>4, <1>10, <2>1, <2>2, <2>3 DEF SafeJob
<1> QED
  BY <1>8, <1>9, <1>10 DEF AfterGenerate

\* A sealed archive answers to the outputs of what it was copied from.
LEMMA SealedSame ==
    ASSUME NEW g
    PROVE  SealedCopy(g).files = g.files /\ Manifests(SealedCopy(g)) = Manifests(g)
BY DEF SealedCopy, Manifests

\* Each step of a run leaves the run with what its next steps rely on.
LEMMA StepSafe ==
    ASSUME TypeOK, RunSafe, NoPatchInStock, OutputKnown, NEW p \in Proc, RunStep(p),
           job'[p].pc # "idle"
    PROVE  SafeJob(job[p])'
<1>1. CASE WritePreparing(p)
  BY <1>1, StepEffect DEF WritePreparing, SafeJob
<1>2. CASE Generate(p)
  BY <1>2, GenerateSafe
<1>3. CASE SnapshotCurrent(p)
  <2>1. View' = View /\ gens' = gens
    BY <1>3 DEF SnapshotCurrent, View
  <2>2. /\ job[p].pc = "refresh" /\ job'[p].pc = "remember"
        /\ job'[p].src = job[p].src /\ job'[p].stage = job[p].stage
        /\ job'[p].config = job[p].config /\ job'[p].present = job[p].present
    BY <1>3, StepEffect DEF SnapshotCurrent
  <2>3. job[p].src = LIVE /\ Made(job[p], View)
    BY <2>2 DEF RunSafe, SafeJob
  <2>4. STOCK \in Usable(gens') /\ gens'[STOCK].files = View
    BY <1>3, <2>1 DEF SnapshotCurrent, UpToDate, HasPrimary, Usable
  <2>5. Made(job'[p], gens'[STOCK].files)
    BY <2>2, <2>3, <2>4 DEF Made
  <2> QED
    BY <2>2, <2>3, <2>4, <2>5 DEF SafeJob
<1>4. CASE SnapshotFirst(p)
  <2>1. View' = View /\ gens' = gens
    BY <1>4 DEF SnapshotFirst, View
  <2>2. /\ job[p].pc = "refresh" /\ job'[p].pc = "swap"
        /\ job'[p].src = job[p].src /\ job'[p].stage = job[p].stage
        /\ job'[p].config = job[p].config /\ job'[p].present = job[p].present
    BY <1>4, StepEffect DEF SnapshotFirst
  <2>3. job[p].src = LIVE /\ GoogleDir(View) /\ Made(job[p], View)
    BY <2>2 DEF RunSafe, SafeJob
  <2>4. Made(job'[p], View')
    BY <2>1, <2>2, <2>3 DEF Made
  <2>5. STOCK \notin DOMAIN gens'
    BY <1>4, <2>1 DEF SnapshotFirst, HasPrimary, NoPatchInStock, Usable, GoogleDir
  <2> QED
    BY <2>1, <2>2, <2>3, <2>4, <2>5 DEF SafeJob
<1>5. CASE ArchiveStock(p)
  <2>1. View' = View
    BY <1>5 DEF ArchiveStock, View
  <2>2. IsJob(job[p]) /\ job[p].pc = "refresh"
        /\ job'[p] = [job[p] EXCEPT !.pc = "seal", !.place = FreshArchive]
    BY <1>5, GotoEffect DEF ArchiveStock, TypeOK
  <2>3. /\ job'[p].pc = "seal" /\ job'[p].place = FreshArchive
        /\ job'[p].src = job[p].src /\ job'[p].stage = job[p].stage
        /\ job'[p].config = job[p].config /\ job'[p].present = job[p].present
    BY <2>2 DEF IsJob
  <2>4. job[p].src = LIVE /\ GoogleDir(View) /\ Made(job[p], View)
    BY <2>2 DEF RunSafe, SafeJob
  <2>5. Made(job'[p], View')
    BY <2>1, <2>3, <2>4 DEF Made
  <2>6. PICK names : gens' = Put(gens, FreshArchive, PartialCopy(gens[STOCK], names))
    BY <1>5 DEF ArchiveStock
  <2>7. FreshArchive \in DOMAIN gens' \ {STOCK} /\ ~gens'[FreshArchive].sealed
    BY <1>5, <2>6, NewNames DEF Put, PartialCopy
  <2>8. HasPrimary(gens')
    BY <1>5, <2>6, NewNames DEF ArchiveStock, HasPrimary, Put
  <2> QED
    BY <2>1, <2>3, <2>4, <2>5, <2>7, <2>8 DEF SafeJob
<1>6. CASE SealArchive(p)
  <2>1. View' = View
    BY <1>6 DEF SealArchive, View
  <2>2. /\ job[p].pc = "seal" /\ job'[p].pc = "swap"
        /\ job'[p].src = job[p].src /\ job'[p].stage = job[p].stage
        /\ job'[p].config = job[p].config /\ job'[p].present = job[p].present
    BY <1>6, StepEffect DEF SealArchive
  <2>3. job[p].src = LIVE /\ GoogleDir(View) /\ Made(job[p], View) /\ job[p].place # STOCK
    BY <2>2 DEF RunSafe, SafeJob
  <2>4. Made(job'[p], View')
    BY <2>1, <2>2, <2>3 DEF Made
  <2>5. gens' = Put(gens, job[p].place, SealedCopy(gens[STOCK]))
    BY <1>6 DEF SealArchive
  <2>6. /\ job[p].place \in Usable(gens') \ {STOCK}
        /\ gens'[job[p].place] = SealedCopy(gens[STOCK])
        /\ gens'[STOCK] = gens[STOCK] \/ STOCK \notin DOMAIN gens'
    BY <2>3, <2>5 DEF Put, Usable, SealedCopy
  <2>7. SUFFICES ASSUME STOCK \in DOMAIN gens'
                 PROVE  Archived(gens')
    BY <2>1, <2>2, <2>3, <2>4 DEF SafeJob
  <2>8. gens'[job[p].place] = SealedCopy(gens'[STOCK])
    BY <2>6, <2>7
  <2>9. /\ gens'[job[p].place].files = gens'[STOCK].files
        /\ Manifests(gens'[job[p].place]) = Manifests(gens'[STOCK])
    BY <2>8, SealedSame
  <2> QED
    BY <2>6, <2>9 DEF Archived
<1>7. CASE ReplaceStock(p)
  <2>1. View' = View
    BY <1>7 DEF ReplaceStock, View
  <2>2. /\ job[p].pc = "swap" /\ job'[p].pc = "remember"
        /\ job'[p].src = job[p].src /\ job'[p].stage = job[p].stage
        /\ job'[p].config = job[p].config /\ job'[p].present = job[p].present
    BY <1>7, StepEffect DEF ReplaceStock
  <2>3. job[p].src = LIVE /\ Made(job[p], View)
    BY <2>2 DEF RunSafe, SafeJob
  <2>4. STOCK \in Usable(gens') /\ gens'[STOCK].files = View
    BY <1>7 DEF ReplaceStock, Put, Snapshot, Usable
  <2>5. Made(job'[p], gens'[STOCK].files)
    BY <2>2, <2>3, <2>4 DEF Made
  <2> QED
    BY <2>2, <2>3, <2>4, <2>5 DEF SafeJob
<1>8. CASE RememberOutput(p)
  <2>1. job'[p].pc = "prepare" /\ job'[p].stage = job[p].stage
    BY <1>8, StepEffect DEF RememberOutput
  <2>2. Recognised(gens', job[p].stage)
    BY <1>8, RememberHome, RememberKeeps
  <2> QED
    BY <2>1, <2>2 DEF SafeJob
<1>9. CASE Prepare(p) \/ ClearPhoneCache(p)
  <2>1. /\ job[p].pc \in {"prepare", "clear"} /\ job'[p].pc \in {"clear", "exchange"}
        /\ job'[p].stage = job[p].stage
    BY <1>9, StepEffect DEF Prepare, ClearPhoneCache
  <2>2. gens' = gens
    BY <1>9 DEF Prepare, ClearPhoneCache
  <2>3. Recognised(gens', job'[p].stage)
    BY <2>1, <2>2 DEF RunSafe, SafeJob
  <2> QED
    BY <2>1, <2>3 DEF SafeJob
<1>10. CASE Exchange(p)
  BY <1>10, StepEffect DEF Exchange, SafeJob
<1>11. CASE Fail(p)
  <2>1. CASE job[p].kind = "apply"
    <3>1. IsJob(job[p]) /\ job'[p] = [job[p] EXCEPT !.pc = "failing"]
      BY <1>11, <2>1, GotoEffect DEF Fail, TypeOK
    <3>2. job'[p].pc = "failing"
      BY <3>1 DEF IsJob
    <3> QED
      BY <3>2 DEF SafeJob
  <2>2. CASE job[p].kind # "apply"
    BY <1>11, <2>2, GotoEffect, IdlePc DEF Fail, Exit
  <2> QED
    BY <2>1, <2>2
<1>12. CASE PreparingFails(p) \/ WriteReport(p) \/ RecordFailure(p) \/ Kill(p)
  BY <1>12, GotoEffect, IdlePc DEF PreparingFails, WriteReport, RecordFailure, Kill, Exit
<1> QED
  BY <1>1, <1>2, <1>3, <1>4, <1>5, <1>6, <1>7, <1>8, <1>9, <1>10, <1>11, <1>12 DEF RunStep

\* So every run has what its next steps rely on after any step: the run that made
\* the step by StepSafe, and no other run is under way.
LEMMA NextSafe ==
    TypeOK /\ Exclusive /\ RunSafe /\ NoPatchInStock /\ OutputKnown /\ [Next]_vars
      => RunSafe'
<1> SUFFICES ASSUME TypeOK, Exclusive, RunSafe, NoPatchInStock, OutputKnown, [Next]_vars
             PROVE  RunSafe'
  OBVIOUS
<1>a. ASSUME NEW q \in Proc, job'[q].pc \in {"idle", "preparing", "generate"}
      PROVE  SafeJob(job[q])'
  BY <1>a DEF SafeJob
<1>1. ASSUME NEW p \in Proc, RunStep(p), job[p].pc # "idle" PROVE RunSafe'
  <2>1. \A q \in Proc \ {p} : job[q] = Idle
    BY <1>1, Alone
  <2>2. \A q \in Proc \ {p} : job'[q] = job[q]
    BY <1>1, StepEffect, GotoEffect
    DEF RunStep, WritePreparing, PreparingFails, Generate, SnapshotCurrent, SnapshotFirst,
        ArchiveStock, SealArchive, ReplaceStock, RememberOutput, Prepare, ClearPhoneCache,
        Exchange, WriteReport, Fail, RecordFailure, Kill, Exit
  <2>3. \A q \in Proc \ {p} : SafeJob(job[q])'
    BY <1>a, <2>1, <2>2, IdlePc
  <2>4. SafeJob(job[p])'
    BY <1>1, <1>a, StepSafe
  <2> QED
    BY <2>3, <2>4 DEF RunSafe
<1>2. ASSUME NEW p \in Proc, RunStep(p) PROVE job[p].pc # "idle"
  BY <1>2 DEF RunStep, WritePreparing, PreparingFails, Generate, SnapshotCurrent,
     SnapshotFirst, ArchiveStock, SealArchive, ReplaceStock, RememberOutput, Prepare,
     ClearPhoneCache, Exchange, WriteReport, Fail, RecordFailure, Kill, Step, Working
<1>3. ASSUME NEW p \in Proc, BeginApply(p) PROVE RunSafe'
  <2>1. job'[p] = NewJob("apply", "preparing") /\ \A q \in Proc \ {p} : job'[q] = Idle
    BY <1>3, GotoEffect DEF BeginApply
  <2> QED
    BY <1>a, <2>1, IdlePc DEF RunSafe, NewJob
<1>4. ASSUME NEW p \in Proc, NEW k \in {"patch", "scratch"}, BeginPatch(p, k) PROVE RunSafe'
  <2>1. \A q \in Proc : job[q] = Idle
    BY <1>4 DEF BeginPatch, Exclusive
  <2>2. job'[p] = NewJob(k, "generate") /\ \A q \in Proc \ {p} : job'[q] = Idle
    BY <1>4, <2>1, GotoEffect DEF BeginPatch
  <2> QED
    BY <1>a, <2>2, IdlePc DEF RunSafe, NewJob
<1>b. ASSUME \A q \in Proc : job'[q] = Idle PROVE RunSafe'
  BY <1>a, <1>b, IdlePc DEF RunSafe
<1>5. CASE ScriptAborts \/ Start
  <2>1. \A q \in Proc : job'[q] = Idle
    BY <1>5 DEF ScriptAborts, Start, Exclusive
  <2> QED
    BY <1>b, <2>1
<1>6. ASSUME NEW i, Reboot(i) PROVE RunSafe'
  BY <1>6, <1>b DEF Reboot
<1>7. CASE UNCHANGED vars \/ \E c : EditConfig(c)
  <2>1. UNCHANGED <<job, gens, phase, image, backend, out, mount>>
    BY <1>7 DEF vars, EditConfig
  <2>2. View' = View
    BY <2>1 DEF View
  <2>3. ASSUME NEW q \in Proc PROVE SafeJob(job[q])'
    <3>1. SafeJob(job[q])
      BY DEF RunSafe
    <3> QED
      BY <2>1, <2>2, <3>1 DEF SafeJob
  <2> QED
    BY <2>3 DEF RunSafe
<1> QED
  BY <1>1, <1>2, <1>3, <1>4, <1>5, <1>6, <1>7 DEF Next
-----------------------------------------------------------------------------
(* The theorems *)

\* The inductive invariant.
IInv ==
    /\ TypeOK
    /\ Exclusive
    /\ RunSafe
    /\ NoPatchInStock
    /\ OutputKnown
    /\ OwnGeneration

LEMMA InitIInv == Init => IInv
<1> SUFFICES ASSUME Init PROVE IInv
  OBVIOUS
<1>1. TypeOK
  BY InitType
<1>2. Exclusive /\ RunSafe
  BY IdlePc DEF Init, Exclusive, RunSafe, SafeJob
<1>3. CASE Fresh
  <2>1. Usable(gens) = {}
    BY <1>3 DEF Fresh, Usable, Nothing
  <2>2. OutputKnown
    BY <1>3 DEF Init, OutputKnown, Fresh, Recognised, Nothing
  <2> QED
    BY <1>1, <1>2, <2>1, <2>2 DEF IInv, NoPatchInStock, OwnGeneration
<1>4. CASE Legacy
  <2>1. PICK i \in Images, c \in Configs, q \in Presents :
            LET made == Output(Image[i], Plan(c, Image[i], q))
            IN  /\ DOMAIN made # {}
                /\ out = made
                /\ gens = Put(Nothing, STOCK,
                              [files |-> Image[i], outputs |-> {},
                               legacy |-> {made[OTHERS]}, sealed |-> FALSE])
    BY <1>4 DEF Legacy
  <2>2. /\ Usable(gens) = {STOCK}
        /\ gens[STOCK] = [files |-> Image[i], outputs |-> {},
                          legacy |-> {out[OTHERS]}, sealed |-> FALSE]
    BY <2>1 DEF Usable, Put, Nothing
  <2>3. OTHERS \in DOMAIN out
    BY <2>1 DEF Output
  <2>4. NoPatchInStock
    BY <2>2, PublishAssumption DEF NoPatchInStock, GoogleDir, GoogleFile
  <2>5. OwnGeneration
    BY <2>2 DEF OwnGeneration, Own
  <2>6. Matches(out, [n \in {OTHERS} |-> out[OTHERS]])
    BY <2>3 DEF Matches
  <2>7. Recognised(gens, out)
    BY <2>2, <2>6 DEF Recognised, Manifests
  <2>8. Recognised(gens, mount)
    BY DEF Init, Recognised, Nothing
  <2> QED
    BY <1>1, <1>2, <2>4, <2>5, <2>7, <2>8 DEF IInv, OutputKnown
<1> QED
  BY <1>3, <1>4 DEF Init

LEMMA NextIInv == IInv /\ [Next]_vars => IInv'
BY NextType, NextExclusive, NextSafe, NextStock, NextKnown, NextOwn DEF IInv

LEMMA Invariance == Spec => []IInv
BY InitIInv, NextIInv, PTL DEF Spec

\* Every variable keeps its kind of value.
THEOREM TypeCorrect == Spec => []TypeOK
<1>1. IInv => TypeOK
  BY DEF IInv
<1> QED
  BY <1>1, Invariance, PTL

\* The cache never holds the module's own work as Google's, on any phone, for
\* any builds, configurations, crashes, failures and manual runs.
THEOREM StockStaysGoogles == Spec => []NoPatchInStock
<1>1. IInv => NoPatchInStock
  BY DEF IInv
<1> QED
  BY <1>1, Invariance, PTL

\* No run ever reads the module's own work as if it were Google's.
THEOREM RunsReadGoogle == Spec => []ReadsGoogle
<1>1. IInv => ReadsGoogle
  BY SourceIsGoogle DEF IInv, ReadsGoogle
<1> QED
  BY <1>1, Invariance, PTL

\* What is installed or mounted is always recognised.
THEOREM OutputStaysKnown == Spec => []OutputKnown
<1>1. IInv => OutputKnown
  BY DEF IInv
<1> QED
  BY <1>1, Invariance, PTL

\* A manifest always lies with the stock files its output was made from.
THEOREM ManifestsLieWithTheirStock == Spec => []OwnGeneration
<1>1. IInv => OwnGeneration
  BY DEF IInv
<1> QED
  BY <1>1, Invariance, PTL

\* No step forgets which output came from which stock files.
THEOREM NothingForgotten == Spec => RegistrationsKept
<1>1. IInv /\ [Next]_vars => [Keeps(gens, gens')]_vars
  BY NextKeeps DEF IInv
<1> QED
  BY <1>1, Invariance, PTL DEF Spec, RegistrationsKept

\* Halfway through a run everything its next step relies on has been established.
THEOREM RunsStaySafe == Spec => []RunSafe
<1>1. IInv => RunSafe
  BY DEF IInv
<1> QED
  BY <1>1, Invariance, PTL

-----------------------------------------------------------------------------
(***************************************************************************)
(* Publish implements Provenance: whatever runs, fails, crashes and        *)
(* reboots there are, of every output on the phone it is known which files *)
(* of Google's it is one patch of.                                         *)
(***************************************************************************)

(* What a cache knows *)

LEMMA PairIn ==
    ASSUME NEW cache, NEW pair
    PROVE  pair \in Pairs(cache) <=>
             \E l \in Usable(cache) : \E m \in Manifests(cache[l]) :
                pair = [output |-> m, stock |-> cache[l].files]
BY DEF Pairs

\* What is known of a cache's outputs stays known where no registration is lost.
LEMMA KeepsPairs ==
    ASSUME NEW old, NEW new, Keeps(old, new)
    PROVE  Pairs(old) \subseteq Pairs(new)
<1> SUFFICES ASSUME NEW pair \in Pairs(old) PROVE pair \in Pairs(new)
  OBVIOUS
<1>1. PICK l \in Usable(old) : \E m \in Manifests(old[l]) :
         pair = [output |-> m, stock |-> old[l].files]
  BY PairIn
<1>2. PICK m \in Manifests(old[l]) : pair = [output |-> m, stock |-> old[l].files]
  BY <1>1
<1>3. PICK k \in Usable(new) : m \in Manifests(new[k]) /\ new[k].files = old[l].files
  BY DEF Keeps
<1>4. pair = [output |-> m, stock |-> new[k].files]
  BY <1>2, <1>3
<1> QED
  BY <1>3, <1>4, PairIn

\* Nothing new is known where every generation has its manifests from one with
\* the same files.
LEMMA NoNewPairs ==
    ASSUME NEW old, NEW new,
           \A k \in Usable(new) : \A m \in Manifests(new[k]) :
              \E l \in Usable(old) : m \in Manifests(old[l]) /\ old[l].files = new[k].files
    PROVE  Pairs(new) \subseteq Pairs(old)
<1>1. Keeps(new, old)
  BY DEF Keeps
<1> QED
  BY <1>1, KeepsPairs

\* A registration adds one pair.
LEMMA RememberPair ==
    ASSUME NEW cache, NEW l \in Usable(cache), IsGeneration(cache[l]), NEW m, DOMAIN m # {}
    PROVE  /\ m \in Manifests(Remember(cache, l, m)[l])
           /\ Pairs(Remember(cache, l, m)) =
                Pairs(cache) \cup {[output |-> m, stock |-> cache[l].files]}
<1> DEFINE new == Remember(cache, l, m)
           pair == [output |-> m, stock |-> cache[l].files]
<1>1. l \in DOMAIN cache
  BY DEF Usable
<1>2. /\ Usable(new) = Usable(cache)
      /\ \A k \in DOMAIN cache : new[k].files = cache[k].files
      /\ \A k \in DOMAIN cache \ {l} : new[k] = cache[k]
      /\ new[l].outputs = Manifests(cache[l]) \cup {m}
  BY <1>1, RememberEffect
<1>3. Keeps(cache, new)
  BY RememberKeeps
<1> HIDE DEF new
<1>4. Manifests(new[l]) = Manifests(cache[l]) \cup {m}
  BY <1>2 DEF Manifests
<1>5. \A k \in Usable(cache) \ {l} : new[k] = cache[k]
  BY <1>2 DEF Usable
<1>6. pair \in Pairs(new)
  <2>1. new[l].files = cache[l].files
    BY <1>1, <1>2
  <2>2. pair = [output |-> m, stock |-> new[l].files]
    BY <2>1
  <2> QED
    BY <1>2, <1>4, <2>2, PairIn
<1>7. ASSUME NEW other \in Pairs(new) PROVE other \in Pairs(cache) \cup {pair}
  <2>1. PICK k \in Usable(new) : \E x \in Manifests(new[k]) :
           other = [output |-> x, stock |-> new[k].files]
    BY PairIn
  <2>2. PICK x \in Manifests(new[k]) : other = [output |-> x, stock |-> new[k].files]
    BY <2>1
  <2>3. k \in Usable(cache) /\ new[k].files = cache[k].files
    BY <1>2 DEF Usable
  <2>4. x \in Manifests(cache[k]) \/ (k = l /\ x = m)
    BY <1>4, <1>5, <2>3
  <2>5. other = [output |-> x, stock |-> cache[k].files]
    BY <2>2, <2>3
  <2>6. CASE x \in Manifests(cache[k])
    BY <2>3, <2>5, <2>6, PairIn
  <2> QED
    BY <2>4, <2>5, <2>6
<1> HIDE DEF pair
<1>8. Pairs(new) = Pairs(cache) \cup {pair}
  BY <1>3, <1>6, <1>7, KeepsPairs
<1> QED
  BY <1>4, <1>8 DEF new, pair

\* Only a registration changes what is known: what is archived and replaced on
\* the way, and what a failed copy leaves, is the same knowledge or none.
LEMMA PairsStay ==
    ASSUME TypeOK, RunSafe, NEW p \in Proc,
           ArchiveStock(p) \/ SealArchive(p) \/ ReplaceStock(p) \/ Fail(p)
    PROVE  Pairs(gens') = Pairs(gens)
<1> DEFINE Old(k) == \A m \in Manifests(gens'[k]) :
                        \E l \in Usable(gens) : /\ m \in Manifests(gens[l])
                                                /\ gens[l].files = gens'[k].files
<1>1. Keeps(gens, gens')
  <2>1. RunStep(p)
    BY DEF RunStep
  <2> QED
    BY <2>1, NextKeeps DEF Next
<1>2. ASSUME NEW k \in Usable(gens'), k \in Usable(gens), gens'[k] = gens[k]
      PROVE  Old(k)
  BY <1>2
<1>3. ASSUME ArchiveStock(p), NEW k \in Usable(gens') PROVE Old(k)
  <2>1. PICK names : gens' = Put(gens, FreshArchive, PartialCopy(gens[STOCK], names))
    BY <1>3 DEF ArchiveStock
  <2>2. k # FreshArchive
    BY <1>3, <2>1, NewNames DEF Usable, Put, PartialCopy
  <2>3. k \in Usable(gens) /\ gens'[k] = gens[k]
    BY <1>3, <2>1, <2>2 DEF Usable, Put
  <2> QED
    BY <1>2, <2>3
<1>4. ASSUME SealArchive(p), NEW k \in Usable(gens') PROVE Old(k)
  <2>1. gens' = Put(gens, job[p].place, SealedCopy(gens[STOCK]))
    BY <1>4 DEF SealArchive
  <2>2. STOCK \in Usable(gens)
    BY <1>4 DEF SealArchive, Step, RunSafe, SafeJob, HasPrimary, Usable
  <2>3. CASE k = job[p].place
    <3>1. gens'[k] = SealedCopy(gens[STOCK])
      BY <2>1, <2>3 DEF Put
    <3>2. gens'[k].files = gens[STOCK].files /\ Manifests(gens'[k]) = Manifests(gens[STOCK])
      BY <3>1, SealedSame
    <3> QED
      BY <2>2, <3>2
  <2>4. CASE k # job[p].place
    <3>1. k \in Usable(gens) /\ gens'[k] = gens[k]
      BY <1>4, <2>1, <2>4 DEF Usable, Put
    <3> QED
      BY <1>2, <3>1
  <2> QED
    BY <2>3, <2>4
<1>5. ASSUME ReplaceStock(p), NEW k \in Usable(gens') PROVE Old(k)
  <2>1. gens' = Put(gens, STOCK, Snapshot(View))
    BY <1>5 DEF ReplaceStock
  <2>2. CASE k = STOCK
    BY <2>1, <2>2 DEF Put, Snapshot, Manifests
  <2>3. CASE k # STOCK
    <3>1. k \in Usable(gens) /\ gens'[k] = gens[k]
      BY <1>5, <2>1, <2>3 DEF Usable, Put
    <3> QED
      BY <1>2, <3>1
  <2> QED
    BY <2>2, <2>3
<1>6. ASSUME Fail(p), NEW k \in Usable(gens') PROVE Old(k)
  <2>1. k \in Usable(gens) /\ gens'[k] = gens[k]
    BY <1>6 DEF Fail, Only, Usable
  <2> QED
    BY <1>2, <2>1
<1>7. \A k \in Usable(gens') : Old(k)
  BY <1>3, <1>4, <1>5, <1>6
<1>8. Pairs(gens') \subseteq Pairs(gens)
  BY <1>7, NoNewPairs
<1> QED
  BY <1>1, <1>8, KeepsPairs
-----------------------------------------------------------------------------
(* What a run is about to install *)

Last == {"prepare", "clear", "exchange"}

\* Not only recognised: registered as it is, with its stock kept, unless it says
\* what Google says.
Exact(cache, d) == Unpatched(d) \/ \E l \in Usable(cache) : d \in Manifests(cache[l])
Sure(cache, d)  == Exact(cache, d) /\ StockKept(cache, d)

StagedIsSure == \A p \in Proc : job[p].pc \in Last => Sure(gens, job[p].stage)

LEMMA KeepsStock ==
    ASSUME NEW old, NEW new, Keeps(old, new), NEW d, StockKept(old, d)
    PROVE  StockKept(new, d)
BY DEF Keeps, StockKept

LEMMA KeepsSure ==
    ASSUME NEW old, NEW new, Keeps(old, new), NEW d, Sure(old, d)
    PROVE  Sure(new, d)
<1>1. Exact(new, d)
  BY DEF Keeps, Sure, Exact
<1> QED
  BY <1>1, KeepsStock DEF Sure

\* A run gets to its last steps from generate or by a registration.
LEMMA ToLast ==
    ASSUME TypeOK, [Next]_vars, NEW q \in Proc, job'[q].pc \in Last
    PROVE  \/ job[q].pc \in Last /\ job'[q].stage = job[q].stage
           \/ Generate(q)
           \/ RememberOutput(q) /\ job'[q].stage = job[q].stage
<1>1. ASSUME NEW p \in Proc, RunStep(p), p # q PROVE job'[q] = job[q]
  BY <1>1, StepEffect, GotoEffect
  DEF RunStep, WritePreparing, PreparingFails, Generate, SnapshotCurrent, SnapshotFirst,
      ArchiveStock, SealArchive, ReplaceStock, RememberOutput, Prepare, ClearPhoneCache,
      Exchange, WriteReport, Fail, RecordFailure, Kill, Exit
<1>2. IsJob(job[q])
  BY DEF TypeOK
<1>3. CASE WritePreparing(q) \/ SnapshotCurrent(q) \/ SnapshotFirst(q) \/ SealArchive(q)
           \/ ReplaceStock(q) \/ Exchange(q)
  BY <1>3, StepEffect DEF WritePreparing, SnapshotCurrent, SnapshotFirst, SealArchive,
     ReplaceStock, Exchange, Last
<1>4. CASE ArchiveStock(q) \/ Fail(q)
  <2>1. \/ job'[q] = [job[q] EXCEPT !.pc = "seal", !.place = FreshArchive]
        \/ job'[q] = [job[q] EXCEPT !.pc = "failing"]
        \/ job'[q] = Idle
    BY <1>4, GotoEffect DEF ArchiveStock, Fail, Exit
  <2>2. job'[q].pc \in {"seal", "failing", "idle"}
    BY <1>2, <2>1, IdlePc DEF IsJob
  <2> QED
    BY <2>2 DEF Last
<1>5. CASE PreparingFails(q) \/ WriteReport(q) \/ RecordFailure(q) \/ Kill(q)
  BY <1>5, GotoEffect, IdlePc DEF PreparingFails, WriteReport, RecordFailure, Kill, Exit, Last
<1>6. CASE RememberOutput(q)
  BY <1>6, StepEffect DEF RememberOutput
<1>7. CASE Prepare(q) \/ ClearPhoneCache(q)
  BY <1>7, StepEffect DEF Prepare, ClearPhoneCache, Last
<1>8. ASSUME RunStep(q), ~Generate(q)
      PROVE  \/ job[q].pc \in Last /\ job'[q].stage = job[q].stage
             \/ RememberOutput(q) /\ job'[q].stage = job[q].stage
  BY <1>3, <1>4, <1>5, <1>6, <1>7, <1>8 DEF RunStep
<1>9. ASSUME NEW p \in Proc,
             BeginApply(p) \/ \E k \in {"patch", "scratch"} : BeginPatch(p, k)
      PROVE  job'[q] = job[q]
  <2>1. PICK k \in Kinds, pc \in {"preparing", "generate"} : Goto(p, NewJob(k, pc))
    BY <1>9 DEF BeginApply, BeginPatch, Kinds
  <2>2. p # q
    BY <2>1, GotoEffect DEF NewJob, Last
  <2> QED
    BY <2>1, <2>2, GotoEffect
<1>10. CASE ScriptAborts \/ Start \/ UNCHANGED vars \/ \E c : EditConfig(c)
  <2>1. UNCHANGED job
    BY <1>10 DEF ScriptAborts, Start, vars, EditConfig
  <2> QED
    BY <2>1
<1>11. ASSUME NEW i, Reboot(i) PROVE FALSE
  BY <1>11, IdlePc DEF Reboot, Last
<1> QED
  BY <1>1, <1>8, <1>9, <1>10, <1>11 DEF Next

\* An output of generate that goes on without being registered says what Google's
\* files do.
LEMMA GenerateUnpatched ==
    ASSUME TypeOK, NoPatchInStock, OutputKnown, NEW p \in Proc, Generate(p), job'[p].pc \in Last
    PROVE  Unpatched(job'[p].stage)
<1>1. PICK src \in SourcesNow, present \in Presents :
          LET dir  == Read(src)
              plan == Plan(config, dir, present)
          IN  Goto(p, [pc |-> AfterGenerate(src, dir, plan), kind |-> job[p].kind,
                       src |-> src, place |-> STOCK, plan |-> plan,
                       stage |-> Output(dir, plan),
                       config |-> config, present |-> present])
  BY DEF Generate
<1> DEFINE dir  == Read(src)
           plan == Plan(config, dir, present)
<1>2. job'[p].pc = AfterGenerate(src, dir, plan) /\ job'[p].stage = Output(dir, plan)
  BY <1>1, GotoEffect
<1>3. GoogleDir(dir)
  BY SourceIsGoogle
<1> HIDE DEF dir, plan
<1>4. ~Changed(dir, plan)
  BY <1>2 DEF AfterGenerate, Changed, Output, Last
<1>5. Recognised(Nothing, Output(dir, plan))
  BY <1>3, <1>4, UnchangedIsGoogle
<1>6. Usable(Nothing) = {}
  BY DEF Usable, Nothing
<1> QED
  BY <1>2, <1>5, <1>6 DEF Recognised, Unpatched

LEMMA NextSure == IInv /\ StagedIsSure /\ [Next]_vars => StagedIsSure'
<1> SUFFICES ASSUME IInv, StagedIsSure, [Next]_vars, NEW q \in Proc, job'[q].pc \in Last
             PROVE  Sure(gens', job'[q].stage)
  BY DEF StagedIsSure
<1>1. Keeps(gens, gens')
  BY NextKeeps DEF IInv
<1>2. CASE job[q].pc \in Last /\ job'[q].stage = job[q].stage
  BY <1>1, <1>2, KeepsSure DEF StagedIsSure
<1>3. CASE Generate(q)
  BY <1>3, GenerateUnpatched DEF IInv, Sure, Exact, StockKept
<1>4. CASE RememberOutput(q) /\ job'[q].stage = job[q].stage
  <2> DEFINE m == job[q].stage
             home == IF job[q].src = LIVE THEN STOCK ELSE job[q].src
  <2>1. /\ home \in Usable(gens) /\ IsGeneration(gens[home]) /\ home \in DOMAIN gens
        /\ Made(job[q], gens[home].files)
        /\ gens' = Remember(gens, home, m)
    BY <1>4, RememberHome DEF IInv
  <2>2. MadeFrom(m, gens[home].files)
    BY <2>1 DEF Made, MadeFrom
  <2> HIDE DEF m, home
  <2>3. CASE DOMAIN m = {}
    BY <1>4, <2>3 DEF Sure, Exact, StockKept, Unpatched, m
  <2>4. CASE DOMAIN m # {}
    <3>1. /\ m \in Manifests(gens'[home]) /\ home \in Usable(gens')
          /\ gens'[home].files = gens[home].files
      BY <2>1, <2>4, RememberPair, RememberEffect
    <3>2. Sure(gens', m)
      BY <2>2, <3>1 DEF Sure, Exact, StockKept
    <3> QED
      BY <1>4, <3>2 DEF m
  <2> QED
    BY <2>3, <2>4
<1> QED
  BY <1>2, <1>3, <1>4, ToLast DEF IInv

LEMMA NextInputs == IInv /\ StagedIsSure /\ InputsKept /\ [Next]_vars => InputsKept'
<1> SUFFICES ASSUME IInv, StagedIsSure, InputsKept, [Next]_vars PROVE InputsKept'
  OBVIOUS
<1>1. Keeps(gens, gens')
  BY NextKeeps DEF IInv
<1>2. StockKept(gens, out) /\ StockKept(gens, mount) /\ StockKept(gens, Nothing)
  BY DEF InputsKept, StockKept, Unpatched, Nothing
<1>3. StockKept(gens, out') /\ StockKept(gens, mount')
  BY <1>2, InstalledOrigin DEF IInv, StagedIsSure, Sure, Last
<1>4. StockKept(gens', out') /\ StockKept(gens', mount')
  BY <1>1, <1>3, KeepsStock
<1> QED
  BY <1>4 DEF InputsKept

\* A phone that comes from format 1 has the stock of its output.
LEMMA InitInputs == Init => InputsKept /\ StagedIsSure
<1> SUFFICES ASSUME Init PROVE InputsKept /\ StagedIsSure
  OBVIOUS
<1>1. StagedIsSure /\ StockKept(gens, mount)
  BY IdlePc DEF Init, StagedIsSure, Last, StockKept, Unpatched, Nothing
<1>2. CASE Fresh
  BY <1>1, <1>2 DEF Fresh, InputsKept, StockKept, Unpatched, Nothing
<1>3. CASE Legacy
  <2>1. PICK i \in Images, c \in Configs, q \in Presents :
            LET made == Output(Image[i], Plan(c, Image[i], q))
            IN  /\ out = made
                /\ gens = Put(Nothing, STOCK,
                              [files |-> Image[i], outputs |-> {},
                               legacy |-> {made[OTHERS]}, sealed |-> FALSE])
    BY <1>3 DEF Legacy
  <2>2. /\ STOCK \in Usable(gens)
        /\ gens[STOCK] = [files |-> Image[i], outputs |-> {},
                          legacy |-> {out[OTHERS]}, sealed |-> FALSE]
    BY <2>1 DEF Usable, Put, Nothing
  <2>3. Manifests(gens[STOCK]) # {}
    <3>1. Manifests(gens[STOCK]) = {[n \in {OTHERS} |-> out[OTHERS]]}
      BY <2>2 DEF Manifests
    <3> QED
      BY <3>1
  <2>4. MadeFrom(out, gens[STOCK].files)
    BY <2>1, <2>2 DEF MadeFrom
  <2> QED
    BY <1>1, <2>2, <2>3, <2>4 DEF InputsKept, StockKept
<1> QED
  BY <1>2, <1>3 DEF Init

LEMMA SureInvariance == Spec => [](IInv /\ StagedIsSure /\ InputsKept)
<1>1. Init => IInv /\ StagedIsSure /\ InputsKept
  BY InitIInv, InitInputs
<1>2. IInv /\ StagedIsSure /\ InputsKept /\ [Next]_vars
        => IInv' /\ StagedIsSure' /\ InputsKept'
  BY NextIInv, NextSure, NextInputs
<1> QED
  BY <1>1, <1>2, PTL DEF Spec

\* Of what is installed or mounted, the stock files it was made from in one patch
\* are still in the cache, for every number of boots, updates, runs and crashes.
THEOREM StockOutlivesOutputs == Spec => []InputsKept
BY SureInvariance, PTL
-----------------------------------------------------------------------------
(* The refinement *)

LEMMA InitAbstract == Init => Abstract!Init
<1> SUFFICES ASSUME Init PROVE Abstract!Init
  OBVIOUS
<1>1. NoPatchInStock /\ OutputKnown
  BY InitIInv DEF IInv
<1>2. \A pair \in Pairs(gens) : GoogleDir(pair.stock)
  BY <1>1, PairIn DEF NoPatchInStock
<1>3. Unpatched(out) \/ \E pair \in Pairs(gens) : Matches(out, pair.output)
  <2>1. CASE Unpatched(out)
    BY <2>1
  <2>2. ASSUME NEW l \in Usable(gens), NEW m \in Manifests(gens[l]), Matches(out, m)
        PROVE  \E pair \in Pairs(gens) : Matches(out, pair.output)
    <3>1. [output |-> m, stock |-> gens[l].files] \in Pairs(gens)
      BY PairIn
    <3> QED
      BY <2>2, <3>1
  <2> QED
    BY <1>1, <2>1, <2>2 DEF OutputKnown, Recognised, Unpatched
<1>4. mount = Nothing
  BY DEF Init
<1> QED
  BY <1>2, <1>3, <1>4 DEF Abstract!Init

\* A registration is one of the abstract specification, if there is anything to
\* register.
LEMMA RememberAbstract ==
    ASSUME IInv, NEW p \in Proc, RememberOutput(p)
    PROVE  Abstract!Register \/ UNCHANGED Abstract!vars
<1> DEFINE m == job[p].stage
           home == IF job[p].src = LIVE THEN STOCK ELSE job[p].src
           pair == [output |-> m, stock |-> gens[home].files]
<1>1. /\ home \in Usable(gens) /\ IsGeneration(gens[home])
      /\ Made(job[p], gens[home].files)
      /\ gens' = Remember(gens, home, m)
  BY RememberHome DEF IInv
<1>2. UNCHANGED <<out, mount>>
  BY DEF RememberOutput
<1> HIDE DEF home
<1>3. GoogleDir(gens[home].files)
  BY <1>1 DEF IInv, NoPatchInStock
<1>4. MadeFrom(m, gens[home].files)
  BY <1>1 DEF Made, MadeFrom
<1>5. pair.output = m /\ pair.stock = gens[home].files
  OBVIOUS
<1> HIDE DEF m
<1>6. CASE DOMAIN m = {}
  <2>1. gens' = gens
    BY <1>1, <1>6 DEF Remember
  <2> QED
    BY <1>2, <2>1 DEF Abstract!vars
<1>7. CASE DOMAIN m # {}
  <2>1. Pairs(gens') = Pairs(gens) \cup {pair}
    BY <1>1, <1>7, RememberPair
  <2> HIDE DEF pair
  <2>2. Pairs(gens)' = Pairs(gens')
    BY DEF Pairs
  <2> QED
    BY <1>2, <1>3, <1>4, <1>5, <2>1, <2>2 DEF Abstract!Register
<1> QED
  BY <1>6, <1>7

\* Every step is one of the abstract specification, or changes nothing there.
LEMMA StepAbstract ==
    IInv /\ StagedIsSure /\ [Next]_vars => [Abstract!Next]_(Abstract!vars)
<1> SUFFICES ASSUME IInv, StagedIsSure, [Next]_vars
             PROVE  Abstract!Next \/ UNCHANGED Abstract!vars
  OBVIOUS
<1>0. Pairs(gens)' = Pairs(gens')
  BY DEF Pairs
<1>a. ASSUME UNCHANGED <<gens, out, mount>> PROVE UNCHANGED Abstract!vars
  BY <1>a DEF Abstract!vars
<1>1. ASSUME NEW p \in Proc, RememberOutput(p)
      PROVE  Abstract!Next \/ UNCHANGED Abstract!vars
  BY <1>1, RememberAbstract DEF Abstract!Next
<1>2. ASSUME NEW p \in Proc,
             ArchiveStock(p) \/ SealArchive(p) \/ ReplaceStock(p) \/ Fail(p)
      PROVE  UNCHANGED Abstract!vars
  <2>1. Pairs(gens') = Pairs(gens)
    BY <1>2, PairsStay DEF IInv
  <2>2. UNCHANGED <<out, mount>>
    BY <1>2 DEF ArchiveStock, SealArchive, ReplaceStock, Fail
  <2> QED
    BY <1>0, <2>1, <2>2 DEF Abstract!vars
<1>3. ASSUME NEW p \in Proc, Exchange(p)
      PROVE  Abstract!Next \/ UNCHANGED Abstract!vars
  <2>1. UNCHANGED <<gens, mount>>
    BY <1>3 DEF Exchange
  <2>2. CASE out' = out
    BY <1>a, <2>1, <2>2
  <2>3. CASE out' = job[p].stage
    <3>1. Exact(gens, job[p].stage)
      BY <1>3 DEF Exchange, Step, StagedIsSure, Sure, Last
    <3>2. CASE Unpatched(out')
      BY <2>1, <3>2 DEF Abstract!Install, Abstract!Next, Pairs
    <3>3. ASSUME NEW l \in Usable(gens), out' \in Manifests(gens[l])
          PROVE  Abstract!Next
      <4> DEFINE pair == [output |-> out', stock |-> gens[l].files]
      <4>1. pair \in Pairs(gens) /\ out' = pair.output
        BY <3>3, PairIn
      <4> HIDE DEF pair
      <4>2. \E known \in Pairs(gens) : out' = known.output
        BY <4>1
      <4>3. Pairs(gens)' = Pairs(gens)
        BY <1>0, <2>1
      <4> QED
        BY <2>1, <4>2, <4>3 DEF Abstract!Install, Abstract!Next
    <3> QED
      BY <2>3, <3>1, <3>2, <3>3 DEF Exact
  <2> QED
    BY <1>3, <2>2, <2>3 DEF Exchange
<1>4. ASSUME NEW p \in Proc, RunStep(p)
      PROVE  Abstract!Next \/ UNCHANGED Abstract!vars
  <2>1. CASE \/ WritePreparing(p) \/ PreparingFails(p) \/ Generate(p)
             \/ SnapshotCurrent(p) \/ SnapshotFirst(p) \/ Prepare(p)
             \/ ClearPhoneCache(p) \/ WriteReport(p) \/ RecordFailure(p) \/ Kill(p)
    <3>1. UNCHANGED <<gens, out, mount>>
      BY <2>1 DEF WritePreparing, PreparingFails, Generate, SnapshotCurrent, SnapshotFirst,
         Prepare, ClearPhoneCache, WriteReport, RecordFailure, Kill
    <3> QED
      BY <1>a, <3>1
  <2> QED
    BY <1>1, <1>2, <1>3, <1>4, <2>1 DEF RunStep
<1>5. CASE \/ \E p \in Proc : BeginApply(p) \/ \E k \in {"patch", "scratch"} : BeginPatch(p, k)
           \/ ScriptAborts \/ UNCHANGED vars
           \/ \E c \in Configs \cup {BadConfig} : EditConfig(c)
  <2>1. UNCHANGED <<gens, out, mount>>
    BY <1>5 DEF BeginApply, BeginPatch, ScriptAborts, vars, EditConfig
  <2> QED
    BY <1>a, <2>1
<1>6. CASE Start
  BY <1>0, <1>6 DEF Start, Abstract!Mount, Abstract!Next
<1>7. ASSUME NEW i \in Images, Reboot(i) PROVE Abstract!Next
  BY <1>0, <1>7 DEF Reboot, Abstract!Unmount, Abstract!Next
<1> QED
  BY <1>4, <1>5, <1>6, <1>7 DEF Next

\* Publication keeps what Provenance promises: over any number of boots, builds,
\* runs, failures and crashes, what is installed is Google's, or one patch of
\* files of Google's that it is known to be made from.
THEOREM OutputsAreAccountedFor == Spec => IsAccountedFor
<1>1. IInv /\ StagedIsSure /\ [Next]_vars => [Abstract!Next]_(Abstract!vars)
  BY StepAbstract
<1> QED
  BY <1>1, InitAbstract, SureInvariance, PTL DEF Spec, IsAccountedFor, Abstract!Spec
=============================================================================
