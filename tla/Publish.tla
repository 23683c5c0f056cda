------------------------------- MODULE Publish -------------------------------
(***************************************************************************)
(* How a patch is generated, registered in the stock cache and published,  *)
(* boot after boot (native/src/publish.rs, native/src/main.rs, cache.rs,   *)
(* module/post-fs-data.sh).                                                *)
(*                                                                         *)
(* A phone boots an image (an OS update changes it), the root manager runs *)
(* post-fs-data.sh, which runs `imsforge apply` before anything is mounted *)
(* over /product; then the mount backend lays the module's output over     *)
(* /product and telephony starts.  Later, people run `imsforge patch` by   *)
(* hand, two at a time if they like, and edit carriers.json.  The phone    *)
(* can lose power between any two steps, a process can be killed, and any  *)
(* step of a run can fail.                                                 *)
(***************************************************************************)
EXTENDS StockCache

CONSTANTS
    LIVE,       \* the source of a run that reads /product itself
    Image,      \* the CarrierSettings directories Google ships, by build
    Configs,    \* the valid contents of carriers.json considered
    Presents,   \* the possible answers of detect::identify
    Upgrades,   \* are phones considered that come from a version before format 2?
    Backends,   \* the mount backends considered, among "bind" and "redirect"
    Proc,       \* processes
    MaxBoots,   \* bound: boots explored
    MaxRuns     \* bound: manual runs explored

Images == DOMAIN Image

\* Google's files: others.pb is always there, a standalone file holds its own
\* carrier and nothing else (volte_enabled refuses a file that does not).
ASSUME PublishAssumption ==
    /\ \A i \in Images :
          /\ IsDir(Image[i])
          /\ OTHERS \in DOMAIN Image[i]
          /\ \A c \in DOMAIN Image[i] \ {OTHERS} : DOMAIN Image[i][c].set = {c}
    /\ LIVE \notin Place
    /\ Configs \subseteq Config
    /\ BadConfig \notin Configs
    /\ Presents \subseteq SUBSET Carrier
    /\ Upgrades \in BOOLEAN
    /\ Backends \subseteq {"bind", "redirect"}
    /\ MaxBoots \in Nat /\ MaxRuns \in Nat

VARIABLES
    image,      \* the build on the phone
    boot,       \* the boot we are in (the kernel's boot_id)
    phase,      \* "postfs": before the mount; "ready": the script has ended; "up"
    backend,    \* "bind" mounts the files of the moment, "redirect" follows the path
    mount,      \* the output as it was when the backend mounted it
    config,     \* carriers.json
    gens,       \* the stock cache: generations by place
    out,        \* the module's output directory
    status,     \* status.json
    phoneCache, \* the carrier configuration telephony has cached (Nothing: none)
    lock,       \* holders of stock.lock
    job,        \* the run each process is in
    runs        \* manual runs begun

vars == <<image, boot, phase, backend, mount, config, gens, out, status,
          phoneCache, lock, job, runs>>

\* A run of a kind, at a step, before it has read anything: where it is, what it
\* reads from, the archive it makes, its plan, what it has staged, and the
\* configuration and carriers it found.
NewJob(kind, pc) ==
    [pc |-> pc, kind |-> kind, src |-> LIVE, place |-> STOCK,
     plan |-> Nothing, stage |-> Nothing, config |-> BadConfig, present |-> {}]

\* The job of a process that runs nothing.
Idle == NewJob("none", "idle")

Kinds == {"apply", "patch", "scratch"}
Working == {"generate", "refresh", "seal", "swap", "remember",
            "prepare", "clear", "exchange", "report"}
Pcs == Working \cup {"idle", "preparing", "failing"}

\* What a reader of /product/etc/CarrierSettings sees.
View ==
    IF phase # "up" THEN Image[image]
    ELSE Over(IF backend = "redirect" THEN out ELSE mount, Image[image])

NoReport == [boot |-> 0, phase |-> "none", config |-> BadConfig, present |-> {},
             plan |-> Nothing, files |-> Nothing]
\* Status::new for this boot, with a phase and nothing else.
Report(ph) == [NoReport EXCEPT !.boot = boot, !.phase = ph]

\* A fresh installation, or one of a version before format 2: its output from
\* some build, the stock of that build, and others.pb's fingerprint.
Fresh == gens = Nothing /\ out = Nothing
Legacy ==
    \E i \in Images, c \in Configs, p \in Presents :
        LET made == Output(Image[i], Plan(c, Image[i], p))
        IN  /\ DOMAIN made # {}
            /\ out = made
            /\ gens = Put(Nothing, STOCK, [files |-> Image[i], outputs |-> {},
                                          legacy |-> {made[OTHERS]}, sealed |-> FALSE])

Init ==
    /\ image \in Images
    /\ boot = 1
    /\ phase = "postfs"
    /\ backend \in Backends
    /\ mount = Nothing
    /\ config \in Configs
    /\ Fresh \/ (Upgrades /\ Legacy)
    /\ status = NoReport
    /\ phoneCache = Nothing
    /\ lock = {}
    /\ job = [p \in Proc |-> Idle]
    /\ runs = 0
-----------------------------------------------------------------------------
\* A step of p's run: from pc `at' to the job `j'.
Goto(p, j) == job' = [job EXCEPT ![p] = j]
Step(p, at, next) == job[p].pc = at /\ Goto(p, [job[p] EXCEPT !.pc = next])

\* A fault: the lock is a file that stays when its process ends.
ExitKeepsLock(p) ==
    /\ Goto(p, Idle)
    /\ UNCHANGED lock
    /\ phase' = IF job[p].kind = "apply" THEN "ready" ELSE phase

\* The end of p's run: the process exits, the kernel drops its lock, and the
\* script that waited for apply ends.
Exit(p) ==
    /\ Goto(p, Idle)
    /\ lock' = lock \ {p}
    /\ phase' = IF job[p].kind = "apply" THEN "ready" ELSE phase

\* post-fs-data.sh runs apply, which takes the lock.
BeginApply(p) ==
    /\ phase = "postfs"
    /\ \A q \in Proc : job[q] = Idle
    /\ lock = {}
    /\ lock' = {p}
    /\ Goto(p, NewJob("apply", "preparing"))
    /\ UNCHANGED <<image, boot, phase, backend, mount, config, gens, out, status,
                   phoneCache, runs>>

\* The script gives up before apply has done anything (its own early exits,
\* an argument check of run, the lock file).
ScriptAborts ==
    /\ phase = "postfs"
    /\ \A q \in Proc : job[q] = Idle
    /\ phase' = "ready"
    /\ UNCHANGED <<image, boot, backend, mount, config, gens, out, status,
                   phoneCache, lock, job, runs>>

\* A fault: the run does not mind who holds the lock.
BeginPatchUnlocked(p, kind) ==
    /\ phase = "up"
    /\ runs < MaxRuns
    /\ job[p] = Idle
    /\ lock' = lock \cup {p}
    /\ runs' = runs + 1
    /\ Goto(p, NewJob(kind, "generate"))
    /\ UNCHANGED <<image, boot, phase, backend, mount, config, gens, out, status,
                   phoneCache>>

\* `imsforge patch' into the module's directory or into another one.  A run
\* that finds the lock taken ends there, without a change.
BeginPatch(p, kind) ==
    /\ phase = "up"
    /\ runs < MaxRuns
    /\ job[p] = Idle
    /\ lock = {}
    /\ lock' = {p}
    /\ runs' = runs + 1
    /\ Goto(p, NewJob(kind, "generate"))
    /\ UNCHANGED <<image, boot, phase, backend, mount, config, gens, out, status,
                   phoneCache>>

\* The record that this boot has begun to prepare.
WritePreparing(p) ==
    /\ Step(p, "preparing", "generate")
    /\ status' = Report("preparing")
    /\ UNCHANGED <<image, boot, phase, backend, mount, config, gens, out,
                   phoneCache, lock, runs>>

\* If that record cannot be written, run returns at once.
PreparingFails(p) ==
    /\ job[p].pc = "preparing"
    /\ Exit(p)
    /\ UNCHANGED <<image, boot, backend, mount, config, gens, out, status,
                   phoneCache, runs>>
-----------------------------------------------------------------------------
(* generate *)

\* The directory at a source: what /product shows, or a generation.
Read(src) == IF src = LIVE THEN View ELSE gens[src].files
SourcesNow == IF Sources(gens, View) = {} THEN {LIVE} ELSE Sources(gens, View)

\* A fault: only a run that read /product registers its output.
AfterGenerateLive(src, dir, plan) ==
    IF DOMAIN plan = {} \/ src # LIVE \/ ~Changed(dir, plan) THEN "prepare" ELSE "refresh"

\* What comes after the files were written: a run that read /product and
\* changed something refreshes the cache, one that read the cache registers
\* its output, and one that changed nothing, or had nothing to patch, neither.
AfterGenerate(src, dir, plan) ==
    IF DOMAIN plan = {} \/ (src = LIVE /\ ~Changed(dir, plan)) THEN "prepare"
    ELSE IF src = LIVE THEN "refresh" ELSE "remember"

\* carriers.json is read, the source is chosen, the carriers are identified,
\* and the patched files are written to the staging directory.
Generate(p) ==
    /\ job[p].pc = "generate"
    /\ config # BadConfig
    /\ \E src \in SourcesNow, present \in Presents :
          LET dir  == Read(src)
              plan == Plan(config, dir, present)
          IN  Goto(p, [pc |-> AfterGenerate(src, dir, plan), kind |-> job[p].kind,
                       src |-> src, place |-> STOCK, plan |-> plan,
                       stage |-> Output(dir, plan),
                       config |-> config, present |-> present])
    /\ UNCHANGED <<image, boot, phase, backend, mount, config, gens, out, status,
                   phoneCache, lock, runs>>

\* refresh, when the primary already holds the files /product shows.
SnapshotCurrent(p) ==
    /\ UpToDate(gens, View)
    /\ Step(p, "refresh", "remember")
    /\ UNCHANGED <<image, boot, phase, backend, mount, config, gens, out, status,
                   phoneCache, lock, runs>>

\* A fault: a primary that is there is not kept.
SnapshotAnyway(p) ==
    /\ ~UpToDate(gens, View)
    /\ Step(p, "refresh", "swap")
    /\ UNCHANGED <<image, boot, phase, backend, mount, config, gens, out, status,
                   phoneCache, lock, runs>>

\* refresh, when there is no primary to keep.
SnapshotFirst(p) ==
    /\ ~HasPrimary(gens)
    /\ Step(p, "refresh", "swap")
    /\ UNCHANGED <<image, boot, phase, backend, mount, config, gens, out, status,
                   phoneCache, lock, runs>>

\* temp_for: a name no directory has yet.
FreshArchive == CHOOSE l \in Archive : l \notin DOMAIN gens

\* refresh, when the primary has to be kept: the copy under a new name begins.
ArchiveStock(p) ==
    /\ HasPrimary(gens)
    /\ ~UpToDate(gens, View)
    /\ job[p].pc = "refresh"
    /\ Archive \ DOMAIN gens # {}
    /\ \E names \in SUBSET DOMAIN gens[STOCK].files :
          gens' = Put(gens, FreshArchive, PartialCopy(gens[STOCK], names))
    /\ Goto(p, [job[p] EXCEPT !.pc = "seal", !.place = FreshArchive])
    /\ UNCHANGED <<image, boot, phase, backend, mount, config, out, status,
                   phoneCache, lock, runs>>

\* A fault: the older archives make room for the new one.
SealAndPrune(p) ==
    /\ Step(p, "seal", "swap")
    /\ gens' = Put(Only(gens, {STOCK}), job[p].place, SealedCopy(gens[STOCK]))
    /\ UNCHANGED <<image, boot, phase, backend, mount, config, out, status,
                   phoneCache, lock, runs>>

\* The copy is complete and .complete is written.
SealArchive(p) ==
    /\ Step(p, "seal", "swap")
    /\ gens' = Put(gens, job[p].place, SealedCopy(gens[STOCK]))
    /\ UNCHANGED <<image, boot, phase, backend, mount, config, out, status,
                   phoneCache, lock, runs>>

\* The new snapshot, read from /product again, is exchanged for the primary.
ReplaceStock(p) ==
    /\ Step(p, "swap", "remember")
    /\ gens' = Put(gens, STOCK, Snapshot(View))
    /\ UNCHANGED <<image, boot, phase, backend, mount, config, out, status,
                   phoneCache, lock, runs>>

\* A fault: the output is registered with the primary whatever was read.
RememberWithPrimary(p) ==
    /\ Step(p, "remember", "prepare")
    /\ gens' = Remember(gens, STOCK, job[p].stage)
    /\ UNCHANGED <<image, boot, phase, backend, mount, config, out, status,
                   phoneCache, lock, runs>>

\* remember_output, against the generation the run has read.
RememberOutput(p) ==
    /\ Step(p, "remember", "prepare")
    /\ gens' = Remember(gens, IF job[p].src = LIVE THEN STOCK ELSE job[p].src,
                        job[p].stage)
    /\ UNCHANGED <<image, boot, phase, backend, mount, config, out, status,
                   phoneCache, lock, runs>>
-----------------------------------------------------------------------------
(* the rest of run *)

\* apply labels the staged files; patch prepares nothing.
Prepare(p) ==
    /\ Step(p, "prepare", IF job[p].kind = "apply" THEN "clear" ELSE "exchange")
    /\ UNCHANGED <<image, boot, phase, backend, mount, config, gens, out, status,
                   phoneCache, lock, runs>>

\* A fault: telephony keeps what it has cached.
KeepPhoneCache(p) ==
    /\ Step(p, "clear", "exchange")
    /\ UNCHANGED <<image, boot, phase, backend, mount, config, gens, out, status,
                   phoneCache, lock, runs>>

\* apply deletes the configuration telephony has cached.
ClearPhoneCache(p) ==
    /\ Step(p, "clear", "exchange")
    /\ phoneCache' = Nothing
    /\ UNCHANGED <<image, boot, phase, backend, mount, config, gens, out, status,
                   lock, runs>>

\* A fault: files are replaced one by one, and those of an older build stay.
ExchangeFiles(p) ==
    /\ Step(p, "exchange", "report")
    /\ out' = IF job[p].kind = "scratch" THEN out ELSE Over(job[p].stage, out)
    /\ UNCHANGED <<image, boot, phase, backend, mount, config, gens, status,
                   phoneCache, lock, runs>>

\* The staging directory is exchanged for the destination, and the old
\* destination is removed.
Exchange(p) ==
    /\ Step(p, "exchange", "report")
    /\ out' = IF job[p].kind = "scratch" THEN out ELSE job[p].stage
    /\ UNCHANGED <<image, boot, phase, backend, mount, config, gens, status,
                   phoneCache, lock, runs>>

\* The run's report.  The one of a manual run is in its output directory and
\* came with it.
WriteReport(p) ==
    /\ job[p].pc = "report"
    /\ status' = IF job[p].kind # "apply" THEN status
                 ELSE [boot |-> boot, phase |-> "applied", config |-> job[p].config,
                       present |-> job[p].present, plan |-> job[p].plan,
                       files |-> job[p].stage]
    /\ Exit(p)
    /\ UNCHANGED <<image, boot, backend, mount, config, gens, out, phoneCache, runs>>

\* Any step of the run fails: what was staged is removed, and so is an archive
\* that was being copied.  (A write that lands and then reports an error, as
\* when the directory cannot be synced, is its step and then this one.)
Fail(p) ==
    /\ job[p].pc \in Working
    /\ gens' = IF job[p].pc = "seal" THEN Only(gens, DOMAIN gens \ {job[p].place}) ELSE gens
    /\ IF job[p].kind = "apply"
       THEN /\ Goto(p, [job[p] EXCEPT !.pc = "failing"])
            /\ UNCHANGED <<lock, phase>>
       ELSE Exit(p)
    /\ UNCHANGED <<image, boot, backend, mount, config, out, status, phoneCache, runs>>

\* A fault: apply starts again when it cannot record that it failed.
RecordFailureOrRetry(p) ==
    /\ job[p].pc = "failing"
    /\ \/ /\ status' = Report("failed")
          /\ Exit(p)
       \/ /\ Goto(p, NewJob("apply", "preparing"))
          /\ UNCHANGED <<status, lock, phase>>
    /\ UNCHANGED <<image, boot, backend, mount, config, gens, out, phoneCache, runs>>

\* apply records that it failed, or cannot.
RecordFailure(p) ==
    /\ job[p].pc = "failing"
    /\ status' \in {status, Report("failed")}
    /\ Exit(p)
    /\ UNCHANGED <<image, boot, backend, mount, config, gens, out, phoneCache, runs>>
-----------------------------------------------------------------------------
(* the world around *)

\* A process dies; what it had staged, or half archived, stays behind.
Kill(p) ==
    /\ job[p].pc # "idle"
    /\ Exit(p)
    /\ UNCHANGED <<image, boot, backend, mount, config, gens, out, status, phoneCache, runs>>

\* The backend mounts what the module holds, and telephony starts: it uses the
\* configuration it has cached, or builds it from the files it sees.
Start ==
    /\ phase = "ready"
    /\ phase' = "up"
    /\ mount' = out
    /\ phoneCache' = IF phoneCache = Nothing THEN Over(out, Image[image]) ELSE phoneCache
    /\ UNCHANGED <<image, boot, backend, config, gens, out, status, lock, job, runs>>

\* The user writes carriers.json, by hand or in the WebUI.
EditConfig(c) ==
    /\ phase = "up"
    /\ config # c
    /\ config' = c
    /\ UNCHANGED <<image, boot, phase, backend, mount, gens, out, status, phoneCache,
                   lock, job, runs>>

\* A reboot, a power loss or an OS update, at any moment.  An update may bring
\* a new carrier configuration app, whose arrival drops telephony's cache.
Reboot(i) ==
    /\ boot < MaxBoots
    /\ boot' = boot + 1
    /\ image' = i
    /\ phase' = "postfs"
    /\ mount' = Nothing
    /\ phoneCache' \in {phoneCache, IF i = image THEN phoneCache ELSE Nothing}
    /\ lock' = {}
    /\ job' = [p \in Proc |-> Idle]
    /\ UNCHANGED <<backend, config, gens, out, status, runs>>

RunStep(p) ==
    \/ WritePreparing(p) \/ PreparingFails(p)
    \/ Generate(p)
    \/ SnapshotCurrent(p) \/ SnapshotFirst(p) \/ ArchiveStock(p) \/ SealArchive(p)
    \/ ReplaceStock(p) \/ RememberOutput(p)
    \/ Prepare(p) \/ ClearPhoneCache(p) \/ Exchange(p) \/ WriteReport(p)
    \/ Fail(p) \/ RecordFailure(p) \/ Kill(p)

Next ==
    \/ \E p \in Proc :
          \/ BeginApply(p)
          \/ \E kind \in {"patch", "scratch"} : BeginPatch(p, kind)
          \/ RunStep(p)
    \/ ScriptAborts
    \/ Start
    \/ \E c \in Configs \cup {BadConfig} : EditConfig(c)
    \/ \E i \in Images : Reboot(i)

Spec == Init /\ [][Next]_vars

\* A process that can take a step is scheduled, the root manager runs the script,
\* and the system goes on when it has ended.  Which steps succeed is open.
Fairness ==
    /\ \A p \in Proc : WF_vars(RunStep(p))
    /\ WF_vars(ScriptAborts \/ \E p \in Proc : BeginApply(p))
    /\ WF_vars(Start)

FairSpec == Spec /\ Fairness
-----------------------------------------------------------------------------
(* What the cache and the publication promise *)

IsJob(j) ==
    /\ j = [pc |-> j.pc, kind |-> j.kind, src |-> j.src, place |-> j.place, plan |-> j.plan,
            stage |-> j.stage, config |-> j.config, present |-> j.present]
    /\ j.pc \in Pcs
    /\ j.kind \in Kinds \cup {"none"}
    /\ j.src \in Place \cup {LIVE}
    /\ j.place \in Place
    /\ IsDir(j.stage)

\* Every variable keeps its kind of value.
TypeOK ==
    /\ image \in Images
    /\ boot \in 1..MaxBoots \cup {1}
    /\ phase \in {"postfs", "ready", "up"}
    /\ backend \in Backends
    /\ IsDir(mount) /\ IsDir(out) /\ IsDir(phoneCache)
    /\ config \in Configs \cup {BadConfig}
    /\ DOMAIN gens \subseteq Place
    /\ \A l \in DOMAIN gens : IsGeneration(gens[l])
    /\ lock \subseteq Proc
    /\ runs \in 0..MaxRuns
    /\ job = [p \in Proc |-> job[p]]
    /\ \A p \in Proc : IsJob(job[p])

\* Google ships these settings in the file of this name, in some build.
GoogleFile(n, f) == \E i \in Images : n \in DOMAIN Image[i] /\ Image[i][n].set = f.set
GoogleDir(d) == OTHERS \in DOMAIN d /\ \A n \in DOMAIN d : GoogleFile(n, d[n])

\* A directory of ours that a later run cannot take for Google's and be wrong:
\* a generation answers to it, or its settings are Google's anyway.
Recognised(cache, d) ==
    \/ \A n \in DOMAIN d : GoogleFile(n, d[n])
    \/ \E l \in Usable(cache) : \E m \in Manifests(cache[l]) : Matches(d, m)

\* The cache never holds our own work as Google's: whatever runs, in whatever
\* order, and wherever it is interrupted, every setting in every generation a
\* run may read from is one Google ships in that file (main.rs, generate:
\* caching our output "would poison the cache").
NoPatchInStock == \A l \in Usable(gens) : GoogleDir(gens[l].files)

\* The promise of effective_src: every source a run could pick right now holds
\* Google's settings only, so the certification guard and the patch never see
\* our own work, across reboots, updates, failed and killed runs.
ReadsGoogle ==
    \A p \in Proc : job[p].pc = "generate" =>
        \A src \in SourcesNow : GoogleDir(Read(src))

\* An output that is installed, or still mounted while another one is already
\* installed, is recognised by the cache ("producing a new output does not
\* forget the previous one").
OutputKnown == Recognised(gens, out) /\ Recognised(gens, mount)

\* Every registered manifest was made from the very files of the generation it
\* is registered with, with some configuration ("register each generated result
\* against the current stock generation").
Own(g) ==
    \A m \in g.outputs :
        \/ \E c \in Configs, present \in Presents :
              m = Output(g.files, Plan(c, g.files, present))
        \/ \E f \in g.legacy : m = [n \in {OTHERS} |-> f]
OwnGeneration == \A l \in Usable(gens) : Own(gens[l])

\* "An output must always resolve to its own stock generation": what a run
\* reads while a registered output is mounted are the files it was made from.
OwnSource ==
    LET homes == {l \in Usable(gens) : mount \in Manifests(gens[l])}
    IN  phase = "up" /\ backend = "bind" /\ homes # {} =>
          \A l \in Sources(gens, View) : \E h \in homes : gens[l].files = gens[h].files

\* No step forgets which output came from which stock files: a refresh keeps
\* the generation it replaces, a run never drops what another registered.
Keeps(old, new) ==
    \A l \in Usable(old) : \A m \in Manifests(old[l]) :
        \E k \in Usable(new) : m \in Manifests(new[k]) /\ new[k].files = old[l].files
RegistrationsKept == [][Keeps(gens, gens')]_vars

\* The report that this boot was applied is true of what telephony uses: each
\* carrier the plan for this very build names has its patched settings, every
\* other carrier has the settings this build ships, whatever earlier boots,
\* builds and failures left in the output and in telephony's cache.
TelephonyReadsPatch ==
    phase = "up" /\ status.boot = boot /\ status.phase = "applied" =>
        LET stock == Image[image]
            want  == Plan(status.config, stock, status.present)
        IN  \A c \in Carrier : Known(stock, c) =>
              SettingsOf(phoneCache, c) =
                IF c \in DOMAIN want THEN PatchSettings(SettingsOf(stock, c), want[c])
                                     ELSE SettingsOf(stock, c)

\* Google's own files are never taken for an output of ours: no generation claims
\* what the build itself ships ("a new OS build must be read, not the cache").
StockIsNotOurs == \A l \in Usable(gens) : ~Ours(Image[image], gens[l])

\* What the status command finds: the files a report lists are seen (matches_run),
\* and whose they are (product).
MatchesRun == Matches(View, status.files)

\* What the page is told of an applied boot agrees with what is mounted: the
\* reported files are what is seen, and the cache knows them as ours unless they
\* say what Google's do; and an empty run does not show old files as ours
\* (status.rs, and cmd_status of main.rs).
StatusTells ==
    phase = "up" /\ backend = "bind" /\ status.boot = boot /\ status.phase = "applied" =>
        IF DOMAIN status.files = {} THEN Product(gens, View) # "ours"
        ELSE /\ MatchesRun
             /\ \/ Product(gens, View) = "ours"
                \/ \A n \in DOMAIN status.files : GoogleFile(n, status.files[n])

\* The boot script never keeps the phone from starting, whatever apply meets.
BootGoesOn == phase = "postfs" ~> phase = "up"

\* Nobody keeps the lock for ever: a later run is not turned away for good.
LockIsLetGo == lock # {} ~> lock = {}

\* A run in progress has the lock to itself, apply before the mount and a manual
\* run after it.
Exclusive ==
    \A p \in Proc : job[p] # Idle =>
        lock = {p} /\ phase = IF job[p].kind = "apply" THEN "postfs" ELSE "up"

\* The staged output is what this run's configuration makes of a directory.
Made(j, dir) ==
    /\ j.config \in Configs /\ j.present \in Presents
    /\ j.stage = Output(dir, Plan(j.config, dir, j.present))

\* A generation other than the primary holds all the primary holds.
Archived(cache) ==
    \E l \in Usable(cache) \ {STOCK} :
        /\ cache[l].files = cache[STOCK].files
        /\ Manifests(cache[l]) = Manifests(cache[STOCK])

\* What is true halfway through a run: which files its output was made from,
\* and what has been saved before the primary is replaced.
SafeJob(j) ==
    /\ j.pc \in {"refresh", "seal", "swap"} =>
          j.src = LIVE /\ GoogleDir(View) /\ Made(j, View)
    /\ j.pc = "seal" =>
          /\ j.place \in DOMAIN gens \ {STOCK}
          /\ ~gens[j.place].sealed
          /\ HasPrimary(gens)
    /\ j.pc = "swap" /\ STOCK \in DOMAIN gens => Archived(gens)
    /\ j.pc = "remember" =>
          LET home == IF j.src = LIVE THEN STOCK ELSE j.src
          IN  home \in Usable(gens) /\ Made(j, gens[home].files)
    /\ j.pc \in {"prepare", "clear", "exchange"} => Recognised(gens, j.stage)
RunSafe == \A p \in Proc : SafeJob(job[p])

\* What a comment of generate and its test say of the cache: it holds Google's
\* files, byte for byte.
StockIsGoogles == \A l \in Usable(gens) : \E i \in Images : gens[l].files = Image[i]
-----------------------------------------------------------------------------
(* What cache and publication promise together *)

\* Every file says what Google's file of that name says.
Unpatched(d) == \A n \in DOMAIN d : GoogleFile(n, d[n])

\* What one run makes of a directory.
MadeFrom(made, dir) ==
    \E c \in Configs, present \in Presents : made = Output(dir, Plan(c, dir, present))

\* The stock an output was made from, in one patch, is kept, and outputs are
\* registered with it.
StockKept(cache, d) ==
    \/ Unpatched(d)
    \/ \E l \in Usable(cache) : Manifests(cache[l]) # {} /\ MadeFrom(d, cache[l].files)

\* Whatever was archived, replaced, interrupted or updated since: of an installed
\* output, and of one that is still mounted, the very files it was made from are
\* in the cache, and it is one patch of them, never a patch of a patch (refresh in
\* cache.rs: "Keep older inputs while their generated files may still be mounted
\* (or retained after failed preparation)").
InputsKept == StockKept(gens, out) /\ StockKept(gens, mount)

\* What a cache knows: outputs, each with the stock it was made from.
Pairs(cache) == UNION {{[output |-> m, stock |-> cache[l].files] : m \in Manifests(cache[l])} :
                         l \in Usable(cache)}

Abstract == INSTANCE Provenance WITH
    known <- Pairs(gens), installed <- out, mounted <- mount,
    Google <- GoogleDir, Answers <- Matches

\* All that runs, failures, crashes, boots and updates ever do is to register an
\* output with the stock it was made from, to install one that is registered (or
\* says what Google says), and to mount it: knowledge first, and for good.
IsAccountedFor == Abstract!Spec
-----------------------------------------------------------------------------
(* What some of this needs of Google's builds and of the configurations *)

\* The plans any of the configurations can lead to.
Entries == {DefaultEntry} \cup UNION {{c.carriers[x] : x \in DOMAIN c.carriers} : c \in Configs}
Plans   == Partial(Carrier, Entries)

\* No plan makes the others.pb of one build say what another build's says, and
\* Google changes its version only together with what it says.
OthersTell ==
    \A i, j \in Images, want \in Plans :
        PatchFile(Image[i][OTHERS], want).set = Image[j][OTHERS].set
            => Image[i][OTHERS] = Image[j][OTHERS]

\* What is made of others.pb tells the build it was made from.
OthersIdentify ==
    \A i, j \in Images, x, y \in Plans :
        PatchFile(Image[i][OTHERS], x) = PatchFile(Image[j][OTHERS], y) => Image[i] = Image[j]

\* A configuration that patches carriers of a build changes something in it.
Writes(stock, cfg, present) ==
    LET plan == Plan(cfg, stock, present) IN DOMAIN plan = {} \/ Changed(stock, plan)
NoIdleRuns == \A i \in Images, c \in Configs, present \in Presents : Writes(Image[i], c, present)
=============================================================================
