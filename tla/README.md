# imsforge: TLA+ models and proofs

imsforge patches the CarrierSettings files of a Pixel phone at every boot, from a root module,
offers two live switches for the allowed networks, and has a page to configure and observe both.
These modules model the parts of it that keep state across steps, processes, crashes, boots and OS
updates, and the loops that decide what is written. TLC checks them on small instances; TLAPS proves
most of their safety properties for every value of the constants.

All paths below are relative to `src/`.

## 1. Inventory

| component | source | state it keeps | operations |
|---|---|---|---|
| Boot script | `module/post-fs-data.sh` | none of its own | detects the layout of the mount backend, migrates old configuration, runs `imsforge apply`, before anything is mounted |
| Publication | `native/src/publish.rs`, `native/src/main.rs` | the output directory, `status.json`, `stock.lock` | `apply` (boot), `patch` (by hand, into the module or elsewhere) |
| Stock cache | `native/src/cache.rs` | `stock/`, archives under `stock.generations/`, each with `outputs.json` or the older `output.fingerprint`, and `.complete` | `effective_src`, `refresh`, `remember_output`, `product` |
| Plan, configuration | `native/src/plan.rs`, `native/src/config.rs` | `carriers.json`, the record for the WebUI | who is patched, why, with which entry |
| Patch | `native/src/patch.rs` | none | `patch_others`, `patch_single`, `patch_settings` |
| Crash-safe files | `native/src/atomic.rs` | temporary files, staging directories | `write`, `replace_dir`, the lock |
| Carrier detection | `native/src/detect.rs`, `module/service.sh` | the saved inventory of SIMs | settle, save, identify |
| Live network selection | `native/src/network.rs` | one recovery file per subscription, `network.lock` | `lte`, `lte-nr`, `restore`, `status` |
| Usage-setting helper | `native/java/UsageSetting.java` | none | one call into telephony |
| Boot report, status | `native/src/status.rs`, `native/src/main.rs` | `status.json` | phases of a boot, comparison with what is mounted and configured |
| WebUI | `module/webroot/app.js`, `module/probe.sh` | draft, loaded data, busy flags | edits, root commands with time limits |
| IMS probes | `module/probe-*.awk` | none | read `dumpsys` |
| Install, removal | `module/customize.sh`, `uninstall.sh`, `action.sh` | | run once |
| Schemas, build, release | `proto/`, `native/build.rs`, `build.sh`, `.github/` | | |

How they interact:

    post-fs-data.sh --> apply --> generate --> effective_src  (what is /product now? ours or Google's)
                          |          |-------> identify       (detection: properties, inventory, telephony's cache)
                          |          |-------> plan, patch    (into a staging directory)
                          |          '-------> refresh, remember_output   (stock cache)
                          |--> label, clear telephony's cache, exchange the output, report
    mount backend --> lays the output over /product --> telephony reads it, and caches
    user, page --> `imsforge patch', `save-config'   (after the mount: /product shows our own work)
    user, page --> `imsforge network' --> dumpsys, cmd phone, the helper --> telephony
    page       --> probe.sh --> read-config, status  (report, configuration, /product, stock cache)
    all of them write through atomic.rs

### What is hard here, and what makes each part correct

*Publication and stock cache.* After the mount, `/product` shows imsforge's own output. A run must
recognise it and read the Google files that output came from: patching a patched file would make the
certification guard believe our own work, and caching it would make that permanent. There is no
transaction over "archive the old stock, replace it, register the output, exchange the output", and
a step can fail or lose power anywhere; the output of one boot can stay mounted over the
build of the next; two manual runs can meet; with a redirecting backend (NoMount) the view changes
under the running system at each exchange; phones come from a version with another cache format.
Correct means: no generation ever holds our settings; a run reads Google's files only; an installed
or mounted output is always recognised; an output resolves to the files it was made from; nothing is
forgotten; what is reported as applied is what telephony uses and what `status` confirms; and the
phone boots whatever happens.

*Plan and patch.* The files are lists: a carrier, a key or an APN may be there twice, a name may be
both configured and detected. First matches decide in some loops and all matches in others. Correct
means that the loops come to one well-defined map, that the record tells what happened to each carrier
somebody asked for, and that a second pass changes nothing.

*Crash-safe files.* A temporary file, a sync, a rename, a sync of the directory; for directories an
exchange, a sync, and the removal of what was replaced. Correct means: each implements a name whose
value changes in one step, across a power loss, and what was reported as written stays written.

*Live network selection.* A chain of external commands, each of which can fail, be killed, time out
while the request goes on, or quietly do nothing; the SIM can move while it runs; the mask is written
to a *slot*, the record belongs to a *subscription*; older records lack the usage setting. Correct
means: what imsforge changed can be undone: there is a record as long as a value of ours is there,
and it holds what the user had.

*Detection.* Two properties are read one after the other while the modem fills them in; what is
saved decides the next boot; the last source of identity is the cache that `apply` deletes. Correct
means: a saved inventory is one the phone really showed steadily, and a boot whose properties are
empty still finds its carriers.

*WebUI.* The page gives up on a root command after 30 seconds and the command goes on; answers arrive
while a draft is edited; others write the configuration. Correct means: nothing the user typed is lost
silently, what the page shows and claims is true as far as it can know, and it never stays busy.

Every hazard is listed in `PROJECT.json` at its line, with the property that covers it or the reason
none does.

## 2. Modules

| module | models |
|---|---|
| `CarrierFiles` | the data: directories of protobuf files, `carriers.json`; `Plan` (plan.rs) and `Output`, `PatchFile`, `Changed` (patch.rs) as pure operators on maps |
| `PatchRun`, `MCPatch`, `PatchProofs` | one run of `generate` over the lists the files really hold, loop by loop, with its reports and its record; compared with `Maps == INSTANCE CarrierFiles`; instances; theorems |
| `StockCache` | the stock cache as a value: generations by place, `Manifests`, `Matches`, `Sources` (`effective_src`), `Product`, the pieces of `refresh`, `Remember` (`remember_output`) |
| `Publish`, `MCPublish` | boots, the steps of `apply` and `patch`, failures, kills, power loss, OS updates, edits, the mount, telephony's cache, and what `status` says |
| `Provenance` | the abstract promise of cache and publication: knowledge of where outputs come from, which only grows, and outputs that are installed only once it is there |
| `PublishProofs` | theorems about the cache; that `Publish` implements `Provenance` |
| `OriginProofs`, `BootProofs` | theorems about sources byte for byte, for builds that tell themselves apart; about a boot that is reported as applied |
| `AtomicNames` | the abstract promise of `atomic.rs`: names whose value changes in one step |
| `AtomicFiles`, `MCAtomic` | `write` and `replace_dir` step by step, on a disk that loses what was not synced; `File` and `Dir` are its two refinements of `AtomicNames` |
| `AtomicProofs` | theorems, the two refinements among them |
| `Network`, `MCNetwork`, `NetworkProofs` | `network::run`, Android's preferences, SIMs that move, the user; instances; theorems |
| `Detect`, `MCDetect`, `DetectProofs` | the three SIM properties, samples, the saved inventory, `identify` over boots; instances; theorems |
| `WebUI`, `WebUIProofs` | the page, its root commands and their time limit, the configuration file and its other writers, boots; theorems |

`Publish` extends `StockCache`, which extends `CarrierFiles`: publication, cache and patch are one state
machine. The others share no state with it and stand alone; where they meet is named and abstracted:

- `AtomicFiles` justifies that a write or an exchange is one step everywhere else;
- `PatchRun` justifies that `Publish` may take plan and patch as maps;
- `Publish` takes any answer of `identify` (`Presents`), so what it promises does not rest on `Detect`;
- `WebUI` takes any outcome of a boot; that an outcome "applied" is true is `Publish`'s part.

### Publish, state and steps

A directory is a function from names (`OTHERS` for others.pb, a carrier for its standalone file) to
files, a file is a version and the settings of the carriers in it. Fingerprints are taken to be
injective, so the manifest of a directory is the directory itself, and "manifest m matches what is
seen" (`matches_files`) is: every file of m is there unchanged. Note that others may be there too.

| variable | code |
|---|---|
| `image`, `boot` | the build in /product, the kernel's boot_id |
| `phase` | before the mount; the script has ended; telephony runs |
| `backend`, `mount` | a backend that mounts the files of the moment (`bind`) or follows the path (`redirect`); what was mounted |
| `config` | carriers.json, `BadConfig` when it is refused |
| `gens` | the stock cache |
| `out`, `status` | the output directory, status.json |
| `phoneCache` | telephony's cached carrier configuration |
| `lock`, `job`, `runs` | stock.lock, the run each process is in, how many manual runs were made |

`View` is what a reader of /product sees. A run goes

    BeginApply -> WritePreparing -> Generate -+-> (refresh) SnapshotCurrent | SnapshotFirst |
    BeginPatch ---------------------^         |     ArchiveStock -> SealArchive ; ReplaceStock -+
                                              +-> (read from the cache) --------- RememberOutput <-+
                                              +-> (nothing changed) -> Prepare -> ClearPhoneCache -> Exchange -> WriteReport

`Generate` is one step because it writes only the staging directory: it reads the configuration,
chooses the source, asks for the carriers, plans and patches. `refresh` reads `/product` a second
time; that is why it is split from `Generate` and `ReplaceStock` uses `View` again. `Fail` can take
the place of any step, `Kill` stops a process anywhere (its lock goes with it), and `Reboot` is a power
loss, a restart or an OS update at any moment. A write that takes effect and then reports an error is
its step followed by `Fail`. `Start` is the mount and the start of telephony, which uses its cache if
it has one. `MatchesRun` and `Product` are what the `status` command finds.

`Init` is a fresh installation or, where `Upgrades`, one with the output and the single fingerprint a
version before format 2 left.

`Provenance` has `known`, pairs of an output and the stock it was made from, and what is `installed` and
`mounted`. Its steps are `Register` (one more pair: an output made by one run from Google's files),
`Install` (an output that is known already, as a whole, or one that says what Google says), `Mount` and
`Unmount`. The mapping takes for `known` the pairs (manifest, files) of the usable generations,
`Pairs(gens)`: so archiving, sealing and replacing the primary, and the removal of a copy that failed, have to
leave the pairs as they are, and nothing but `remember_output` may add one.

Three hypotheses on constants stand at the end of `Publish`, each ruling out what Google or a configuration
may do and the code cannot tell: `OthersTell` (patching one build's others.pb never gives what another build
says), `OthersIdentify` (a patched others.pb tells its build) and `NoIdleRuns` (who patches a carrier changes
something). No run assumes them; theorems name the ones they need, and `MCPublish!OrdinaryBuilds` says which of
the instances meet them, so that TLC shows that they can be met.

### PatchRun, state and steps

The variables are the ones of `generate`: `dir`, `cfg`, `present` are its inputs; `targets` and `left` the plan;
`todo` the names a loop still has before it; `out` what is written, `at` the place in others.pb; `job` the
settings that are being patched, with the keys still to be written; `changed`, `reports`, `record` what comes of it.

    (PassOver | Leave | Take | Refuse)* -> NothingToPatch -> Again
        '-> BeginOthers -> (SkipSettings | TakeSettings -> P -> FinishSettings)* -> OthersWritten
                        -> (SkipOwn | TakeOwn -> P -> FinishOwn)* -> OwnWritten
                        -> RecordTarget* -> RecordLeft -> Again     (a second pass over the output)
    P = SetFlag* -> SetArray*      (set_configs)

Each loop of the code is a loop of actions. `PassOver`, `Leave`, `Take` and `Refuse` are the outcomes of one name in
the loop of plan.rs. `SetConfig` writes one key, whose first match decides; the order among the Boolean keys, and
among the arrays, is left open, as nothing rests on it. `DirMap`, `SettingsMap` and `ConfigMap` turn lists into
the maps of `CarrierFiles`. A run that has made both passes, or was refused, ends; so `patch` is the one run that
is not checked for deadlock.

### AtomicFiles, state and steps

A file or directory is an inode; `log[n]` has the inodes the name `n` has referred to, the last one being
its own now, and `flushed[n]` how many of these changes are certainly on the disk. `mem` and `disk` are the
contents as processes see them and as far as they are synced. A writer goes

    Create -> Fill -> Fill -> Sync -> Move -> Settle (-> Clean)        Fail, FailLate, Kill anywhere

`Move` is the rename or the exchange, `Settle` the sync of the parent and the answer to the caller,
`Clean` the caller's removal of the directory that was replaced. `Crash` keeps, for each name, any prefix
of its changes that contains the flushed ones, and, for each content that is not synced, the synced
part, all of it, or something torn. Writers of a directory hold the lock; writers of a file do not.

`AtomicNames` has `Install` (a new value), `Settle` (older values are gone for good, and somebody may be
told so) and `Lose` (a power loss goes back to a value that is not gone). The mapping gives `history` the
contents found under `log`: `Found(i)` is the inode where it is whole and on the disk, and `Torn`
otherwise, which is no value of the abstract names. So `FileIsAtomic == File!Spec` and
`DirIsAtomic == Dir!Spec` say that no reader ever finds anything else.

### Network, state and steps

`slot`, `plmn`, `radio` are the phone; `saved` the recovery files; `job` the run that holds the lock,
with what it read; `late` requests whose client was killed by `timeout` and that telephony still
carries out. `ours` is a history variable: which of a subscription's two preferences hold a value
imsforge chose. A run is

    Begin -> Persist | Migrate | (record complete) -> Recheck -> SetUsage? -> Recheck2 -> SetMask -> Verify -> DropRecord?

A refusal (SIM gone, read-back differs, record damaged) is a step that is disabled, so that `Fail` is
what is left. `SetMask` writes to whatever is in the slot at that moment, may have its value
normalized by Android, and may change nothing although it succeeds.

`Windows` names the two moments the code does not protect, so that they can be opened and shut:
`swap`, a SIM that moves between the last look (`Recheck2`) and the command to the slot; `late`, a
command that was given up on and lands later. The promises about restoring hold with both shut and
fail with either open; the promises about records hold with both open.

### Detect, state and steps

`numbers`, `names` and `state` are the three properties; `slot` is the truth behind them, `saved` the
inventory for the next boot, `cached` the carriers telephony's cache names. A run reads one property
per step, so that modem and SIMs can change in between:

    wait  (service.sh):  Begin -> (ReadNumbers -> ReadNames -> Judge)* -> CheckComplete -> Save
    once  (installer):   Begin -> ReadNumbers -> ReadNames -> CheckComplete -> Save
    apply, patch:        Begin -> ReadNumbers -> ReadNames -> Live -> (Marker -> Saved) -> Finish

`Judge` may end the wait at any sample, which stands for the time limit. The modem's side is external
and assumed as the code assumes it: the state property covers all slots and follows a SIM at once; number
and name are filled in later, in any order, slot by slot, and a new SIM gets into a slot whose fields were
cleared. `settled` and the fields `sure`, `unmoved`, `there` of a run are history: has a SIM moved since
the save, or since the run began, and which SIMs have been in which slot.

### WebUI, state and steps

`file` is carriers.json and `report` status.json; `page` is the state of app.js: what it waits for
(`busy`), whether what it shows is current (`ready`), the draft, and what it has loaded. `mine` is the root
command it waits for and `late` the saves it has given up on, which still run. `since` and `typed` are
history: who wrote the file since the page last read it, and what the user typed and has neither saved
nor given up.

    user:   Open, Edit, Save, ChangeNetwork, Reboot, Refresh, Discard, Close
    root:   ReadConfig -> ReadStatus (a probe) | SaveConfig | Obey | CommandFails
    page:   ProbeDone, SaveDone, SaveRefused, NetworkDone, RebootDone, Failed, Timeout
    world:  LateSave, OthersWrite, Restart

`Timeout` may come at any moment while the page waits, also with an answer on its way; `Unconfirmed` is
what the page then believes. `Status` is what the status command says of report and configuration. A probe
reads the file twice (once for the page, once for the status), and both may differ.

### Operators marked "A fault"

Modules contain operators commented `A fault: ...`, each before the definition it is a wrong version of: a
plausible bug of that code (a lock that is not taken, a file moved into place before it is synced, a
probe whose outcome is not looked at). They are used by no specification; replacing the definition by the
faulty one breaks the property `PROJECT.json` names under "mutants", which shows that the property
depends on that code.

## 3. Runs

Passing runs are checked for deadlock too, but for `patch`. Sizes are distinct states; each finishes
within a little more than three minutes on two workers.

| run | question | instance | states |
|---|---|---|---|
| `publish` | does every promise of cache and publication hold over boots, an update, an upgrade from format 1, failures and crashes? | 2 boots, 1 manual run, 3 configurations | 718 187 |
| `publish_race` | two manual runs, also under a redirecting backend; does a boot go on, is the lock let go? | 1 boot, 2 runs, 2 processes, with fairness | 83 212 |
| `patch` | do the loops over lists do what the maps say? | 19 920 inputs, two passes each | 302 948 |
| `atomic` | are names atomic and durable, with failures, kills and power losses anywhere? | a file, a directory, 3 inodes, 2 writers | 81 816 |
| `network` | can everything be undone, when SIMs change places, runs compete, users choose in between? | 2 subscriptions, 2 slots, 2 processes | 395 879 |
| `network_windows` | which promises survive both open windows, with records of the older version and damaged ones, and operators that change? | 1 subscription, 2 operators, 2 processes | 1 261 032 |
| `detect` | is what is saved, and what is identified, what is in the phone? can a number be paired with another SIM's name? | 2 slots, 2 SIMs, 2 boots, 2 moves | 1 245 609 |
| `webui` | are drafts kept, is what the page shows true, does it become usable again? | 2 configurations, any number of late saves of them | 173 124 |
| `stock_bytes`, `shared_others`, `slot_window`, `stale_marker` | statements of docs and comments the code does not keep (section 5) | | |

Properties of Publish:

- `NoPatchInStock`: no generation a run may read from holds a setting Google did not ship.
- `ReadsGoogle`: neither does any source a run could pick at that moment, `/product` included.
- `OutputKnown`: an installed or mounted output is recognised by some generation, or holds Google's
  settings anyway.
- `OwnGeneration`: each manifest was made from the files of the generation it lies with.
- `OwnSource`: what a run reads while a registered output is mounted are the files it was made from.
  It holds for `Moved` and not for every pair of builds (finding `shared_others`); `OutputsFindTheirSource`
  says for which.
- `RegistrationsKept` (action property): no step forgets a manifest or its stock.
- `TelephonyReadsPatch`: when this boot is reported as applied, telephony uses the patched settings of
  exactly the carriers the plan for *this* build names, and Google's of all others.
- `StatusTells`: what the status command finds of an applied boot agrees with that: the reported files
  are what is seen and known as ours, and an empty run does not show old files as ours.
- `StockIsNotOurs`: no generation claims what the present build itself ships, so that a boot reads the
  new build and not the cache. It depends on the builds (Google could ship a file imsforge once wrote), and
  `BuildsAreNotOurs` says how.
- `InputsKept`: of what is installed, and of what is mounted, the very stock files it was made from are still in
  the cache, with outputs registered: one patch of Google's files, whatever has been archived and replaced since.
- `IsAccountedFor` (refinement): `Publish` implements `Provenance`.
- `RunSafe`: what holds halfway through a run; with it the properties above become inductive.
- `BootGoesOn`, `LockIsLetGo` (liveness): a boot goes on whatever `apply` meets, and nobody keeps the
  lock for ever.

Properties of PatchRun: `AsSpecified` (what the loops write is `Maps!Output` of `Maps!Plan`, and what they
count decides `Changed`), `RecordTells` (the record names everybody who was asked for, with what became
of them, and those who were patched once), `SecondPassSilent` (a second pass over our own output changes
nothing, unless an array is given for a key that is also written as a Boolean).

Properties of AtomicFiles: `AlwaysWhole` (a name never refers, now or after a power loss, to something that
is not whole), `DoneIsKept` (what was reported as written survives), `WriterSafe` (what makes both
inductive), `FileIsAtomic` and `DirIsAtomic` (the refinements).

Properties of Network: `UntrackedIsUsers` (no record, no value of ours), `UnsavedUsageIsUsers` (a
record without a usage setting lies with a usage setting that is still the user's), `RecoveryKept`
(records are only completed, or removed by the restore of the very values they hold).

Properties of Detect: `SavedIsInventory` (with no SIM moved since, the saved inventory is exactly what is in
the phone, labels included), `IdentifiedIsThere` (who asks is told exactly that, from whichever of the
three sources, unless an older run has saved its list over it: savers take no lock), `SettledIsReal`
(what the wait returns before its limit pairs each number with the name of the same SIM).

Properties of WebUI: `DraftKept` (nothing typed is lost or replaced until it is saved or given up),
`ReadyIsFile` (what can be edited is what the file holds, if nobody else wrote it since it was read; not
after a save that was not confirmed), `ClaimIsTrue` ("Your saved settings are active" is said only of a
boot that was prepared with the configuration in the file), `Settles` (liveness: the page never stays
busy).

### Bounds, and why they are enough

- *Builds and carriers.* `Moved` has carrier `a`, which Google forgot, in others.pb in both builds, and
  `b`, certified, standalone in the first build and inside others.pb in the second: so outputs of the
  builds differ in their names as well as their contents, a stale standalone file would shadow the new
  others.pb, and the certification guard matters. `Shared` has two builds with the same others.pb.
- *Configurations.* `Auto` patches what was detected, `Tuned` overrides a key of a certified carrier,
  `JustB` changes nothing Google did not write (the run that is published and not registered); and
  `BadConfig`. `skip` is instantiated in `patch`.
- *MaxBoots, MaxRuns.* Two boots reach every order of two runs over two builds with one interrupted. The
  safety theorems cover every bound. `publish_race` is about processes and needs one boot; its liveness
  would be no stronger with more, as a reboot is not a step anybody has to take.
- *Archive.* Three names never run out: a run makes at most one, and the first refresh of a phone none.
- *PatchRun*'s lists have a carrier twice, a key twice with different values, a carrier that is detected in
  two SIMs, one that is configured and detected, one nobody ships, an own file that holds another
  carrier, a certified one whose second entry is not, and an array for a key everybody gets as a Boolean. The
  theorems cover lists of every length.
- *AtomicFiles.* Three inodes are three writes before names run out; two to the same name, one of them
  abandoned, is the longest case in which one writer's leftovers meet another's. The theorems cover the rest.
- *Network* has no counters: the instances are finite without bounds. A mask is a set of networks; the
  user's allows everything. The user's usage setting may be the one imsforge writes (`data`). One late
  command at a time.
- *SIMs* in `Detect`: one of a known operator and one of an operator carrier_list.pb does not know; an MVNO
  has the number of the first and the name of the second, so that a number paired with the wrong name
  resolves to a carrier nobody has. *MaxMoves* is 2 in the run, one exchange of SIMs, and is part of what
  `SettledIsReal` says. `SettledSamplesAreReal` proves it for three moves and any number of slots and SIMs, and
  three is sharp: a SIM is taken out while its fields linger, a run begins and reads them twice, a second SIM
  with that number goes in and out, a third one with that name goes in, and three samples agree on a SIM that
  was gone before the run began (four moves within four seconds, each between the right two reads).
- *WebUI* needs no bound: drafts, commands and late saves are finite sets.

### Fairness

- `Publish!FairSpec`: a process that is in a run is scheduled (`WF` of `RunStep` for each; which of its
  steps succeed, fail or are cut short is open), the root manager runs the script, and the system goes
  on when the script has ended. The code justifies it: every wait in `run` is for its own file
  operations; the lock is tried once and never waited for. It assumes that no file operation hangs. Nothing
  is assumed of users, reboots and failures. The `publish` run uses `Spec`: its properties are safety.
- `WebUI!Fairness`: the timer goes off (`setTimeout` in app.js), and a phone that was told to restart does.
  Root commands are *not* assumed to end: that is why `Settles` needs the timer.
- `Network` and `Detect` have no liveness property: `network` may legally wait for the user for ever, and
  that `detect --wait` ends is its time limit, which the model leaves open.

## 4. What is proved

Eight modules hold the proofs. TLAPS checks them from the named assumptions on the constants and nothing
else; TLC evaluates the assumptions in every run.

| module | theorem | statement |
|---|---|---|
| `PublishProofs` | `TypeCorrect` | `Spec => []TypeOK` |
| | `StockStaysGoogles` | `Spec => []NoPatchInStock` |
| | `RunsReadGoogle` | `Spec => []ReadsGoogle` |
| | `OutputStaysKnown` | `Spec => []OutputKnown` |
| | `ManifestsLieWithTheirStock` | `Spec => []OwnGeneration` |
| | `NothingForgotten` | `Spec => RegistrationsKept` |
| | `RunsStaySafe` | `Spec => []RunSafe` |
| | `StockOutlivesOutputs` | `Spec => []InputsKept` |
| | `OutputsAreAccountedFor` | `Spec => IsAccountedFor` |
| `OriginProofs` | `BuildsAreNotOurs` | `OthersTell => (Spec => []StockIsNotOurs)` |
| | `StockIsExact` | `NoIdleRuns => (Spec => []StockIsGoogles)` |
| | `OutputsFindTheirSource` | `NoIdleRuns /\ OthersIdentify => (Spec => []OwnSource)` |
| `BootProofs` | `ReportIsTrue` | `Spec /\ []StockIsNotOurs => []TelephonyReadsPatch` |
| | `StatusIsTrue` | `Spec /\ []StockIsNotOurs => []StatusTells` |
| | `PhoneUsesPatch` | `OthersTell => (Spec => []TelephonyReadsPatch)` |
| | `PageIsToldTrue` | `OthersTell => (Spec => []StatusTells)` |
| `PatchProofs` | `RunsAsSpecified` | `Spec => []AsSpecified` |
| | `RecordIsTrue` | `OneHome => (Spec => []RecordTells)` |
| | `SecondPassIsSilent` | `Spec => []SecondPassSilent` |
| `AtomicProofs` | `NamesStayWhole` | `~SyncFails => (Spec => []AlwaysWhole)` |
| | `WritersStaySafe` | `Spec => []WriterSafe` |
| | `FilesAreAtomic` | `Spec => FileIsAtomic` |
| | `DirsAreAtomic` | `~SyncFails => (Spec => DirIsAtomic)` |
| | `WhatIsDoneIsKept` | `Spec => []DoneIsKept` |
| `NetworkProofs` | `NetworkTypeCorrect` | `Spec => []TypeOK` |
| | `RecoveryPointsKept` | `Spec => RecoveryKept`, for every `Windows` |
| | `MigrationIsRight` | `Spec => []UnsavedUsageIsUsers`, for every `Windows` |
| | `UsageSurvivesMoves` | `"late" \notin Windows => (Spec => []UntrackedUsageIsUsers)` |
| | `RestoreUndoesAll` | `Windows = {} => (Spec => []UntrackedIsUsers)` |
| `DetectProofs` | `DetectTypeCorrect` | `Spec => []TypeOK` |
| | `SavedStaysTrue` | `Spec => []SavedIsInventory` |
| | `RunsAreToldTrue` | `Spec => []IdentifiedIsThere` |
| | `SettledSamplesAreReal` | `MaxMoves <= 3 => (Spec => []SettledIsReal)` |
| `WebUIProofs` | `WebUITypeCorrect` | `Spec => []TypeOK` |
| | `DraftsAreKept` | `Spec => []DraftKept` |
| | `PageShowsFile` | `Spec => []ReadyIsFile` |
| | `ActiveIsTrue` | `Spec => []ClaimIsTrue` |

*Publish, the cache.* None of the properties is inductive by itself: that the primary may be replaced
depends on the archive made two steps earlier, that the output may be exchanged on its registration. The
inductive invariant

    IInv == TypeOK /\ Exclusive /\ RunSafe /\ NoPatchInStock /\ OutputKnown /\ OwnGeneration

adds `Exclusive` (a run in progress has the lock to itself) and `RunSafe`, which says for each
step of a run what the steps before it have established: before a refresh, the output was made from
what `/product` shows, and that is Google's; at `swap`, the primary has been archived with its
manifests; at `remember`, the output was made from the files of the generation it will be registered
with; from `prepare` on, the output is recognised. The heart is `NextKeeps` (no step forgets a
registration), from which `OutputKnown` is preserved for the old output, and `LiveIsGoogle`: if
no generation claims what is seen and the mounted output is recognised, then what is seen is Google's.
`ReadsGoogle` follows from `IInv` in one step. The assumptions are `FilesAssumption`, `CacheAssumption`
and `PublishAssumption` (each build has an others.pb, and a standalone file holds just its own carrier:
the code refuses anything else).

*Publish, the refinement.* `IInv` says that an output about to be installed is *recognised*: its files are as
in some manifest. `Provenance` wants more, that it is exactly one that is registered, and `InputsKept` that the
files it was made from are still there; `StagedIsSure` says both of what is staged from `prepare` on, where it
comes from `generate` (and says what Google says) or from a registration (`ToLast`). `PairsStay` is the
other half: archiving, sealing, replacing and cleaning up leave `Pairs(gens)` as it is, because `RunSafe` has the
primary archived before it is replaced, and `RememberPair` says that a registration adds one.

*Publish, the origin of sources.* Files are compared by fingerprint, so what the cache promises in bytes
depends on what Google ships. `Ages` dates files by their versions: what a run writes is newer than a file Google
ships in the same place and says the same, so with `OthersTell` no generation ever claims the build itself.
`Bytes` says that generations hold builds exactly, that each answers only for what was made from its own
others.pb, and that what is installed or mounted is claimed; `NoIdleRuns` is needed where a run that changes
nothing would be published without being registered, `OthersIdentify` where two generations would answer for
the same view. So the findings `stock_bytes` and `shared_others` are the only ways these two promises fail: each
needs the hypothesis its theorem assumes to be false.

*Publish, the boot.* `BootInv` follows the boot's own run: past `generate` it carries the output of its
plan for this build; telephony's cache is empty from `clear` to the mount; at `report` the output is
installed; and a report of this boot that says "applied" agrees with output, mount and telephony's
cache. `GenerateBoots` is where `StockIsNotOurs` is needed: before the mount nothing claims `/product`, so
the run reads the build itself; `PhoneUsesPatch` and `PageIsToldTrue` get it from `OthersTell`, which is about
constants only. `PatchShows` says what telephony finds when the output lies over the files
it was made from. `StatusIsTrue` needs `OutputKnown` besides.

*PatchRun.* What a loop comes to is proved as what it has come to so far and what is left. The invariant has a part
per loop:

    IInv == TypeOK /\ PlanSound /\ PlanWhole /\ Unwritten /\ Written /\ JobSound /\ Reported /\ Recorded /\ SecondPass

The plan has everybody for a reason and forgets nobody (`PlanSound`, `PlanWhole`). `Written`: others.pb is patched
up to `at` and unchanged after it (`SoFar`, `OthersDone`), and the targets' own files that are no longer in `todo`
are patched (`OwnDone`). `JobSound`: the settings in hand are the ones in the file with the keys written that
are no longer to be written, and `written` is 0 exactly if the file held them all. `Reported`: all settings that
are finished have a report that is true of them, the first report with a carrier's name is about the first of its
settings, and `changed` is 0 exactly if no report has a change. `Recorded` says how far the record is, `SecondPass`
that what is read in the second pass holds what would be written. Then `AsSpecified` compares a finished run with
maps, where the work is that the first match in a list is the value of the map.

`OneHome` is what `plan.rs:60` says of Google's files, "A carrier's settings live in one or the other, never both";
without it a carrier's first report may be about a copy in others.pb, while the plan was made from its own file. A
pass preserves it (`HomeKept`), the instance meets it, and the other two theorems do not need it.

*Atomic files.* A name's values are whole, now and after a power loss, together with `WriterSafe`: a staging
file is its writer's alone until it is moved, is whole and synced when it is moved, and what is removed lies
before everything a power loss can bring back. Every step then maps to `Install`, `Settle`, `Lose` or a stutter.
`SyncFails` is TRUE in the code's world only if the parent directory cannot be synced after an exchange;
then the caller removes the old directory although the exchange may not be on the disk, and a power loss
may leave neither whole. The invariant is therefore about the `Firm` names, files always and directories if syncs
succeed: what is promised of files, of writers and of what was reported needs no hypothesis, and
`NamesStayWhole` and `DirsAreAtomic` need theirs. No document speaks of that case; the hazard is listed without
a property.

*Network.* `LInv` adds to the types that at most one run is in progress and that its record agrees
with where it is: absent at `persist`, incomplete at `migrate`, complete from `recheck` on, and equal
to what is being restored. Hence `RecoveryPointsKept`, in every window. `MInv` adds that no command about a usage
setting is pending while the record lacks one, since a run gets to `usage` only with a complete record: hence
`MigrationIsRight`, in every window too. `UInv` adds what the shut windows give: from its last look to the command
the SIM of the run is in its slot, and no command is pending; hence `RestoreUndoesAll`. `UsageInv` shows what the
window of `slot_window` costs: the usage setting is written to a *subscription*, so with late commands
excluded it is always the user's again or on record, whatever SIM moves when; only the mask can be lost.

*Detect.* The invariant is `TypeOK`, that the properties never contradict the phone (`PhoneTells`),
`SavedIsInventory`, and for each run that what it has read and still relies on was true when it was read
(`ReadsTrue`, `KnowsSaved`): with `unmoved`, a list read before the states is the list there is now.
`SettledInv` is an account of what it costs to deceive the wait: that a number or name is read of a SIM that has
left takes one move, two if there is a SIM in the slot again (`Gone`), that two samples agree on such a SIM takes
two or three (`Doubt`), and a third sample that agrees with them another one at least.

*WebUI.* `IInv == TypeOK /\ DraftKept /\ Believed /\ Consistent`: `Believed` says that a probe's answer on
its way is as true as what the page shows, and `Consistent` that the page has no draft while it loads.

Only model-checked: liveness (`BootGoesOn`, `LockIsLetGo`, `Settles`). Proved under a hypothesis the runs do not
have, or where they have a bound: `OwnSource` and `SettledIsReal`.

Out of this prover's reach: liveness under fairness and `ENABLED`; induction over data, so what a
recursive definition computes for every input, which is why the loops of `PatchRun` are actions and not folds;
`RECURSIVE` operators.

## 5. Where the code and what is said of it differ

- `stock_bytes`. A run that reads `/product` and changes no key is published (with a higher version) and
  neither cached nor registered. After the mount, a manual `patch` with a configuration that does
  change something takes that output for Google's and caches it. The settings are Google's, so
  `NoPatchInStock` holds; the bytes are not, although the test at `main.rs:541` expects "Google's file",
  and the version counter creeps. By `StockIsExact` there is no other way to it than such an idle run.
- `shared_others`. A manifest matches every directory that contains its files. With two builds that share
  others.pb, an output consisting of others.pb alone, registered with one, also claims a mounted
  output of the other, and the wrong stock is read, against the comment at `cache.rs:166`. By
  `OutputsFindTheirSource` it takes builds that share what is made of others.pb, or an idle run. `InputsKept`
  holds all the same: the right stock is there, and another one is found first.
- `slot_window`. A SIM that moves between the last look and the command gets the mask without a record,
  although README.md says that what is changed is saved first. (The other window of section 2, a request
  that was given up on and lands later, has the same effect on `UntrackedIsUsers`; `RestoreUndoesAll`
  needs it shut. By `UsageSurvivesMoves` only the mask is concerned.)
- `stale_marker`. `identify` reads the saved file once for "# empty" and once for its carriers. When
  `detect --save` puts an empty inventory there in between, telephony's cache is used after all, against
  the test at `detect.rs:349`. `IdentifiedIsThere` excludes it by asking that the inventory was saved before
  the run began.

Worth knowing:

- `config.rs:138` refuses a key that is both a Boolean and an integer array among the overrides of a carrier, and
  not an array for one of the keys everybody gets (`VOLTE_CONFIGS`, `WFC_CONFIGS`). Such a key is written twice in
  every pass, which counts as two changes: the second pass is then not the no-op that `patch.rs:76` speaks of, and
  a run over our own output would not be told by `changed == 0` alone (the manifests tell it). `SecondPassIsSilent`
  proves that there is no other such case. `Publish` takes `Changed` as the maps have it;
- the page's button "Refresh" after a save that was not confirmed discards the draft (`Discard`);
- a save the page has given up on may land after it was loaded again (`since` holds "late"), and a save
  overwrites whatever others wrote since the page was loaded;
- a carrier that is asked for twice (configured and detected, or in two SIMs) and is certified or missing
  has two entries in the record; a patched one has one;
- when `apply` fails after an update, the output of the previous build is mounted over the new one
  (README.md: "Preparation errors leave the previous files in place"), although `post-fs-data.sh:4` says
  that an update never leaves a stale snapshot behind.

## 6. What is not modelled, and what is left

Abstracted in the modules:

- fingerprints do not collide; a damaged `outputs.json` is left out;
- in `Publish`, `apply` runs only from the boot script, before the mount, and each file is a map; a file
  whose name and content differ, and repeated entries, are in `PatchRun`, whose record assumes that a
  carrier has its settings in its own file or in others.pb and not in both (`plan.rs:60` prefers the first);
- the text inside an APN, labels of SIMs and carriers, SELinux labels;
- the instant in a directory exchange at which a bind mount still shows the old files is the
  `bind` backend; OverlayFS whose lower directory is replaced under it is not modelled;
- in `Network`, the text formats of `dumpsys` and of the commands; in `Detect`, those of the files, of
  carrier_list.pb and of version strings, and that names are compared without regard to case; in `WebUI`,
  rendering, the observations and diagnostics it shows, and JSON;
- telephony's configuration cache is dropped as a whole in `Publish`, and file by file in `Detect`.

Not modelled: the layout detection and the migration of old configuration in `post-fs-data.sh`, install
and removal (straight-line shell, run once), the awk programs of the probes (text in, text out, no
state kept), schemas, build and release.

Left for later, in this order:

1. The removal of the module (`uninstall.sh`) as an action of `Publish`; the section state machine of
   `probe-ims.awk`.
