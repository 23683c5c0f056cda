------------------------------ MODULE PatchRun ------------------------------
(***************************************************************************)
(* One run of generate (native/src/main.rs) over the lists the protobuf    *)
(* files really hold: the loop of plan.rs over configured and detected     *)
(* names, the patch of repeated fields (patch.rs), and the record for the  *)
(* page (plan::record, status.rs).  Each loop of the code is a loop of     *)
(* actions.  A carrier, a key or an APN may be there twice; a name may be  *)
(* configured and detected, or detected in two SIMs; an integer array may  *)
(* be given for a key that is also written as a Boolean.                   *)
(*                                                                         *)
(* CarrierFiles says with maps what these lists come to; AsSpecified sets  *)
(* the two against each other.                                             *)
(***************************************************************************)
EXTENDS Naturals, SequencesExt

CONSTANTS
    Carrier, OTHERS, Key, Value, VolteKey, On, Base, BadConfig,     \* as in CarrierFiles
    Flag,       \* the values of Boolean keys; the other ones are integer arrays
    Dirs,       \* the directories considered
    Configs,    \* the configurations
    Found       \* the carriers in the phone: lists of names

Maps == INSTANCE CarrierFiles

\* CarrierSettings, the files of a directory and carriers.json, as lists.
ApnType      == {"default", "ims"}
ListSettings == [name : Carrier, keys : Seq([key : Key, val : Value]), apns : Seq(ApnType)]
ListFile     == [ver : Nat, set : ListSettings]
IsListDir(d) ==
    /\ d = [ver |-> d.ver, others |-> d.others, own |-> d.own]
    /\ d.ver \in Nat /\ d.others \in Seq(ListSettings)
    /\ d.own \in [DOMAIN d.own -> ListFile] /\ DOMAIN d.own \subseteq Carrier
ListEntry    == [name : Carrier, bools : Maps!Partial(Key, Flag),
                 arrays : Maps!Partial(Key, Value \ Flag), apn : BOOLEAN]
ListConfig   == [auto : BOOLEAN, carriers : Seq(ListEntry), skip : SUBSET Carrier]

ASSUME RunAssumption ==
    /\ OTHERS \notin Carrier
    /\ Flag \subseteq Value /\ On \in Flag
    /\ VolteKey \in Key
    /\ Base \in Maps!Partial(Key, Flag)
    /\ \A d \in Dirs : IsListDir(d)
    /\ Configs \subseteq ListConfig /\ Found \subseteq Seq(Carrier)

VARIABLES
    dir,        \* the directory that is read: others a list of settings, own a map
    cfg,        \* carriers.json
    present,    \* what identify answered
    pc,         \* "plan", "others", "own", "patch", "record", "done" or "failed"
    todo,       \* names to consider, then targets to patch in their own file, then to record
    targets,    \* the list of carriers to patch: [name, entry, reason]
    left,       \* the list of carriers left alone: [name, outcome]
    out,        \* what is written, others.pb as far as it is patched
    at,         \* the next entry of others.pb
    job,        \* the settings that are being patched
    changed,    \* what has changed, keys and APNs
    reports,    \* what the patch reported: [name, keys, apn]
    record,     \* the entries of the run's record
    pass        \* 1: over Google's files; 2: over the output of the first

vars == <<dir, cfg, present, pc, todo, targets, left, out, at, job, changed, reports, record, pass>>

Names(list) == [i \in DOMAIN list |-> list[i].name]
Named(list, name) == SelectInSeq(list, LAMBDA x : x.name = name)     \* the first, 0: none
Has(list, name) == Named(list, name) # 0

NoFiles == [ver |-> 0, others |-> <<>>, own |-> Maps!Nothing]
NoJob   == [set |-> <<>>, name |-> "", entry |-> <<>>, bools |-> {}, arrays |-> {}, written |-> 0]

Init ==
    /\ dir \in Dirs /\ cfg \in Configs /\ present \in Found
    /\ pc = "plan"
    /\ todo = Names(cfg.carriers) \o present
    /\ targets = <<>> /\ left = <<>>
    /\ out = NoFiles
    /\ at = 0 /\ job = NoJob /\ changed = 0
    /\ reports = <<>> /\ record = <<>>
    /\ pass = 1
-----------------------------------------------------------------------------
(* plan.rs *)

\* Is the carrier wanted, before Google's files are asked?
Decide(name) ==
    IF name \in cfg.skip THEN "none"
    ELSE IF Has(cfg.carriers, name) THEN "configured"
    ELSE IF cfg.auto THEN "detected" ELSE "none"

\* The first entry of the key, 0 if there is none.
KeyAt(keys, key) == SelectInSeq(keys, LAMBDA k : k.key = key)

VolteEnabled(s) ==
    LET i == KeyAt(s.keys, VolteKey) IN i # 0 /\ s.keys[i].val = On

\* Stock::volte_enabled: the carrier's own file, then the first of its name in
\* others.pb.
Stock(name) ==
    IF name \in DOMAIN dir.own
    THEN IF dir.own[name].set.name # name THEN "mismatch"
         ELSE IF VolteEnabled(dir.own[name].set) THEN "certified" ELSE "plain"
    ELSE IF ~Has(dir.others, name) THEN "missing"
    ELSE IF VolteEnabled(dir.others[Named(dir.others, name)]) THEN "certified" ELSE "plain"

EntryOf(name) ==
    IF Has(cfg.carriers, name)
    THEN cfg.carriers[Named(cfg.carriers, name)]
    ELSE [name |-> name, bools |-> Maps!Nothing, arrays |-> Maps!Nothing, apn |-> TRUE]

Wanted(name) == ~Has(targets, name) /\ Decide(name) # "none"

Planning ==
    /\ pc = "plan" /\ todo # <<>>
    /\ todo' = Tail(todo)
    /\ UNCHANGED <<dir, cfg, present, out, at, job, changed, reports, record, pass>>

PassOver ==
    /\ Planning
    /\ ~Wanted(Head(todo))
    /\ UNCHANGED <<pc, targets, left>>

\* A standalone file that holds another carrier ends the run.
Refuse ==
    /\ Planning
    /\ Wanted(Head(todo)) /\ Stock(Head(todo)) = "mismatch"
    /\ pc' = "failed"
    /\ UNCHANGED <<targets, left>>

LeftAlone(name) ==
    \/ Stock(name) = "missing"
    \/ Stock(name) = "certified" /\ Decide(name) = "detected"

\* Outcome::Certified and Outcome::Missing.
LeftEntry(name, outcome) == [name |-> name, outcome |-> outcome]

Leave ==
    /\ Planning
    /\ Wanted(Head(todo)) /\ LeftAlone(Head(todo))
    /\ left' = Append(left, LeftEntry(Head(todo), Stock(Head(todo))))
    /\ UNCHANGED <<pc, targets>>

\* A fault: a carrier that is not found is taken for one Google forgot.
TakeAny ==
    /\ Planning
    /\ LET name == Head(todo)
       IN  /\ Wanted(name) /\ Stock(name) # "mismatch"
           /\ ~LeftAlone(name) \/ Stock(name) = "missing"
           /\ targets' = Append(targets, [name |-> name, entry |-> EntryOf(name), reason |-> Decide(name)])
    /\ UNCHANGED <<pc, left>>

Take ==
    /\ Planning
    /\ LET name == Head(todo)
       IN  /\ Wanted(name) /\ Stock(name) # "mismatch" /\ ~LeftAlone(name)
           /\ targets' = Append(targets, [name |-> name, entry |-> EntryOf(name), reason |-> Decide(name)])
    /\ UNCHANGED <<pc, left>>

\* Nothing to patch: nothing is written, and what was left alone is the record.
NothingToPatch ==
    /\ pc = "plan" /\ todo = <<>> /\ targets = <<>>
    /\ pc' = "done"
    /\ record' = left
    /\ UNCHANGED <<dir, cfg, present, todo, targets, left, out, at, job, changed, reports, pass>>
-----------------------------------------------------------------------------
(* patch.rs *)

\* Carrier::configs: the Boolean keys, which are written first.
Flags2Write(e) == Maps!Over(e.bools, Base)

TargetEntry(name) == targets[Named(targets, name)].entry

\* patch_settings begins: nothing is written yet.
Start(s, name) ==
    LET e == TargetEntry(name)
    IN  [set |-> s, name |-> name, entry |-> e,
         bools |-> DOMAIN Flags2Write(e), arrays |-> DOMAIN e.arrays, written |-> 0]

\* A fault: a key is appended whatever is there.
SetConfigAppend(j, key, val) ==
    [j EXCEPT !.set.keys = Append(@, [key |-> key, val |-> val]), !.written = @ + 1]

\* A fault: a value that is there already is written again, and counted.
SetConfigAlways(j, key, val) ==
    LET i == KeyAt(j.set.keys, key)
    IN  [j EXCEPT !.set.keys = IF i = 0 THEN Append(@, [key |-> key, val |-> val])
                                        ELSE [@ EXCEPT ![i].val = val],
                  !.written = @ + 1]

\* set_config: the first entry of the key gets the value, unless it has it.
SetConfig(j, key, val) ==
    LET i == KeyAt(j.set.keys, key)
    IN  IF i = 0
        THEN [j EXCEPT !.set.keys = Append(@, [key |-> key, val |-> val]), !.written = @ + 1]
        ELSE IF j.set.keys[i].val = val THEN j
        ELSE [j EXCEPT !.set.keys[i].val = val, !.written = @ + 1]

\* patch_others rewrites what it parsed, under the version above.
BeginOthers ==
    /\ pc = "plan" /\ todo = <<>> /\ targets # <<>>
    /\ pc' = "others"
    /\ out' = [ver |-> dir.ver + 1, others |-> dir.others, own |-> NoFiles.own]
    /\ at' = 1
    /\ UNCHANGED <<dir, cfg, present, todo, targets, left, job, changed, reports, record, pass>>

AtSettings ==
    /\ pc = "others" /\ at \in DOMAIN out.others
    /\ UNCHANGED <<dir, cfg, present, todo, targets, left, out, changed, reports, record, pass>>

SkipSettings ==
    /\ AtSettings
    /\ ~Has(targets, out.others[at].name)
    /\ at' = at + 1
    /\ UNCHANGED <<pc, job>>

\* Every entry of a target is patched, also a second one of the same name.
TakeSettings ==
    /\ AtSettings
    /\ Has(targets, out.others[at].name)
    /\ job' = Start(out.others[at], out.others[at].name)
    /\ pc' = "patch"
    /\ UNCHANGED at

Patching ==
    /\ pc = "patch"
    /\ UNCHANGED <<dir, cfg, present, targets, left, record, pass>>

\* set_configs: the Boolean keys, then the arrays, each key once; nothing rests on
\* the order within them.
SetFlag ==
    /\ Patching
    /\ \E key \in job.bools :
          job' = [SetConfig(job, key, Flags2Write(job.entry)[key]) EXCEPT !.bools = @ \ {key}]
    /\ UNCHANGED <<pc, todo, out, at, changed, reports>>

SetArray ==
    /\ Patching
    /\ job.bools = {}
    /\ \E key \in job.arrays :
          job' = [SetConfig(job, key, job.entry.arrays[key]) EXCEPT !.arrays = @ \ {key}]
    /\ UNCHANGED <<pc, todo, out, at, changed, reports>>

\* add_ims_apn, and what becomes of the APN.
ApnOutcome(j) ==
    IF ~j.entry.apn THEN "disabled" ELSE IF "ims" \in ToSet(j.set.apns) THEN "present" ELSE "added"

Patched(j) ==
    [j.set EXCEPT !.apns = IF ApnOutcome(j) = "added" THEN Append(@, "ims") ELSE @]
Report(j) == [name |-> j.name, keys |-> j.written, apn |-> ApnOutcome(j)]

\* Report::changes.
Changes(r) == r.keys + (IF r.apn = "added" THEN 1 ELSE 0)

\* patch_settings ends, with a report.
Finish ==
    /\ Patching
    /\ job.bools = {} /\ job.arrays = {}
    /\ job' = NoJob
    /\ reports' = Append(reports, Report(job))
    /\ changed' = changed + Changes(Report(job))

FinishSettings ==
    /\ Finish
    /\ at \in DOMAIN out.others
    /\ out' = [out EXCEPT !.others[at] = Patched(job)]
    /\ at' = at + 1
    /\ pc' = "others"
    /\ UNCHANGED todo

\* patch_single.
FinishOwn ==
    /\ Finish
    /\ at \notin DOMAIN out.others
    /\ out' = [out EXCEPT !.own = Maps!Over([c \in {job.name} |-> [ver |-> dir.own[c].ver + 1,
                                                                 set |-> Patched(job)]], @)]
    /\ pc' = "own"
    /\ todo' = Tail(todo)
    /\ UNCHANGED at

\* others.pb is written; the targets' own files are next.
OthersWritten ==
    /\ pc = "others" /\ at \notin DOMAIN out.others
    /\ pc' = "own"
    /\ todo' = Names(targets)
    /\ UNCHANGED <<dir, cfg, present, targets, left, out, at, job, changed, reports, record, pass>>

AtOwn ==
    /\ pc = "own" /\ todo # <<>>
    /\ UNCHANGED <<dir, cfg, present, targets, left, out, at, changed, reports, record, pass>>

SkipOwn ==
    /\ AtOwn
    /\ Head(todo) \notin DOMAIN dir.own
    /\ todo' = Tail(todo)
    /\ UNCHANGED <<pc, job>>

TakeOwn ==
    /\ AtOwn
    /\ Head(todo) \in DOMAIN dir.own
    /\ job' = Start(dir.own[Head(todo)].set, Head(todo))
    /\ pc' = "patch"
    /\ UNCHANGED todo
-----------------------------------------------------------------------------
(* plan::record *)

OwnWritten ==
    /\ pc = "own" /\ todo = <<>>
    /\ pc' = "record"
    /\ todo' = Names(targets)
    /\ UNCHANGED <<dir, cfg, present, targets, left, out, at, job, changed, reports, record, pass>>

\* Entry::patched.
PatchedEntry(r, reason) ==
    [name |-> r.name, outcome |-> "patched", reason |-> reason, keys |-> r.keys, apn |-> r.apn]

\* Each target has the first report of its name.
RecordTarget ==
    /\ pc = "record" /\ todo # <<>>
    /\ LET name == Head(todo)
       IN  record' = IF Has(reports, name)
                     THEN Append(record, PatchedEntry(reports[Named(reports, name)],
                                                      targets[Named(targets, name)].reason))
                     ELSE record
    /\ todo' = Tail(todo)
    /\ UNCHANGED <<dir, cfg, present, pc, targets, left, out, at, job, changed, reports, pass>>

\* Then come the carriers that were left alone.
RecordLeft ==
    /\ pc = "record" /\ todo = <<>>
    /\ record' = record \o left
    /\ pc' = "done"
    /\ UNCHANGED <<dir, cfg, present, todo, targets, left, out, at, job, changed, reports, pass>>

\* A second run, with nothing that tells our output from Google's files.
Again ==
    /\ pc = "done" /\ pass = 1
    /\ pass' = 2
    /\ dir' = IF out = NoFiles THEN dir ELSE [out EXCEPT !.own = Maps!Over(@, dir.own)]
    /\ pc' = "plan"
    /\ todo' = Names(cfg.carriers) \o present
    /\ targets' = <<>> /\ left' = <<>>
    /\ out' = NoFiles
    /\ at' = 0 /\ job' = NoJob /\ changed' = 0
    /\ reports' = <<>> /\ record' = <<>>
    /\ UNCHANGED <<cfg, present>>

Next ==
    \/ PassOver \/ Refuse \/ Leave \/ Take \/ NothingToPatch
    \/ BeginOthers \/ SkipSettings \/ TakeSettings \/ OthersWritten
    \/ SkipOwn \/ TakeOwn \/ OwnWritten
    \/ SetFlag \/ SetArray \/ FinishSettings \/ FinishOwn
    \/ RecordTarget \/ RecordLeft
    \/ Again

Spec == Init /\ [][Next]_vars
-----------------------------------------------------------------------------
(* What the lists come to, as in CarrierFiles *)

KeysMap(keys) ==
    [k \in {keys[i].key : i \in DOMAIN keys} |-> keys[KeyAt(keys, k)].val]

SettingsMap(s) == [keys |-> KeysMap(s.keys), apn |-> "ims" \in ToSet(s.apns)]

DirMap(d) ==
    [n \in {OTHERS} \cup DOMAIN d.own |->
        IF n = OTHERS
        THEN [ver |-> d.ver, set |-> [c \in ToSet(Names(d.others)) |->
                                         SettingsMap(d.others[Named(d.others, c)])]]
        ELSE [ver |-> d.own[n].ver, set |-> [c \in {n} |-> SettingsMap(d.own[n].set)]]]

EntryMap(e) == [over |-> Maps!Over(e.arrays, e.bools), apn |-> e.apn]

ConfigMap ==
    [auto |-> cfg.auto, skip |-> cfg.skip,
     carriers |-> [c \in ToSet(Names(cfg.carriers)) |-> EntryMap(EntryOf(c))]]

PlanMap == Maps!Plan(ConfigMap, DirMap(dir), ToSet(present))

NoRepeats == \A i, j \in DOMAIN dir.others : dir.others[i].name = dir.others[j].name => i = j

\* Each key is written once.  Otherwise an array replaces a Boolean that was
\* written just before, in every pass, and that counts as a change.
WritesOnce(e) == DOMAIN e.arrays \cap DOMAIN Flags2Write(e) = {}

EveryTargetOnce == \A i \in DOMAIN targets : WritesOnce(targets[i].entry)

\* What the loops over lists write is what CarrierFiles says with maps, and so is
\* whether anything changed, which decides what may be cached (a carrier that is
\* in others.pb twice may change in its second entry alone).
AsSpecified ==
    pc = "done" =>
        /\ (IF out = NoFiles THEN Maps!Nothing ELSE DirMap(out)) = Maps!Output(DirMap(dir), PlanMap)
        /\ Maps!Changed(DirMap(dir), PlanMap) \/ ~EveryTargetOnce => changed > 0
        /\ NoRepeats /\ changed > 0 => Maps!Changed(DirMap(dir), PlanMap) \/ ~EveryTargetOnce

\* Every carrier somebody asked for is in the record with what became of it, one
\* that was patched once only, and with the APN and keys telephony will find:
\* "each one has a report" (plan.rs:200), "what became of one carrier, and why"
\* (status.rs:27).
RecordTells ==
    pc = "done" =>
        LET asked == {c \in ToSet(Names(cfg.carriers) \o present) : Decide(c) # "none"}
            about(c) == {i \in DOMAIN record : record[i].name = c}
            stock == DirMap(dir)
        IN  /\ ToSet(Names(record)) = asked
            /\ \A c \in asked : \A i \in about(c) :
                  CASE ~Maps!Known(stock, c) -> record[i].outcome = "missing"
                    [] Maps!Known(stock, c) /\ c \notin DOMAIN PlanMap -> record[i].outcome = "certified"
                    [] OTHER -> /\ record[i].outcome = "patched"
                                /\ about(c) = {i}
                                /\ record[i].reason = IF c \in DOMAIN ConfigMap.carriers
                                                      THEN "configured" ELSE "detected"
                                /\ (record[i].keys = 0) =
                                      /\ WritesOnce(EntryOf(c))
                                      /\ \A k \in DOMAIN Maps!Configs2Write(PlanMap[c]) :
                                            /\ k \in DOMAIN Maps!SettingsOf(stock, c).keys
                                            /\ Maps!SettingsOf(stock, c).keys[k]
                                                  = Maps!Configs2Write(PlanMap[c])[k]
                                /\ (record[i].apn = "added") =
                                      (PlanMap[c].apn /\ ~Maps!SettingsOf(stock, c).apn)

\* "a second pass over our own output a no-op" (patch.rs:76), unless an array is
\* given for a key that is also written as a Boolean, which config.rs:138 refuses
\* among the overrides and not for the keys everybody gets.
SecondPassSilent == pass = 2 /\ pc = "done" => (changed = 0) = EveryTargetOnce
=============================================================================
