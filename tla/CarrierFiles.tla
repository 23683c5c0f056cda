---------------------------- MODULE CarrierFiles ----------------------------
(***************************************************************************)
(* The data of the system and the pure functions over it: the protobuf     *)
(* files Google ships, carriers.json, the plan of a run (native/src/       *)
(* plan.rs) and the patch (native/src/patch.rs).                           *)
(*                                                                         *)
(* A directory is a function from file names to files.  The name OTHERS    *)
(* stands for others.pb; every other name is the carrier whose standalone  *)
(* <canonical_name>.pb it is.  A file has the version telephony compares   *)
(* and the settings of the carriers inside it.  Two files are equal here   *)
(* exactly when their bytes are: the 64-bit fingerprints of cache.rs are   *)
(* taken to be injective, so the manifest of a directory is the directory. *)
(***************************************************************************)
EXTENDS Naturals

CONSTANTS
    Carrier,    \* canonical carrier names
    OTHERS,     \* the name of others.pb
    Key,        \* CarrierConfig keys
    Value,      \* the values a key can hold
    VolteKey,   \* the key the certification guard looks at
    On,         \* the value "true"
    Base,       \* the keys every target gets, with their values
    BadConfig   \* a carriers.json that does not parse or validate

\* The maps: functions from a subset of S to T.
Partial(S, T) == UNION {[D -> T] : D \in SUBSET S}

ASSUME FilesAssumption ==
    /\ OTHERS \notin Carrier
    /\ On \in Value
    /\ VolteKey \in Key
    /\ Base \in Partial(Key, Value)

FileName == Carrier \cup {OTHERS}
Settings == [keys : Partial(Key, Value), apn : BOOLEAN]
File     == [ver : Nat, set : Partial(Carrier, Settings)]
IsDir(d) == d \in [DOMAIN d -> File] /\ DOMAIN d \subseteq FileName
Entry    == [over : Partial(Key, Value), apn : BOOLEAN]
Config   == [auto : BOOLEAN, carriers : Partial(Carrier, Entry), skip : SUBSET Carrier]

\* The directory, or map, with nothing in it.
Nothing == [n \in {} |-> {}]

\* The map f laid over the map g: what f does not hold shows g.
Over(f, g) ==
    [n \in DOMAIN f \cup DOMAIN g |-> IF n \in DOMAIN f THEN f[n] ELSE g[n]]

\* The part of the map f whose keys are in S.
Only(f, S) == [n \in DOMAIN f \cap S |-> f[n]]
-----------------------------------------------------------------------------
(* patch.rs *)

\* The keys written for an entry: the VoLTE and VoWiFi blocks, then overrides.
Configs2Write(e) == Over(e.over, Base)

\* patch_settings: every key is set to its value, and an IMS APN is there
\* unless the entry turned it off.
PatchSettings(s, e) ==
    [keys |-> Over(Configs2Write(e), s.keys), apn |-> s.apn \/ e.apn]

\* patch_others and patch_single: the targets inside the file are patched, and
\* the version is one above the version of the input.
PatchFile(f, want) ==
    [ver |-> f.ver + 1,
     set |-> [c \in DOMAIN f.set |-> IF c \in DOMAIN want
                                     THEN PatchSettings(f.set[c], want[c])
                                     ELSE f.set[c]]]

\* The files a run writes: none when there is nothing to patch, otherwise
\* others.pb and the standalone file of each target that has one.
Output(dir, want) ==
    [n \in IF DOMAIN want = {} THEN {} ELSE {OTHERS} \cup (DOMAIN want \cap DOMAIN dir)
        |-> PatchFile(dir[n], want)]

\* Report::changes summed over the run: did any key or APN change?  (The
\* version always does.)
Changed(dir, want) ==
    \E n \in DOMAIN Output(dir, want) : PatchFile(dir[n], want).set # dir[n].set
-----------------------------------------------------------------------------
(* plan.rs *)

\* Where a carrier's settings are: its own file first, then others.pb.
Known(dir, c) == c \in DOMAIN dir \/ c \in DOMAIN dir[OTHERS].set
SettingsOf(dir, c) ==
    IF c \in DOMAIN dir THEN dir[c].set[c] ELSE dir[OTHERS].set[c]

\* volte_enabled: has Google already enabled VoLTE for this carrier?
Certified(dir, c) ==
    LET keys == SettingsOf(dir, c).keys
    IN  VolteKey \in DOMAIN keys /\ keys[VolteKey] = On

DefaultEntry == [over |-> Nothing, apn |-> TRUE]

\* Is c patched?  skip wins over everything, a configured carrier is patched
\* whatever Google did, a detected one only where Google did not certify it.
Targeted(cfg, dir, present, c) ==
    /\ c \notin cfg.skip
    /\ Known(dir, c)
    /\ \/ c \in DOMAIN cfg.carriers
       \/ c \in present /\ cfg.auto /\ ~Certified(dir, c)

\* The carriers to patch, each with the entry to patch it with.
Plan(cfg, dir, present) ==
    [c \in {x \in Carrier : Targeted(cfg, dir, present, x)} |->
        IF c \in DOMAIN cfg.carriers THEN cfg.carriers[c] ELSE DefaultEntry]
=============================================================================
