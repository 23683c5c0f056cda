----------------------------- MODULE StockCache -----------------------------
(***************************************************************************)
(* The stock cache (native/src/cache.rs): copies of the directories read   *)
(* by earlier runs, each with the manifests of the outputs made from it.   *)
(* It is a function from places to generations: the place STOCK is the     *)
(* directory stock, the others are the archives in stock.generations.      *)
(*                                                                         *)
(* A generation has the protobuf files copied, the manifests in its        *)
(* outputs.json (the code never writes an empty list, so no manifest means *)
(* no outputs.json), the fingerprint an installation before format 2 left  *)
(* in output.fingerprint (at most one others.pb), and whether the archive  *)
(* was sealed with .complete.                                              *)
(***************************************************************************)
EXTENDS CarrierFiles

CONSTANTS
    STOCK,      \* the place of the primary generation
    Archive     \* names for archives; a new one takes an unused name

ASSUME CacheAssumption == STOCK \notin Archive

Place == Archive \cup {STOCK}
IsGeneration(g) ==
    /\ g = [files |-> g.files, outputs |-> g.outputs, legacy |-> g.legacy, sealed |-> g.sealed]
    /\ IsDir(g.files)
    /\ \A m \in g.outputs : IsDir(m)
    /\ g.legacy \subseteq File
    /\ g.sealed \in BOOLEAN

\* The manifests a generation answers to.  The single-file fingerprint counts
\* only as long as there is no outputs.json.
Manifests(g) ==
    IF g.outputs # {} THEN g.outputs
                      ELSE {[n \in {OTHERS} |-> f] : f \in g.legacy}

\* A fault: the whole directory has to be as in the manifest.
MatchesExactly(view, m) == DOMAIN m # {} /\ view = m

\* matches_files: every file of the manifest is there as it was written.
Matches(view, m) ==
    /\ DOMAIN m # {}
    /\ \A n \in DOMAIN m : n \in DOMAIN view /\ view[n] = m[n]

\* A fault: names are compared, fingerprints are not.
OursByName(view, g) ==
    /\ OTHERS \in DOMAIN view
    /\ \E m \in Manifests(g) : DOMAIN m # {} /\ DOMAIN m \subseteq DOMAIN view

\* product_in = Ours: what is seen is an output of this generation.
Ours(view, g) ==
    /\ OTHERS \in DOMAIN view
    /\ \E m \in Manifests(g) : Matches(view, m)

\* generations(): the primary, and the archives that were sealed.
Usable(gens) == {l \in DOMAIN gens : l = STOCK \/ gens[l].sealed}

\* A fault: the archives are not looked at.
PrimaryClaims(gens, view) ==
    {l \in DOMAIN gens \cap {STOCK} : Ours(view, gens[l]) /\ OTHERS \in DOMAIN gens[l].files}

\* effective_src: the generations that claim what is seen.  The primary comes
\* first, the archives in directory order, which is any.
Claimants(gens, view) ==
    {l \in Usable(gens) : Ours(view, gens[l]) /\ OTHERS \in DOMAIN gens[l].files}
Sources(gens, view) ==
    IF STOCK \in Claimants(gens, view) THEN {STOCK} ELSE Claimants(gens, view)

\* product: whose files are seen, for the status; Google's are known by others.pb
\* of the primary only.
Product(gens, view) ==
    IF \E l \in Usable(gens) : Ours(view, gens[l]) THEN "ours"
    ELSE IF /\ STOCK \in DOMAIN gens /\ OTHERS \in DOMAIN gens[STOCK].files \cap DOMAIN view
            /\ gens[STOCK].files[OTHERS] = view[OTHERS] THEN "stock"
    ELSE "other"

HasPrimary(gens) == STOCK \in DOMAIN gens /\ OTHERS \in DOMAIN gens[STOCK].files

\* refresh's early return: the primary already holds these very files.
UpToDate(gens, view) == HasPrimary(gens) /\ gens[STOCK].files = view

\* A directory renamed or written at a place.
Put(gens, l, g) == [x \in DOMAIN gens \cup {l} |-> IF x = l THEN g ELSE gens[x]]

\* What replace_dir puts at stock: the files, and nothing registered yet.
Snapshot(view) == [files |-> view, outputs |-> {}, legacy |-> {}, sealed |-> FALSE]

\* An archive being copied: some of the files have arrived, no .complete yet.
PartialCopy(g, names) == [files  |-> Only(g.files, names), outputs |-> g.outputs,
                          legacy |-> g.legacy, sealed |-> FALSE]
\* A fault: the archive is made without outputs.json.
BareCopy(g) == [files  |-> g.files, outputs |-> {},
                legacy |-> g.legacy, sealed |-> TRUE]
\* The archive once everything was copied and .complete written.
SealedCopy(g) == [files  |-> g.files, outputs |-> g.outputs,
                  legacy |-> g.legacy, sealed |-> TRUE]

\* A fault: a file is registered by its version alone.
RememberVersions(gens, l, m) ==
    IF DOMAIN m = {} THEN gens
    ELSE Put(gens, l, [gens[l] EXCEPT !.outputs = @ \cup {[n \in DOMAIN m |-> [ver |-> m[n].ver]]}])

\* remember_output: the manifest joins those the generation answers to, the
\* old fingerprint among them; an empty output is not registered.
Remember(gens, l, m) ==
    IF DOMAIN m = {} THEN gens
    ELSE Put(gens, l, [gens[l] EXCEPT !.outputs = Manifests(gens[l]) \cup {m}])
=============================================================================
